------------------------------- MODULE Chunks -------------------------------
(***************************************************************************)
(* Precompiled chunks (ldump.c, lundump.c) and how lua_load chooses        *)
(* between them and source text (ldo.c, lapi.c).                           *)
(*                                                                         *)
(* A byte is a number below BASE, half of it the payload of a variable-    *)
(* length integer; the sizes of the types are constants.  A string is a    *)
(* sequence of bytes, a prototype a record with the fields of Proto.       *)
(***************************************************************************)
EXTENDS Streams

CONSTANTS
  PAYLOAD,                               \* values of the payload of a byte
  INSTRUCTION, INT, INTEGER, NUMBER,     \* sizes of the types
  INT_MAX, MAX_SIZE, LUAI_MAXSHORTLEN

ChunksConstants ==
  /\ {PAYLOAD, INSTRUCTION, INT, INTEGER, NUMBER, INT_MAX, MAX_SIZE, LUAI_MAXSHORTLEN} \subseteq Nat \ {0}
  /\ \E n, k \in 1 .. 6 : INT_MAX = 2 ^ n - 1 /\ MAX_SIZE = 2 ^ k - 1

BASE == 2 * PAYLOAD
LUA_SIGNATURE == <<SIGNATURE % BASE, 1, 2>>
LUAC_VERSION == 5
LUAC_FORMAT == 0
LUAC_DATA == <<3, 5, 6>>
LUAC_INT == 3
LUAC_NUM == 2
NUL == 0

RECURSIVE Digits(_, _)
Digits(x, n) == IF n = 0 THEN <<>> ELSE <<x % BASE>> \o Digits(x \div BASE, n - 1)
RECURSIVE ValueOf(_)
ValueOf(bytes) == IF bytes = <<>> THEN 0 ELSE Head(bytes) + BASE * ValueOf(Tail(bytes))
RECURSIVE AllDigits(_, _)
AllDigits(xs, n) == IF xs = <<>> THEN <<>> ELSE Digits(Head(xs), n) \o AllDigits(Tail(xs), n)
Whole(bytes, n) == [i \in 1 .. Len(bytes) \div n |-> ValueOf(SubSeq(bytes, (i - 1) * n + 1, i * n))]

NoString == <<-1>>
AbsentKey == <<-2>>    \* what a table has where it has nothing: not a string
Tags == <<"nil", "false", "true", "float", "integer", "short", "long">>
TagOf(t) == CHOOSE i \in DOMAIN Tags : Tags[i] = t
StringTag(s) == IF Len(s) <= LUAI_MAXSHORTLEN THEN "short" ELSE "long"

-----------------------------------------------------------------------------
(* Dumping.  The writer accepts left blocks, then fails.                   *)

dumpBlock(D, b) ==
  IF D.status # 0 THEN D
  ELSE IF D.left = 0 THEN [D EXCEPT !.status = 1, !.offset = @ + Len(b)]
  ELSE [D EXCEPT !.left = @ - 1, !.out = @ \o b, !.offset = @ + Len(b)]
(* What dumpAlign and loadAlign pad with, or nothing.                      *)
Padding(offset, align) == (align - (offset % align)) % align
dumpAlign(D, align) ==
  LET padding == Padding(D.offset, align)
      padded == IF padding = 0 THEN D ELSE dumpBlock(D, Digits(0, padding))
  IN  [padded EXCEPT !.aligned = @ /\ padded.offset % align = 0]
dumpByte(D, y) == dumpBlock(D, <<y>>)
RECURSIVE MSBFirst(_)
MSBFirst(x) == IF x = 0 THEN <<>> ELSE Append(MSBFirst(x \div PAYLOAD), PAYLOAD + (x % PAYLOAD))
dumpVarint(D, x) == dumpBlock(D, Append(MSBFirst(x \div PAYLOAD), x % PAYLOAD))
dumpSize(D, sz) == dumpVarint(D, sz)
dumpInt(D, x) == dumpVarint(D, x)
dumpNumber(D, x) == dumpBlock(D, Digits(x, NUMBER))
dumpInteger(D, x) == dumpBlock(D, Digits(x, INTEGER))

(* The string is saved under the number of the one before it.              *)
FaultydumpString(D, ts) ==
  IF ts = NoString THEN dumpSize(D, 0)
  ELSE IF Contains(D.h, ts) THEN dumpSize(dumpSize(D, 1), (CHOOSE i \in DOMAIN D.h : D.h[i] = ts) - 1)
  ELSE [dumpBlock(dumpSize(D, Len(ts) + 2), Append(ts, NUL)) EXCEPT !.h = Append(@, ts)]

(* A string that was dumped is saved, and later ones refer to it.          *)
dumpString(D, ts) ==
  IF ts = NoString THEN dumpSize(D, 0)
  ELSE IF Contains(D.h, ts) THEN dumpSize(dumpSize(D, 1), CHOOSE i \in DOMAIN D.h : D.h[i] = ts)
  ELSE [dumpBlock(dumpSize(D, Len(ts) + 2), Append(ts, NUL)) EXCEPT !.h = Append(@, ts)]

dumpCode(D, f) == dumpBlock(dumpAlign(dumpInt(D, Len(f.code)), INSTRUCTION), AllDigits(f.code, INSTRUCTION))
dumpConstant(D, o) ==
  LET t == dumpByte(D, TagOf(o.tt))
  IN  CASE o.tt = "float" -> dumpNumber(t, o.v[1])
        [] o.tt = "integer" -> dumpInteger(t, o.v[1])
        [] o.tt \in {"short", "long"} -> dumpString(t, o.v)
        [] OTHER -> t
dumpConstants(D, f) == FoldLeft(dumpConstant, dumpInt(D, Len(f.k)), f.k)
dumpUpvalue(D, u) == dumpByte(dumpByte(dumpByte(D, u.instack), u.idx), u.kind)
dumpUpvalues(D, f) == FoldLeft(dumpUpvalue, dumpInt(D, Len(f.upvalues)), f.upvalues)

Debug(D, s) == IF D.strip THEN <<>> ELSE s
dumpLocVar(D, v) == dumpInt(dumpInt(dumpString(D, v.varname), v.startpc), v.endpc)
dumpName(D, u) == dumpString(D, u.name)
dumpDebug(D, f) ==
  LET lines == Debug(D, f.lineinfo)
      abs == Debug(D, f.abslineinfo)
      a == dumpBlock(dumpInt(D, Len(lines)), lines)
      b == dumpInt(a, Len(abs))
      c == IF abs = <<>> THEN b ELSE dumpBlock(dumpAlign(b, INT), AllDigits(abs, INT))
      d == FoldLeft(dumpLocVar, dumpInt(c, Len(Debug(D, f.locvars))), Debug(D, f.locvars))
  IN  FoldLeft(dumpName, dumpInt(d, Len(Debug(D, f.upvalues))), Debug(D, f.upvalues))

RECURSIVE dumpFunction(_, _)
dumpProtos(D, f) == FoldLeft(dumpFunction, dumpInt(D, Len(f.p)), f.p)
dumpFunction(D, f) ==
  LET a == dumpInt(dumpInt(D, f.linedefined), f.lastlinedefined)
      b == dumpByte(dumpByte(dumpByte(a, f.numparams), f.flag), f.maxstacksize)
      c == dumpProtos(dumpUpvalues(dumpConstants(dumpCode(b, f), f), f), f)
  IN  dumpDebug(dumpString(c, IF D.strip THEN NoString ELSE f.source), f)
dumpHeader(D) ==
  LET a == dumpByte(dumpByte(dumpBlock(D, LUA_SIGNATURE), LUAC_VERSION), LUAC_FORMAT)
      b == dumpByte(dumpByte(dumpByte(dumpBlock(a, LUAC_DATA), INSTRUCTION), INTEGER), NUMBER)
  IN  dumpNumber(dumpInteger(b, LUAC_INT), LUAC_NUM)
luaU_dump(f, left, strip) ==
  LET D == [out |-> <<>>, offset |-> 0, h |-> <<>>, status |-> 0, left |-> left, strip |-> strip, aligned |-> TRUE]
  IN  dumpBlock(dumpFunction(dumpByte(dumpHeader(D), Len(f.upvalues)), f), <<>>)

-----------------------------------------------------------------------------
(* Loading.  S has the stream, what was read of it (offset), whether the   *)
(* dump is fixed in memory, the list h of saved strings, the error err if  *)
(* one was raised.  loose tells that there is an object that nothing       *)
(* refers to yet, lost that a collection could run then.  An operation     *)
(* gives the new S and a value.                                            *)

OK(S) == S.err = ""
error(S, why) == IF OK(S) THEN [S EXCEPT !.err = why] ELSE S
Gives(S, v) == [S |-> S, v |-> v]
(* Memory is allocated, or the reader called.                              *)
MayCollect(S) == [S EXCEPT !.lost = @ \/ S.loose]

loadBlock(S, size) ==
  LET r == luaZ_read(S.z, size)
      T == [MayCollect(S) EXCEPT !.z = r.z]
  IN  IF ~OK(S) THEN Gives(S, [i \in 1 .. size |-> 0])
      ELSE IF Len(r.b) < size THEN Gives(error(T, "truncated chunk"), [i \in 1 .. size |-> 0])
      ELSE Gives([T EXCEPT !.offset = @ + size], r.b)
(* The offset is not brought up to date.                                   *)
FaultyloadAlign(S, align) ==
  LET r == loadBlock(S, Padding(S.offset, align)) IN [r.S EXCEPT !.offset = S.offset]

loadAlign(S, align) == loadBlock(S, Padding(S.offset, align)).S

getaddr_(S, size) ==
  LET r == luaZ_getaddr(S.z, size)
      T == [MayCollect(S) EXCEPT !.z = r.z, !.offset = @ + size]
  IN  IF ~OK(S) THEN Gives(S, [i \in 1 .. size |-> 0])
      ELSE IF ~r.whole THEN Gives(error(T, "truncated fixed buffer"), [i \in 1 .. size |-> 0])
      ELSE Gives(T, r.b)
loadByte(S) ==
  LET g == zgetc(S.z)
      T == [MayCollect(S) EXCEPT !.z = g.z]
  IN  IF ~OK(S) THEN Gives(S, 0)
      ELSE IF g.c = EOZ THEN Gives(error(T, "truncated chunk"), 0)
      ELSE Gives([T EXCEPT !.offset = @ + 1], g.c)

(* The limit is checked after the bits are added.                          *)
RECURSIVE FaultyVarint(_, _, _)
FaultyVarint(S, x, limit) ==
  LET b == loadByte(S)
      y == x * PAYLOAD + (b.v % PAYLOAD)
  IN  IF ~OK(b.S) THEN Gives(b.S, 0)
      ELSE IF y > limit THEN Gives(error(b.S, "integer overflow"), 0)
      ELSE IF b.v >= PAYLOAD THEN FaultyVarint(b.S, y, limit) ELSE Gives(b.S, y)

RECURSIVE Varint(_, _, _)
Varint(S, x, limit) ==
  LET b == loadByte(S)
      y == x * PAYLOAD + (b.v % PAYLOAD)
  IN  IF ~OK(b.S) THEN Gives(b.S, 0)
      ELSE IF x > limit THEN Gives(error(b.S, "integer overflow"), 0)
      ELSE IF b.v >= PAYLOAD THEN Varint(b.S, y, limit) ELSE Gives(b.S, y)

loadVarint(S, limit) == Varint(S, 0, limit \div PAYLOAD)
loadSize(S) == loadVarint(S, MAX_SIZE)
loadInt(S) == loadVarint(S, INT_MAX)
loadUint(S) == loadVarint(S, INT_MAX)
loadNumber(S) == LET b == loadBlock(S, NUMBER) IN Gives(b.S, ValueOf(b.v))
loadInteger(S) == LET b == loadBlock(S, INTEGER) IN Gives(b.S, ValueOf(b.v))

(* A long string is read before something refers to it.                    *)
FaultyNewString(S, size) ==
  IF size <= LUAI_MAXSHORTLEN
  THEN LET b == loadBlock(S, size + 1) IN Gives(MayCollect(b.S), Front(b.v))
  ELSE IF S.fixed
       THEN LET a == getaddr_(S, size + 1) IN Gives(MayCollect(a.S), Front(a.v))
       ELSE LET b == loadBlock([MayCollect(S) EXCEPT !.loose = TRUE], size + 1) IN Gives([b.S EXCEPT !.loose = FALSE], Front(b.v))

(* The contents and the object; the slot refers to it at once.             *)
NewString(S, size) ==
  LET created(T) == [MayCollect(T) EXCEPT !.loose = TRUE]
      anchored(T) == [T EXCEPT !.loose = FALSE]
  IN  IF size <= LUAI_MAXSHORTLEN
      THEN LET b == loadBlock(S, size + 1) IN Gives(anchored(created(b.S)), Front(b.v))
      ELSE IF S.fixed
           THEN LET a == getaddr_(S, size + 1) IN Gives(anchored(created(a.S)), Front(a.v))
           ELSE LET b == loadBlock(anchored(created(S)), size + 1) IN Gives(b.S, Front(b.v))

loadString(S) ==
  LET size == loadSize(S)
      idx == loadSize(size.S)
      new == NewString(size.S, size.v - 2)
  IN  IF ~OK(size.S) \/ size.v = 0 THEN Gives(size.S, NoString)
      ELSE IF size.v = 1 THEN Gives(idx.S, IF idx.v \in DOMAIN S.h THEN S.h[idx.v] ELSE AbsentKey)
      ELSE IF ~OK(new.S) THEN Gives(new.S, NoString)
      ELSE Gives([MayCollect(new.S) EXCEPT !.h = Append(@, new.v)], new.v)

(* n values of size bytes, in place or in memory of their own.             *)
Vector(S, n, size) ==
  LET b == IF S.fixed THEN getaddr_(S, n * size) ELSE loadBlock(MayCollect(S), n * size)
  IN  Gives(b.S, Whole(b.v, size))
loadCode(S) == LET n == loadUint(S) IN Vector(loadAlign(n.S, INSTRUCTION), n.v, INSTRUCTION)
loadConstant(S) ==
  LET t == loadByte(S)
      tt == IF OK(t.S) /\ t.v \in DOMAIN Tags THEN Tags[t.v] ELSE "nil"
      v == IF tt = "float" THEN loadNumber(t.S) ELSE loadInteger(t.S)
      s == loadString(t.S)
  IN  IF tt \in {"float", "integer"} THEN Gives(v.S, [tt |-> tt, v |-> <<v.v>>])
      ELSE IF tt \notin {"short", "long"} THEN Gives(t.S, [tt |-> tt, v |-> <<>>])
      ELSE IF s.v = NoString THEN Gives(error(s.S, "bad format for constant string"), [tt |-> "nil", v |-> <<>>])
      ELSE Gives(s.S, [tt |-> StringTag(s.v), v |-> s.v])
loadUpvalue(S) ==
  LET a == loadByte(S)
      b == loadByte(a.S)
      c == loadByte(b.S)
  IN  Gives(c.S, [instack |-> a.v, idx |-> b.v, kind |-> c.v, name |-> NoString])
loadLocVar(S) ==
  LET a == loadString(S)
      b == loadInt(a.S)
      c == loadInt(b.S)
  IN  Gives(c.S, [varname |-> a.v, startpc |-> b.v, endpc |-> c.v])

(* A list of n items of a kind; the array for it is allocated first.       *)
RECURSIVE loadFunction(_)
Item(S, kind) ==
  CASE kind = "constant" -> loadConstant(S)
    [] kind = "upvalue" -> loadUpvalue(S)
    [] kind = "locvar" -> loadLocVar(S)
    [] kind = "name" -> loadString(S)
    [] kind = "proto" -> loadFunction(MayCollect(S))
RECURSIVE Items(_, _, _)
Items(S, kind, n) ==
  IF n = 0 \/ ~OK(S) THEN Gives(S, <<>>)
  ELSE LET first == Item(S, kind)
           rest == Items(first.S, kind, n - 1)
       IN  Gives(rest.S, <<first.v>> \o rest.v)
List(S, kind) == LET n == loadUint(S) IN Items(MayCollect(n.S), kind, n.v)
loadConstants(S) == List(S, "constant")
loadUpvalues(S) == List(S, "upvalue")
loadProtos(S) == List(S, "proto")

loadLines(S) == LET n == loadUint(S) IN Vector(n.S, n.v, 1)
loadAbsLines(S) ==
  LET n == loadUint(S)
  IN  IF n.v = 0 THEN Gives(n.S, <<>>) ELSE Vector(loadAlign(n.S, INT), n.v, INT)
(* If there are names, there is one for each upvalue.                      *)
loadNames(S, upvalues) ==
  LET n == loadUint(S)
      names == Items(n.S, "name", Len(upvalues))
  IN  IF n.v = 0 THEN Gives(n.S, upvalues)
      ELSE IF ~OK(names.S) THEN Gives(names.S, upvalues)
      ELSE Gives(names.S, [i \in DOMAIN upvalues |-> [upvalues[i] EXCEPT !.name = names.v[i]]])
loadDebug(S, f) ==
  LET lines == loadLines(S)
      abs == loadAbsLines(lines.S)
      vars == List(abs.S, "locvar")
      names == loadNames(vars.S, f.upvalues)
  IN  Gives(names.S, [f EXCEPT !.lineinfo = lines.v, !.abslineinfo = abs.v, !.locvars = vars.v, !.upvalues = names.v])
PF_ISVARARG == 1
PF_FIXED == 2
loadFunction(S) ==
  LET first == loadInt(S)
      last == loadInt(first.S)
      params == loadByte(last.S)
      flag == loadByte(params.S)
      size == loadByte(flag.S)
      code == loadCode(size.S)
      k == loadConstants(code.S)
      upvalues == loadUpvalues(k.S)
      p == loadProtos(upvalues.S)
      source == loadString(p.S)
  IN  loadDebug(source.S, [linedefined |-> first.v, lastlinedefined |-> last.v, numparams |-> params.v,
                           flag |-> (flag.v % (2 * PF_ISVARARG)) + IF S.fixed THEN PF_FIXED ELSE 0,
                           maxstacksize |-> size.v, code |-> code.v, k |-> k.v,
                           upvalues |-> upvalues.v, p |-> p.v, source |-> source.v,
                           lineinfo |-> <<>>, abslineinfo |-> <<>>, locvars |-> <<>>])

checkliteral(S, s, msg) == LET b == loadBlock(S, Len(s)) IN IF b.v # s THEN error(b.S, msg) ELSE b.S
fchecksize(S, size, msg) == LET b == loadByte(S) IN IF b.v # size THEN error(b.S, msg) ELSE b.S
checkHeader(S) ==
  LET a == checkliteral(S, Tail(LUA_SIGNATURE), "not a binary chunk")
      b == fchecksize(fchecksize(a, LUAC_VERSION, "version mismatch"), LUAC_FORMAT, "format mismatch")
      c == checkliteral(b, LUAC_DATA, "corrupted chunk")
      d == fchecksize(c, INSTRUCTION, "Instruction size mismatch")
      e == fchecksize(fchecksize(d, INTEGER, "lua_Integer size mismatch"), NUMBER, "lua_Number size mismatch")
      i == loadInteger(e)
      n == loadNumber(IF i.v # LUAC_INT THEN error(i.S, "integer format mismatch") ELSE i.S)
  IN  IF n.v # LUAC_NUM THEN error(n.S, "float format mismatch") ELSE n.S
luaU_undump(z, fixed) ==
  LET S == [z |-> z, fixed |-> fixed, offset |-> 1, h |-> <<>>, err |-> "", loose |-> FALSE, lost |-> FALSE]
      n == loadByte(checkHeader(S))
  IN  loadFunction(MayCollect(n.S))

-----------------------------------------------------------------------------
(* lua_load: binary chunks and text are told apart by their first byte;    *)
(* mode is the set of letters.  A text goes to the parser.                 *)

f_parser(z, mode) ==
  LET first == zgetc(z)
      S == [z |-> first.z, err |-> "", lost |-> FALSE]
  IN  IF first.c = LUA_SIGNATURE[1]
      THEN IF mode \cap {"b", "B"} = {} THEN Gives([S EXCEPT !.err = "attempt to load a binary chunk"], "none")
           ELSE luaU_undump(first.z, "B" \in mode)
      ELSE Gives(IF "t" \in mode THEN S ELSE [S EXCEPT !.err = "attempt to load a text chunk"], "text")
lua_load(z, mode) == f_parser(z, mode)
lua_dump(f, left, strip) == luaU_dump(f, left, strip)

-----------------------------------------------------------------------------
(* What streams and precompiled chunks are for: a function that is dumped  *)
(* and loaded is the same function, and nothing else loads.                *)

Many == 1000     \* blocks a writer accepts that does not fail
Dumped(f, strip) == lua_dump(f, Many, strip).out

RECURSIVE Stripped(_)
Stripped(f) ==
  [f EXCEPT !.lineinfo = <<>>, !.abslineinfo = <<>>, !.locvars = <<>>, !.source = NoString,
            !.upvalues = [i \in DOMAIN f.upvalues |-> [f.upvalues[i] EXCEPT !.name = NoString]],
            !.p = [i \in DOMAIN f.p |-> Stripped(f.p[i])]]
RECURSIVE Flagged(_, _)
Flagged(f, fixed) ==
  [f EXCEPT !.flag = (@ % 2) + IF fixed THEN PF_FIXED ELSE 0, !.p = [i \in DOMAIN f.p |-> Flagged(f.p[i], fixed)]]

RECURSIVE StringsOf(_)
StringsOf(f) ==
  ({f.source} \cup {f.upvalues[i].name : i \in DOMAIN f.upvalues} \cup {f.locvars[i].varname : i \in DOMAIN f.locvars}
     \cup {f.k[i].v : i \in {j \in DOMAIN f.k : f.k[j].tt \in {"short", "long"}}}
     \cup UNION {StringsOf(f.p[i]) : i \in DOMAIN f.p}) \ {NoString}

Cut(s, n) == <<SubSeq(s, 1, n), SubSeq(s, n + 1, Len(s))>>

(* However the reader cuts the dump, the function is the one that was      *)
(* dumped, all of the dump is read and nothing more, and each object is    *)
(* anchored before a collection can run; in fixed memory it is so if the   *)
(* dump is one piece, and an error otherwise (luaU_undump, luaZ_read).     *)
ComesBack(f, strip, fixed) ==
  LET dump == Dumped(f, strip)
      same == Flagged(IF strip THEN Stripped(f) ELSE f, fixed)
      mode == IF fixed THEN {"B"} ELSE {"b"}
      good(r) == OK(r.S) /\ r.v = same /\ ~r.S.z.past /\ ~r.S.lost /\ Contents(r.S.z) = <<>>
  IN  /\ good(lua_load(luaZ_init(<<dump>>), mode))
      /\ \A n \in 1 .. Len(dump) - 1 :
           LET r == lua_load(luaZ_init(Cut(dump, n)), mode)
           IN  good(r) \/ (fixed /\ r.S.err = "truncated fixed buffer")

(* A dump that was cut short does not load, and what follows it is not     *)
(* read.                                                                   *)
TruncationIsFound(f, strip, fixed) ==
  LET dump == Dumped(f, strip)
  IN  \A n \in 1 .. Len(dump) - 1 :
        LET r == lua_load(luaZ_init(<<SubSeq(dump, 1, n)>>), IF fixed THEN {"B"} ELSE {"b"})
        IN  r.S.err \in {"truncated chunk", "truncated fixed buffer"} /\ ~r.S.z.past

(* Equal strings are written once, and load as one.                        *)
StringsAreShared(f) ==
  LET h == lua_dump(f, Many, FALSE).h
  IN  /\ Len(h) = Cardinality(ToSet(h)) /\ ToSet(h) = StringsOf(f)
      /\ lua_load(luaZ_init(<<Dumped(f, FALSE)>>), {"b"}).S.h = h

(* After its writer failed, a dump is a part of what it would have been.   *)
FailureStops(f, left) ==
  LET D == lua_dump(f, left, FALSE)
  IN  D.status = 0 \/ IsPrefix(D.out, Dumped(f, FALSE))

(* A dump of another format does not load.                                 *)
HeaderIsChecked(f) ==
  LET dump == Dumped(f, FALSE)
      length == Len(dumpHeader([out |-> <<>>, offset |-> 0, status |-> 0, left |-> Many]).out)
  IN  \A n \in 2 .. length : \A b \in {0, 1, 7} \ {dump[n]} :
        ~OK(lua_load(luaZ_init(<<[dump EXCEPT ![n] = b]>>), {"b"}).S)

(* A variable-length integer is read exactly, and refused if it is above   *)
(* the limit.                                                              *)
RECURSIVE Meant(_)
Meant(b) == IF b = <<>> THEN 0 ELSE Meant(Front(b)) * PAYLOAD + (Last(b) % PAYLOAD)
VarintsAreExact(bytes, limit) ==
  LET ends == {i \in DOMAIN bytes : bytes[i] < PAYLOAD}
      end == CHOOSE i \in ends : \A j \in ends : i <= j
      S == [z |-> luaZ_init(<<bytes>>), offset |-> 0, err |-> "", loose |-> FALSE, lost |-> FALSE]
      r == loadVarint(S, limit)
      meant == Meant(SubSeq(bytes, 1, end))
  IN  /\ ends # {} => IF meant > limit THEN r.S.err = "integer overflow" ELSE OK(r.S) /\ r.v = meant
      /\ ends = {} => ~OK(r.S)

(* A file is loaded without its mark and first comment, in whose place a   *)
(* newline keeps the numbers of the lines; a file with a broken mark does  *)
(* not look like a program.                                                *)
FileIsLoaded(f, size) ==
  LET s == Contents(luaL_loadfilex(f, size))
      body == IF IsPrefix(BOM, f) THEN SubSeq(f, 4, Len(f)) ELSE f
      newlines == {i \in DOMAIN body : body[i] = NEWLINE}
      line1 == IF newlines = {} THEN Len(body) ELSE CHOOSE i \in newlines : \A j \in newlines : i <= j
      rest == SubSeq(body, line1 + 1, Len(body))
  IN  IF body # <<>> /\ body[1] = HASH
      THEN s = IF rest # <<>> /\ rest[1] = SIGNATURE THEN rest ELSE <<NEWLINE>> \o rest
      ELSE s = body \/ (body[1] = BOM[1] /\ s # <<>> /\ s[1] = BOM[1])

(* A stream is what its reader gave up to the first empty piece.           *)
StreamIsInput(results) ==
  LET ends == {i \in DOMAIN results : results[i] \in {<<>>, NoPiece}}
      end == IF ends = {} THEN Len(results) + 1 ELSE CHOOSE i \in ends : \A j \in ends : i <= j
  IN  Contents(luaB_load(results)) = FlattenSeq(SubSeq(results, 1, end - 1))

-----------------------------------------------------------------------------
(***************************************************************************)
(* Functions with and without each part, nested or not; files with marks,  *)
(* comments and binary chunks; readers that give and end early.            *)
(***************************************************************************)

Short == <<1>>
Long == <<2, 0>>
Other == <<4, 4, 4>>
Leaf == [linedefined |-> 1, lastlinedefined |-> 3, numparams |-> 1, flag |-> 3, maxstacksize |-> 2, code |-> <<9>>,
         k |-> <<>>, upvalues |-> <<>>, p |-> <<>>, source |-> NoString, lineinfo |-> <<>>, abslineinfo |-> <<>>,
         locvars |-> <<>>]
Constants == {<<>>, <<[tt |-> "nil", v |-> <<>>], [tt |-> "float", v |-> <<5>>], [tt |-> "long", v |-> Long]>>,
              <<[tt |-> "true", v |-> <<>>], [tt |-> "integer", v |-> <<6>>], [tt |-> "short", v |-> Short],
                [tt |-> "long", v |-> Long], [tt |-> "long", v |-> Long]>>}
Upvalues == {<<>>, <<[instack |-> 1, idx |-> 0, kind |-> 2, name |-> Long],
                     [instack |-> 0, idx |-> 3, kind |-> 0, name |-> Short]>>}
Leaves == {[Leaf EXCEPT !.k = k, !.upvalues = u, !.source = s, !.lineinfo = l, !.abslineinfo = a, !.locvars = v] :
             k \in Constants, u \in Upvalues, s \in {NoString, Other}, l \in {<<>>, <<1, 7>>}, a \in {<<>>, <<3>>},
             v \in {<<>>, <<[varname |-> Other, startpc |-> 0, endpc |-> 4]>>}}
Nested == {[f EXCEPT !.p = <<f, [f EXCEPT !.k = <<>>]>>, !.code = <<3, 8, 1>>] : f \in Leaves}

Functions == Leaves \cup Nested
Files == UNION {[1 .. n -> {239, 187, 191, 35, 10, 27}] : n \in 0 .. 5}
Results == UNION {[1 .. n -> {<<1>>, <<2, 3>>, <<>>, NoPiece}] : n \in 0 .. 4}


(* A function comes back from its chunk; a chunk cut short is refused.     *)
FunctionComesBack(f, strip, fixed) ==
  /\ ComesBack(f, strip, fixed) /\ TruncationIsFound(f, strip, fixed)
  /\ StringsAreShared(f) /\ HeaderIsChecked(f) /\ \A n \in 0 .. 30 : FailureStops(f, n)
=============================================================================
