--------------------------------- MODULE Utf8 ---------------------------------
(***************************************************************************)
(* The UTF-8 library (lutf8lib.c), over strings of bytes that end with a   *)
(* zero beyond their length: an index beyond that zero has no value, and a *)
(* function that reads there cannot be evaluated, but for byteoffset,      *)
(* which then gives 'beyond'.                                              *)
(* Positions given by a program count from 1, or from the end if negative; *)
(* pointers into the string count from 0.                                  *)
(***************************************************************************)
EXTENDS Scanner, FiniteSetsExt

MAXUNICODE == 1114111
MAXUTF == 2147483647
NoCode == <<>>

At(s, p) == (s \o <<0>>)[p + 1]
iscont(c) == c \in 128 .. 191
iscontp(s, p) == iscont(At(s, p))
u_posrelat(pos, len) == IF pos >= 0 THEN pos ELSE IF -pos > len THEN 0 ELSE len + pos + 1

(* Continuation bytes that the first byte c asks for.                      *)
Asked(c) == IF c < 128 THEN 0 ELSE FoldLeft(LAMBDA n, k : IF n = k /\ (c \div 2 ^ (6 - k)) % 2 = 1 THEN n + 1 ELSE n, 0, <<0, 1, 2, 3, 4, 5, 6>>)
limits == <<128, 2048, 65536, 2097152, 67108864>>
(* A code written with more bytes than it needs is accepted.               *)
Faultyutf8_decode(s, p, strict) ==
  LET c == At(s, p)
      count == Asked(c)
      res == FoldLeft(LAMBDA r, k : r * 64 + (At(s, p + k) % 64), c % 2 ^ (6 - count), [k \in 1 .. count |-> k])
  IN  IF c < 128 THEN <<c, p + 1>>
      ELSE IF count = 0 \/ \E k \in 1 .. count : ~iscontp(s, p + k) THEN NoCode
      ELSE IF count > 5 THEN NoCode
      ELSE IF strict /\ (res > MAXUNICODE \/ res \in 55296 .. 57343) THEN NoCode
      ELSE <<res, p + count + 1>>

(* The code at p and where the next one begins, or NoCode.                 *)
utf8_decode(s, p, strict) ==
  LET c == At(s, p)
      count == Asked(c)
      res == FoldLeft(LAMBDA r, k : r * 64 + (At(s, p + k) % 64), c % 2 ^ (6 - count), [k \in 1 .. count |-> k])
  IN  IF c < 128 THEN <<c, p + 1>>
      ELSE IF count = 0 \/ \E k \in 1 .. count : ~iscontp(s, p + k) THEN NoCode
      ELSE IF count > 5 THEN NoCode
      ELSE IF res < limits[count] THEN NoCode
      ELSE IF strict /\ (res > MAXUNICODE \/ res \in 55296 .. 57343) THEN NoCode
      ELSE <<res, p + count + 1>>

Result(v) == [tag |-> "values", v |-> v]
Fail(v) == [tag |-> "fail", v |-> v]
luaL_argerror == [tag |-> "error", v |-> <<>>]
beyond == [tag |-> "beyond", v |-> <<>>]

(* Codes from p while p is before end: the codes and where that stops,     *)
(* stopped when a code is not valid.                                       *)
RECURSIVE Codes(_, _, _, _, _)
Codes(s, p, end, strict, codes) ==
  LET d == utf8_decode(s, p, strict)
  IN  IF p >= end THEN [codes |-> codes, at |-> p, valid |-> TRUE]
      ELSE IF d = NoCode THEN [codes |-> codes, at |-> p, valid |-> FALSE]
      ELSE Codes(s, d[2], end, strict, Append(codes, d[1]))

utflen(s, i, j, lax) ==
  LET posi == u_posrelat(i, Len(s))
      posj == u_posrelat(j, Len(s))
      r == Codes(s, posi - 1, posj, ~lax, <<>>)
  IN  IF posi < 1 \/ posi - 1 > Len(s) \/ posj > Len(s) THEN luaL_argerror
      ELSE IF r.valid THEN Result(<<Len(r.codes)>>) ELSE Fail(<<r.at + 1>>)
codepoint(s, i, j, lax) ==
  LET posi == u_posrelat(i, Len(s))
      pose == u_posrelat(j, Len(s))
      r == Codes(s, posi - 1, pose, ~lax, <<>>)
  IN  IF posi < 1 \/ pose > Len(s) THEN luaL_argerror
      ELSE IF posi > pose THEN Result(<<>>)
      ELSE IF pose - posi >= INT_MAX THEN luaL_argerror
      ELSE IF r.valid THEN Result(r.codes) ELSE luaL_argerror
utfchar(codes) == FlattenSeq([k \in DOMAIN codes |-> luaO_utf8esc(codes[k])])

RECURSIVE Back(_, _), Forth(_, _), LastByte(_, _)
Back(s, p) == IF p > 0 /\ iscontp(s, p) THEN Back(s, p - 1) ELSE p
Forth(s, p) == IF iscontp(s, p) THEN Forth(s, p + 1) ELSE p
LastByte(s, p) == IF iscontp(s, p + 1) THEN LastByte(s, p + 1) ELSE p
(* Steps back or forth that are left, and where they lead.                 *)
RECURSIVE Moved(_, _, _)
Moved(s, n, p) ==
  IF n < 0 /\ p > 0 THEN Moved(s, n + 1, Back(s, p - 1))
  ELSE IF n > 0 /\ p < Len(s) THEN Moved(s, n - 1, Forth(s, p + 1))
  ELSE <<n, p>>
(* The end of a character is looked for from the byte after its first.     *)
FaultyCharEnd(s, p) == IF At(s, p) >= 128 THEN LastByte(s, p + 1) + 1 ELSE p

(* The byte after the first is passed over without a look at it, so that a *)
(* first byte at the very end has the next byte read beyond the zero.      *)
ReadsBeyond(s, p) == At(s, p) >= 128 /\ p + 2 > Len(s)
CharEnd(s, p) == IF At(s, p) >= 128 THEN LastByte(s, p + 1) ELSE p

byteoffset(s, n, i) ==
  LET posi == u_posrelat(i, Len(s)) - 1
      to == IF n = 0 THEN <<0, Back(s, posi)>> ELSE Moved(s, IF n > 0 THEN n - 1 ELSE n, posi)
  IN  IF posi < 0 \/ posi > Len(s) THEN luaL_argerror
      ELSE IF n # 0 /\ iscontp(s, posi) THEN luaL_argerror
      ELSE IF to[1] # 0 THEN Fail(<<>>)
      ELSE IF ReadsBeyond(s, to[2]) THEN beyond
      ELSE Result(<<to[2] + 1, CharEnd(s, to[2]) + 1>>)

(* n is the control variable of the loop; a negative one is as large an    *)
(* unsigned number.                                                        *)
iter_aux(s, n, strict) ==
  LET p == Forth(s, n)
      d == utf8_decode(s, p, strict)
  IN  IF n < 0 \/ n >= Len(s) THEN Result(<<>>)
      ELSE IF p >= Len(s) THEN Result(<<>>)
      ELSE IF d = NoCode THEN luaL_argerror
      ELSE IF iscontp(s, d[2]) THEN luaL_argerror
      ELSE Result(<<p + 1, d[1]>>)
iter_codes(s) == ~iscontp(s, 0)

-----------------------------------------------------------------------------
(* Decoding gives back every code that was encoded, with what follows it   *)
(* left alone, and accepts no other spelling of it; a strict one rejects   *)
(* surrogates and what is beyond Unicode (utf8_decode, luaO_utf8esc).      *)
CodeComesBack(x, follows) ==
  LET e == luaO_utf8esc(x)
      allowed == x <= MAXUNICODE /\ x \notin 55296 .. 57343
  IN  /\ utf8_decode(e \o follows, 0, FALSE) = <<x, Len(e)>>
      /\ utf8_decode(e \o follows, 0, TRUE) = IF allowed THEN <<x, Len(e)>> ELSE NoCode
      /\ \A cut \in 1 .. Len(e) - 1 : utf8_decode(SubSeq(e, 1, cut), 0, FALSE) = NoCode
BytesAreCanonical(s) ==
  \A p \in 0 .. Len(s) - 1 :
    \E d \in {utf8_decode(s, p, FALSE)} : d # NoCode => luaO_utf8esc(d[1]) = SubSeq(s, p + 1, d[2])

(* The functions agree on where the characters of a valid string are:      *)
(* lengths, codes, offsets and the iteration of any interval.              *)
Starts(codes) == [k \in 1 .. Len(codes) + 1 |-> 1 + Len(utfchar(SubSeq(codes, 1, k - 1)))]
PositionsAgree(codes) ==
  \E s \in {utfchar(codes)}, at \in {Starts(codes)} :
    LET Ending(k) == IF k > Len(codes) THEN at[k] ELSE at[k + 1] - 1
        In(i, j) == {k \in 1 .. Len(codes) : at[k] \in i .. j}
    IN  /\ \A k \in DOMAIN at, j \in 0 .. Len(s) :
             /\ utflen(s, at[k], j, TRUE) = Result(<<Cardinality(In(at[k], j))>>)
             /\ codepoint(s, at[k], j, TRUE) = Result([n \in 1 .. Cardinality(In(at[k], j)) |-> codes[k + n - 1]])
        /\ \A k \in DOMAIN at, n \in -4 .. 4 :
             \E to \in {IF n > 0 THEN k + n - 1 ELSE k + n} :
               byteoffset(s, n, at[k]) = IF to \in DOMAIN at THEN Result(<<at[to], Ending(to)>>) ELSE Fail(<<>>)
        /\ \A k \in 1 .. Len(codes) : \A i \in at[k] .. Ending(k) :
             /\ byteoffset(s, 0, i) = Result(<<at[k], Ending(k)>>)
             /\ byteoffset(s, 0, i - Len(s) - 1) = Result(<<at[k], Ending(k)>>)
             /\ iter_aux(s, i, FALSE) = IF k = Len(codes) THEN Result(<<>>) ELSE Result(<<at[k + 1], codes[k + 1]>>)
        /\ codes # <<>> => iter_aux(s, 0, FALSE) = Result(<<1, codes[1]>>)
(* With any bytes, iterating, counting and decoding stop at the same       *)
(* places, and none reads beyond the final zero.                           *)
RECURSIVE Iterated(_, _, _, _)
Iterated(s, n, strict, count) ==
  LET r == iter_aux(s, n, strict)
  IN  IF r.tag = "error" THEN -1 ELSE IF r.v = <<>> THEN count ELSE Iterated(s, r.v[1], strict, count + 1)
IterationAgrees(s) ==
  \A strict \in BOOLEAN :
    /\ \E len \in {utflen(s, 1, -1, ~strict)}, n \in {IF iter_codes(s) THEN Iterated(s, 0, strict, 0) ELSE -1} :
         IF len.tag = "fail" THEN n = -1 ELSE len.v = <<n>>
    /\ \A i \in 1 .. Len(s) + 1, j \in 0 .. Len(s) :
         \E len \in {utflen(s, i, j, ~strict)}, codes \in {codepoint(s, i, j, ~strict)} :
           IF len.tag = "fail" THEN codes.tag = "error" ELSE len.v = <<Len(codes.v)>>
    /\ \A n \in 0 .. Len(s) :
         \E r \in {iter_aux(s, n, strict)} :
           r.tag = "values" /\ r.v # <<>> => codepoint(s, r.v[1], r.v[1], ~strict) = Result(<<r.v[2]>>)

(* With any bytes, byteoffset counts heads: the first byte and those that  *)
(* are not continuations, the final zero included.  A head from 128 up     *)
(* ends before the head that follows the byte after it.  There is none,    *)
(* and only then is a byte beyond the final zero read, if it is the last   *)
(* byte of the string: a sequence cut after its first byte.                *)
OffsetsAreHeads(s) ==
  LET heads == {h \in 1 .. Len(s) + 1 : h = 1 \/ ~iscontp(s, h - 1)}
      Found(n, i) ==
        CASE n = 0 -> {h \in heads : h <= i /\ heads \cap h + 1 .. i = {}}
          [] n > 0 -> {h \in heads : h >= i /\ Cardinality(heads \cap i .. h) = n}
          [] n < 0 -> {h \in heads : h < i /\ Cardinality(heads \cap h .. i - 1) = -n}
      after(h) == {g \in heads : g > h + 1}
      Outcome(h) ==
        IF At(s, h - 1) < 128 THEN Result(<<h, h>>)
        ELSE IF h = Len(s) THEN beyond
        ELSE Result(<<h, Min(after(h)) - 1>>)
  IN  \A n \in -3 .. 3, i \in 1 .. Len(s) + 1 :
        byteoffset(s, n, i) =
          IF n # 0 /\ iscontp(s, i - 1) THEN luaL_argerror
          ELSE IF Found(n, i) = {} THEN Fail(<<>>)
          ELSE Outcome(CHOOSE h \in Found(n, i) : TRUE)

-----------------------------------------------------------------------------
(* Codes next to the limits of each length, and bytes that begin, go on    *)
(* and break sequences.                                                    *)

Edges == {0, 1, 65, 127, 128, 2047, 2048, 55295, 55296, 57343, 57344, 65535, 65536, 1114111, 1114112,
          2097151, 2097152, 67108863, 67108864, 2147483647}
Bytes == {65, 128, 175, 192, 193, 195, 224, 237, 240, 244, 248, 252, 254, 255}
LongSequences ==
  {<<first, second>> \o [i \in 1 .. n |-> last] : first \in {192, 224, 240, 248, 252, 254, 255},
     second \in {128, 130, 135, 143, 160, 191}, last \in {128, 191}, n \in 2 .. 6}
ByteStrings == UNION {[1 .. n -> Bytes] : n \in 0 .. 3} \cup LongSequences
Codings == UNION {[1 .. n -> {0, 65, 128, 2048, 67108864}] : n \in 0 .. 3}

CodeIsKept(x) == \A follows \in {<<>>, <<65>>, <<128>>} : CodeComesBack(x, follows)
BytesAreChecked(s) == BytesAreCanonical(s) /\ IterationAgrees(s) /\ OffsetsAreHeads(s)
=============================================================================
