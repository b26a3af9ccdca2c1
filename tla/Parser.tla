-------------------------------- MODULE Parser --------------------------------
(***************************************************************************)
(* The parser (lparser.c), which generates code as it goes.  Tokens to     *)
(* come are in fs.toks: operators, keywords and punctuation as <<"(">>,    *)
(* literals as values, names as <<"name", n>>.                             *)
(*                                                                         *)
(* A function under construction also has                                  *)
(*   actvar      its local variables by index, the ones out of scope after *)
(*               the others; created and nactvar count those declared and  *)
(*               those in scope                                            *)
(*   bl          its open blocks, innermost last                           *)
(*   labels, gotos                                                         *)
(*               labels in scope, and jumps to labels not yet seen         *)
(*   ups, protos its upvalues and its functions                            *)
(*   needclose, isvararg, nparams                                          *)
(*   prev        the enclosing function, if any, in a sequence             *)
(*   err         the first semantic error, if any                          *)
(***************************************************************************)
EXTENDS CodeOperators

CONSTANT MaxToStore     \* items of a constructor stored at a time (maxtostore)

(* A string is the sequence of its parts.                                  *)
Str(n) == <<"str", <<<<"s", n>>>>>>

Tok(fs) == IF fs.toks = <<>> THEN <<"eos">> ELSE Head(fs.toks)
Is(fs, t) == Tok(fs)[1] = t
luaX_next(fs) == [fs EXCEPT !.toks = Tail(@)]
checknext(fs, t) == luaX_next(Check(fs, Is(fs, t)))
NameOf(fs) == Tok(fs)[2]
Fail(fs, condition, what) == IF condition /\ fs.err = "none" THEN [fs EXCEPT !.err = what] ELSE fs

-----------------------------------------------------------------------------
(* Variables *)

new_localvar(fs, name, kind) ==
  LET var == [name |-> name, kind |-> kind, ridx |-> 0, val |-> Nil]
  IN  [fs EXCEPT !.actvar = Append(SubSeq(@, 1, fs.created), var), !.created = @ + 1]

(* The register level at variable n: constants of the compiler have none.  *)
reglevel(fs, n) ==
  LET inregister == {v \in 1 .. n : fs.actvar[v].kind # "ctc"}
  IN  IF inregister = {} THEN 0 ELSE fs.actvar[Max(inregister)].ridx + 1

WithActive(fs, n) == [fs EXCEPT !.nactvar = n, !.nvar = reglevel(fs, n)]

adjustlocalvars(fs, n) ==
  LET placed(v) == IF v \in fs.nactvar + 1 .. fs.nactvar + n
                     THEN [fs.actvar[v] EXCEPT !.ridx = fs.nvar + v - fs.nactvar - 1]
                     ELSE fs.actvar[v]
  IN  WithActive([fs EXCEPT !.actvar = [v \in DOMAIN @ |-> placed(v)]], fs.nactvar + n)

removevars(fs, tolevel) == WithActive([fs EXCEPT !.created = @ - (fs.nactvar - tolevel)], tolevel)

Local(fs, v) == [Expression("VLOCAL", fs.actvar[v].ridx) EXCEPT !.idx = v]

(* The block of variable v needs to close upvalues.                        *)
markupval(fs, v) ==
  LET b == Max({i \in DOMAIN fs.bl : fs.bl[i].nactvar < v})
  IN  [fs EXCEPT !.bl[b].upval = TRUE, !.needclose = TRUE]

(* e is a variable of the enclosing function, outer.                       *)
newupvalue(fs, outer, name, e) ==
  LET up == IF e.k = "VLOCAL"
              THEN [name |-> name, instack |-> TRUE, idx |-> e.info, kind |-> outer.actvar[e.idx].kind]
              ELSE [name |-> name, instack |-> FALSE, idx |-> e.info, kind |-> outer.ups[e.info + 1].kind]
  IN  [fs EXCEPT !.ups = Append(@, up), !.prev = <<outer>>, !.e = Expression("VUPVAL", Len(fs.ups))]

RECURSIVE singlevaraux(_, _, _)
singlevaraux(fs, name, base) ==
  LET locals == {v \in 1 .. fs.nactvar : fs.actvar[v].name = name}
      v == Max(locals)
      known == {u \in DOMAIN fs.ups : fs.ups[u].name = name}
      outer == singlevaraux(fs.prev[1], name, FALSE)
  IN  IF locals # {}
        THEN IF fs.actvar[v].kind = "ctc" THEN With(fs, Constant("VCONST", fs.actvar[v].val))
             ELSE With(IF base THEN fs ELSE markupval(fs, v), Local(fs, v))
      ELSE IF known # {} THEN With(fs, Expression("VUPVAL", Min(known) - 1))
      ELSE IF fs.prev = <<>> THEN With(fs, Expression("VVOID", 0))
      ELSE IF outer.e.k \in {"VLOCAL", "VUPVAL"} THEN newupvalue(fs, outer, name, outer.e)
      ELSE With(fs, outer.e)

singlevar(fs) ==
  LET name == NameOf(fs)
      s == singlevaraux(luaX_next(fs), name, TRUE)
      env == luaK_exp2anyregup(singlevaraux(s, "_ENV", TRUE))
  IN  IF s.e.k = "VVOID" THEN luaK_indexed(With(env, Constant("VKSTR", Str(name))), env.e) ELSE s

check_readonly(fs) ==
  LET e == fs.e
  IN  Fail(fs, CASE e.k = "VCONST" -> TRUE
                 [] e.k = "VLOCAL" -> fs.actvar[e.idx].kind # "reg"
                 [] e.k = "VUPVAL" -> fs.ups[e.info + 1].kind # "reg"
                 [] OTHER -> FALSE, "const")

-----------------------------------------------------------------------------
(* Expressions *)

UnOps == {"-", "not", "~", "#"}
getunopr(t) == IF t = "-" THEN "unm" ELSE t
BinOps == {"+", "-", "*", "//", "&", "<<", ">>", "..", "==", "<", "<=", "~=", ">", ">=", "and", "or"}

priority(op) ==
  CASE op \in {"+", "-"} -> <<10, 10>> [] op \in {"*", "//"} -> <<11, 11>>
    [] op = "&" -> <<6, 6>> [] op \in {"<<", ">>"} -> <<7, 7>> [] op = ".." -> <<9, 8>>
    [] op = "and" -> <<2, 2>> [] op = "or" -> <<1, 1>> [] OTHER -> <<3, 3>>
UNARY_PRIORITY == 12

(* fieldsel                                                                *)
fieldsel(fs) ==
  LET s == luaX_next(luaK_exp2anyregup(fs))
      key == Constant("VKSTR", Str(Tok(s)[2]))
  IN  luaK_indexed(With(luaX_next(s), key), s.e)

RECURSIVE subexpr(_, _), Binaries(_, _), suffixes(_), Explist(_, _), fields(_, _), body(_, _)

expr(fs) == subexpr(fs, 0)

yindex(fs) == checknext(luaK_exp2val(expr(luaX_next(fs))), "]")

(* Constructors.  cc (ConsControl): the table's register, the last item,   *)
(* and the numbers of fields, of items stored and of items to store.       *)
recfield(fs, cc) ==
  LET key == IF Is(fs, "[") THEN yindex(fs)
             ELSE With(luaX_next(fs), Constant("VKSTR", Str(Tok(fs)[2])))
      eq == checknext(key, "=")
      tab == luaK_indexed(eq, Expression("VNONRELOC", cc.t))
  IN  [luaK_storevar(expr(tab), tab.e) EXCEPT !.freereg = fs.freereg]

NoItem == Expression("VVOID", 0)

closelistfield(fs, cc) ==
  LET s == luaK_exp2nextreg(With(fs, cc.v))
  IN  IF cc.v.k = "VVOID" THEN [fs |-> fs, cc |-> cc]
      ELSE IF cc.tostore >= MaxToStore
        THEN [fs |-> luaK_setlist(s, cc.t, cc.na, cc.tostore),
              cc |-> [cc EXCEPT !.v = NoItem, !.na = @ + cc.tostore, !.tostore = 0]]
      ELSE [fs |-> s, cc |-> [cc EXCEPT !.v = NoItem]]

lastlistfield(fs, cc) ==
  LET item == With(fs, cc.v)
  IN  IF cc.tostore = 0 THEN [fs |-> fs, na |-> cc.na]
      ELSE IF hasmultret(cc.v.k)
        THEN [fs |-> luaK_setlist(luaK_setreturns(item, -1), cc.t, cc.na, 0),
              na |-> cc.na - 1 + cc.tostore]
      ELSE LET s == IF cc.v.k = "VVOID" THEN item ELSE luaK_exp2nextreg(item)
           IN  [fs |-> luaK_setlist(s, cc.t, cc.na, cc.tostore), na |-> cc.na + cc.tostore]

(* The fields from fs on, up to the closing brace.                         *)
fields(fs, cc) ==
  IF Is(fs, "}") THEN [fs |-> fs, cc |-> cc]
  ELSE LET c == closelistfield(fs, cc)
           isrec == Is(c.fs, "[") \/ (Is(c.fs, "name") /\ c.fs.toks[2] = <<"=">>)
           s == IF isrec THEN recfield(c.fs, c.cc) ELSE expr(c.fs)
           cc2 == IF isrec THEN [c.cc EXCEPT !.nh = @ + 1]
                  ELSE [c.cc EXCEPT !.v = s.e, !.tostore = @ + 1]
       IN  IF Is(s, ",") THEN fields(luaX_next(s), cc2) ELSE [fs |-> s, cc |-> cc2]

constructor(fs) ==
  LET new == luaK_codeABC(luaK_codeABC(fs, "NEWTABLE", 0, 0, 0), "EXTRAARG", 0, 0, 0)
      pc == Last1(new) - 1
      reg == fs.freereg
      cc == [t |-> reg, v |-> NoItem, nh |-> 0, na |-> 0, tostore |-> 0]
      all == fields(checknext(luaK_reserveregs(new, 1), "{"), cc)
      end == lastlistfield(checknext(all.fs, "}"), all.cc)
  IN  With(luaK_settablesize(end.fs, pc, reg, end.na, all.cc.nh), Expression("VNONRELOC", reg))

(* All expressions but the last in registers; n counts them.               *)
Explist(fs, n) ==
  LET s == expr(fs)
  IN  IF Is(s, ",") THEN Explist(luaX_next(luaK_exp2nextreg(s)), n + 1) ELSE [fs |-> s, n |-> n]
explist(fs) == Explist(fs, 1)

(* funcargs: the function is in register base                              *)
funcargs(fs, base) ==
  LET none == fs.toks[2] = <<")">>
      args == IF Is(fs, "(")
                THEN IF none THEN luaX_next(luaX_next(With(fs, NoItem)))
                     ELSE checknext(explist(luaX_next(fs)).fs, ")")
              ELSE constructor(fs)
      open == hasmultret(args.e.k)
      s == IF open THEN luaK_setreturns(args, -1)
           ELSE IF args.e.k = "VVOID" THEN args ELSE luaK_exp2nextreg(args)
      call == luaK_codeABC(s, "CALL", base, IF open THEN 0 ELSE s.freereg - base, 2)
  IN  With([call EXCEPT !.freereg = base + 1], Expression("VCALL", Last1(call)))

primaryexp(fs) ==
  IF Is(fs, "(") THEN luaK_dischargevars(checknext(expr(luaX_next(fs)), ")")) ELSE singlevar(fs)

suffixes(fs) ==
  CASE Is(fs, ".") -> suffixes(fieldsel(fs))
    [] Is(fs, "[") ->
         LET t == luaK_exp2anyregup(fs) IN suffixes(luaK_indexed(yindex(t), t.e))
    [] Is(fs, ":") ->
         LET s == luaK_self(luaX_next(luaX_next(fs)), Constant("VKSTR", Str(fs.toks[2][2])))
         IN  suffixes(funcargs(s, s.e.info))
    [] Is(fs, "(") \/ Is(fs, "{") ->
         LET s == luaK_exp2nextreg(fs) IN suffixes(funcargs(s, s.e.info))
    [] OTHER -> fs

suffixedexp(fs) == suffixes(primaryexp(fs))

Literal(v) == v[1] \in {"int", "flt", "str", "nil", "true", "false"}

simpleexp(fs) ==
  CASE Literal(Tok(fs)) -> With(luaX_next(fs), const2exp(Tok(fs)))
    [] Is(fs, "...") ->
         LET s == luaK_codeABC(Fail(luaX_next(fs), ~fs.isvararg, "vararg"), "VARARG", 0, 0, 1)
         IN  With(s, Expression("VVARARG", Last1(s)))
    [] Is(fs, "{") -> constructor(fs)
    [] Is(fs, "function") -> body(luaX_next(fs), FALSE)
    [] OTHER -> suffixedexp(fs)

Binaries(fs, limit) ==
  LET op == Tok(fs)[1]
      first == luaK_infix(luaX_next(fs), op)
  IN  IF op \notin BinOps \/ priority(op)[1] <= limit THEN fs
      ELSE Binaries(luaK_posfix(subexpr(first, priority(op)[2]), op, first.e), limit)

subexpr(fs, limit) ==
  LET uop == Tok(fs)[1]
  IN  Binaries(IF uop \in UnOps THEN luaK_prefix(subexpr(luaX_next(fs), UNARY_PRIORITY), getunopr(uop))
               ELSE simpleexp(fs), limit)

-----------------------------------------------------------------------------
(* Blocks, labels and jumps to labels *)

(* luaK_exp2const                                                          *)
IsConst(e) == ~hasjumps(e) /\ e.k \in {"VFALSE", "VTRUE", "VNIL", "VKSTR", "VCONST", "VKINT", "VKFLT"}

adjust_assign(fs, nvars, nexps) ==
  LET needed == nvars - nexps
      last == IF fs.e.k = "VVOID" THEN fs ELSE luaK_exp2nextreg(fs)
      s == IF hasmultret(fs.e.k) THEN luaK_setreturns(fs, IF needed + 1 < 0 THEN 0 ELSE needed + 1)
           ELSE IF needed > 0 THEN luaK_nil(last, last.freereg, needed) ELSE last
  IN  IF needed > 0 THEN luaK_reserveregs(s, needed) ELSE [s EXCEPT !.freereg = @ + needed]

enterblock(fs, isloop) ==
  LET bl == [isloop |-> isloop, nactvar |-> fs.nactvar, firstlabel |-> Len(fs.labels),
             firstgoto |-> Len(fs.gotos), upval |-> FALSE,
             insidetbc |-> fs.bl # <<>> /\ Last(fs.bl).insidetbc]
  IN  [Check(fs, fs.freereg = fs.nvar) EXCEPT !.bl = Append(@, bl)]

newgotoentry(fs, name, pc) ==
  [fs EXCEPT !.gotos = Append(@, [name |-> name, pc |-> pc, nactvar |-> fs.nactvar, close |-> FALSE])]

(* The pending jumps of the current block to a label.                      *)
PendingTo(fs, name) ==
  SelectSeq(SubSeq(fs.gotos, Last(fs.bl).firstgoto + 1, Len(fs.gotos)), LAMBDA g : g.name = name)
NeedsClose(fs, name) == \E g \in Range(PendingTo(fs, name)) : g.close

(* solvegotos and solvegoto: none may enter the scope of a variable.       *)
solvegotos(fs, lb) ==
  LET first == Last(fs.bl).firstgoto
      solve(s, g) == luaK_patchlist(Fail(s, g.nactvar < lb.nactvar, "goto"), g.pc, lb.pc)
      others == SelectSeq(SubSeq(fs.gotos, first + 1, Len(fs.gotos)), LAMBDA g : g.name # lb.name)
  IN  [FoldLeft(solve, fs, PendingTo(fs, lb.name)) EXCEPT !.gotos = SubSeq(@, 1, first) \o others]

(* A label at the end of its block is outside the scope of the block's     *)
(* variables.                                                              *)
createlabel(fs, name, last) ==
  LET lb == [name |-> name, pc |-> Last1(fs) + 1,
             nactvar |-> IF last THEN Last(fs.bl).nactvar ELSE fs.nactvar]
      s == solvegotos([luaK_getlabel(fs) EXCEPT !.labels = Append(@, lb)], lb)
  IN  IF NeedsClose(fs, name) THEN luaK_codeABC(s, "CLOSE", s.nvar, 0, 0) ELSE s

(* A jump out of a block does not see that the block has upvalues.         *)
Faultymovegotosout(fs, bl) ==
  [fs EXCEPT !.gotos = [i \in DOMAIN @ |-> IF i > bl.firstgoto THEN [@[i] EXCEPT !.nactvar = bl.nactvar] ELSE @[i]]]

(* The level of variables that just went out of scope is still known.      *)
movegotosout(fs, bl) ==
  LET out(g) == [g EXCEPT !.nactvar = bl.nactvar,
                          !.close = @ \/ (reglevel(fs, g.nactvar) > reglevel(fs, bl.nactvar) /\ bl.upval)]
  IN  [fs EXCEPT !.gotos = [i \in DOMAIN @ |-> IF i > bl.firstgoto THEN out(@[i]) ELSE @[i]]]

leaveblock(fs) ==
  LET bl == Last(fs.bl)
      nested == Len(fs.bl) > 1
      stklevel == reglevel(fs, bl.nactvar)
      left == removevars(fs, bl.nactvar)
      hasclose == bl.isloop /\ NeedsClose(left, "break")
      breaks == IF bl.isloop THEN createlabel(left, "break", FALSE) ELSE left
      closed == IF ~hasclose /\ nested /\ bl.upval THEN luaK_codeABC(breaks, "CLOSE", stklevel, 0, 0)
                ELSE breaks
      s == [closed EXCEPT !.freereg = stklevel, !.labels = SubSeq(@, 1, bl.firstlabel), !.bl = Front(@)]
  IN  IF nested THEN movegotosout(s, bl) ELSE Fail(s, Len(s.gotos) > bl.firstgoto, "goto")

marktobeclosed(fs) ==
  [fs EXCEPT !.bl[Len(fs.bl)].upval = TRUE, !.bl[Len(fs.bl)].insidetbc = TRUE, !.needclose = TRUE]

-----------------------------------------------------------------------------
(* Functions *)

NewFunction(toks, prev) ==
  [code |-> <<>>, k |-> <<>>, freereg |-> 0, nvar |-> 0, max |-> 2, lasttarget |-> 1, ok |-> TRUE,
   e |-> NoItem, toks |-> toks, actvar |-> <<>>, created |-> 0, nactvar |-> 0, bl |-> <<>>,
   labels |-> <<>>, gotos |-> <<>>, ups |-> <<>>, protos |-> <<>>, needclose |-> FALSE,
   isvararg |-> FALSE, nparams |-> 0, prev |-> prev, err |-> "none"]

open_func(fs) == enterblock(NewFunction(fs.toks, <<fs>>), FALSE)
setvararg(fs) == luaK_codeABC([fs EXCEPT !.isvararg = TRUE], "VARARGPREP", fs.nparams, 0, 0)

luaK_ret(fs, first, nret) ==
  luaK_codeABC(fs, CASE nret = 0 -> "RETURN0" [] nret = 1 -> "RETURN1" [] OTHER -> "RETURN",
               first, nret + 1, 0)

RECURSIVE finaltarget(_, _, _)
finaltarget(code, i, count) ==
  IF count = 0 \/ code[i].op # "JMP" THEN i ELSE finaltarget(code, i + code[i].B + 1, count - 1)

luaK_finish(fs) ==
  LET return(i) == [i EXCEPT !.op = IF @ # "TAILCALL" /\ (fs.needclose \/ fs.isvararg) THEN "RETURN" ELSE @,
                             !.k = fs.needclose, !.C = IF fs.isvararg THEN fs.nparams + 1 ELSE @]
      finish(s, pc) ==
        LET i == s.code[pc]
        IN  CASE i.op \in {"RETURN0", "RETURN1", "RETURN", "TAILCALL"} -> [s EXCEPT !.code[pc] = return(i)]
              [] i.op = "JMP" -> fixjump(s, pc, finaltarget(s.code, pc, 100))
              [] OTHER -> s
  IN  FoldLeft(finish, fs, [pc \in DOMAIN fs.code |-> pc])

close_func(fs) == luaK_finish(leaveblock(luaK_ret(fs, fs.nvar, 0)))

RECURSIVE parameters(_)
parameters(fs) ==
  CASE Is(fs, "...") -> [luaX_next(fs) EXCEPT !.isvararg = TRUE]
    [] Is(fs, "name") -> parameters(new_localvar(luaX_next(fs), NameOf(fs), "reg"))
    [] Is(fs, ",") -> parameters(luaX_next(fs))
    [] OTHER -> fs

parlist(fs) ==
  LET s == parameters(fs)
      a == adjustlocalvars(s, s.created - s.nactvar)
      n == [a EXCEPT !.nparams = a.nactvar]
  IN  luaK_reserveregs(IF s.isvararg THEN setvararg(n) ELSE n, n.nactvar)

RECURSIVE statement(_), statlist(_)

block_follow(fs, withuntil) ==
  Tok(fs)[1] \in {"else", "elseif", "end", "eos"} \cup (IF withuntil THEN {"until"} ELSE {})

statlist(fs) ==
  IF block_follow(fs, TRUE) THEN fs
  ELSE IF Is(fs, "return") THEN statement(fs)
  ELSE statlist(statement(fs))

block(fs) == leaveblock(statlist(enterblock(fs, FALSE)))

(* body, codeclosure and addprototype                                      *)
body(fs, ismethod) ==
  LET open == checknext(open_func(fs), "(")
      self == IF ismethod THEN adjustlocalvars(new_localvar(open, "self", "reg"), 1) ELSE open
      inner == checknext(statlist(checknext(parlist(self), ")")), "end")
      f == close_func(inner)
      outer == inner.prev[1]
      back == [Fail(outer, f.err # "none", f.err) EXCEPT
                 !.ok = @ /\ f.ok, !.toks = f.toks, !.protos = Append(@, [f EXCEPT !.prev = <<>>])]
  IN  luaK_exp2nextreg(Reloc(back, "CLOSURE", 0, Len(outer.protos), 0))

-----------------------------------------------------------------------------
(* Assignments *)

(* The variables assigned so far, which may use the one in hand, v, as     *)
(* table or index: they use a copy of its value.                           *)
SafeCopy(var, v, extra) ==
  CASE var.k = "VINDEXUP" ->
         IF v.k = "VUPVAL" /\ var.info = v.info THEN [var EXCEPT !.k = "VINDEXSTR", !.info = extra] ELSE var
    [] var.k \in {"VINDEXED", "VINDEXI", "VINDEXSTR"} /\ v.k = "VLOCAL" ->
         [var EXCEPT !.info = IF @ = v.info THEN extra ELSE @,
                     !.idx = IF var.k = "VINDEXED" /\ @ = v.info THEN extra ELSE @]
    [] OTHER -> var

check_conflict(fs, lhs) ==
  LET extra == fs.freereg
      safe == [i \in DOMAIN lhs |-> SafeCopy(lhs[i], fs.e, extra)]
      copied == luaK_codeABC(fs, IF fs.e.k = "VLOCAL" THEN "MOVE" ELSE "GETUPVAL", extra, fs.e.info, 0)
  IN  [fs |-> IF safe = lhs THEN fs ELSE luaK_reserveregs(copied, 1), lhs |-> safe]

(* restassign: the last variable is assigned first.                        *)
RECURSIVE StoreAll(_, _), restassign(_, _)
StoreAll(fs, lhs) ==
  IF lhs = <<>> THEN fs
  ELSE StoreAll(luaK_storevar(With(fs, Expression("VNONRELOC", fs.freereg - 1)), Last(lhs)), Front(lhs))

restassign(fs, lhs) ==
  LET var == check_readonly(suffixedexp(luaX_next(fs)))
      c == IF var.e.k \in {"VLOCAL", "VUPVAL"} THEN check_conflict(var, lhs) ELSE [fs |-> var, lhs |-> lhs]
      ex == explist(checknext(fs, "="))
      nvars == Len(lhs)
  IN  IF Is(fs, ",") THEN restassign(c.fs, Append(c.lhs, var.e))
      ELSE IF ex.n # nvars THEN StoreAll(adjust_assign(ex.fs, nvars, ex.n), lhs)
      ELSE StoreAll(luaK_storevar(luaK_setoneret(ex.fs), Last(lhs)), Front(lhs))

exprstat(fs) ==
  LET s == suffixedexp(fs)
  IN  IF Tok(s)[1] \in {"=", ","} THEN restassign(check_readonly(s), <<s.e>>)
      ELSE [Check(s, s.e.k = "VCALL") EXCEPT !.code[s.e.info].C = 1]

(* Names with their attributes                                             *)
RECURSIVE attnamelist(_)
attnamelist(fs) ==
  LET name == luaX_next(fs)
      attrib == Is(name, "<")
      s == new_localvar(IF attrib THEN luaX_next(luaX_next(luaX_next(name))) ELSE name, NameOf(fs),
                        IF attrib THEN name.toks[2][2] ELSE "reg")
  IN  IF Is(s, ",") THEN attnamelist(luaX_next(s)) ELSE s

localstat(fs) ==
  LET names == attnamelist(fs)
      first == fs.created + 1
      nvars == names.created - fs.created
      close == {v \in first .. names.created : names.actvar[v].kind = "close"}
      ex == IF Is(names, "=") THEN explist(luaX_next(names)) ELSE [fs |-> With(names, NoItem), n |-> 0]
      e == ex.fs.e
      vidx == names.created
      const == nvars = ex.n /\ ex.fs.actvar[vidx].kind = "const" /\ IsConst(e)
      s == IF const
             THEN WithActive(adjustlocalvars([ex.fs EXCEPT !.actvar[vidx].kind = "ctc",
                                                           !.actvar[vidx].val = e.val], nvars - 1), vidx)
             ELSE adjustlocalvars(adjust_assign(ex.fs, nvars, ex.n), nvars)
      marked == marktobeclosed(s)
  IN  IF close = {} THEN s
      ELSE luaK_codeABC(marked, "TBC", reglevel(marked, Min(close) - 1), 0, 0)

localfunc(fs) == body(luaX_next(adjustlocalvars(new_localvar(fs, NameOf(fs), "reg"), 1)), FALSE)

RECURSIVE funcname(_)
funcname(fs) == IF Is(fs, ".") THEN funcname(fieldsel(fs)) ELSE fs

funcstat(fs) ==
  LET name == funcname(singlevar(luaX_next(fs)))
      ismethod == Is(name, ":")
      var == IF ismethod THEN fieldsel(name) ELSE name
  IN  luaK_storevar(check_readonly(body(var, ismethod)), var.e)

retstat(fs) ==
  LET first == fs.nvar
      none == block_follow(fs, TRUE) \/ Is(fs, ";")
      ex == explist(fs)
      e == ex.fs.e
      open == luaK_setreturns(ex.fs, -1)
      tail == e.k = "VCALL" /\ ex.n = 1 /\ ~Last(fs.bl).insidetbc
      one == luaK_exp2anyreg(ex.fs)
      next == luaK_exp2nextreg(ex.fs)
      s == IF none THEN luaK_ret(fs, first, 0)
           ELSE IF tail
             THEN luaK_ret([Check(open, open.code[e.info].A = first) EXCEPT !.code[e.info].op = "TAILCALL"],
                           first, -1)
           ELSE IF hasmultret(e.k) THEN luaK_ret(open, first, -1)
           ELSE IF ex.n = 1 THEN luaK_ret(one, one.e.info, 1)
           ELSE luaK_ret(Check(next, ex.n = next.freereg - first), first, ex.n)
  IN  IF Is(s, ";") THEN luaX_next(s) ELSE s

-----------------------------------------------------------------------------
(* Control *)

cond(fs) ==
  LET c == expr(fs) IN luaK_goiftrue(IF c.e.k = "VNIL" THEN [c EXCEPT !.e.k = "VFALSE"] ELSE c)

(* A jump back leaves the scope of the variables since the label.          *)
gotostat(fs) ==
  LET name == NameOf(fs)
      s == luaX_next(fs)
      known == {l \in DOMAIN s.labels : s.labels[l].name = name}
      lb == s.labels[Min(known)]
      lblevel == reglevel(s, lb.nactvar)
      c == IF s.nvar > lblevel THEN luaK_codeABC(s, "CLOSE", lblevel, 0, 0) ELSE s
  IN  IF known = {} THEN newgotoentry(luaK_jump(s), name, Last1(s) + 1)
      ELSE luaK_patchlist(luaK_jump(c), Last1(c) + 1, lb.pc)

breakstat(fs) == newgotoentry(luaK_jump(luaX_next(fs)), "break", Last1(fs) + 1)

RECURSIVE NoOps(_)
NoOps(fs) == IF Tok(fs)[1] \in {";", "::"} THEN NoOps(statement(fs)) ELSE fs

labelstat(fs) ==
  LET name == NameOf(fs)
      s == NoOps(checknext(luaX_next(fs), "::"))
  IN  createlabel(Fail(s, \E l \in Range(s.labels) : l.name = name, "label"), name, block_follow(s, FALSE))

whilestat(fs) ==
  LET whileinit == Last1(fs) + 1
      c == cond(luaX_next(luaK_getlabel(fs)))
      loop == block(checknext(enterblock(c, TRUE), "do"))
      back == luaK_patchlist(luaK_jump(loop), Last1(loop) + 1, whileinit)
  IN  luaK_patchtohere(leaveblock(checknext(back, "end")), c.e.f)

repeatstat(fs) ==
  LET init == Last1(fs) + 1
      in == enterblock(enterblock(luaK_getlabel(fs), TRUE), FALSE)
      c == cond(checknext(statlist(luaX_next(in)), "until"))
      bl2 == Last(c.bl)
      scope == leaveblock(c)
      exit == luaK_jump(scope)
      repeated == luaK_patchtohere(exit, c.e.f)
      again == luaK_jump(luaK_codeABC(repeated, "CLOSE", reglevel(repeated, bl2.nactvar), 0, 0))
  IN  leaveblock(IF bl2.upval
                   THEN luaK_patchlist(luaK_patchtohere(again, Last1(exit)), Last1(again), init)
                   ELSE luaK_patchlist(scope, c.e.f, init))

fixforjump(fs, pc, dest, back) ==
  [fs EXCEPT !.code[pc].B = IF back THEN (pc + 1) - dest ELSE dest - (pc + 1)]

forbody(fs, base, nvars, isgen) ==
  LET p == luaK_codeABC(checknext(fs, "do"), IF isgen THEN "TFORPREP" ELSE "FORPREP", base, 0, 0)
      prep == Last1(p)
      in == adjustlocalvars(enterblock([p EXCEPT !.freereg = @ - 1], FALSE), nvars)
      out == leaveblock(block(luaK_reserveregs(in, nvars)))
      end == fixforjump(luaK_getlabel(out), prep, Last1(out) + 1, FALSE)
      call == IF isgen THEN luaK_codeABC(end, "TFORCALL", base, 0, nvars) ELSE end
      loop == luaK_codeABC(call, IF isgen THEN "TFORLOOP" ELSE "FORLOOP", base, 0, 0)
  IN  fixforjump(loop, Last1(loop), prep + 1, TRUE)

exp1(fs) == luaK_exp2nextreg(expr(fs))
ForState(fs) == new_localvar(fs, "(for state)", "reg")

fornum(fs, varname) ==
  LET vars == new_localvar(ForState(ForState(fs)), varname, "const")
      limit == exp1(checknext(exp1(checknext(vars, "=")), ","))
      step == IF Is(limit, ",") THEN exp1(luaX_next(limit))
              ELSE luaK_reserveregs(LoadNumber(limit, limit.freereg, <<"int", 1>>), 1)
  IN  forbody(adjustlocalvars(step, 2), fs.freereg, 1, FALSE)

forlist(fs, indexname) ==
  LET vars == new_localvar(ForState(ForState(ForState(fs))), indexname, "const")
      names == IF Is(vars, ",") THEN attnamelist(luaX_next(vars)) ELSE vars
      ex == explist(checknext(names, "in"))
      s == marktobeclosed(adjustlocalvars(adjust_assign(ex.fs, 4, ex.n), 3))
      room == [s EXCEPT !.max = Max({@, s.freereg + 2})]
  IN  forbody(room, fs.freereg, names.created - fs.created - 3, TRUE)

forstat(fs) ==
  LET s == luaX_next(enterblock(fs, TRUE))
      loop == IF Is(luaX_next(s), "=") THEN fornum(luaX_next(s), NameOf(s)) ELSE forlist(luaX_next(s), NameOf(s))
  IN  leaveblock(checknext(loop, "end"))

RECURSIVE semicolons(_)
semicolons(fs) == IF Is(fs, ";") THEN semicolons(luaX_next(fs)) ELSE fs

(* A condition before a break jumps out itself.  The result has the list   *)
(* of jumps to the end of the statement.                                   *)
test_then_block(fs, escapelist) ==
  LET c == checknext(expr(luaX_next(fs)), "then")
      isbreak == Is(c, "break")
      f == luaK_goiffalse(c)
      b == semicolons(newgotoentry(enterblock(luaX_next(f), FALSE), "break", f.e.t))
      t == luaK_goiftrue(c)
      jf == IF isbreak THEN Last1(b) + 1 ELSE t.e.f
      then == leaveblock(statlist(IF isbreak THEN luaK_jump(b) ELSE enterblock(t, FALSE)))
      escape == luaK_jump(then)
      more == Tok(then)[1] \in {"else", "elseif"}
  IN  IF isbreak /\ block_follow(b, FALSE) THEN [fs |-> leaveblock(b), list |-> escapelist]
      ELSE [fs |-> luaK_patchtohere(IF more THEN luaK_concat(escape, escapelist, Last1(escape)) ELSE then, jf),
            list |-> IF more THEN Joined(escapelist, Last1(escape)) ELSE escapelist]

RECURSIVE ifparts(_)
ifparts(r) == IF Is(r.fs, "elseif") THEN ifparts(test_then_block(r.fs, r.list)) ELSE r

ifstat(fs) ==
  LET r == ifparts(test_then_block(fs, NO_JUMP))
      else == IF Is(r.fs, "else") THEN block(luaX_next(r.fs)) ELSE r.fs
  IN  luaK_patchtohere(checknext(else, "end"), r.list)

statement(fs) ==
  LET n == luaX_next(fs)
      s == CASE Is(fs, ";") -> n
             [] Is(fs, "if") -> ifstat(fs)
             [] Is(fs, "while") -> whilestat(fs)
             [] Is(fs, "do") -> checknext(block(n), "end")
             [] Is(fs, "for") -> forstat(fs)
             [] Is(fs, "repeat") -> repeatstat(fs)
             [] Is(fs, "function") -> funcstat(fs)
             [] Is(fs, "local") -> IF Is(n, "function") THEN localfunc(luaX_next(n)) ELSE localstat(n)
             [] Is(fs, "::") -> labelstat(n)
             [] Is(fs, "return") -> retstat(n)
             [] Is(fs, "break") -> breakstat(fs)
             [] Is(fs, "goto") -> gotostat(n)
             [] OTHER -> exprstat(fs)
  IN  [Check(s, s.max >= s.freereg /\ s.freereg >= s.nvar) EXCEPT !.freereg = s.nvar]

mainfunc(toks) ==
  LET env == [name |-> "_ENV", instack |-> TRUE, idx |-> 0, kind |-> "reg"]
      fs == setvararg(enterblock(NewFunction(toks, <<>>), FALSE))
  IN  close_func(statlist([fs EXCEPT !.ups = <<env>>]))
=============================================================================
