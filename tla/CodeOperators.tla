---------------------------- MODULE CodeOperators ----------------------------
(***************************************************************************)
(* Conditions and operators in the code generator (lcode.c): jumps on a    *)
(* condition, negation, constant folding, and the choice of instructions   *)
(* with immediate or constant operands, which may exchange the operands.   *)
(***************************************************************************)
EXTENDS Code, Bitwise

CONSTANT Width      \* bits of an integer (64 in the program)

(* Arithmetic *)

Wrap(n) == LET u == n % 2 ^ Width IN IF u >= 2 ^ (Width - 1) THEN u - 2 ^ Width ELSE u
Unsigned(n) == n % 2 ^ Width

(* luaV_shiftl                                                             *)
ShiftLeft(x, y) ==
  IF y <= -Width \/ y >= Width THEN 0
  ELSE IF y >= 0 THEN Wrap(Unsigned(x) * 2 ^ y) ELSE Wrap(Unsigned(x) \div 2 ^ (-y))

(* luaO_rawarith: defined when the operands are numbers, other than zero   *)
(* where they divide.  Floats are integral here, and what would be a NaN,  *)
(* an infinity or another failure is left to the metamethod.               *)
Bitwise == {"&", "<<", ">>", "~"}
Integral(op, x, y) == op \in Bitwise \/ (x[1] = "int" /\ y[1] = "int")
Defined(op, x, y) == IsNumber(x) /\ IsNumber(y) /\ (op = "//" => y[2] # 0)
RawArith(op, x, y) ==
  LET a == x[2]
      b == y[2]
      n == CASE op = "+" -> a + b [] op = "-" -> a - b [] op = "*" -> a * b
             [] op = "//" -> IF b > 0 THEN a \div b ELSE (-a) \div (-b)
             [] op = "&" -> Unsigned(a) & Unsigned(b)
             [] op = "<<" -> ShiftLeft(a, b) [] op = ">>" -> ShiftLeft(a, -b)
             [] op = "unm" -> -a [] op = "~" -> -a - 1
  IN  IF Integral(op, x, y) THEN <<"int", Wrap(n)>> ELSE <<"flt", n>>

-----------------------------------------------------------------------------
(* Conditions *)

negatecondition(fs) ==
  LET p == getjumpcontrol(fs, fs.e.info)
  IN  [Check(fs, fs.code[p].op \in TMode \ {"TEST", "TESTSET"}) EXCEPT !.code[p].k = ~@]

(* jumponcond; the jump is the last instruction                            *)
jumponcond(fs, cond) ==
  LET ie == fs.code[fs.e.info]
      removed == [fs EXCEPT !.code = Front(@)]
      any == discharge2anyreg(fs)
      r == any.e.info
  IN  IF fs.e.k = "VRELOC" /\ ie.op = "NOT"
        THEN condjump(Check(removed, fs.e.info = Last1(fs)), "TEST", ie.B, 0, 0, ~cond)
        ELSE condjump(freeexp(any, any.e), "TESTSET", NO_REG, r, 0, cond)

Truths == {"VK", "VKFLT", "VKINT", "VKSTR", "VTRUE"}

luaK_goiftrue(fs) ==
  LET d == luaK_dischargevars(fs)
      n == IF d.e.k = "VJMP" THEN negatecondition(d)
           ELSE IF d.e.k \in Truths THEN d ELSE jumponcond(d, FALSE)
      pc == IF d.e.k = "VJMP" THEN d.e.info ELSE IF d.e.k \in Truths THEN NO_JUMP ELSE Last1(n)
      s == AddFalse(n, pc)
  IN  [luaK_patchtohere(s, s.e.t) EXCEPT !.e.t = NO_JUMP]

luaK_goiffalse(fs) ==
  LET d == luaK_dischargevars(fs)
      n == IF d.e.k \in {"VJMP", "VNIL", "VFALSE"} THEN d ELSE jumponcond(d, TRUE)
      pc == IF d.e.k = "VJMP" THEN d.e.info
            ELSE IF d.e.k \in {"VNIL", "VFALSE"} THEN NO_JUMP ELSE Last1(n)
      s == AddTrue(n, pc)
  IN  [luaK_patchtohere(s, s.e.f) EXCEPT !.e.f = NO_JUMP]

codenot(fs) ==
  LET any == discharge2anyreg(fs)
      n == CASE fs.e.k \in {"VNIL", "VFALSE"} -> With(fs, [fs.e EXCEPT !.k = "VTRUE", !.val = True])
             [] fs.e.k \in Truths -> With(fs, [fs.e EXCEPT !.k = "VFALSE", !.val = False])
             [] fs.e.k = "VJMP" -> negatecondition(fs)
             [] OTHER -> Reloc(freeexp(any, any.e), "NOT", 0, any.e.info, 0)
      swapped == [n EXCEPT !.e.t = n.e.f, !.e.f = n.e.t]
  IN  removevalues(removevalues(swapped, swapped.e.f), swapped.e.t)

-----------------------------------------------------------------------------
(* Operands *)

Numeral(e) == ~hasjumps(e) /\ e.k \in {"VKINT", "VKFLT"}
isKint(e) == e.k = "VKINT" /\ ~hasjumps(e)
isCint(e) == isKint(e) /\ e.val[2] \in 0 .. MAXARG_C
isSCint(e) == isKint(e) /\ fitsC(e.val[2])
isSCnumber(e) == Numeral(e) /\ fitsC(e.val[2])
isKstr(fs, e) == e.k = "VK" /\ ~hasjumps(e) /\ e.info <= MAXARG_B /\ fs.k[e.info + 1][1] = "str"

luaK_indexed(fs, tab) ==
  LET s == IF fs.e.k = "VKSTR" THEN str2K(fs) ELSE fs
      key == s.e
      reg == tab.k = "VUPVAL" /\ ~isKstr(s, key)
      ts == IF reg THEN luaK_exp2anyreg(With(s, tab)) ELSE With(s, tab)
      ks == luaK_exp2anyreg(With(ts, key))
      indexed(fs1, k, idx) == With(fs1, [ts.e EXCEPT !.k = k, !.idx = idx])
  IN  IF ts.e.k = "VUPVAL" THEN indexed(ts, "VINDEXUP", key.info)
      ELSE IF isKstr(s, key) THEN indexed(ts, "VINDEXSTR", key.info)
      ELSE IF isCint(key) THEN indexed(ts, "VINDEXI", key.val[2])
      ELSE indexed(ks, "VINDEXED", ks.e.info)

(* Folding: not when it would fail, nor with a zero or a NaN as result.    *)
validop(op, v1, v2) == op = "//" => v2[2] # 0
Folds(op, e1, e2) ==
  /\ Numeral(e1) /\ Numeral(e2) /\ validop(op, e1.val, e2.val)
  /\ RawArith(op, e1.val, e2.val) # <<"flt", 0>>
Folded(op, e1, e2) ==
  LET v == RawArith(op, e1.val, e2.val)
  IN  [e1 EXCEPT !.k = IF v[1] = "int" THEN "VKINT" ELSE "VKFLT", !.val = v]

(* codeunexpval                                                            *)
codeunexpval(fs, op) ==
  LET s == luaK_exp2anyreg(fs)
  IN  Reloc(freeexp(s, s.e), op, 0, s.e.info, 0)

luaK_prefix(fs, op) ==
  LET d == luaK_dischargevars(fs)
      fake == Constant("VKINT", <<"int", 0>>)
  IN  IF op = "not" THEN codenot(d)
      ELSE IF op # "#" /\ Folds(op, d.e, fake) THEN With(d, Folded(op, d.e, fake))
      ELSE codeunexpval(d, op)

-----------------------------------------------------------------------------
(* Binary operators, on e1 and the expression in hand *)

luaK_infix(fs, op) ==
  LET d == luaK_dischargevars(fs)
  IN  CASE op = "and" -> luaK_goiftrue(d)
        [] op = "or" -> luaK_goiffalse(d)
        [] op = ".." -> luaK_exp2nextreg(d)
        [] op \in {"+", "-", "*", "//", "&", "<<", ">>"} ->
             IF Numeral(d.e) THEN d ELSE luaK_exp2anyreg(d)
        [] op \in {"==", "~="} -> IF Numeral(d.e) THEN d ELSE exp2RK(d)
        [] OTHER -> IF isSCnumber(d.e) THEN d ELSE luaK_exp2anyreg(d)

(* op with B in a register and C as given, and the call of a metamethod    *)
(* in case it fails.                                                       *)
finishbinexpval(fs, e1, e2, op, v2, flip, mmop, event) ==
  LET a == luaK_exp2anyreg(With(fs, e1))
      coded == luaK_codeABC(a, op, 0, a.e.info, v2)
      free == freeexps(coded, a.e, e2)
      r == With(free, [a.e EXCEPT !.k = "VRELOC", !.info = Last1(coded)])
  IN  luaK_codeABCk(r, mmop, a.e.info, v2, event, flip)

codebinexpval(fs, op, e1, e2) ==
  LET b == luaK_exp2anyreg(With(fs, e2))
  IN  finishbinexpval(b, e1, b.e, op, b.e.info, FALSE, "MMBIN", op)

(* e1 op -I instead of e1 - I or e1 << I; the metamethod gets I.           *)
finishbinexpneg(fs, e1, e2, op, event) ==
  LET s == finishbinexpval(fs, e1, e2, op, int2sC(-e2.val[2]), FALSE, "MMBINI", event)
  IN  [s EXCEPT !.code[Last1(s)].B = int2sC(e2.val[2])]
CanNegate(e2) == isKint(e2) /\ fitsC(e2.val[2]) /\ fitsC(-e2.val[2])

OpOfK == [ADDK |-> "+", SUBK |-> "-", MULK |-> "*", IDIVK |-> "//", BANDK |-> "&"]
KForm(op) == CHOOSE n \in DOMAIN OpOfK : OpOfK[n] = op

codearith(fs, op, e1, e2, flip) ==
  LET k == IF Numeral(e2) THEN luaK_exp2K(With(fs, e2)) ELSE With(fs, e2)
  IN  IF Numeral(e2) /\ FitsK(With(fs, e2))
        THEN finishbinexpval(k, e1, k.e, KForm(op), k.e.info, flip, "MMBINK", op)
      ELSE IF flip THEN codebinexpval(k, op, e2, e1) ELSE codebinexpval(k, op, e1, e2)

codecommutative(fs, op, e1, e2) ==
  LET flip == Numeral(e1)
      x == IF flip THEN e2 ELSE e1
      y == IF flip THEN e1 ELSE e2
  IN  IF op = "+" /\ isSCint(y)
        THEN finishbinexpval(fs, x, y, "ADDI", int2sC(y.val[2]), flip, "MMBINI", "+")
        ELSE codearith(fs, op, x, y, flip)

codebitwise(fs, op, e1, e2) ==
  LET flip == e1.k = "VKINT"
      x == IF flip THEN e2 ELSE e1
      y == IF flip THEN e1 ELSE e2
  IN  IF y.k = "VKINT" THEN codearith(fs, op, x, y, flip)
      ELSE IF flip THEN codebinexpval(fs, op, y, x) ELSE codebinexpval(fs, op, x, y)

codeshl(fs, e1, e2) ==
  IF isSCint(e1) THEN finishbinexpval(fs, e2, e1, "SHLI", int2sC(e1.val[2]), TRUE, "MMBINI", "<<")
  ELSE IF CanNegate(e2) THEN finishbinexpneg(fs, e1, e2, "SHRI", "<<")
  ELSE codebinexpval(fs, "<<", e1, e2)

codeshr(fs, e1, e2) ==
  IF isSCint(e2) THEN finishbinexpval(fs, e1, e2, "SHRI", int2sC(e2.val[2]), FALSE, "MMBINI", ">>")
  ELSE codebinexpval(fs, ">>", e1, e2)

Comparison(fs, e1, e2, op, r1, r2, c, k) ==
  LET s == condjump(freeexps(fs, e1, e2), op, r1, r2, c, k)
  IN  With(s, [e1 EXCEPT !.k = "VJMP", !.info = Last1(s)])

(* op is < or <=                                                           *)
codeorder(fs, op, e1, e2) ==
  LET a == luaK_exp2anyreg(With(fs, e1))
      b == luaK_exp2anyreg(With(fs, e2))
      ab == luaK_exp2anyreg(With(a, e2))
      name(lt, le) == IF op = "<" THEN lt ELSE le
  IN  IF isSCnumber(e2)
        THEN Comparison(a, a.e, e2, name("LTI", "LEI"), a.e.info, int2sC(e2.val[2]), e2.val[1], TRUE)
      ELSE IF isSCnumber(e1)
        THEN Comparison(b, e1, b.e, name("GTI", "GEI"), b.e.info, int2sC(e1.val[2]), e1.val[1], TRUE)
      ELSE Comparison(ab, a.e, ab.e, name("LT", "LE"), a.e.info, ab.e.info, 0, TRUE)

codeeq(fs, op, e1, e2) ==
  LET swap == e1.k # "VNONRELOC"
      a == luaK_exp2anyreg(With(fs, IF swap THEN e2 ELSE e1))
      y == IF swap THEN e1 ELSE e2
      b == exp2RK(With(a, y))
  IN  IF isSCnumber(y)
        THEN Comparison(a, a.e, y, "EQI", a.e.info, int2sC(y.val[2]), y.val[1], op = "==")
        ELSE Comparison(b, a.e, b.e, IF FitsK(With(a, y)) THEN "EQK" ELSE "EQ",
                        a.e.info, b.e.info, 0, op = "==")

(* A concatenation is merged with the one on its right.                    *)
codeconcat(fs, e1) ==
  LET p == Last1(fs)
      ie2 == previousinstruction(fs)
  IN  IF ie2.op = "CONCAT"
        THEN [freeexp(Check(fs, e1.info + 1 = ie2.A), fs.e) EXCEPT
                !.code[p].A = e1.info, !.code[p].B = @ + 1, !.e = e1]
        ELSE With(freeexp(luaK_codeABC(fs, "CONCAT", e1.info, 2, 0), fs.e), e1)

luaK_posfix(fs, op, e1) ==
  LET d == luaK_dischargevars(fs)
      e2 == d.e
  IN  IF op \in {"+", "-", "*", "//", "&", "<<", ">>"} /\ Folds(op, e1, e2) THEN With(d, Folded(op, e1, e2))
      ELSE CASE op = "and" -> AddFalse(d, e1.f)
             [] op = "or" -> AddTrue(d, e1.t)
             [] op = ".." -> codeconcat(luaK_exp2nextreg(d), e1)
             [] op \in {"+", "*"} -> codecommutative(d, op, e1, e2)
             [] op = "-" -> IF CanNegate(e2) THEN finishbinexpneg(d, e1, e2, "ADDI", "-")
                            ELSE codearith(d, op, e1, e2, FALSE)
             [] op = "//" -> codearith(d, op, e1, e2, FALSE)
             [] op = "&" -> codebitwise(d, op, e1, e2)
             [] op = "<<" -> codeshl(d, e1, e2)
             [] op = ">>" -> codeshr(d, e1, e2)
             [] op \in {"==", "~="} -> codeeq(d, op, e1, e2)
             [] op = ">" -> codeorder(d, "<", e2, e1)
             [] op = ">=" -> codeorder(d, "<=", e2, e1)
             [] OTHER -> codeorder(d, op, e1, e2)

(* luaK_settablesize and luaK_setlist: sizes beyond an operand go to the   *)
(* extra argument.                                                         *)
luaK_settablesize(fs, pc, ra, asize, hsize) ==
  LET extra == asize \div (MAXARG_vC + 1)
  IN  [fs EXCEPT !.code[pc] = Instruction("NEWTABLE", ra, hsize, asize % (MAXARG_vC + 1), extra > 0),
                 !.code[pc + 1] = Instruction("EXTRAARG", extra, 0, 0, FALSE)]

luaK_setlist(fs, base, nelems, tostore) ==
  LET coded == IF nelems <= MAXARG_vC THEN luaK_codeABC(fs, "SETLIST", base, tostore, nelems)
               ELSE luaK_codeABC(luaK_codeABCk(fs, "SETLIST", base, tostore,
                                               nelems % (MAXARG_vC + 1), TRUE),
                                 "EXTRAARG", nelems \div (MAXARG_vC + 1), 0, 0)
  IN  [coded EXCEPT !.freereg = base + 1]
=============================================================================
