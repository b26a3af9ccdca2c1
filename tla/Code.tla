-------------------------------- MODULE Code --------------------------------
(***************************************************************************)
(* The code generator (lcode.c): how the description of an expression      *)
(* becomes instructions, registers and lists of pending jumps.             *)
(*                                                                         *)
(* A function under construction, fs, is a record with                     *)
(*   code        its instructions; positions count from 1                  *)
(*   k           its constants; indices count from 0                       *)
(*   freereg, nvar, max                                                    *)
(*               first free register, registers of local variables         *)
(*               (luaY_nvarstack), and the highest register ever used      *)
(*   lasttarget  position of the last jump target                          *)
(*   ok          no assertion of lcode.c failed                            *)
(*   e           the expression in hand                                    *)
(* and an expression e (expdesc) with its kind, the position, register or  *)
(* index info, the key idx of an indexed variable, the value val of a      *)
(* constant, and its lists t and f of jumps taken when it is true or       *)
(* false.  Line information is left out.                                   *)
(***************************************************************************)
EXTENDS Integers, SequencesExt

CONSTANTS
  OFFSET_sC, MAXARG_C,       \* operands of small integers: -OFFSET_sC .. MAXARG_C - OFFSET_sC
  OFFSET_sBx, MAXARG_Bx,     \* the same for loads
  MAXINDEXRK, MAXARG_B,      \* indices of constants in other operands
  MAXARG_vC                  \* sizes and indices of constructors

ASSUME CodeConstants ==
  /\ {OFFSET_sC, MAXARG_C, OFFSET_sBx, MAXARG_Bx, MAXINDEXRK, MAXARG_B, MAXARG_vC} \subseteq Nat
  /\ OFFSET_sC < MAXARG_C /\ OFFSET_sBx < MAXARG_Bx /\ MAXINDEXRK <= MAXARG_B

NO_JUMP == -1
NO_REG == -1

(* Values are tuples that start with their type.                           *)
Nil == <<"nil">>
True == <<"true">>
False == <<"false">>
IsFalse(v) == v \in {Nil, False}
IsNumber(v) == v[1] \in {"int", "flt"}

Expression(k, info) ==
  [k |-> k, info |-> info, idx |-> 0, val |-> Nil, t |-> NO_JUMP, f |-> NO_JUMP]
Constant(k, v) == [Expression(k, 0) EXCEPT !.val = v]

With(fs, e) == [fs EXCEPT !.e = e]
hasjumps(e) == e.t # e.f
Check(fs, assertion) == [fs EXCEPT !.ok = @ /\ assertion]

-----------------------------------------------------------------------------
(* Instructions *)

Instruction(op, a, b, c, k) == [op |-> op, A |-> a, B |-> b, C |-> c, k |-> k]
luaK_codeABCk(fs, op, a, b, c, k) ==
  [fs EXCEPT !.code = Append(@, Instruction(op, a, b, c, k))]
luaK_codeABC(fs, op, a, b, c) == luaK_codeABCk(fs, op, a, b, c, FALSE)
Last1(fs) == Len(fs.code)      \* position of the last instruction

TMode == {"EQ", "LT", "LE", "EQK", "EQI", "LTI", "LEI", "GTI", "GEI", "TEST", "TESTSET"}

previousinstruction(fs) ==
  IF Last1(fs) + 1 > fs.lasttarget THEN Last(fs.code) ELSE Instruction("invalid", 0, 0, 0, FALSE)

luaK_nil(fs, from, n) ==
  LET l == from + n - 1
      previous == previousinstruction(fs)
      pl == previous.A + previous.B
      start == IF previous.A < from THEN previous.A ELSE from
      stop == IF pl > l THEN pl ELSE l
  IN  IF /\ previous.op = "LOADNIL"
         /\ \/ previous.A <= from /\ from <= pl + 1
            \/ from <= previous.A /\ previous.A <= l + 1
        THEN [fs EXCEPT !.code[Last1(fs)] = Instruction("LOADNIL", start, stop - start, 0, FALSE)]
        ELSE luaK_codeABC(fs, "LOADNIL", from, n - 1, 0)

-----------------------------------------------------------------------------
(* Lists of jumps: the links are the jumps' own offsets *)

luaK_jump(fs) == luaK_codeABC(fs, "JMP", 0, NO_JUMP, 0)

getjump(fs, pc) ==
  IF fs.code[pc].B = NO_JUMP THEN NO_JUMP ELSE pc + 1 + fs.code[pc].B

fixjump(fs, pc, dest) ==
  [Check(fs, dest # NO_JUMP /\ fs.code[pc].op = "JMP") EXCEPT !.code[pc].B = dest - (pc + 1)]

RECURSIVE Jumps(_, _)
Jumps(fs, list) == IF list = NO_JUMP THEN <<>> ELSE <<list>> \o Jumps(fs, getjump(fs, list))

(* The second list replaces the links of the first.                        *)
FaultyluaK_concat(fs, l1, l2) ==
  IF l1 = NO_JUMP \/ l2 = NO_JUMP THEN fs ELSE fixjump(fs, l1, l2)

(* luaK_concat changes the last link of l1; Joined is its new head.        *)
luaK_concat(fs, l1, l2) ==
  IF l1 = NO_JUMP \/ l2 = NO_JUMP THEN fs ELSE fixjump(fs, Last(Jumps(fs, l1)), l2)

Joined(l1, l2) == IF l1 = NO_JUMP THEN l2 ELSE l1
AddTrue(fs, list) == [luaK_concat(fs, fs.e.t, list) EXCEPT !.e.t = Joined(@, list)]
AddFalse(fs, list) == [luaK_concat(fs, fs.e.f, list) EXCEPT !.e.f = Joined(@, list)]

condjump(fs, op, a, b, c, k) == luaK_jump(luaK_codeABCk(fs, op, a, b, c, k))
luaK_getlabel(fs) == [fs EXCEPT !.lasttarget = Last1(fs) + 1]

getjumpcontrol(fs, pc) == IF pc > 1 /\ fs.code[pc - 1].op \in TMode THEN pc - 1 ELSE pc

IsTestSet(fs, node) == fs.code[getjumpcontrol(fs, node)].op = "TESTSET"

patchtestreg(fs, node, reg) ==
  LET p == getjumpcontrol(fs, node)
      i == fs.code[p]
  IN  IF i.op # "TESTSET" THEN fs
      ELSE IF reg # NO_REG /\ reg # i.B THEN [fs EXCEPT !.code[p].A = reg]
      ELSE [fs EXCEPT !.code[p] = Instruction("TEST", i.B, 0, 0, i.k)]

removevalues(fs, list) ==
  FoldLeft(LAMBDA s, node : patchtestreg(s, node, NO_REG), fs, Jumps(fs, list))

patchlistaux(fs, list, vtarget, reg, dtarget) ==
  LET patch(s, node) ==
        fixjump(patchtestreg(s, node, reg), node, IF IsTestSet(s, node) THEN vtarget ELSE dtarget)
  IN  FoldLeft(patch, fs, Jumps(fs, list))

luaK_patchlist(fs, list, target) == patchlistaux(fs, list, target, NO_REG, target)
luaK_patchtohere(fs, list) == luaK_patchlist(luaK_getlabel(fs), list, Last1(fs) + 1)

need_value(fs, list) == \E node \in Range(Jumps(fs, list)) : ~IsTestSet(fs, node)

-----------------------------------------------------------------------------
(* Registers and constants *)

luaK_reserveregs(fs, n) ==
  [fs EXCEPT !.freereg = @ + n, !.max = IF fs.freereg + n > @ THEN fs.freereg + n ELSE @]

freereg(fs, reg) ==
  IF reg >= fs.nvar THEN [Check(fs, reg = fs.freereg - 1) EXCEPT !.freereg = @ - 1] ELSE fs
freeregs(fs, r1, r2) ==
  IF r1 > r2 THEN freereg(freereg(fs, r1), r2) ELSE freereg(freereg(fs, r2), r1)
RegisterOf(e) == IF e.k = "VNONRELOC" THEN e.info ELSE -1
freeexp(fs, e) == freereg(fs, RegisterOf(e))
freeexps(fs, e1, e2) == freeregs(fs, RegisterOf(e1), RegisterOf(e2))

(* Equal constants of one type share an entry.                             *)
addk(fs, v) == IF v \in Range(fs.k) THEN fs ELSE [fs EXCEPT !.k = Append(@, v)]
IndexK(fs, v) == (CHOOSE i \in DOMAIN fs.k : fs.k[i] = v) - 1

fitsC(i) == i + OFFSET_sC \in 0 .. MAXARG_C
fitsBx(i) == i + OFFSET_sBx \in 0 .. MAXARG_Bx
int2sC(i) == i + OFFSET_sC
sC2int(i) == i - OFFSET_sC

luaK_codek(fs, reg, k) ==
  IF k <= MAXARG_Bx THEN luaK_codeABC(fs, "LOADK", reg, k, 0)
  ELSE luaK_codeABC(luaK_codeABC(fs, "LOADKX", reg, 0, 0), "EXTRAARG", k, 0, 0)

(* luaK_int and luaK_float                                                 *)
LoadNumber(fs, reg, v) ==
  IF fitsBx(v[2])
    THEN luaK_codeABC(fs, IF v[1] = "int" THEN "LOADI" ELSE "LOADF", reg, v[2], 0)
    ELSE luaK_codek(addk(fs, v), reg, IndexK(addk(fs, v), v))

const2exp(v) ==
  Constant(CASE v[1] = "int" -> "VKINT" [] v[1] = "flt" -> "VKFLT" [] v = False -> "VFALSE"
             [] v = True -> "VTRUE" [] v = Nil -> "VNIL" [] v[1] = "str" -> "VKSTR", v)

-----------------------------------------------------------------------------
(* Discharging expressions into registers *)

hasmultret(k) == k \in {"VCALL", "VVARARG"}

luaK_setreturns(fs, nresults) ==
  IF fs.e.k = "VCALL" THEN [fs EXCEPT !.code[fs.e.info].C = nresults + 1]
  ELSE luaK_reserveregs([fs EXCEPT !.code[fs.e.info].C = nresults + 1,
                                   !.code[fs.e.info].A = fs.freereg], 1)

NonReloc(fs, reg) == [fs EXCEPT !.e.k = "VNONRELOC", !.e.info = reg]
Reloc(fs, op, a, b, c) ==
  [luaK_codeABC(fs, op, a, b, c) EXCEPT !.e.k = "VRELOC", !.e.info = Last1(fs) + 1]

luaK_setoneret(fs) ==
  CASE fs.e.k = "VCALL" -> NonReloc(Check(fs, fs.code[fs.e.info].C = 2), fs.code[fs.e.info].A)
    [] fs.e.k = "VVARARG" -> [fs EXCEPT !.code[fs.e.info].C = 2, !.e.k = "VRELOC"]
    [] OTHER -> fs

luaK_dischargevars(fs) ==
  LET e == fs.e
  IN  CASE e.k = "VCONST" -> With(fs, [const2exp(e.val) EXCEPT !.t = e.t, !.f = e.f])
        [] e.k = "VLOCAL" -> NonReloc(fs, e.info)
        [] e.k = "VUPVAL" -> Reloc(fs, "GETUPVAL", 0, e.info, 0)
        [] e.k = "VINDEXUP" -> Reloc(fs, "GETTABUP", 0, e.info, e.idx)
        [] e.k = "VINDEXI" -> Reloc(freereg(fs, e.info), "GETI", 0, e.info, e.idx)
        [] e.k = "VINDEXSTR" -> Reloc(freereg(fs, e.info), "GETFIELD", 0, e.info, e.idx)
        [] e.k = "VINDEXED" -> Reloc(freeregs(fs, e.info, e.idx), "GETTABLE", 0, e.info, e.idx)
        [] OTHER -> luaK_setoneret(fs)

str2K(fs) ==
  LET s == addk(fs, fs.e.val)
  IN  [s EXCEPT !.e.k = "VK", !.e.info = IndexK(s, fs.e.val)]

discharge2reg(fs, reg) ==
  LET d == luaK_dischargevars(fs)
      e == d.e
      loaded ==
        CASE e.k = "VNIL" -> luaK_nil(d, reg, 1)
          [] e.k = "VFALSE" -> luaK_codeABC(d, "LOADFALSE", reg, 0, 0)
          [] e.k = "VTRUE" -> luaK_codeABC(d, "LOADTRUE", reg, 0, 0)
          [] e.k = "VKSTR" -> luaK_codek(str2K(d), reg, str2K(d).e.info)
          [] e.k = "VK" -> luaK_codek(d, reg, e.info)
          [] e.k \in {"VKFLT", "VKINT"} -> LoadNumber(d, reg, e.val)
          [] e.k = "VRELOC" -> [d EXCEPT !.code[e.info].A = reg]
          [] e.k = "VNONRELOC" /\ reg # e.info -> luaK_codeABC(d, "MOVE", reg, e.info, 0)
          [] OTHER -> d
  IN  IF e.k = "VJMP" THEN d ELSE NonReloc(loaded, reg)

discharge2anyreg(fs) ==
  IF fs.e.k = "VNONRELOC" THEN fs
  ELSE discharge2reg(luaK_reserveregs(fs, 1), fs.freereg)

code_loadbool(fs, reg, op) == luaK_codeABC(luaK_getlabel(fs), op, reg, 0, 0)

(* The two loads for the jumps that carry no value, jumped over otherwise. *)
LoadBooleans(fs, reg) ==
  LET isjump == fs.e.k = "VJMP"
      over == IF isjump THEN fs ELSE luaK_jump(fs)
      loads == code_loadbool(code_loadbool(over, reg, "LFALSESKIP"), reg, "LOADTRUE")
  IN  luaK_patchtohere(loads, IF isjump THEN NO_JUMP ELSE Last1(fs) + 1)

exp2reg(fs, reg) ==
  LET d == discharge2reg(fs, reg)
      own == IF d.e.k = "VJMP" THEN AddTrue(d, d.e.info) ELSE d
      e == own.e
      loads == IF need_value(own, e.t) \/ need_value(own, e.f) THEN LoadBooleans(own, reg) ELSE own
      p_t == Last1(loads)
      final == p_t + 1
      label == luaK_getlabel(loads)
      patched == patchlistaux(patchlistaux(label, e.f, final, reg, p_t - 1), e.t, final, reg, p_t)
  IN  With(IF hasjumps(e) THEN patched ELSE own, Expression("VNONRELOC", reg))

luaK_exp2nextreg(fs) ==
  LET d == luaK_dischargevars(fs)
      r == luaK_reserveregs(freeexp(d, d.e), 1)
  IN  exp2reg(r, r.freereg - 1)

(* A local variable with pending jumps is taken to be in its register.     *)
FaultyluaK_exp2anyreg(fs) ==
  LET d == luaK_dischargevars(fs)
  IN  IF d.e.k # "VNONRELOC" THEN luaK_exp2nextreg(d)
      ELSE IF ~hasjumps(d.e) THEN d
      ELSE exp2reg(d, d.e.info)

luaK_exp2anyreg(fs) ==
  LET d == luaK_dischargevars(fs)
  IN  IF d.e.k # "VNONRELOC" THEN luaK_exp2nextreg(d)
      ELSE IF ~hasjumps(d.e) THEN d
      ELSE IF d.e.info >= d.nvar THEN exp2reg(d, d.e.info)
      ELSE luaK_exp2nextreg(d)

luaK_exp2anyregup(fs) == IF fs.e.k # "VUPVAL" \/ hasjumps(fs.e) THEN luaK_exp2anyreg(fs) ELSE fs
luaK_exp2val(fs) ==
  IF fs.e.k = "VJMP" \/ hasjumps(fs.e) THEN luaK_exp2anyreg(fs) ELSE luaK_dischargevars(fs)

(* luaK_exp2K adds the constant even when its index turns out not to fit.  *)
IsConstant(e) == ~hasjumps(e) /\ e.k \in {"VTRUE", "VFALSE", "VNIL", "VKINT", "VKFLT", "VKSTR", "VK"}
WithK(fs) == IF IsConstant(fs.e) /\ fs.e.k # "VK" THEN addk(fs, fs.e.val) ELSE fs
KIndex(fs) == IF fs.e.k = "VK" THEN fs.e.info ELSE IndexK(WithK(fs), fs.e.val)
FitsK(fs) == IsConstant(fs.e) /\ KIndex(fs) <= MAXINDEXRK
luaK_exp2K(fs) ==
  IF FitsK(fs) THEN [WithK(fs) EXCEPT !.e.k = "VK", !.e.info = KIndex(fs)] ELSE WithK(fs)
exp2RK(fs) == IF FitsK(fs) THEN luaK_exp2K(fs) ELSE luaK_exp2anyreg(WithK(fs))
codeABRK(fs, op, a, b) ==
  LET s == exp2RK(fs) IN luaK_codeABCk(s, op, a, b, s.e.info, FitsK(fs))

luaK_storevar(fs, var) ==
  LET up == luaK_exp2anyreg(fs)
      stored ==
        CASE var.k = "VLOCAL" -> exp2reg(freeexp(fs, fs.e), var.info)
          [] var.k = "VUPVAL" -> luaK_codeABC(up, "SETUPVAL", up.e.info, var.info, 0)
          [] var.k = "VINDEXUP" -> codeABRK(fs, "SETTABUP", var.info, var.idx)
          [] var.k = "VINDEXI" -> codeABRK(fs, "SETI", var.info, var.idx)
          [] var.k = "VINDEXSTR" -> codeABRK(fs, "SETFIELD", var.info, var.idx)
          [] var.k = "VINDEXED" -> codeABRK(fs, "SETTABLE", var.info, var.idx)
          [] OTHER -> Check(fs, FALSE)
  IN  IF var.k = "VLOCAL" THEN stored ELSE freeexp(stored, stored.e)

luaK_self(fs, key) ==
  LET obj == luaK_exp2anyreg(fs)
      free == freeexp(obj, obj.e)
      base == free.freereg
      s == codeABRK(With(luaK_reserveregs(free, 2), key), "SELF", base, obj.e.info)
  IN  With(freeexp(s, s.e), Expression("VNONRELOC", base))
=============================================================================
