------------------------------ MODULE Execution ------------------------------
(***************************************************************************)
(* The virtual machine (lvm.c) on the code of expressions and assignments. *)
(* What a metamethod, an index of a foreign value or a call does is not    *)
(* followed: it is an event, recorded with its operands, and its result is *)
(* a value of its own.  A table made by a constructor is <<"new", map>>.   *)
(*                                                                         *)
(* The state m has pc, the registers R, the upvalues up, the top of an     *)
(* open list of values, the events ev, the sizes of the arrays of new      *)
(* tables, and ok: no assertion failed.                                    *)
(***************************************************************************)
EXTENDS Parser

(* Operations on values; a result is a value and the events it took.       *)
Result(v, ev) == [v |-> v, ev |-> ev]
Event(e) == Result(e, <<e>>)
Truth(b) == IF b THEN True ELSE False
(* What the world sees of a value.                                         *)
Shown(v) == IF v[1] = "fun" THEN <<"fun">> ELSE v
Happens(what, x, y) == Event(<<what, Shown(x), Shown(y)>>)

Primitive(v) == v[1] \in {"nil", "true", "false", "int", "flt", "str"}
RawEqual(x, y) == IF IsNumber(x) /\ IsNumber(y) THEN x[2] = y[2] ELSE x = y

Arith(op, x, y) == IF Defined(op, x, y) THEN Result(RawArith(op, x, y), <<>>) ELSE Happens(op, x, y)
Less(x, y) == IF IsNumber(x) /\ IsNumber(y) THEN Result(Truth(x[2] < y[2]), <<>>)
              ELSE Result(True, <<<<"<", Shown(x), Shown(y)>>>>)
LessEqual(x, y) == IF IsNumber(x) /\ IsNumber(y) THEN Result(Truth(x[2] <= y[2]), <<>>)
                   ELSE Result(False, <<<<"<=", Shown(x), Shown(y)>>>>)
Equal(x, y) == IF Primitive(x) \/ Primitive(y) \/ x = y THEN Result(Truth(RawEqual(x, y)), <<>>)
               ELSE Result(True, <<<<"==", Shown(x), Shown(y)>>>>)
Length(x) == Event(<<"#", Shown(x)>>)
Field(t, k) == IF t[1] = "new" THEN Result(IF k \in DOMAIN t[2] THEN t[2][k] ELSE Nil, <<>>)
               ELSE Happens("at", t, k)
Stringy(v) == v[1] \in {"str", "int", "flt"}
Parts(v) == IF v[1] = "str" THEN v[2] ELSE <<v>>
Concat(x, y) == IF Stringy(x) /\ Stringy(y) THEN Result(<<"str", Parts(x) \o Parts(y)>>, <<>>)
                ELSE Happens("..", x, y)
Results(f, args) == <<<<"res1", f, args>>, <<"res2", f, args>>>>

-----------------------------------------------------------------------------
(* Instructions *)

Next1(m) == [m EXCEPT !.pc = @ + 1]
Put(m, reg, r) == [m EXCEPT !.R[reg] = r.v, !.ev = @ \o r.ev, !.pc = @ + 1]
Load(m, reg, v) == Put(m, reg, Result(v, <<>>))

(* An operator that succeeds skips the call of the metamethod.             *)
TryArith(m, reg, op, x, y) ==
  IF Defined(op, x, y) THEN [m EXCEPT !.R[reg] = RawArith(op, x, y), !.pc = @ + 2] ELSE Next1(m)

(* docondjump: the next instruction is a jump                              *)
CondJump(code, m, r, k) ==
  LET n == [m EXCEPT !.ev = @ \o r.ev]
  IN  IF (r.v = True) # k THEN [n EXCEPT !.pc = @ + 2] ELSE [n EXCEPT !.pc = @ + 2 + code[m.pc + 1].B]

PutList(m, reg, vs, wanted) ==
  LET n == IF wanted < 0 THEN Len(vs) ELSE wanted
      value(j) == IF j <= Len(vs) THEN vs[j] ELSE Nil
  IN  [m EXCEPT !.R = [q \in DOMAIN @ |-> IF q \in reg .. reg + n - 1 THEN value(q - reg + 1) ELSE @[q]],
                !.top = reg + n, !.pc = @ + 1]

Store(m, t, k, v) == Next1([m EXCEPT !.ev = Append(@, <<"set", Shown(t), Shown(k), Shown(v)>>)])

SetField(m, reg, k, v) ==
  LET t == m.R[reg]
  IN  IF t[1] = "new" THEN Next1([m EXCEPT !.R[reg] = <<"new", (k :> v) @@ t[2]>>])
      ELSE Store(m, t, k, v)

(* SETLIST writes into the array part, whose size must suffice unless the  *)
(* number of values was open.                                              *)
SetList(code, m, i) ==
  LET n == IF i.B = 0 THEN m.top - i.A - 1 ELSE i.B
      last == i.C + (IF i.k THEN code[m.pc + 1].A * (MAXARG_vC + 1) ELSE 0)
      t == m.R[i.A]
      items == [j \in {<<"int", last + x>> : x \in 1 .. n} |-> m.R[i.A + j[2] - last]]
  IN  [m EXCEPT !.R[i.A] = <<"new", items @@ t[2]>>,
                !.ok = @ /\ (i.B # 0 => last + n <= m.asize[i.A]),
                !.pc = @ + (IF i.k THEN 2 ELSE 1)]

NewTable(code, m, i) ==
  LET asize == i.C + (IF i.k THEN code[m.pc + 1].A * (MAXARG_vC + 1) ELSE 0)
  IN  Next1(Load([m EXCEPT !.asize[i.A] = asize], i.A, <<"new", <<>>>>))

RECURSIVE Concatenate(_)
Concatenate(vs) ==
  IF Len(vs) = 1 THEN Result(vs[1], <<>>)
  ELSE LET r == Concat(vs[Len(vs) - 1], vs[Len(vs)])
           s == Concatenate(Append(SubSeq(vs, 1, Len(vs) - 2), r.v))
       IN  Result(s.v, r.ev \o s.ev)

(* What a call leaves above its results is not defined.                    *)
Trash(m, reg) == [m EXCEPT !.R = [q \in DOMAIN @ |-> IF q >= reg THEN <<"old">> ELSE @[q]]]

Arguments(m, i) == [j \in 1 .. (IF i.B = 0 THEN m.top - i.A - 1 ELSE i.B - 1) |-> m.R[i.A + j]]

Call(m, i) ==
  LET args == Arguments(m, i)
      f == m.R[i.A]
  IN  PutList([Trash(m, i.A) EXCEPT !.ev = Append(@, <<"call", f, args>>)], i.A, Results(f, args), i.C - 1)

LoadOps == {"MOVE", "LOADI", "LOADF", "LOADK", "LOADKX", "LOADFALSE", "LFALSESKIP", "LOADTRUE", "LOADNIL",
            "GETUPVAL", "SETUPVAL"}
StepLoad(code, k, m, i) ==
  CASE i.op = "MOVE" -> Load(m, i.A, m.R[i.B])
    [] i.op = "LOADI" -> Load(m, i.A, <<"int", i.B>>)
    [] i.op = "LOADF" -> Load(m, i.A, <<"flt", i.B>>)
    [] i.op = "LOADK" -> Load(m, i.A, k[i.B + 1])
    [] i.op = "LOADKX" -> Next1(Load(m, i.A, k[code[m.pc + 1].A + 1]))
    [] i.op = "LOADFALSE" -> Load(m, i.A, False)
    [] i.op = "LFALSESKIP" -> Next1(Load(m, i.A, False))
    [] i.op = "LOADTRUE" -> Load(m, i.A, True)
    [] i.op = "LOADNIL" -> PutList(m, i.A, <<>>, i.B + 1)
    [] i.op = "GETUPVAL" -> Load(m, i.A, m.up[i.B])
    [] i.op = "SETUPVAL" -> Next1([m EXCEPT !.up[i.B] = m.R[i.A]])

RKC(k, m, i) == IF i.k THEN k[i.C + 1] ELSE m.R[i.C]

TableOps == {"GETTABUP", "GETTABLE", "GETI", "GETFIELD", "SETTABUP", "SETTABLE", "SETI", "SETFIELD",
             "NEWTABLE", "SETLIST", "SELF"}
StepTable(code, k, m, i) ==
  LET B == m.R[i.B]
  IN  CASE i.op = "GETTABUP" -> Put(m, i.A, Field(m.up[i.B], k[i.C + 1]))
        [] i.op = "GETTABLE" -> Put(m, i.A, Field(B, m.R[i.C]))
        [] i.op = "GETI" -> Put(m, i.A, Field(B, <<"int", i.C>>))
        [] i.op = "GETFIELD" -> Put(m, i.A, Field(B, k[i.C + 1]))
        [] i.op = "SETTABUP" -> Store(m, m.up[i.A], k[i.B + 1], RKC(k, m, i))
        [] i.op = "SETTABLE" -> SetField(m, i.A, B, RKC(k, m, i))
        [] i.op = "SETI" -> SetField(m, i.A, <<"int", i.B>>, RKC(k, m, i))
        [] i.op = "SETFIELD" -> SetField(m, i.A, k[i.B + 1], RKC(k, m, i))
        [] i.op = "NEWTABLE" -> NewTable(code, m, i)
        [] i.op = "SETLIST" -> SetList(code, m, i)
        [] i.op = "SELF" -> Put([m EXCEPT !.R[i.A + 1] = B], i.A, Field(B, RKC(k, m, i)))

(* The call of a metamethod finds the register of the result in the        *)
(* instruction before it.                                                  *)
BinaryOps == {"+", "-", "*", "//", "&", "<<", ">>"}
StepBinary(code, k, m, i) ==
  LET A == m.R[i.A]
      B == m.R[i.B]
      sB == <<"int", sC2int(i.B)>>
      sC == <<"int", sC2int(i.C)>>
      result == code[m.pc - 1].A
      flipped(x, y) == IF i.k THEN Happens(i.C, y, x) ELSE Happens(i.C, x, y)
  IN  CASE i.op = "ADDI" -> TryArith(m, i.A, "+", B, sC)
        [] i.op = "SHRI" -> TryArith(m, i.A, ">>", B, sC)
        [] i.op = "SHLI" -> TryArith(m, i.A, "<<", sC, B)
        [] i.op \in DOMAIN OpOfK -> TryArith(m, i.A, OpOfK[i.op], B, k[i.C + 1])
        [] i.op \in BinaryOps -> TryArith(m, i.A, i.op, B, m.R[i.C])
        [] i.op = "MMBIN" -> Put(m, result, Happens(i.C, A, B))
        [] i.op = "MMBINI" -> Put(m, result, flipped(A, sB))
        [] i.op = "MMBINK" -> Put(m, result, flipped(A, k[i.B + 1]))

UnaryOps == {"unm", "~", "NOT", "#", "CONCAT"}
StepUnary(m, i) ==
  LET B == m.R[i.B]
  IN  CASE i.op \in {"unm", "~"} -> Put(m, i.A, Arith(i.op, B, B))
        [] i.op = "NOT" -> Load(m, i.A, Truth(IsFalse(B)))
        [] i.op = "#" -> Put(m, i.A, Length(B))
        [] i.op = "CONCAT" -> Put(m, i.A, Concatenate([j \in 1 .. i.B |-> m.R[i.A + j - 1]]))

JumpOps == TMode \cup {"JMP"}
StepJump(code, k, m, i) ==
  LET A == m.R[i.A]
      B == m.R[i.B]
      sB == sC2int(i.B)
      immediate == IF i.C = "flt" THEN <<"flt", sB>> ELSE <<"int", sB>>
      test(r) == CondJump(code, m, r, i.k)
  IN  CASE i.op = "JMP" -> [m EXCEPT !.pc = @ + 1 + i.B]
        [] i.op = "EQ" -> test(Equal(A, B))
        [] i.op = "LT" -> test(Less(A, B))
        [] i.op = "LE" -> test(LessEqual(A, B))
        [] i.op = "EQK" -> test(Result(Truth(RawEqual(A, k[i.B + 1])), <<>>))
        [] i.op = "EQI" -> test(Result(Truth(IsNumber(A) /\ A[2] = sB), <<>>))
        [] i.op = "LTI" -> test(Less(A, immediate))
        [] i.op = "LEI" -> test(LessEqual(A, immediate))
        [] i.op = "GTI" -> test(Less(immediate, A))
        [] i.op = "GEI" -> test(LessEqual(immediate, A))
        [] i.op = "TEST" -> test(Result(Truth(~IsFalse(A)), <<>>))
        [] i.op = "TESTSET" ->
             IF IsFalse(B) = i.k THEN Next1(Next1(m))
             ELSE [m EXCEPT !.R[i.A] = B, !.pc = @ + 2 + code[m.pc + 1].B]

Step(code, k, m) ==
  LET i == code[m.pc]
  IN  CASE i.op \in LoadOps -> StepLoad(code, k, m, i)
        [] i.op \in TableOps -> StepTable(code, k, m, i)
        [] i.op \in UnaryOps -> StepUnary(m, i)
        [] i.op \in JumpOps -> StepJump(code, k, m, i)
        [] i.op = "CALL" -> Call(m, i)
        [] i.op = "VARARG" -> PutList(m, i.A, m.varargs, i.C - 1)
        [] OTHER -> StepBinary(code, k, m, i)

RECURSIVE Run(_, _, _)
Run(code, k, m) == IF m.pc > Len(code) THEN m ELSE Run(code, k, Step(code, k, m))
=============================================================================
