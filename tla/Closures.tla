------------------------------ MODULE Closures ------------------------------
(***************************************************************************)
(* Functions in the virtual machine (lvm.c, lfunc.c, ldo.c): closures and  *)
(* their upvalues, calls and returns, variables to be closed, and loops.   *)
(*                                                                         *)
(* A value of a function is <<"fun", p, cells>>: its prototype and one     *)
(* cell per upvalue.  The state m of module Execution also has the         *)
(* running prototype p and its cells, the frames of the callers, the open  *)
(* upvalues (a set of [depth, reg, cell]), the values of closed cells, the *)
(* list tbc of variables to be closed, and what stands for the world:      *)
(* a call of anything else is an event, calls every function the world was *)
(* ever given, and yields the next of the answers; without one, the        *)
(* program halts.                                                          *)
(***************************************************************************)
EXTENDS Execution

Depth(m) == Len(m.frames)
IsFunction(v) == v[1] = "fun"

-----------------------------------------------------------------------------
(* Upvalues *)

OpenCell(m, c) == CHOOSE o \in m.open : o.cell = c
Cell(m, c) ==
  LET o == OpenCell(m, c)
  IN  IF c \in DOMAIN m.closed THEN m.closed[c]
      ELSE IF o.depth = Depth(m) THEN m.R[o.reg] ELSE m.frames[o.depth + 1].R[o.reg]
SetCell(m, c, v) ==
  LET o == OpenCell(m, c)
  IN  IF c \in DOMAIN m.closed THEN [m EXCEPT !.closed[c] = v]
      ELSE IF o.depth = Depth(m) THEN [m EXCEPT !.R[o.reg] = v]
      ELSE [m EXCEPT !.frames[o.depth + 1].R[o.reg] = v]

(* The open upvalues of the running function from a level up.              *)
OpenFrom(m, level) == {o \in m.open : o.depth = Depth(m) /\ o.reg >= level}

(* The upvalue of a register is created once.                              *)
luaF_findupval(m, level) ==
  LET new == [depth |-> Depth(m), reg |-> level, cell |-> Cardinality(m.open) + Cardinality(DOMAIN m.closed)]
  IN  IF \E o \in OpenFrom(m, level) : o.reg = level THEN m ELSE [m EXCEPT !.open = @ \cup {new}]
CellAt(m, level) == (CHOOSE o \in OpenFrom(m, level) : o.reg = level).cell

luaF_closeupval(m, level) ==
  LET us == OpenFrom(m, level)
      values == [c \in {o.cell : o \in us} |-> Cell(m, c)]
  IN  [m EXCEPT !.open = @ \ us, !.closed = values @@ @]

pushclosure(m, p, reg) ==
  LET find(s, up) == IF up.instack THEN luaF_findupval(s, up.idx) ELSE s
      s == FoldLeft(find, m, p.ups)
      cell(up) == IF up.instack THEN CellAt(s, up.idx) ELSE s.cells[up.idx + 1]
  IN  Load(s, reg, <<"fun", p, [u \in DOMAIN p.ups |-> cell(p.ups[u])]>>)

-----------------------------------------------------------------------------
(* Calls *)

(* luaD_precall: a frame keeps where the results go and how many, unless  *)
(* the caller is not a function of the program.                            *)
NOWHERE == -2
Enter(m, f, args, reg, wanted) ==
  LET p == f[2]
      frame == [pc |-> m.pc, R |-> m.R, varargs |-> m.varargs, p |-> m.p, cells |-> m.cells,
                reg |-> reg, wanted |-> wanted]
      arg(r) == IF r < p.nparams /\ r < Len(args) THEN args[r + 1] ELSE Nil
  IN  [m EXCEPT !.frames = Append(@, frame), !.p = p, !.cells = f[3], !.pc = 1,
                !.R = [r \in DOMAIN @ |-> IF r < p.nparams THEN arg(r) ELSE <<"old">>],
                !.varargs = IF p.isvararg THEN SubSeq(args, p.nparams + 1, Len(args)) ELSE <<>>]

(* luaD_poscall: no variable of the frame may be left open.                *)
Leave(m, values) ==
  LET frame == Last(m.frames)
      back == [m EXCEPT !.frames = Front(@), !.p = frame.p, !.cells = frame.cells, !.pc = frame.pc,
                        !.R = frame.R, !.varargs = frame.varargs, !.values = values,
                        !.ok = @ /\ OpenFrom(m, 0) = {}
                                 /\ \A t \in Range(m.tbc) : t.depth # Depth(m)]
  IN  IF frame.wanted = NOWHERE THEN back ELSE PutList(Trash(back, frame.reg), frame.reg, values, frame.wanted)

ShownAll(vs) == [i \in DOMAIN vs |-> Shown(vs[i])]

RECURSIVE RunTo(_, _)

Callback(m, f) ==
  LET r == RunTo(Enter(m, f, <<>>, 0, NOWHERE), Depth(m))
  IN  IF m.halted \/ r.halted THEN [m EXCEPT !.halted = TRUE, !.ev = r.ev]
      ELSE [r EXCEPT !.ev = Append(@, <<"value", ShownAll(r.values)>>)]

Observe(m, event) == IF m.halted THEN m ELSE FoldLeft(Callback, [m EXCEPT !.ev = Append(@, event)], m.kept)

(* A call of the world; its result is the first of values.                 *)
External(m, f, args) ==
  IF m.answers = <<>> THEN [m EXCEPT !.halted = TRUE, !.values = <<>>]
  ELSE [Observe([m EXCEPT !.answers = Tail(@), !.kept = @ \o SelectSeq(args, IsFunction)],
                <<"call", f, ShownAll(args)>>)
          EXCEPT !.values = <<Head(m.answers)>>]

luaD_call(m, reg, args, wanted) ==
  LET f == m.R[reg]
      r == External(m, f, args)
  IN  IF IsFunction(f) THEN Enter(m, f, args, reg, wanted)
      ELSE PutList(Trash(r, reg), reg, r.values, wanted)

-----------------------------------------------------------------------------
(* Variables to be closed *)

luaF_newtbcupval(m, reg) ==
  IF IsFalse(m.R[reg]) THEN m
  ELSE [m EXCEPT !.ok = @ /\ \A t \in Range(m.tbc) : t.depth < Depth(m) \/ (t.depth = Depth(m) /\ t.reg < reg),
                 !.tbc = Append(@, [depth |-> Depth(m), reg |-> reg])]

RECURSIVE CloseVariables(_, _, _)
CloseVariables(m, level, onreturn) ==
  LET t == Last(m.tbc)
      called == Observe([m EXCEPT !.tbc = Front(@)], <<"close", Shown(m.R[t.reg])>>)
  IN  IF m.tbc = <<>> \/ t.depth < Depth(m) \/ t.reg < level THEN m
      ELSE CloseVariables(IF onreturn THEN called ELSE Trash(called, t.reg + 1), level, onreturn)

(* On return (CLOSEKTOP) the methods run above all values in use; else     *)
(* above the variable.                                                     *)
luaF_close(m, level, onreturn) == CloseVariables(luaF_closeupval(m, level), level, onreturn)

Return(m, i) ==
  LET n == IF i.B = 0 THEN m.top - i.A ELSE i.B - 1
      s == IF i.k THEN luaF_close(m, 0, TRUE) ELSE m
  IN  IF s.halted THEN s
      ELSE Leave([s EXCEPT !.ok = @ /\ (m.p.isvararg <=> i.op = "RETURN" /\ i.C = m.p.nparams + 1)],
                 [j \in 1 .. n |-> s.R[i.A + j - 1]])

TailCall(m, i) ==
  LET args == Arguments(m, i)
      f == m.R[i.A]
      s == IF i.k THEN luaF_closeupval(m, 0) ELSE m
      frame == Last(m.frames)
      r == External(s, f, args)
  IN  IF IsFunction(f)
        THEN LET back == Leave([s EXCEPT !.frames[Depth(m)].wanted = NOWHERE], <<>>)
             IN  Enter(back, f, args, frame.reg, frame.wanted)
      ELSE IF r.halted THEN r ELSE Leave(r, r.values)

-----------------------------------------------------------------------------
(* Loops *)

(* forprep and OP_FORLOOP, for integers                                    *)
ForPrep(m, i) ==
  LET init == m.R[i.A][2]
      limit == m.R[i.A + 1][2]
      step == m.R[i.A + 2][2]
      count == IF step > 0 THEN (limit - init) \div step ELSE (init - limit) \div (-step)
  IN  IF (IF step > 0 THEN init > limit ELSE init < limit) THEN [m EXCEPT !.pc = @ + i.B + 2]
      ELSE Next1([m EXCEPT !.R[i.A] = <<"int", count>>, !.R[i.A + 1] = <<"int", step>>,
                           !.R[i.A + 2] = <<"int", init>>])
ForLoop(m, i) ==
  LET count == m.R[i.A][2]
      next == m.R[i.A + 2][2] + m.R[i.A + 1][2]
  IN  IF count = 0 THEN Next1(m)
      ELSE [m EXCEPT !.R[i.A] = <<"int", count - 1>>, !.R[i.A + 2] = <<"int", next>>, !.pc = @ + 1 - i.B]

TForPrep(m, i) ==
  LET s == luaF_newtbcupval([m EXCEPT !.R[i.A + 2] = m.R[i.A + 3], !.R[i.A + 3] = m.R[i.A + 2]], i.A + 2)
  IN  [s EXCEPT !.pc = @ + 1 + i.B]
TForCall(m, i) ==
  luaD_call([m EXCEPT !.R[i.A + 3] = m.R[i.A]], i.A + 3, <<m.R[i.A + 1], m.R[i.A + 3]>>, i.C)

StepIn(m) ==
  LET i == m.p.code[m.pc]
      next == Step(m.p.code, m.p.k, m)
      with(up) == Step(m.p.code, m.p.k, [m EXCEPT !.up = (up :> Cell(m, m.cells[up + 1]))])
  IN  CASE i.op \in {"GETUPVAL", "GETTABUP"} -> with(i.B)
        [] i.op = "SETTABUP" -> with(i.A)
        [] i.op = "SETUPVAL" -> Next1(SetCell(m, m.cells[i.B + 1], m.R[i.A]))
        [] i.op = "CLOSURE" -> pushclosure(m, m.p.protos[i.B + 1], i.A)
        [] i.op = "CLOSE" -> Next1(luaF_close(m, i.A, FALSE))
        [] i.op = "TBC" -> Next1(luaF_newtbcupval(m, i.A))
        [] i.op = "CALL" -> luaD_call(m, i.A, Arguments(m, i), i.C - 1)
        [] i.op = "TAILCALL" -> TailCall(m, i)
        [] i.op \in {"RETURN", "RETURN0", "RETURN1"} -> Return(m, i)
        [] i.op = "VARARGPREP" -> Next1(m)
        [] i.op = "FORPREP" -> ForPrep(m, i)
        [] i.op = "FORLOOP" -> ForLoop(m, i)
        [] i.op = "TFORPREP" -> TForPrep(m, i)
        [] i.op = "TFORCALL" -> TForCall(m, i)
        [] i.op = "TFORLOOP" -> IF m.R[i.A + 3] = Nil THEN Next1(m) ELSE [m EXCEPT !.pc = @ + 1 - i.B]
        [] OTHER -> next

RunTo(m, depth) == IF m.halted \/ Depth(m) <= depth THEN m ELSE RunTo(StepIn(m), depth)

(* The chunk p called by the world with the given answers.                 *)
RunChunk(p, registers, answers) ==
  LET m == [pc |-> 1, R |-> [r \in 0 .. registers |-> <<"old">>], up |-> <<>>, varargs |-> <<>>, top |-> 0,
            ev |-> <<>>, asize |-> [r \in 0 .. registers |-> 0], ok |-> TRUE, p |-> p, cells |-> <<0>>,
            frames |-> <<>>, open |-> {}, closed |-> (0 :> <<"_ENV">>), tbc |-> <<>>, answers |-> answers,
            kept |-> <<>>, halted |-> FALSE, values |-> <<>>]
  IN  RunTo(Enter(m, <<"fun", p, <<0>>>>, <<>>, 0, NOWHERE), 0)
=============================================================================
