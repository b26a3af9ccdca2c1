-------------------------------- MODULE Stack --------------------------------
(***************************************************************************)
(* The stack of a thread (ldo.c, lfunc.c, lstate.c, ltm.c, lvm.c): an      *)
(* array that moves when it changes size, and the pointers into it.        *)
(*                                                                         *)
(* A pointer is the block of memory it points into and an offset; after a  *)
(* reallocation the stack is another block.  What uses a pointer into a    *)
(* freed block, or a slot outside the array, sets bad.  Operations map a   *)
(* state to the set of its successors; one with err set was left by an     *)
(* error.  Errors go to a lua_pcall at the bottom of the stack.            *)
(***************************************************************************)
EXTENDS Integers, SequencesExt

CONSTANTS
  LUA_MINSTACK, MAXSTACK, STACKERRSPACE, EXTRA_STACK,
  MAXDELTA,            \* largest distance between nodes of tbclist
  MemoryFails,         \* reallocations may fail
  MAXFRAMES,           \* bound: active frames
  MAXOPEN,             \* bound: open upvalues and variables to close
  LARGE                \* slots asked from lua_checkstack

StackConstants ==
  /\ LUA_MINSTACK \in Nat \ {0} /\ MAXSTACK \in Nat /\ MAXSTACK >= 2 * LUA_MINSTACK
  /\ STACKERRSPACE \in Nat /\ EXTRA_STACK \in Nat /\ EXTRA_STACK >= 4
  /\ MAXDELTA \in Nat \ {0} /\ MemoryFails \in BOOLEAN /\ MAXFRAMES \in Nat /\ MAXOPEN \in Nat /\ LARGE \in Nat

VARIABLE L

ERRORSTACKSIZE == MAXSTACK + STACKERRSPACE
BASIC_STACK_SIZE == 2 * LUA_MINSTACK

Nil == 0
Function == 100
Closable == 101
Object == 102          \* has a metamethod __call
Junk == 99             \* of slots whose value nothing depends on

-----------------------------------------------------------------------------
(* Pointers *)

Bad == -1
savestack(s, p) == IF p.b = s.block THEN p.o ELSE Bad
restorestack(s, o) == [b |-> s.block, o |-> o]
Plus(p, n) == [p EXCEPT !.o = @ + n]
Freed == [b |-> 2, o |-> 0]

Slots(s) == 0 .. s.size + EXTRA_STACK - 1
Value(s, p) == IF savestack(s, p) \in Slots(s) THEN s.mem[p.o] ELSE Bad
Values(s, p, n) == [i \in 1 .. n |-> Value(s, Plus(p, i - 1))]
Pad(vs, n) == [i \in 1 .. n |-> IF i <= Len(vs) THEN vs[i] ELSE Nil]
(* vs, from p on                                                           *)
Put(s, p, vs) ==
  IF vs = <<>> THEN s
  ELSE IF savestack(s, p) \in Slots(s) /\ p.o + Len(vs) - 1 \in Slots(s)
       THEN [s EXCEPT !.mem = [o \in Slots(s) |->
                                 IF o - p.o + 1 \in DOMAIN vs THEN vs[o - p.o + 1] ELSE s.mem[o]]]
       ELSE [s EXCEPT !.bad = TRUE]
Push(s, vs) == [Put(s, s.top, vs) EXCEPT !.top = Plus(@, Len(vs))]
Nils(n) == [i \in 1 .. n |-> Nil]

-----------------------------------------------------------------------------
(* Reallocation *)

Offset(s, p) == [b |-> "offset", o |-> savestack(s, p)]
relstack(s) ==
  [s EXCEPT !.top = Offset(s, s.top), !.tbclist = Offset(s, s.tbclist),
            !.openupval = [i \in DOMAIN s.openupval |-> Offset(s, s.openupval[i])],
            !.ci = [i \in DOMAIN s.ci |-> [s.ci[i] EXCEPT !.top = Offset(s, s.ci[i].top),
                                                          !.func = Offset(s, s.ci[i].func)]]]

(* Frames of callers are not corrected.                                    *)
Faultycorrectstack(s) ==
  [s EXCEPT !.top = restorestack(s, s.top.o), !.tbclist = restorestack(s, s.tbclist.o),
            !.openupval = [i \in DOMAIN s.openupval |-> restorestack(s, s.openupval[i].o)],
            !.ci = [i \in DOMAIN s.ci |-> [s.ci[i] EXCEPT !.top = restorestack(s, s.ci[i].top.o),
                                                          !.func = restorestack(s, s.ci[i].func.o)]]]

correctstack(s) ==
  [s EXCEPT !.top = restorestack(s, s.top.o), !.tbclist = restorestack(s, s.tbclist.o),
            !.openupval = [i \in DOMAIN s.openupval |-> restorestack(s, s.openupval[i].o)],
            !.ci = [i \in DOMAIN s.ci |-> [s.ci[i] EXCEPT !.top = restorestack(s, s.ci[i].top.o),
                                                          !.func = restorestack(s, s.ci[i].func.o),
                                                          !.trap = s.ci[i].lua]]]

Extended(f, slots, v) == [o \in slots |-> IF o \in DOMAIN f THEN f[o] ELSE v]
luaD_reallocstack(s, newsize, raiseerror) ==
  LET slots == 0 .. newsize + EXTRA_STACK - 1
      r == relstack(s)
      moved == [r EXCEPT !.block = 1 - s.block, !.size = newsize, !.mem = Extended(s.mem, slots, Nil),
                         !.delta = Extended(s.delta, slots, 0),
                         !.ci = [i \in DOMAIN r.ci |-> [r.ci[i] EXCEPT !.base = Freed]]]
      failed == correctstack(r)
  IN  {correctstack(moved)}
        \cup IF MemoryFails THEN {IF raiseerror THEN [failed EXCEPT !.err = "memory"] ELSE [failed EXCEPT !.fails = TRUE]}
             ELSE {}

-----------------------------------------------------------------------------
(* Growing.  Where lua_checkstack gets no space, fails is set.             *)

(* luaG_runerror for a stack overflow: the message, and a call of the      *)
(* message handler, a C function.                                          *)
Raised(s) ==
  LET call == Push(s, <<Function, Closable>>)
  IN  [call EXCEPT !.err = IF s.size - call.top.o <= LUA_MINSTACK THEN "errerr" ELSE "overflow"]

Fails(s) == [s EXCEPT !.fails = TRUE]
luaD_growstack(s, n, raiseerror) ==
  LET needed == savestack(s, s.top) + n
      doubled == IF 2 * s.size > MAXSTACK THEN MAXSTACK ELSE 2 * s.size
      newsize == IF doubled < needed THEN needed ELSE doubled
  IN  IF s.size > MAXSTACK THEN {IF raiseerror THEN [s EXCEPT !.err = "errerr"] ELSE Fails(s)}
      ELSE IF n < MAXSTACK /\ newsize <= MAXSTACK THEN luaD_reallocstack(s, newsize, raiseerror)
      ELSE {IF t.err # "" THEN t ELSE IF raiseerror THEN Raised(t) ELSE Fails(t) :
              t \in luaD_reallocstack(s, ERRORSTACKSIZE, raiseerror)}
luaD_checkstack(s, n) ==
  IF s.size - savestack(s, s.top) <= n THEN luaD_growstack(s, n, TRUE) ELSE {s}

(* The pointer is not preserved.                                           *)
Faultycheckstackp(s, n, p) == {[s |-> t, p |-> p] : t \in luaD_checkstack(s, n)}

(* Check the stack, preserving p.                                          *)
checkstackp(s, n, p) ==
  {[s |-> t, p |-> restorestack(t, savestack(s, p))] : t \in luaD_checkstack(s, n)}

-----------------------------------------------------------------------------
(* Shrinking *)

Largest(S) == CHOOSE x \in S : \A y \in S : y <= x
(* Only the current frame is counted.                                      *)
Faultystackinuse(s) ==
  LET lim == Largest({s.top.o, s.ci[Len(s.ci)].func.o})
  IN  IF lim + 1 < LUA_MINSTACK THEN LUA_MINSTACK ELSE lim + 1

stackinuse(s) ==
  LET lim == Largest({s.top.o} \cup {s.ci[i].top.o : i \in DOMAIN s.ci})
  IN  IF lim + 1 < LUA_MINSTACK THEN LUA_MINSTACK ELSE lim + 1

luaD_shrinkstack(s) ==
  LET inuse == stackinuse(s)
      max == IF inuse > MAXSTACK \div 3 THEN MAXSTACK ELSE inuse * 3
      nsize == IF inuse > MAXSTACK \div 2 THEN MAXSTACK ELSE inuse * 2
      shrunk == IF inuse <= MAXSTACK /\ s.size > max THEN luaD_reallocstack(s, nsize, FALSE) ELSE {s}
  IN  {[t EXCEPT !.fails = s.fails] : t \in shrunk}

-----------------------------------------------------------------------------
(* Frames.  base and vtrap are the variables of luaV_execute.  given is    *)
(* what the caller passed; due tells what must stand where after a step,    *)
(* and lost that it does not.                                              *)

Current(s) == s.ci[Len(s.ci)]
prepCallInfo(s, frame) == [s EXCEPT !.ci = Append(@, frame)]
NoFunction == [lua |-> FALSE, meta |-> FALSE, nparams |-> 0, vararg |-> FALSE, fsize |-> 0]
Frame(func, top, f, given, wanted) ==
  [func |-> func, top |-> top, lua |-> f.lua, trap |-> FALSE, base |-> Plus(func, 1), vtrap |-> FALSE, f |-> f,
   nextra |-> 0, given |-> IF f.vararg THEN given ELSE <<>>, phase |-> IF f.vararg THEN "entered" ELSE "running", open |-> 0, wanted |-> wanted]
Nothing == [at |-> 0, vs |-> <<>>]
Due(s, p, vs) == [s EXCEPT !.due = [at |-> p.o, vs |-> vs]]

updatebase(s) == [s EXCEPT !.ci[Len(s.ci)].base = Plus(Current(s).func, 1)]
updatetrap(s) == [s EXCEPT !.ci[Len(s.ci)].vtrap = Current(s).trap]
updatestack(s) == IF Current(s).vtrap THEN updatebase(s) ELSE s
vmfetch(s) ==
  IF Current(s).vtrap THEN updatebase([s EXCEPT !.ci[Len(s.ci)].vtrap = FALSE, !.ci[Len(s.ci)].trap = FALSE]) ELSE s
Register(s, r) == Plus(Current(s).base, r)

tryfuncTM(s, func) ==
  {LET t == c.s
   IN  IF t.err # "" THEN c
       ELSE [s |-> [Put(t, c.p, <<Function>> \o Values(t, c.p, t.top.o - c.p.o)) EXCEPT !.top = Plus(@, 1)], p |-> c.p] :
     c \in checkstackp(s, 1, func)}

Arguments(s, func) == Values(s, Plus(func, 1), s.top.o - func.o - 1)
precallC(s, func, given, wanted) ==
  {IF c.s.err # "" THEN c.s
   ELSE Due(prepCallInfo(c.s, Frame(c.p, Plus(c.s.top, LUA_MINSTACK), NoFunction, given, wanted)), Plus(c.p, 1), given) :
     c \in checkstackp(s, LUA_MINSTACK, func)}
precallLua(s, func, f, given, wanted) ==
  {LET t == c.s
       narg == t.top.o - c.p.o - 1
       missing == IF narg < f.nparams THEN f.nparams - narg ELSE 0
   IN  IF t.err # "" THEN t
       ELSE Due(Push(prepCallInfo(t, Frame(c.p, Plus(c.p, 1 + f.fsize), f, given, wanted)), Nils(missing)),
                Plus(c.p, 1), Pad(given, IF narg < f.nparams THEN f.nparams ELSE narg)) :
     c \in checkstackp(s, f.fsize, func)}
Called(s, func, f, given, wanted) ==
  IF f.lua THEN precallLua(s, func, f, given, wanted) ELSE precallC(s, func, given, wanted)
luaD_precall(s, func, f, wanted) ==
  IF ~f.meta THEN Called(s, func, f, Arguments(s, func), wanted)
  ELSE UNION {IF c.s.err # "" THEN {c.s}
              ELSE Called(c.s, c.p, f, <<Object>> \o Arguments(s, func), wanted) : c \in tryfuncTM(s, func)}

(* A tail call of a Lua function takes over the frame; delta is the        *)
(* distance to the frame a vararg function was called with.                *)
TailCalled(s, func, f, given, delta) ==
  {LET t == c.s
       narg1 == Len(given) + 1
       to == Plus(Current(t).func, -delta)
       filled == IF narg1 <= f.nparams THEN f.nparams + 1 ELSE narg1
   IN  IF t.err # "" THEN t
       ELSE Due([Put(t, to, Pad(Values(t, c.p, narg1), filled)) EXCEPT
                   !.top = Plus(to, filled),
                   !.ci[Len(t.ci)] = Frame(to, Plus(to, 1 + f.fsize), f, given, Current(t).wanted)],
                Plus(to, 1), Pad(given, filled - 1)) :
     c \in checkstackp(s, f.fsize - delta, func)}
luaD_pretailcall(s, func, f, delta) ==
  IF ~f.meta THEN TailCalled(s, func, f, Arguments(s, func), delta)
  ELSE UNION {IF c.s.err # "" THEN {c.s} ELSE TailCalled(c.s, c.p, f, <<Object>> \o Arguments(s, func), delta) :
                c \in tryfuncTM(s, func)}

luaT_adjustvarargs(s) ==
  {LET ci == Current(t)
       n == ci.f.nparams
       actual == t.top.o - ci.func.o - 1
       copied == Push(t, Values(t, ci.func, 1 + n))
   IN  IF t.err # "" THEN t
       ELSE [Put(copied, Plus(ci.func, 1), Nils(n)) EXCEPT
               !.ci[Len(t.ci)].nextra = actual - n, !.ci[Len(t.ci)].phase = "running",
               !.ci[Len(t.ci)].func = Plus(@, actual + 1), !.ci[Len(t.ci)].top = Plus(@, actual + 1)] :
     t \in luaD_checkstack(s, Current(s).f.fsize + 1)}

luaT_getvarargs(s, where, wanted) ==
  LET nextra == Current(s).nextra
      got(t, w, n) == Put(t, w, Pad(Values(t, Plus(Current(t).func, -nextra), IF n < nextra THEN n ELSE nextra), n))
  IN  IF wanted >= 0 THEN {got(s, where, wanted)}
      ELSE {IF c.s.err # "" THEN c.s ELSE [got(c.s, c.p, nextra) EXCEPT !.top = Plus(c.p, nextra)] :
              c \in checkstackp(s, nextra, where)}

luaD_poscall(s, nres) ==
  LET ci == Current(s)
      n == IF ci.wanted < 0 THEN nres ELSE ci.wanted
      results == Pad(Values(s, Plus(s.top, -nres), nres), n)
  IN  [Put(s, ci.func, results) EXCEPT !.top = Plus(ci.func, n), !.ci = Front(@)]

-----------------------------------------------------------------------------
(* Upvalues and to-be-closed variables; tbcs are the declared ones.        *)

uplevel(s, i) == savestack(s, s.openupval[i])
luaF_findupval(s, level) ==
  LET n == Cardinality({i \in DOMAIN s.openupval : uplevel(s, i) >= level.o})
  IN  IF n > 0 /\ uplevel(s, n) = level.o THEN s
      ELSE [s EXCEPT !.openupval = SubSeq(@, 1, n) \o <<level>> \o SubSeq(@, n + 1, Len(@))]
luaF_closeupval(s, level) ==
  [s EXCEPT !.openupval = SelectSeq(@, LAMBDA p : savestack(s, p) < savestack(s, level))]

(* No dummy nodes: the delta is cut off.                                   *)
FaultyluaF_newtbcupval(s, level) ==
  [s EXCEPT !.delta[level.o] = (level.o - s.tbclist.o) % (MAXDELTA + 1), !.tbclist = level, !.tbcs = @ \cup {level.o}]

luaF_newtbcupval(s, level) ==
  LET dummies == (level.o - s.tbclist.o - 1) \div MAXDELTA
      last == s.tbclist.o + dummies * MAXDELTA
  IN  [s EXCEPT !.delta = [o \in DOMAIN s.delta |->
                             IF o = level.o THEN level.o - last
                             ELSE IF \E k \in 1 .. dummies : o = s.tbclist.o + k * MAXDELTA THEN 0 ELSE s.delta[o]],
                !.tbclist = level, !.tbcs = @ \cup {level.o}]
(* The node before the one at o, dummy nodes skipped.                      *)
Before(s, o) ==
  LET first == o - s.delta[o]
      real == {k \in 0 .. s.size : LET p == first - k * MAXDELTA
                                   IN  p <= 0 \/ (p \in DOMAIN s.delta => s.delta[p] # 0)}
  IN  first - (CHOOSE k \in real : \A j \in real : k <= j) * MAXDELTA
poptbclist(s) ==
  [s EXCEPT !.tbclist = restorestack(s, Before(s, s.tbclist.o)), !.tbcs = @ \ {s.tbclist.o}]

(* A closing method is a C function, here done at once.                    *)
callclosemethod(s) ==
  {IF t.err # "" THEN t ELSE [luaD_poscall(t, 0) EXCEPT !.due = s.due] :
     t \in precallC(Push(s, <<Function, Closable, Nil>>), s.top, <<Closable, Nil>>, 0)}
prepcallclosemth(s, level, ktop) ==
  callclosemethod(IF ktop THEN s ELSE [Put(s, Plus(level, 1), <<Nil>>) EXCEPT !.top = Plus(level, 2)])

RECURSIVE CloseTbcs(_, _, _)
CloseTbcs(s, levelrel, ktop) ==
  IF savestack(s, s.tbclist) < levelrel \/ s.err # "" THEN {s}
  ELSE UNION {CloseTbcs(t, levelrel, ktop) : t \in prepcallclosemth(poptbclist(s), s.tbclist, ktop)}
luaF_close(s, level, ktop) == CloseTbcs(luaF_closeupval(s, level), savestack(s, level), ktop)

-----------------------------------------------------------------------------
(* The instructions of the running Lua function.  s is the state after     *)
(* vmfetch, in which L.top means nothing unless multiple results are open. *)

Programs == {[lua |-> TRUE, meta |-> FALSE, nparams |-> 1, vararg |-> FALSE, fsize |-> 2],
             [lua |-> TRUE, meta |-> TRUE, nparams |-> 0, vararg |-> TRUE, fsize |-> 2],
             NoFunction}
ArgumentLists == {<<>>, <<1>>}
FunctionValue(f) == IF f.meta THEN Object ELSE Function

Running == L.err = "" /\ Current(L).lua /\ Current(L).phase # "entered"
Fixed == Running /\ Current(L).phase = "running"
Opens == Len(L.openupval) + Cardinality(L.tbcs) < MAXOPEN
(* What the rest of the run can see: open lists, and arguments until they  *)
(* are in place or as extra ones.  Other registers get their values where they are   *)
(* used, and the top is significant only for an open list or on entry.     *)
Kept(s) ==
  UNION {LET ci == s.ci[i] IN ci.func.o - ci.nextra .. ci.func.o - 1 : i \in DOMAIN s.ci}
    \cup IF Current(s).phase = "running" THEN {} ELSE Current(s).func.o + 1 + Current(s).open .. s.top.o - 1
Forget(s) ==
  [s EXCEPT !.top = IF s.err = "" /\ Current(s).lua /\ Current(s).phase = "running" THEN Current(s).top ELSE s.top,
            !.mem = [o \in Slots(s) |-> IF o \in Kept(s) THEN s.mem[o] ELSE Junk],
            !.delta = [o \in Slots(s) |-> IF o <= s.tbclist.o THEN s.delta[o] ELSE 1]]
(* The current block is 0 again, the ones that are freed are all the same. *)
Renamed(s) ==
  LET name(p) == IF p.b = s.block THEN restorestack([block |-> 0], p.o) ELSE Freed
  IN  [s EXCEPT !.block = 0, !.top = name(s.top), !.tbclist = name(s.tbclist),
                !.openupval = [i \in DOMAIN s.openupval |-> name(s.openupval[i])],
                !.ci = [i \in DOMAIN s.ci |-> [s.ci[i] EXCEPT !.func = name(s.ci[i].func), !.top = name(s.ci[i].top),
                                                              !.base = name(s.ci[i].base)]]]
Arrived(s) == s.err = "" => Values(s, restorestack(s, s.due.at), Len(s.due.vs)) = s.due.vs
Becomes(S) == L' \in {[Renamed(Forget(s)) EXCEPT !.due = Nothing, !.lost = ~Arrived(s)] : s \in S}
Phase(s, phase, r) ==
  [s EXCEPT !.ci[Len(s.ci)].phase = phase, !.ci[Len(s.ci)].open = IF phase = "open" THEN r ELSE 0]

(* The callee and its arguments in registers, or before an open list.      *)
CallSites(f) ==
  LET ci == Current(L)
      s == vmfetch(L)
      prepared(r, args) == Put(s, Register(s, r), <<FunctionValue(f)>> \o args)
  IN  IF ci.phase = "open"
      THEN {[at |-> r, s |-> prepared(r, <<>>)] : r \in {ci.open - 1} \cap Nat}
      ELSE {[at |-> r, s |-> [prepared(r, args) EXCEPT !.top = Plus(Register(s, r), 1 + Len(args))]] :
              r \in 0 .. ci.f.fsize - 1, args \in {a \in ArgumentLists : Len(a) < ci.f.fsize}}
Fits(c) == Current(L).phase = "open" \/ c.s.top.o <= Current(c.s).top.o

OP_CALL ==
  /\ Running /\ Len(L.ci) < MAXFRAMES
  /\ \E f \in Programs : \E c \in CallSites(f), wanted \in {-1, 1} :
       /\ Fits(c)
       /\ Becomes(luaD_precall(Phase(c.s, IF wanted < 0 THEN "open" ELSE "running", c.at),
                                 Register(c.s, c.at), f, wanted))

(* Of a C function, a tail call is a call and the return of its results.   *)
OP_TAILCALL ==
  /\ Running
  /\ \E f \in {p \in Programs : p.lua} : \E c \in CallSites(f) :
       LET ci == Current(c.s)
           closed == luaF_closeupval(c.s, ci.base)
       IN  /\ Fits(c)
           /\ L.tbclist.o <= ci.func.o
           /\ Becomes(luaD_pretailcall(closed, Register(c.s, c.at), f, 
                                           IF ci.f.vararg THEN ci.nextra + ci.f.nparams + 1 ELSE 0))

OP_VARARGPREP ==
  /\ L.err = "" /\ Current(L).lua /\ Current(L).phase = "entered"
  /\ Becomes({IF t.err # "" THEN t ELSE updatebase(updatetrap(t)) : t \in luaT_adjustvarargs(vmfetch(L))})

OP_VARARG ==
  /\ Fixed /\ Current(L).f.vararg
  /\ \E r \in 0 .. Current(L).f.fsize - 1, wanted \in {-1, 1} :
       LET s == vmfetch(L)
           ci == Current(s)
           extras == SubSeq(ci.given, ci.f.nparams + 1, Len(ci.given))
       IN  Becomes({IF t.err # "" THEN t
                    ELSE Due(Phase(updatetrap(t), IF wanted < 0 THEN "open" ELSE "running", r),
                            Plus(Current(t).func, 1 + r), IF wanted < 0 THEN extras ELSE Pad(extras, wanted)) :
                     t \in luaT_getvarargs([s EXCEPT !.top = ci.top], Register(s, r), wanted)})

(* An instruction on register r of a state that is set to ci's top.        *)
Protected(s) == [s EXCEPT !.top = Current(s).top]
OP_CLOSURE ==
  /\ Fixed /\ Opens
  /\ \E r \in {0, Current(L).f.fsize - 1}, s \in {Protected(vmfetch(L))} : Becomes({luaF_findupval(s, Register(s, r))})

OP_TBC ==
  /\ Fixed /\ Opens
  /\ \E r \in 0 .. Current(L).f.fsize - 1, s \in {Protected(vmfetch(L))} :
       /\ Register(s, r).o > s.tbclist.o
       /\ Becomes({luaF_newtbcupval(Put(s, Register(s, r), <<Closable>>), Register(s, r))})

OP_CLOSE ==
  /\ Fixed
  /\ \E r \in 0 .. Current(L).f.fsize - 1, s \in {Protected(vmfetch(L))} :
       Becomes({IF t.err # "" THEN t ELSE updatetrap(t) : t \in luaF_close(s, Register(s, r), TRUE)})

(* A collection that checkGC runs in an instruction that made an object.   *)
checkGC ==
  /\ Fixed
  /\ LET s == vmfetch(L)
     IN  Becomes({updatetrap(t) : t \in luaD_shrinkstack([s EXCEPT !.top = Plus(Register(s, 0), 1)])})

adjustresults(s, wanted) ==
  IF wanted < 0 /\ Current(s).top.o < s.top.o THEN [s EXCEPT !.ci[Len(s.ci)].top = s.top] ELSE s
(* Back in the caller, with its results; trap is the variable of a Lua     *)
(* caller's luaV_execute.                                                  *)
Back(s, wanted, results, fromLua, trap) ==
  LET due == Due(s, Plus(s.top, -Len(results)), results)
  IN  IF ~Current(s).lua THEN adjustresults(due, wanted)
      ELSE IF fromLua THEN updatebase([due EXCEPT !.ci[Len(s.ci)].vtrap = trap]) ELSE updatetrap(due)
Wanted(ci, results) == IF ci.wanted < 0 THEN results ELSE Pad(results, ci.wanted)

Finish(s, ra, n, results) ==
  LET ci == Current(s)
      delta == IF ci.f.vararg THEN ci.nextra + ci.f.nparams + 1 ELSE 0
      real == [s EXCEPT !.top = Plus(Register(s, ra), n), !.ci[Len(s.ci)].func = Plus(@, -delta)]
  IN  Back(luaD_poscall(real, n), ci.wanted, results, TRUE, ci.trap)
Fresh(n) == SubSeq(<<3, 4>>, 1, n)
(* The compiler leaves out the closing only if nothing can be open.        *)
NothingOpen(s) == \A p \in Range(s.openupval) \cup {s.tbclist} : p.o <= Current(s).func.o
OP_RETURN ==
  /\ Running
  /\ \E r \in 0 .. Current(L).f.fsize - 1, count \in 0 .. 2, k \in BOOLEAN, s \in {vmfetch(L)} :
       LET ci == Current(s)
           open == ci.phase = "open"
           n == IF open THEN s.top.o - Register(s, r).o ELSE count
           given == IF open THEN s ELSE Put(s, Register(s, r), Fresh(n))
           results == Wanted(ci, Values(given, Register(s, r), n))
           up == IF s.top.o < ci.top.o THEN [given EXCEPT !.top = ci.top] ELSE given
       IN  /\ IF open THEN r = ci.open /\ count = 0 ELSE r + n <= ci.f.fsize
           /\ k \/ NothingOpen(s)
           /\ Becomes(IF k THEN {IF t.err # "" THEN t ELSE Finish(updatestack(updatetrap(t)), r, n, results) :
                                 t \in luaF_close(up, ci.base, TRUE)}
                      ELSE {Finish(given, r, n, results)})

-----------------------------------------------------------------------------
(* C functions; the lowest frame is the host's, which only makes calls     *)
(* (protected ones) and drops their results.                               *)

InC == L.err = "" /\ ~Current(L).lua
lua_settop == InC /\ Becomes({[L EXCEPT !.top = Plus(Current(L).func, 1)]})
lua_checkstack ==
  InC /\ Len(L.ci) > 1 /\ L.top.o <= Current(L).func.o + 2
      /\ \E n \in {LUA_MINSTACK, LARGE} :
           LET s == [L EXCEPT !.fails = FALSE]
               adjusted(t) == IF Current(t).top.o < t.top.o + n THEN [t EXCEPT !.ci[Len(t.ci)].top = Plus(t.top, n)] ELSE t
           IN  Becomes({IF t.fails THEN [t EXCEPT !.fails = FALSE] ELSE adjusted(t) :
                          t \in IF s.size - s.top.o > n THEN {s} ELSE luaD_growstack(s, n, FALSE)})
lua_call ==
  /\ InC /\ Len(L.ci) < MAXFRAMES
  /\ \E f \in Programs, args \in ArgumentLists, wanted \in IF Len(L.ci) = 1 THEN {1} ELSE {-1, 1} :
       LET func == L.top
           s == Push(L, <<FunctionValue(f)>> \o args)
       IN  /\ s.top.o <= Current(L).top.o
           /\ wanted = 1 => func.o + 1 <= Current(L).top.o
           /\ Becomes(luaD_precall(IF Len(L.ci) = 1 THEN [s EXCEPT !.old_top = func.o] ELSE s, func, f, wanted))
luaC_step == InC /\ Becomes(luaD_shrinkstack(L))
(* A C function pushes its results and returns.                            *)
Return ==
  /\ InC /\ Len(L.ci) > 1
  /\ \E n \in 0 .. 2 :
       LET ci == Current(L)
           s == Push(L, Fresh(n))
       IN  /\ s.top.o <= ci.top.o
           /\ Becomes({Back(luaD_poscall(s, n), ci.wanted, Wanted(ci, Fresh(n)), FALSE, FALSE)})

-----------------------------------------------------------------------------
(* The end of a protected call that failed: the variables are closed, with *)
(* as many attempts as closing methods fail, then the error object stands  *)
(* in the place of the function.                                           *)

RECURSIVE luaD_closeprotected(_)
luaD_closeprotected(s) ==
  UNION {IF t.err = "" THEN {t} ELSE luaD_closeprotected([t EXCEPT !.ci = <<t.ci[1]>>]) :
           t \in luaF_close([s EXCEPT !.err = ""], restorestack(s, s.old_top), FALSE)}
luaD_pcall ==
  /\ L.err # ""
  /\ Becomes(UNION {luaD_shrinkstack(
                     [Put(t, restorestack(t, t.old_top), <<2>>) EXCEPT !.top = restorestack(t, t.old_top + 1)]) :
                     t \in luaD_closeprotected([L EXCEPT !.ci = <<L.ci[1]>>])})

stack_init ==
  LET slots == 0 .. BASIC_STACK_SIZE + EXTRA_STACK - 1
      at(o) == [b |-> 0, o |-> o]
  IN  [size |-> BASIC_STACK_SIZE, block |-> 0, mem |-> [o \in slots |-> Junk], delta |-> [o \in slots |-> 1],
       top |-> at(1), tbclist |-> at(0), openupval |-> <<>>, tbcs |-> {}, old_top |-> 1,
       ci |-> <<Frame(at(0), at(1 + LUA_MINSTACK), NoFunction, <<>>, 0)>>,
       err |-> "", fails |-> FALSE, bad |-> FALSE, lost |-> FALSE, due |-> Nothing]
Init == L = stack_init
Next == \/ OP_CALL \/ OP_TAILCALL \/ OP_VARARGPREP \/ OP_VARARG \/ OP_CLOSURE \/ OP_TBC \/ OP_CLOSE \/ checkGC
        \/ OP_RETURN \/ lua_settop \/ lua_checkstack \/ lua_call \/ luaC_step \/ Return \/ luaD_pcall
Spec == Init /\ [][Next]_L

-----------------------------------------------------------------------------
(* Properties *)

(* The array's own data: sizes are the ordinary ones or the one kept for   *)
(* errors, and no frame reaches outside (luaD_growstack).                  *)
SizeIsBounded ==
  /\ L.size <= MAXSTACK \/ L.size = ERRORSTACKSIZE
  /\ L.err = "" => \A i \in DOMAIN L.ci : L.ci[i].top.o <= L.size
  /\ savestack(L, L.top) \in 0 .. L.size + EXTRA_STACK

(* No use of a pointer that a reallocation left behind, or of a slot       *)
(* outside the array, and none is kept: not in a caller's frame, an open   *)
(* upvalue or the list of variables to close; a running function that      *)
(* trusts its base has the right one (relstack, correctstack, checkstackp, *)
(* trap).                                                                  *)
PointersFollow ==
  /\ ~L.bad
  /\ \A p \in {L.top, L.tbclist} \cup Range(L.openupval) : p.b = L.block
  /\ \A i \in DOMAIN L.ci : L.ci[i].func.b = L.block /\ L.ci[i].top.b = L.block
  /\ L.err = "" /\ Current(L).lua /\ ~Current(L).vtrap => Current(L).base = Plus(Current(L).func, 1)

(* Arguments, extra arguments and results arrive whatever the growth, the  *)
(* adjustment and the tail calls between.                                  *)
ValuesArrive == ~L.lost

(* Open upvalues are in the order of the stack, at most one for a slot,    *)
(* and the list threaded through deltas holds just the variables that were *)
(* declared and not closed (luaF_findupval, luaF_newtbcupval, poptbclist). *)
RECURSIVE Threaded(_, _)
Threaded(s, o) == IF o = 0 THEN {} ELSE {o} \cup Threaded(s, Before(s, o))
ListsAreComplete ==
  /\ \A i, j \in DOMAIN L.openupval : i < j => L.openupval[i].o > L.openupval[j].o
  /\ Threaded(L, L.tbclist.o) = L.tbcs
=============================================================================
