----------------------------- MODULE NumericFor -----------------------------
(***************************************************************************)
(* The numerical for loop (lvm.c: forprep, floatforloop, OP_FORLOOP).      *)
(***************************************************************************)
EXTENDS NumberSemantics

VARIABLES
  pc,            \* "prepare", "body", "out" or "error"
  given,         \* the initial value, the limit and the step
  ra,            \* the counter, or the limit of a loop over floats
  step,
  control,       \* the control variable
  k              \* how many values the control variable has had
loopvars == <<pc, given, ra, step, control, k>>

StartFor(init, limit, st) ==
  pc = "prepare" /\ given = [init |-> init, limit |-> limit, step |-> st] /\ ra = 0 /\ step = 0 /\ control = 0 /\ k = 0

IsIntegerLoop == ttisinteger(given.init) /\ ttisinteger(given.step)

(* The limit of an integer loop; none if the loop must not run.            *)
forlimit(init, lim, st) ==
  LET mode == IF st < 0 THEN "F2Iceil" ELSE "F2Ifloor"
      clipped == UNION {IF luai_numlt(0, flim) THEN IF st < 0 THEN {} ELSE {LUA_MAXINTEGER}
                        ELSE IF st > 0 THEN {} ELSE {LUA_MININTEGER} : flim \in luaV_tonumber_(lim)}
      limits == IF luaV_tointeger(lim, mode) # {} THEN luaV_tointeger(lim, mode) ELSE clipped
  IN  {l \in limits : IF st > 0 THEN init <= l ELSE init >= l}

(* The difference is computed with signs.                                  *)
FaultyIterations(init, limit, st) ==
  IF st > 0 THEN Quotient(Wrap(limit - init), st) % 2 ^ NBITS
  ELSE Quotient(Wrap(init - limit), (-(st + 1)) + 1) % 2 ^ NBITS

Iterations(init, limit, st) ==
  IF st > 0 THEN ((l_castS2U(limit) - l_castS2U(init)) % 2 ^ NBITS) \div l_castS2U(st)
  ELSE ((l_castS2U(init) - l_castS2U(limit)) % 2 ^ NBITS) \div ((l_castS2U(-(st + 1)) + 1) % 2 ^ NBITS)

Leave(how) == pc' = how /\ UNCHANGED <<ra, step, control, k>>

(* forprep                                                                 *)
ForPrepInteger ==
  /\ pc = "prepare" /\ IsIntegerLoop /\ UNCHANGED given
  /\ LET init == given.init.n
         st == given.step.n
     IN  \/ st = 0 /\ Leave("error")
         \/ st # 0 /\ luaV_tonumber_(given.limit) = {} /\ Leave("error")
         \/ /\ st # 0 /\ luaV_tonumber_(given.limit) # {}
            /\ IF forlimit(init, given.limit, st) = {} THEN Leave("out")
               ELSE \E limit \in forlimit(init, given.limit, st) :
                      pc' = "body" /\ ra' = Iterations(init, limit, st) /\ step' = st /\ control' = init /\ k' = 1

ForPrepFloat ==
  /\ pc = "prepare" /\ ~IsIntegerLoop /\ UNCHANGED given
  /\ IF \E v \in {given.init, given.limit, given.step} : luaV_tonumber_(v) = {} THEN Leave("error")
     ELSE \E init \in luaV_tonumber_(given.init), limit \in luaV_tonumber_(given.limit), st \in luaV_tonumber_(given.step) :
            IF st = 0 THEN Leave("error")
            ELSE IF IF luai_numlt(0, st) THEN luai_numlt(limit, init) ELSE luai_numlt(init, limit) THEN Leave("out")
            ELSE pc' = "body" /\ ra' = limit /\ step' = st /\ control' = init /\ k' = 1

(* OP_FORLOOP                                                              *)
ForLoopInteger ==
  /\ pc = "body" /\ IsIntegerLoop /\ UNCHANGED <<given, step>>
  /\ IF ra > 0 THEN ra' = ra - 1 /\ control' = Wrap(control + step) /\ k' = k + 1 /\ UNCHANGED pc
     ELSE pc' = "out" /\ UNCHANGED <<ra, control, k>>

(* The loop misses a value that is the limit.                              *)
Faultyfloatforloop ==
  /\ pc = "body" /\ ~IsIntegerLoop /\ UNCHANGED <<given, ra, step>>
  /\ LET idx == luai_numadd(control, step)
     IN  IF IF luai_numlt(0, step) THEN luai_numlt(idx, ra) ELSE luai_numlt(ra, idx)
         THEN control' = idx /\ k' = (IF idx = control THEN k ELSE k + 1) /\ UNCHANGED pc
         ELSE pc' = "out" /\ UNCHANGED <<control, k>>

(* A step too small to change the control variable is for ever.            *)
floatforloop ==
  /\ pc = "body" /\ ~IsIntegerLoop /\ UNCHANGED <<given, ra, step>>
  /\ LET idx == luai_numadd(control, step)
     IN  IF IF luai_numlt(0, step) THEN luai_numle(idx, ra) ELSE luai_numle(ra, idx)
         THEN control' = idx /\ k' = (IF idx = control THEN k ELSE k + 1) /\ UNCHANGED pc
         ELSE pc' = "out" /\ UNCHANGED <<control, k>>

ForLoop == ForPrepInteger \/ ForPrepFloat \/ ForLoopInteger \/ floatforloop

-----------------------------------------------------------------------------
(* Exactly: is the integer v within the limit, a value in halves?          *)
Within(v, lim, st) == IF st > 0 THEN 2 * v <= lim ELSE 2 * v >= lim

(* An integer loop runs for the values init, init + step, ... that are     *)
(* within the limit, whatever its type and size, and for no others: it     *)
(* neither wraps around nor misses the last.  (A limit that is not a       *)
(* number is below everything.)                                            *)
IntegerLoopRunsItsRange ==
  pc \in {"body", "out"} /\ IsIntegerLoop =>
    \A lim \in Denoted(given.limit) :
      LET nth(i) == given.init.n + i * given.step.n
          limit == IF lim = NAN THEN -INF ELSE lim
          runs(i) == nth(i) \in LuaInteger /\ Within(nth(i), limit, given.step.n)
      IN  IF pc = "body" THEN control = nth(k - 1) /\ runs(k - 1)
          ELSE (k > 0 => runs(k - 1)) /\ ~runs(k)

(* A loop over floats runs for the values init, init + step, ... that are  *)
(* within the limit, each sum rounded once, and for no others: it ends     *)
(* only when the next one is beyond the limit.  They are the exact values  *)
(* as long as those are floats.  The loop of a first value or limit that   *)
(* is not a number runs once; so does that of such a step, if the first    *)
(* value is not below the limit.                                           *)
FloatLoopRunsItsRange ==
  pc \in {"body", "out"} /\ ~IsIntegerLoop =>
    \A init \in luaV_tonumber_(given.init), lim \in luaV_tonumber_(given.limit), st \in luaV_tonumber_(given.step) :
      LET nth[i \in Nat] == IF i = 0 THEN init ELSE luai_numadd(nth[i - 1], st)
          runs(i) == IF st > 0 THEN luai_numle(nth[i], lim) ELSE luai_numle(lim, nth[i])
          exact == \A i \in 0 .. k - 1 : init + i * st \in FiniteFloats
      IN  /\ pc = "body" => control = nth[k - 1] /\ (exact => control = init + (k - 1) * st)
          /\ IF NAN \in {init, lim} THEN k = 1
             ELSE IF st = NAN THEN k = IF init >= lim THEN 1 ELSE 0
             ELSE (k > 0 => runs(k - 1)) /\ (pc = "out" => ~runs(k))

(* A loop raises an error, instead of running or being skipped, exactly if *)
(* one of its three values denotes no number or the step is zero, whatever *)
(* their types are.                                                        *)
BadLoopsFail ==
  pc # "prepare" =>
    (pc = "error" <=> 0 \in Denoted(given.step)
                      \/ \E v \in {given.init, given.limit, given.step} : Denoted(v) = {})

LoopsRunTheirRange == IntegerLoopRunsItsRange /\ FloatLoopRunsItsRange /\ BadLoopsFail
=============================================================================
