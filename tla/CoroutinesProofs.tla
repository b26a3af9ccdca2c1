-------------------------- MODULE CoroutinesProofs --------------------------
(***************************************************************************)
(* Proofs about module Coroutines: what the remaining actions, those that  *)
(* end closings, catch errors and resume coroutines, do to the inductive   *)
(* invariant Inv1 of module CoroutinesStacks, and the theorems.            *)
(*                                                                         *)
(* Inv2 adds that every pending to-be-closed variable has an owner: its    *)
(* function, the lua_pcallk that an error has given it to, or an           *)
(* activation of luaF_close that luaD_closeprotected started for it.       *)
(*                                                                         *)
(* Inv3 adds that every message handler, in use or to be put back, is that *)
(* of a protected call that is not over.  It is inductive for the programs *)
(* of HandlersAlone, and only for these.                                   *)
(***************************************************************************)
EXTENDS CoroutinesStacks

-----------------------------------------------------------------------------
(* luaF_close has closed all there was to close. *)

(* The frame at the top tells why luaF_close was called.                   *)
LEMMA ClosingTop ==
  ASSUME NEW c, NEW F, NEW s, NEW a, NEW b, NEW e, Ready(c, F, s, a, b, e),
         NEW t, c[Len(c)].thread = t, c[Len(c)].kind = "close"
  PROVE  /\ ~First(c[Len(c)]) /\ c[Len(c) - 1].thread = t
         /\ Kinds(c[Len(c) - 1], c[Len(c)])
         /\ c[Len(c)].for \in {"block", "return", "poscall", "finishpcallk", "protected"}
         /\ c[Len(c)].for # "protected" => F[t] # <<>>
         /\ c[Len(c)].for = "block" =>
              c[Len(c) - 1].kind = "exec" /\ F[t][Len(F[t])].lua
         /\ c[Len(c)].for = "return" =>
              c[Len(c) - 1].kind = "exec" /\ F[t][Len(F[t])].lua
         /\ c[Len(c)].for = "poscall" =>
              /\ c[Len(c) - 1].kind \in {"cfun", "unroll"}
              /\ ~F[t][Len(F[t])].lua /\ F[t][Len(F[t])].clsret
         /\ c[Len(c)].for = "finishpcallk" =>
              /\ c[Len(c) - 1].kind = "unroll"
              /\ F[t][Len(F[t])].ypcall /\ ~F[t][Len(F[t])].clsret
         /\ c[Len(c)].for = "protected" =>
              c[Len(c) - 1].kind = "try" /\ c[Len(c) - 1].of = "close"
<1>1. PICK h : h \in [Nat -> Nat] /\ Stack(c, F, h) /\ Tip(c, F, h, e)
  BY DEF Ready
<1> DEFINE n == Len(c)
           r == c[n]
           p == c[n - 1]
           FR == F[t]
<1>2. r.kind \notin {"main", "reset", "try"}
  OBVIOUS
<1>3. /\ p.thread = t /\ Kinds(p, r) /\ Fit(FR, p, r, h[n - 1], Len(FR))
      /\ r \in Acts
  <2>1. c[Len(c)] \in Acts
    BY ReadyTypes
  <2> QED
    BY ONLY <1>1, <1>2, <2>1, c[Len(c)].thread = t, UnderTop
<1>4. ~First(r)
  BY ONLY <1>2 DEF First
<1>5. r.kind = "close" /\ FR \in Seq(FrameSet)
  <2>1. t \in Thread
    BY ReadyTypes
  <2> QED
    BY ONLY <2>1, ReadyTypes, Ready(c, F, s, a, b, e), c[Len(c)].kind = "close"
<1> HIDE DEF n, r, p, FR
<1>6. r.for \in {"block", "return", "poscall", "finishpcallk", "protected"}
  BY ONLY <1>3, <1>5, ActFacts
<1>7. r.for # "protected" => FR # <<>>
  <2> SUFFICES ASSUME r.for # "protected" PROVE FR # <<>>
    OBVIOUS
  <2>1. Len(FR) > 0
    BY ONLY <1>3, <1>5, r.for # "protected" DEF Fit
  <2> QED
    BY ONLY <2>1, <1>5
<1>8. /\ r.for = "block" => p.kind = "exec" /\ FR[Len(FR)].lua
      /\ r.for = "return" => p.kind = "exec" /\ FR[Len(FR)].lua
      /\ r.for = "poscall" => p.kind \in {"cfun", "unroll"}
                                /\ ~FR[Len(FR)].lua /\ FR[Len(FR)].clsret
      /\ r.for = "finishpcallk" => p.kind = "unroll"
                                /\ FR[Len(FR)].ypcall /\ ~FR[Len(FR)].clsret
      /\ r.for = "protected" => p.kind = "try" /\ p.of = "close"
  BY ONLY <1>3, <1>5 DEF Kinds, Fit
<1> QED
  BY ONLY <1>3, <1>4, <1>6, <1>7, <1>8 DEF n, r, p, FR

(* luaF_close returns, to what is not unroll.                              *)
LEMMA ClosedStep ==
  ASSUME NEW c, NEW F, NEW V, NEW s, NEW bd, NEW a, NEW b, NEW ef,
         Whole(c, F, V, s, bd, a, b, ef, "none"),
         c[Len(c)].kind = "close", c[Len(c) - 1].kind \in {"exec", "cfun"}
  PROVE  /\ Whole(Popped(c), F, V, s, bd, a, b, ef, "none")
         /\ Popped(c)[Len(Popped(c))] = c[Len(c) - 1]
         /\ Len(Popped(c)) = Len(c) - 1
<1>1. Ready(c, F, s, a, b, "none") /\ Typed(V, s, bd, ef, "none")
  BY ONLY Whole(c, F, V, s, bd, a, b, ef, "none"), WholeFacts
<1>2. ~First(c[Len(c)]) /\ Plain(c)
  BY DEF First, Plain
<1>3. Ready(SubSeq(c, 1, Len(c) - 1), F, s, a, b, "none")
  BY ONLY <1>1, <1>2, PopPlain
<1>4. Ready(Popped(c), F, s, a, b, "none")
  BY ONLY <1>3 DEF Popped
<1>5. /\ c[Len(c) - 1].kind \notin {"caught", "reset"}
      /\ c[Len(c) - 1].kind = "try" => c[Len(c) - 1].of = "pcall"
      /\ LET FR == F[c[Len(c)].thread]
         IN  c[Len(c) - 1].kind = "unroll" /\ FR # <<>> => Held(FR[Len(FR)])
  OBVIOUS
<1>6. \A u \in Thread : u # c[Len(c)].thread => F[u] = F[u]
  OBVIOUS
<1>7. Whole(Popped(c), F, V, s, bd, a, b, ef, "none")
  BY ONLY <1>1, <1>2, <1>4, <1>5, <1>6, Whole(c, F, V, s, bd, a, b, ef, "none"), PopStep
<1> QED
  BY ONLY <1>1, <1>2, <1>6, <1>7, PoppedFacts

(* The end of OP_CLOSE keeps the invariant.                                *)
LEMMA BlockClosedKeeps ==
  ASSUME Inv1, BlockClosed
  PROVE  Inv1'
<1> DEFINE f == [top EXCEPT !.doing = "run"]
           d == Popped(cs)
<1>1. /\ exc = "none" /\ cur.kind = "close" /\ cur.for = "block"
      /\ ci' = [ci EXCEPT ![L] = WithTop(L, f)] /\ cs' = d
      /\ UNCHANGED <<tbc, status, body, nC, nny, errfunc, exc>>
  BY DEF BlockClosed, NothingToClose, Running, counts, Front, Popped
<1>2. /\ Whole(cs, ci, tbc, status, body, nC, nny, errfunc, "none")
      /\ Typed(tbc, status, body, errfunc, "none")
      /\ Ready(cs, ci, status, nC, nny, "none")
      /\ cs[Len(cs)] = cur /\ cur \in Acts /\ cur.thread = L /\ L \in Thread
      /\ ci \in [Thread -> Seq(FrameSet)] /\ ci[L] \in Seq(FrameSet)
      /\ ci[L] # <<>> => ci[L][Len(ci[L])] = top /\ top \in FrameSet /\ FrameOK(top)
      /\ WithTop(L, f) = Retop(ci[L], Len(ci[L]), f)
  BY <1>1, InvFacts DEF Inv1
<1>3. /\ cs[Len(cs) - 1].thread = L /\ ci[L] # <<>> /\ cs[Len(cs) - 1].kind = "exec"
      /\ ci[L][Len(ci[L])].lua
  <2>1. cs[Len(cs)].thread = L /\ cs[Len(cs)].kind = "close" /\ cs[Len(cs)].for = "block"
    BY ONLY <1>1, <1>2
  <2> QED
    BY ONLY <1>2, <2>1, ClosingTop
<1>4. /\ Whole(d, ci, tbc, status, body, nC, nny, errfunc, "none")
      /\ d[Len(d)] = cs[Len(cs) - 1]
  <2>1. cs[Len(cs)].kind = "close" /\ cs[Len(cs) - 1].kind \in {"exec", "cfun"}
    BY ONLY <1>1, <1>2, <1>3
  <2> QED
    BY ONLY <1>2, <2>1, ClosedStep
<1>5. /\ f \in FrameSet /\ FrameOK(f) /\ f.func = top.func /\ f.lua = top.lua
      /\ f.fresh = top.fresh /\ f.ypcall = top.ypcall /\ f.recst = top.recst
  BY <1>2, <1>3 DEF FrameSet, FrameOK
<1> HIDE DEF f, d
<1>6. Replaced(ci, L, f, ci')
  BY ONLY <1>1, <1>2, <1>3, <1>5, ReplacedBy
<1>7. MayChange(d, ci, L, nny, f)
  BY ONLY <1>2, <1>3, <1>4, <1>5 DEF MayChange
<1>8. d[Len(d)].kind = "unroll" => Held(f)
  BY ONLY <1>3, <1>4
<1>9. Whole(d, ci', tbc, status, body, nC, nny, errfunc, "none")
  BY ONLY <1>2, <1>4, <1>6, <1>7, <1>8, ChangeStep
<1> QED
  BY ONLY <1>1, <1>9 DEF Inv1
(* A function interrupted by a yield has closed its variables, and ends.   *)
LEMMA InterruptedEnds ==
  ASSUME NEW c, NEW F, NEW V, NEW s, NEW bd, NEW a, NEW b, NEW ef,
         Whole(c, F, V, s, bd, a, b, ef, "none"),
         NEW t, c[Len(c)].thread = t,
         c[Len(c)].kind = "close", c[Len(c) - 1].kind = "unroll", F[t] # <<>>,
         NEW G, Shrunk(F, t, Len(F[t]) - 1, G)
  PROVE  Whole(Popped(c), G, V, s, bd, a, b, ef, "none")
<1>1. /\ Ready(c, F, s, a, b, "none") /\ Typed(V, s, bd, ef, "none") /\ s[t] # "err"
      /\ F \in [Thread -> Seq(FrameSet)] /\ t \in Thread
      /\ F[t] \in Seq(FrameSet) /\ Len(F[t]) \in Nat /\ Chain(F[t])
  BY ONLY Whole(c, F, V, s, bd, a, b, ef, "none"), c[Len(c)].thread = t, WholeFacts
<1>2. ~First(c[Len(c)])
  BY DEF First
<1>3. \A u \in Thread : u # c[Len(c)].thread => G[u] = F[u]
  BY ONLY Shrunk(F, t, Len(F[t]) - 1, G), c[Len(c)].thread = t DEF Shrunk
<1>4. Ready(SubSeq(c, 1, Len(c) - 1), G, s, a, b, "none")
  BY ONLY <1>1, Shrunk(F, t, Len(F[t]) - 1, G), c[Len(c)].thread = t,
          c[Len(c)].kind = "close", c[Len(c) - 1].kind = "unroll", PopInterrupted
<1>5. Ready(Popped(c), G, s, a, b, "none")
  BY ONLY <1>4 DEF Popped
<1>6. Popped(c)[Len(Popped(c))] = c[Len(c) - 1]
  BY ONLY <1>1, <1>2, <1>3, PoppedFacts
<1>7. c[Len(c) - 1].thread = t
  BY ONLY <1>1, <1>2, c[Len(c)].thread = t, BelowTop
<1>8. b[t] = 0
  <2>1. Popped(c)[Len(Popped(c))].kind = "unroll"
    BY ONLY <1>6, c[Len(c) - 1].kind = "unroll"
  <2>2. b[Popped(c)[Len(Popped(c))].thread] = 0
    BY ONLY <1>5, <2>1, UnrollYields
  <2> QED
    BY ONLY <1>6, <1>7, <2>2
<1>9. \A p \in 1 .. Len(F[t]) - 1 : Held(F[t][p])
  BY ONLY <1>1, <1>8, c[Len(c)].thread = t, AllHeld
<1> DEFINE m == Len(F[t]) - 1
<1>10. m \in 0 .. Len(F[t])
  <2>1. Len(F[t]) > 0
    BY ONLY <1>1, F[t] # <<>>
  <2> QED
    BY ONLY <2>1, <1>1
<1>11. Shrunk(F, t, m, G) /\ \A p \in 1 .. m : Held(F[t][p])
  BY ONLY <1>9, Shrunk(F, t, Len(F[t]) - 1, G)
<1> HIDE DEF m
<1>12. /\ G[t] \in Seq(FrameSet) /\ Len(G[t]) = m
       /\ \A q \in 1 .. m : G[t][q] = F[t][q]
  BY ONLY <1>1, <1>10, <1>11, ShrunkFrames
<1>13. G[t] # <<>> => Held(G[t][Len(G[t])])
  <2> SUFFICES ASSUME G[t] # <<>> PROVE Held(G[t][Len(G[t])])
    OBVIOUS
  <2>1. Len(G[t]) > 0 /\ Len(G[t]) \in Nat
    BY ONLY <1>12, G[t] # <<>>
  <2>2. m \in 1 .. m
    BY ONLY <2>1, <1>12
  <2> QED
    BY ONLY <1>11, <1>12, <2>2
<1>14. /\ c[Len(c) - 1].kind \notin {"caught", "reset"}
       /\ c[Len(c) - 1].kind = "try" => c[Len(c) - 1].of = "pcall"
       /\ LET FR == G[c[Len(c)].thread]
          IN  c[Len(c) - 1].kind = "unroll" /\ FR # <<>> => Held(FR[Len(FR)])
  BY ONLY <1>13, c[Len(c)].thread = t, c[Len(c) - 1].kind = "unroll"
<1> QED
  BY ONLY <1>1, <1>2, <1>3, <1>5, <1>14, Whole(c, F, V, s, bd, a, b, ef, "none"), PopStep

(* The end of the closing of a function keeps the invariant.               *)
LEMMA FunctionClosedKeeps ==
  ASSUME Inv1, FunctionClosed
  PROVE  Inv1'
<1> DEFINE d == Popped(cs)
           p == cs[Len(cs) - 1]
           m == Len(ci[L]) - 1
<1>1. /\ exc = "none" /\ cur.kind = "close" /\ cur.for \in {"return", "poscall"}
      /\ ci' = [ci EXCEPT ![L] = Front(@)]
      /\ IF p.kind = "cfun" \/ (p.kind = "exec" /\ top.fresh)
           THEN Uncount(p.inc) /\ cs' = Popped(d)
           ELSE nC' = nC /\ nny' = nny /\ cs' = d
      /\ UNCHANGED <<tbc, status, body, errfunc, exc>>
  BY DEF FunctionClosed, NothingToClose, Running, counts, Front, Popped, below
<1>2. /\ Whole(cs, ci, tbc, status, body, nC, nny, errfunc, "none")
      /\ Ready(cs, ci, status, nC, nny, "none")
      /\ cs[Len(cs)] = cur /\ cur \in Acts /\ cur.thread = L /\ L \in Thread
      /\ ci \in [Thread -> Seq(FrameSet)] /\ ci[L] \in Seq(FrameSet) /\ Len(ci[L]) \in Nat
      /\ ci[L] # <<>> => ci[L][Len(ci[L])] = top
      /\ Front(ci[L]) = SubSeq(ci[L], 1, Len(ci[L]) - 1)
  BY <1>1, InvFacts DEF Inv1
<1>3. cs[Len(cs)].thread = L /\ cs[Len(cs)].kind = "close"
  BY ONLY <1>1, <1>2
<1>4. /\ p.thread = L /\ ci[L] # <<>> /\ p.kind \in {"exec", "cfun", "unroll"}
  <2>1. cs[Len(cs)].for \in {"return", "poscall"}
    BY ONLY <1>1, <1>2
  <2> QED
    BY ONLY <1>2, <1>3, <2>1, ClosingTop
<1>5. Shrunk(ci, L, Len(ci[L]) - 1, ci')
  <2>1. m \in 0 .. Len(ci[L])
    <3>1. Len(ci[L]) > 0
      BY ONLY <1>2, <1>4
    <3> QED
      BY ONLY <3>1, <1>2
  <2>2. ci' = [ci EXCEPT ![L] = SubSeq(@, 1, m)]
    BY ONLY <1>1, <1>2
  <2>3. m = Len(ci[L]) - 1
    OBVIOUS
  <2> HIDE DEF m
  <2>4. Shrunk(ci, L, m, ci')
    BY ONLY <1>2, <2>1, <2>2, ShrunkBy
  <2> QED
    BY ONLY <2>3, <2>4
<1> HIDE DEF d, p, m
<1>6. CASE p.kind # "unroll"
  <2>1. p.kind \in {"exec", "cfun"} /\ cs[Len(cs) - 1] = p
    BY ONLY <1>4, <1>6 DEF p
  <2>2. Whole(Popped(cs), ci, tbc, status, body, nC, nny, errfunc, "none")
        /\ Popped(cs)[Len(Popped(cs))] = cs[Len(cs) - 1]
    BY ONLY <1>2, <1>3, <2>1, ClosedStep
  <2>3. Whole(d, ci, tbc, status, body, nC, nny, errfunc, "none") /\ d[Len(d)] = p
    BY ONLY <2>1, <2>2 DEF d
  <2>4. d[Len(d)].thread = L
    BY ONLY <1>4, <2>3
  <2>5. CASE p.kind = "cfun" \/ (p.kind = "exec" /\ top.fresh)
    <3>1. Uncount(p.inc) /\ cs' = Popped(d)
      BY ONLY <1>1, <2>5
    <3>2. Uncounts(nC, nny, L, d[Len(d)].inc, nC', nny')
      BY ONLY <3>1, <2>3 DEF Uncounts, Uncount
    <3>3. \/ d[Len(d)].kind = "exec" /\ ci[L][Len(ci[L])].fresh
          \/ d[Len(d)].kind = "cfun"
      BY ONLY <1>2, <1>4, <2>3, <2>5
    <3>4. Whole(Popped(d), ci', tbc, status, body, nC', nny', errfunc, "none")
      BY ONLY <1>5, <2>3, <2>4, <3>2, <3>3, PopCallStep
    <3> QED
      BY ONLY <1>1, <3>1, <3>4 DEF Inv1
  <2>6. CASE ~(p.kind = "cfun" \/ (p.kind = "exec" /\ top.fresh))
    <3>1. nC' = nC /\ nny' = nny /\ cs' = d
      BY ONLY <1>1, <2>6
    <3>2. d[Len(d)].kind = "exec" /\ ~ci[L][Len(ci[L])].fresh
      BY ONLY <1>2, <1>4, <2>1, <2>3, <2>6
    <3>3. Whole(d, ci', tbc, status, body, nC, nny, errfunc, "none")
      BY ONLY <1>5, <2>3, <2>4, <3>2, ReturnStep
    <3> QED
      BY ONLY <1>1, <3>1, <3>3 DEF Inv1
  <2> QED
    BY ONLY <2>5, <2>6
<1>7. CASE p.kind = "unroll"
  <2>1. nC' = nC /\ nny' = nny /\ cs' = d
    BY ONLY <1>1, <1>7
  <2>2. cs[Len(cs) - 1].kind = "unroll"
    BY ONLY <1>7 DEF p
  <2>3. Whole(Popped(cs), ci', tbc, status, body, nC, nny, errfunc, "none")
    BY ONLY <1>2, <1>3, <1>4, <1>5, <2>2, InterruptedEnds
  <2> QED
    BY ONLY <1>1, <2>1, <2>3 DEF Inv1, d
<1> QED
  BY ONLY <1>6, <1>7
(* unroll is back in finishpcallk.                                         *)
LEMMA PopKeeping ==
  ASSUME NEW c, NEW F, NEW V, NEW s, NEW bd, NEW a, NEW b, NEW ef,
         Whole(c, F, V, s, bd, a, b, ef, "none"),
         NEW t, c[Len(c)].thread = t,
         c[Len(c)].kind = "close", c[Len(c) - 1].kind = "unroll", F[t] # <<>>,
         Held(F[t][Len(F[t])])
  PROVE  Whole(Popped(c), F, V, s, bd, a, b, ef, "none")
<1> DEFINE d == Popped(c)
           m == Len(F[t]) - 1
           G == [F EXCEPT ![t] = SubSeq(@, 1, m)]
<1>1. /\ Ready(c, F, s, a, b, "none") /\ Typed(V, s, bd, ef, "none") /\ s[t] # "err"
      /\ F \in [Thread -> Seq(FrameSet)] /\ t \in Thread
      /\ F[t] \in Seq(FrameSet) /\ Len(F[t]) \in Nat /\ Chain(F[t])
  BY ONLY Whole(c, F, V, s, bd, a, b, ef, "none"), c[Len(c)].thread = t, WholeFacts
<1>2. ~First(c[Len(c)])
  BY DEF First
<1>3. m \in 0 .. Len(F[t])
  <2>1. Len(F[t]) > 0
    BY ONLY <1>1, F[t] # <<>>
  <2> QED
    BY ONLY <2>1, <1>1
<1>4. Shrunk(F, t, m, G)
  <2> HIDE DEF m
  <2> QED
    BY ONLY <1>1, <1>3, ShrunkBy
<1>5. Shrunk(F, t, Len(F[t]) - 1, G)
  BY ONLY <1>4
<1> HIDE DEF G
<1>6. Ready(SubSeq(c, 1, Len(c) - 1), G, s, a, b, "none")
  BY ONLY <1>1, <1>5, c[Len(c)].thread = t,
          c[Len(c)].kind = "close", c[Len(c) - 1].kind = "unroll", PopInterrupted
<1>7. Ready(d, G, s, a, b, "none")
  BY ONLY <1>6 DEF Popped
<1>8. \A u \in Thread : u # c[Len(c)].thread => F[u] = F[u]
  OBVIOUS
<1>9. d[Len(d)] = c[Len(c) - 1] /\ Len(d) = Len(c) - 1
  BY ONLY <1>1, <1>2, <1>8, PoppedFacts
<1>10. c[Len(c) - 1].thread = t
  BY ONLY <1>1, <1>2, c[Len(c)].thread = t, BelowTop
<1>11. d[Len(d)].kind = "unroll" /\ d[Len(d)].thread = t
  BY ONLY <1>9, <1>10, c[Len(c) - 1].kind = "unroll"
<1> HIDE DEF d, m
<1>12. b[t] = 0
  BY ONLY <1>7, <1>11, UnrollYields
<1>13. \A p \in 1 .. Len(F[t]) - 1 : Held(F[t][p])
  BY ONLY <1>1, <1>12, c[Len(c)].thread = t, AllHeld
<1>14. PICK h : /\ h \in [Nat -> Nat] /\ Stack(d, G, h) /\ Tip(d, G, h, "none")
                /\ Finishable(d, G, h, s)
  BY ONLY <1>7 DEF Ready
<1>15. /\ Len(d) \in 2 .. Len(d) /\ Len(d) - 1 \in 1 .. Len(d)
  <2>1. d[Len(d)].kind \notin {"main", "reset", "try"}
    BY ONLY <1>11
  <2> QED
    BY ONLY <1>14, <2>1, UnderTop
<1>16. h[Len(d) - 1] = 0
  BY ONLY <1>11, <1>14, <1>15, HeightUnderUnroll
<1>17. \A f : Above(d, Len(d) - 1, t, f)
  BY ONLY <1>11, <1>14, <1>15, AboveUnroll
<1>18. MayReshape(d, G, h, t, F)
  <2>1. \A u \in Thread : u # t => F[u] = G[u]
    BY ONLY <1>5 DEF Shrunk
  <2>2. ~Call(d[Len(d)]) /\ ~NonYieldable(d[Len(d)]) /\ ~First(d[Len(d)]) /\ ~Guard(d[Len(d)])
    BY ONLY <1>11 DEF Call, NonYieldable, First, Guard
  <2>3. Fit(F[t], d[Len(d) - 1], d[Len(d)], 0, Len(F[t]))
    BY ONLY <1>1, <1>11, <2>2 DEF Fit
  <2>4. \A q \in 1 .. 0 : F[t][q] = G[t][q]
    OBVIOUS
  <2>5. 0 <= Len(F[t])
    BY ONLY <1>1
  <2> QED
    BY ONLY <1>1, <1>11, <1>13, <1>16, <1>17, <2>1, <2>2, <2>3, <2>4, <2>5 DEF MayReshape
<1>19. Ready(d, F, s, a, b, "none")
  BY ONLY <1>7, <1>14, <1>18, Reshape
<1>20. Ready(Popped(c), F, s, a, b, "none")
  BY ONLY <1>19 DEF d
<1>21. /\ c[Len(c) - 1].kind \notin {"caught", "reset"}
       /\ c[Len(c) - 1].kind = "try" => c[Len(c) - 1].of = "pcall"
       /\ LET FR == F[c[Len(c)].thread]
          IN  c[Len(c) - 1].kind = "unroll" /\ FR # <<>> => Held(FR[Len(FR)])
  BY ONLY c[Len(c)].thread = t, c[Len(c) - 1].kind = "unroll", Held(F[t][Len(F[t])])
<1> QED
  BY ONLY <1>1, <1>2, <1>8, <1>20, <1>21, Whole(c, F, V, s, bd, a, b, ef, "none"), PopStep

(* unroll calls a continuation, for the C function at the top, whose frame *)
(* becomes f.                                                              *)
LEMMA ContinueStep ==
  ASSUME NEW c, NEW F, NEW V, NEW s, NEW bd, NEW a, NEW b, NEW ef,
         Whole(c, F, V, s, bd, a, b, ef, "none"), c[Len(c)].kind = "unroll",
         NEW t, c[Len(c)].thread = t, F[t] # <<>>,
         NEW f \in FrameSet, FrameOK(f), ~f.lua, ~f.ypcall, f.recst = "ok",
         f.func = F[t][Len(F[t])].func, f.lua = F[t][Len(F[t])].lua,
         f.fresh = F[t][Len(F[t])].fresh,
         NEW r, r = Continuation(t),
         NEW G, Replaced(F, t, f, G), NEW ef2, Typed(V, s, bd, ef2, "none")
  PROVE  Whole(Append(c, r), G, V, s, bd, a, b, ef2, "none")
<1>1. /\ Ready(c, F, s, a, b, "none") /\ s[t] # "err" /\ t \in Thread
      /\ F[t] \in Seq(FrameSet) /\ Len(F[t]) \in Nat
      /\ c \in Seq(Acts) /\ Len(c) > 0
  BY ONLY Whole(c, F, V, s, bd, a, b, ef, "none"), c[Len(c)].thread = t, WholeFacts
<1>2. /\ r \in Acts /\ Call(r) /\ r.inc = 0 /\ r.cont /\ r.thread = t /\ r.kind = "cfun"
  BY ONLY <1>1, r = Continuation(t) DEF Continuation, Acts, Call
<1>3. Len(F[t]) \in 1 .. Len(F[t])
  <2>1. Len(F[t]) > 0
    BY ONLY <1>1, F[t] # <<>>
  <2> QED
    BY ONLY <2>1, <1>1
<1>4. Continued(F[t], Len(F[t]), r, f)
  BY <1>2, <1>3 DEF Continued
<1>5. Retopped(F, t, Len(F[t]), f, G)
  BY ONLY Replaced(F, t, f, G) DEF Replaced, Retopped
<1>6. Ready(Append(c, r), G, s, a, b, "none")
  BY ONLY <1>1, <1>2, <1>4, <1>5, c[Len(c)].thread = t, c[Len(c)].kind = "unroll", PushContinued
<1>7. Goes(c, F, Append(c, r), G)
  <2>1. \A u \in Thread : u # c[Len(c)].thread => G[u] = F[u]
    BY ONLY Replaced(F, t, f, G), c[Len(c)].thread = t DEF Replaced
  <2>2. r.thread = c[Len(c)].thread
    BY ONLY <1>2, c[Len(c)].thread = t
  <2> QED
    BY ONLY <1>1, <1>2, <2>1, <2>2, GoesPush
<1>8. Tips(Append(c, r), G)
  <2>1. Append(c, r)[Len(Append(c, r))] = r
    BY ONLY <1>1, <1>2
  <2> QED
    BY ONLY <1>2, <2>1 DEF Tips
<1>9. "none" # "yield"
  OBVIOUS
<1> QED
  BY ONLY <1>6, <1>7, <1>8, <1>9, Whole(c, F, V, s, bd, a, b, ef, "none"),
          Typed(V, s, bd, ef2, "none"), StepRuns

(* The end of finishpcallk.                                                *)
LEMMA PcallkFinishedStep ==
  ASSUME NEW c, Inv1, ci[L] # <<>>, top.ypcall,
         Whole(c, ci, tbc, status, body, nC, nny, errfunc, "none"),
         c[Len(c)].kind = "unroll", c[Len(c)].thread = L, PcallkFinished(c)
  PROVE  Whole(cs', ci', tbc, status, body, nC, nny, errfunc', "none")
<1> DEFINE f == [top EXCEPT !.recst = "ok", !.ypcall = FALSE]
           r == Continuation(L)
<1>1. /\ ci' = [ci EXCEPT ![L] = WithTop(L, f)]
      /\ errfunc' = [errfunc EXCEPT ![L] = top.olderr] /\ cs' = Append(c, r)
  BY DEF PcallkFinished
<1>2. /\ L \in Thread /\ errfunc \in [Thread -> Nat]
      /\ ci \in [Thread -> Seq(FrameSet)] /\ ci[L] \in Seq(FrameSet)
      /\ ci[L][Len(ci[L])] = top /\ top \in FrameSet /\ FrameOK(top)
      /\ WithTop(L, f) = Retop(ci[L], Len(ci[L]), f)
  BY InvFacts
<1>3. Typed(tbc, status, body, errfunc, "none")
  BY ONLY Whole(c, ci, tbc, status, body, nC, nny, errfunc, "none"), WholeFacts
<1>4. /\ f \in FrameSet /\ FrameOK(f) /\ ~f.lua /\ ~f.ypcall /\ f.recst = "ok"
      /\ f.func = ci[L][Len(ci[L])].func /\ f.lua = ci[L][Len(ci[L])].lua
      /\ f.fresh = ci[L][Len(ci[L])].fresh
  BY <1>2 DEF FrameSet, FrameOK
<1>5. Typed(tbc, status, body, errfunc', "none")
  <2>1. top.olderr \in Nat
    BY ONLY <1>2, FrameFacts
  <2>2. errfunc' \in [Thread -> Nat]
    BY ONLY <1>1, <1>2, <2>1
  <2> QED
    BY ONLY <1>3, <2>2 DEF Typed
<1>6. r = Continuation(L)
  OBVIOUS
<1> HIDE DEF f, r
<1>7. Replaced(ci, L, f, ci')
  BY ONLY <1>1, <1>2, <1>4, ci[L] # <<>>, ReplacedBy
<1>8. Whole(Append(c, r), ci', tbc, status, body, nC, nny, errfunc', "none")
  BY ONLY <1>4, <1>5, <1>6, <1>7, ci[L] # <<>>, c[Len(c)].kind = "unroll", c[Len(c)].thread = L,
          Whole(c, ci, tbc, status, body, nC, nny, errfunc, "none"), ContinueStep
<1> QED
  BY ONLY <1>1, <1>8

(* The end of the closing in finishpcallk keeps the invariant.             *)
LEMMA PcallkClosedKeeps ==
  ASSUME Inv1, PcallkClosed
  PROVE  Inv1'
<1>1. /\ exc = "none" /\ cur.kind = "close" /\ cur.for = "finishpcallk"
      /\ PcallkFinished(Popped(cs))
      /\ UNCHANGED <<tbc, status, body, nC, nny, exc>>
  BY DEF PcallkClosed, NothingToClose, Running, counts, Front, Popped
<1>2. /\ Whole(cs, ci, tbc, status, body, nC, nny, errfunc, "none")
      /\ Ready(cs, ci, status, nC, nny, "none")
      /\ cs[Len(cs)] = cur /\ cur.thread = L
      /\ ci \in [Thread -> Seq(FrameSet)]
      /\ ci[L] # <<>> => ci[L][Len(ci[L])] = top /\ FrameOK(top)
  BY <1>1, InvFacts DEF Inv1
<1>3. cs[Len(cs)].thread = L /\ cs[Len(cs)].kind = "close" /\ cs[Len(cs)].for = "finishpcallk"
  BY ONLY <1>1, <1>2
<1>4. /\ cs[Len(cs) - 1].thread = L /\ ci[L] # <<>> /\ cs[Len(cs) - 1].kind = "unroll"
      /\ ci[L][Len(ci[L])].ypcall /\ ~First(cs[Len(cs)])
  BY ONLY <1>2, <1>3, ClosingTop
<1>5. top.ypcall /\ Held(ci[L][Len(ci[L])])
  BY ONLY <1>2, <1>4 DEF FrameOK, Held
<1>6. Whole(Popped(cs), ci, tbc, status, body, nC, nny, errfunc, "none")
  BY ONLY <1>2, <1>3, <1>4, <1>5, PopKeeping
<1>7. Popped(cs)[Len(Popped(cs))] = cs[Len(cs) - 1]
  <2>1. \A u \in Thread : u # cs[Len(cs)].thread => ci[u] = ci[u]
    OBVIOUS
  <2> QED
    BY ONLY <1>2, <1>4, <2>1, PoppedFacts
<1>8. Popped(cs)[Len(Popped(cs))].kind = "unroll" /\ Popped(cs)[Len(Popped(cs))].thread = L
  BY ONLY <1>4, <1>7
<1>9. Whole(cs', ci', tbc, status, body, nC, nny, errfunc', "none")
  BY ONLY <1>1, <1>4, <1>5, <1>6, <1>8, Inv1, PcallkFinishedStep
<1> QED
  BY ONLY <1>1, <1>9 DEF Inv1
(* A beginning of a beginning.                                             *)
LEMMA CutTwice ==
  ASSUME NEW S, NEW c \in Seq(S), NEW n \in 0 .. Len(c), NEW m \in 0 .. n
  PROVE  SubSeq(SubSeq(c, 1, n), 1, m) = SubSeq(c, 1, m)
<1> DEFINE d == SubSeq(c, 1, n)
<1>1. Len(c) \in Nat /\ n \in Nat /\ m \in Nat /\ n <= Len(c) /\ m <= n
  OBVIOUS
<1>2. d \in Seq(S) /\ Len(d) = n /\ \A i \in 1 .. n : d[i] = c[i]
  OBVIOUS
<1> HIDE DEF d
<1>3. SubSeq(d, 1, m) \in Seq(S) /\ Len(SubSeq(d, 1, m)) = m
      /\ \A i \in 1 .. m : SubSeq(d, 1, m)[i] = d[i]
  BY ONLY <1>1, <1>2
<1>4. SubSeq(c, 1, m) \in Seq(S) /\ Len(SubSeq(c, 1, m)) = m
      /\ \A i \in 1 .. m : SubSeq(c, 1, m)[i] = c[i]
  BY ONLY <1>1, c \in Seq(S)
<1>5. \A i \in 1 .. m : SubSeq(d, 1, m)[i] = SubSeq(c, 1, m)[i]
  BY ONLY <1>1, <1>2, <1>3, <1>4
<1> QED
  BY ONLY <1>3, <1>4, <1>5 DEF d

(* lua_resume or luaE_resetthread returns, and its thread leaves the C     *)
(* stack.                                                                  *)
LEMMA LeaveStep ==
  ASSUME NEW c, NEW F, NEW V, NEW s, NEW bd, NEW a, NEW b, NEW ef, NEW e,
         Whole(c, F, V, s, bd, a, b, ef, e),
         NEW n, NEW t, Starter(c, n, t),
         NEW s2, NEW a2, NEW b2, Left(F, s, a, b, t, s2, a2, b2),
         Typed(V, s2, bd, ef, "none"),
         s2[t] = "yield" => F[t] # <<>> /\ ~F[t][Len(F[t])].lua /\ ~F[t][Len(F[t])].ypcall
  PROVE  Whole(SubSeq(c, 1, n), F, V, s2, bd, a2, b2, ef, "none")
<1> DEFINE d == SubSeq(c, 1, n)
<1>1. /\ Ready(c, F, s, a, b, e) /\ Settled(c, F, s, bd, e) /\ c \in Seq(Acts) /\ Len(c) \in Nat
  BY ONLY Whole(c, F, V, s, bd, a, b, ef, e), WholeFacts
<1>2. Ready(d, F, s2, a2, b2, "none")
  BY ONLY <1>1, Starter(c, n, t), Left(F, s, a, b, t, s2, a2, b2), PopStart
<1>3. PICK h : Stack(c, F, h)
  BY ONLY <1>1 DEF Ready
<1>4. /\ n \in 1 .. Len(c) /\ n \in Nat /\ n > 0
      /\ \A i \in n + 1 .. Len(c) : c[i].thread = t
      /\ \A i \in 1 .. n : c[i].thread # t
      /\ c[n].kind = "cfun"
  BY ONLY <1>3, Starter(c, n, t), StarterFacts
<1>5. Len(d) = n /\ \A i \in 1 .. n : d[i] = c[i]
  BY ONLY <1>1, <1>4
<1> HIDE DEF d
<1>6. Settled(d, F, s2, bd, "none")
  <2>1. \A u \in Thread : On(d, u) => u # t /\ On(c, u)
    BY ONLY <1>1, <1>4, <1>5 DEF On
  <2>2. \A u \in Thread : u # t /\ On(c, u) => On(d, u)
    <3>1. \A i \in 1 .. Len(c) : i \in 1 .. n \/ i \in n + 1 .. Len(c)
      BY ONLY <1>1, <1>4
    <3> QED
      BY ONLY <1>4, <1>5, <3>1 DEF On
  <2>3. c[Len(c)].thread = t
    BY DEF Starter
  <2>4. \A u \in Thread : u # t => s2[u] = s[u]
    BY DEF Left
  <2> SUFFICES ASSUME NEW u \in Thread
               PROVE  /\ On(d, u) => ~bd[u] /\ s2[u] = "ok"
                      /\ ~On(d, u) /\ s2[u] = "yield" =>
                           F[u] # <<>> /\ ~F[u][Len(F[u])].lua /\ ~F[u][Len(F[u])].ypcall
    BY DEF Settled
  <2>5. On(d, u) => ~bd[u] /\ s2[u] = "ok"
    BY ONLY <1>1, <2>1, <2>3, <2>4 DEF Settled
  <2>6. ~On(d, u) /\ s2[u] = "yield" =>
           F[u] # <<>> /\ ~F[u][Len(F[u])].lua /\ ~F[u][Len(F[u])].ypcall
    BY <1>1, <2>2, <2>4 DEF Settled
  <2> QED
    BY ONLY <2>5, <2>6
<1>7. Tips(d, F)
  BY ONLY <1>4, <1>5 DEF Tips
<1>8. Raising(d, F, b2, "none") /\ Faults(d, F, V, a2, "none")
  BY ONLY DEF Raising, Faults
<1> QED
  BY ONLY <1>2, <1>6, <1>7, <1>8, Typed(V, s2, bd, ef, "none") DEF Whole, d

(* luaF_close of luaD_closeprotected is at the top.                        *)
LEMMA ProtectedTop ==
  ASSUME NEW c, NEW F, NEW s, NEW a, NEW b, NEW e, Ready(c, F, s, a, b, e),
         NEW t, c[Len(c)].thread = t, c[Len(c)].kind = "close", c[Len(c)].for = "protected"
  PROVE  /\ Len(c) \in Nat /\ Len(c) - 3 \in Nat /\ Len(c) - 3 > 0
         /\ c[Len(c) - 1].thread = t /\ c[Len(c) - 2].thread = t
         /\ c[Len(c) - 1].kind = "try" /\ c[Len(c) - 1].of = "close"
         /\ c[Len(c) - 2].kind \in {"caught", "reset"}
         /\ c[Len(c) - 2] \in Acts
         /\ c[Len(c) - 2].kind = "reset" => F[t] = <<>>
         /\ c[Len(c) - 2].kind = "caught" =>
              c[Len(c) - 3].thread = t /\ c[Len(c) - 3].kind \in {"main", "cfun"}
<1>1. PICK h : h \in [Nat -> Nat] /\ Stack(c, F, h) /\ Tip(c, F, h, e)
  BY DEF Ready
<1> DEFINE n == Len(c)
<1>2. /\ ~First(c[n]) /\ c[n - 1].thread = t /\ c[n - 1].kind = "try" /\ c[n - 1].of = "close"
  BY ClosingTop
<1>3. c[n].kind \notin {"main", "reset", "try"} /\ c[n].thread = t /\ c[n].kind = "close"
      /\ c[n].for = "protected"
  OBVIOUS
<1>4. /\ n \in Nat /\ n - 1 \in Nat /\ n - 1 > 0
      /\ Fit(F[t], c[n - 1], c[n], h[n - 1], Len(F[t]))
  BY ONLY <1>1, <1>3, UnderTop
<1>5. /\ Piled(c) /\ Fits(c, F, h) /\ c[1].kind = "main"
      /\ \A i \in 1 .. Len(c) : c[i] \in Acts
      /\ F[t] \in Seq(FrameSet) /\ Len(F[t]) \in Nat
  <2>1. t \in Thread
    BY ReadyTypes
  <2> QED
    BY ONLY <1>1, <2>1, StackShape
<1>6. n = Len(c)
  OBVIOUS
<1> HIDE DEF n
<1>7. h[n - 1] = Len(F[t])
  BY ONLY <1>2, <1>3, <1>4 DEF Fit
<1>8. n - 2 \in Nat /\ n - 2 > 0 /\ n - 1 \in 2 .. n /\ (n - 1) - 1 = n - 2
  <2>1. n - 1 # 1
    BY ONLY <1>2, <1>5
  <2> QED
    BY ONLY <1>4, <2>1
<1>9. /\ Kinds(c[n - 2], c[n - 1])
      /\ Fit(F[c[n - 1].thread], c[n - 2], c[n - 1], h[n - 2], h[n - 1])
  BY ONLY <1>5, <1>6, <1>8 DEF Piled, Fits
<1>10. Guard(c[n - 1]) /\ ~First(c[n - 1])
  BY ONLY <1>2 DEF Guard, First
<1>11. /\ c[n - 2].kind \in {"caught", "reset"} /\ c[n - 2].thread = t
  BY ONLY <1>2, <1>9, <1>10 DEF Kinds
<1>12. h[n - 2] = Len(F[t])
  BY ONLY <1>2, <1>7, <1>9, <1>10 DEF Fit
<1>13. n - 3 \in Nat /\ n - 3 > 0 /\ n - 2 \in 2 .. n /\ (n - 2) - 1 = n - 3
  <2>1. n - 2 # 1
    BY ONLY <1>5, <1>11
  <2> QED
    BY ONLY <1>4, <1>8, <2>1
<1>14. /\ Kinds(c[n - 3], c[n - 2])
       /\ Fit(F[c[n - 2].thread], c[n - 3], c[n - 2], h[n - 3], h[n - 2])
  BY ONLY <1>5, <1>6, <1>13 DEF Piled, Fits
<1>15. c[n - 2].kind = "reset" => F[t] = <<>>
  <2> SUFFICES ASSUME c[n - 2].kind = "reset" PROVE F[t] = <<>>
    OBVIOUS
  <2>1. First(c[n - 2])
    BY ONLY c[n - 2].kind = "reset", SMTT(30) DEF First
  <2>2. h[n - 2] = 0
    BY ONLY <1>14, <2>1 DEF Fit
  <2>3. Len(F[t]) = 0
    BY ONLY <1>12, <2>2
  <2> QED
    BY ONLY <1>5, <2>3
<1>16. c[n - 2].kind = "caught" => c[n - 3].thread = t /\ c[n - 3].kind \in {"main", "cfun"}
  <2> SUFFICES ASSUME c[n - 2].kind = "caught"
               PROVE  c[n - 3].thread = t /\ c[n - 3].kind \in {"main", "cfun"}
    OBVIOUS
  <2>1. ~First(c[n - 2])
    BY ONLY c[n - 2].kind = "caught" DEF First
  <2> QED
    BY ONLY <1>11, <1>14, <2>1, c[n - 2].kind = "caught" DEF Kinds
<1>17. c[n - 2] \in Acts
  BY ONLY <1>5, <1>6, <1>13
<1> QED
  BY ONLY <1>2, <1>4, <1>6, <1>11, <1>13, <1>15, <1>16, <1>17
(* A thread without frames leaves the C stack.                             *)
LEMMA EmptyLeaves ==
  ASSUME NEW c, NEW F, NEW V, NEW s, NEW bd, NEW a, NEW b, NEW ef,
         Whole(c, F, V, s, bd, a, b, ef, "none"),
         NEW n, NEW t, Starter(c, n, t), F[t] = <<>>
  PROVE  Whole(SubSeq(c, 1, n), F, V, s, bd, a, b, ef, "none")
<1>1. /\ Ready(c, F, s, a, b, "none") /\ Settled(c, F, s, bd, "none") /\ Len(c) \in Nat /\ Len(c) > 0
      /\ Typed(V, s, bd, ef, "none") /\ c[Len(c)].thread \in Thread
  BY ONLY Whole(c, F, V, s, bd, a, b, ef, "none"), WholeFacts
<1>2. c[Len(c)].thread = t
  BY DEF Starter
<1>3. Counted(c, a, b, "none")
  BY ONLY <1>1 DEF Ready
<1>4. s[t] = "ok"
  <2>1. On(c, t)
    BY ONLY <1>1, <1>2 DEF On
  <2>2. t \in Thread /\ "none" # "yield"
    BY ONLY <1>1, <1>2
  <2> QED
    BY ONLY <1>1, <2>1, <2>2 DEF Settled
<1>5. Left(F, s, a, b, t, s, a, b)
  <2>1. \A p \in 1 .. Len(F[t]) - 1 : Held(F[t][p])
    BY ONLY F[t] = <<>>
  <2>2. /\ a \in [Thread -> Nat] /\ b \in [Thread -> Nat]
        /\ a[t] <= ErrorCCalls /\ b[t] <= ErrorCCalls + 1
    BY ONLY <1>1, <1>2, <1>3 DEF Counted
  <2> QED
    BY ONLY <2>1, <2>2 DEF Left
<1>6. s[t] = "yield" => F[t] # <<>> /\ ~F[t][Len(F[t])].lua /\ ~F[t][Len(F[t])].ypcall
  BY ONLY <1>4
<1> QED
  BY ONLY <1>1, <1>5, <1>6, Whole(c, F, V, s, bd, a, b, ef, "none"), Starter(c, n, t), LeaveStep

(* luaD_pcall returns, its error having been dealt with.                   *)
LEMMA CaughtEnds ==
  ASSUME NEW c, NEW F, NEW V, NEW s, NEW bd, NEW a, NEW b, NEW ef,
         Whole(c, F, V, s, bd, a, b, ef, "none"),
         NEW t, c[Len(c)].thread = t, c[Len(c)].kind = "close", c[Len(c)].for = "protected",
         c[Len(c) - 2].kind = "caught",
         NEW ef2, Typed(V, s, bd, ef2, "none")
  PROVE  Whole(SubSeq(c, 1, Len(c) - 3), F, V, s, bd, a, b, ef2, "none")
<1> DEFINE n == Len(c) - 3
           d == SubSeq(c, 1, Len(c) - 1)
           d2 == SubSeq(d, 1, Len(d) - 1)
           d3 == SubSeq(d2, 1, Len(d2) - 1)
<1>1. /\ Ready(c, F, s, a, b, "none") /\ c \in Seq(Acts) /\ Len(c) \in Nat /\ Len(c) > 0
      /\ \A i \in 1 .. Len(c) : c[i] \in Acts
  <2>1. Ready(c, F, s, a, b, "none")
    BY ONLY Whole(c, F, V, s, bd, a, b, ef, "none"), WholeFacts
  <2> QED
    BY ONLY <2>1, ReadyTypes
<1>2. /\ n \in Nat /\ n > 0
      /\ c[Len(c) - 1].thread = t /\ c[Len(c) - 2].thread = t
      /\ c[Len(c) - 1].kind = "try" /\ c[Len(c) - 1].of = "close"
      /\ c[n].thread = t /\ c[n].kind \in {"main", "cfun"}
  BY ONLY <1>1, c[Len(c)].thread = t, c[Len(c)].kind = "close", c[Len(c)].for = "protected",
          c[Len(c) - 2].kind = "caught", ProtectedTop
<1>3. Plain(c)
  BY ONLY <1>2, c[Len(c)].kind = "close" DEF Plain
<1>4. Ready(d, F, s, a, b, "none")
  BY ONLY <1>1, <1>3, PopPlain
<1>5. /\ d \in Seq(Acts) /\ Len(d) = Len(c) - 1 /\ Len(d) \in Nat
      /\ \A i \in 1 .. Len(c) - 1 : d[i] = c[i]
  <2>1. c \in Seq(Acts) /\ c # <<>>
    BY ONLY <1>1
  <2>2. d = Front(c)
    BY ONLY DEF Front
  <2> QED
    BY ONLY <2>1, <2>2, FrontFacts
<1>6. Len(c) - 1 \in 1 .. Len(c) - 1 /\ Len(c) - 2 \in 1 .. Len(c) - 1 /\ n \in 1 .. Len(c) - 2
      /\ n \in 1 .. Len(c) - 1 /\ n \in 1 .. Len(c) - 3 /\ n \in 1 .. Len(c)
      /\ Len(c) - 2 \in 1 .. Len(c) - 2
  BY ONLY <1>1, <1>2
<1>7. d[Len(d)] = c[Len(c) - 1]
  BY ONLY <1>5, <1>6
<1>8. Plain(d)
  BY ONLY <1>2, <1>7 DEF Plain, Guard
<1>9. Ready(d2, F, s, a, b, "none")
  <2> HIDE DEF d
  <2> QED
    BY ONLY <1>4, <1>8, PopPlain
<1>10. /\ d2 \in Seq(Acts) /\ Len(d2) = Len(c) - 2 /\ Len(d2) \in Nat
       /\ \A i \in 1 .. Len(c) - 2 : d2[i] = c[i]
  <2> HIDE DEF d
  <2> QED
    BY ONLY <1>1, <1>2, <1>5
<1>11. d2[Len(d2)] = c[Len(c) - 2]
  BY ONLY <1>6, <1>10
<1>12. Plain(d2)
  BY ONLY <1>11, c[Len(c) - 2].kind = "caught" DEF Plain
<1>13. Ready(d3, F, s, a, b, "none")
  <2> HIDE DEF d2
  <2> QED
    BY ONLY <1>9, <1>12, PopPlain
<1>14. d3 = SubSeq(c, 1, n)
  <2>1. Len(c) - 1 \in 0 .. Len(c) /\ Len(c) - 2 \in 0 .. Len(c) - 1 /\ n \in 0 .. Len(c) - 2
        /\ Len(c) - 2 \in 0 .. Len(c)
    BY ONLY <1>1, <1>2
  <2> DEFINE x == Len(c) - 1
             y == Len(c) - 2
  <2>2. x \in 0 .. Len(c) /\ y \in 0 .. x /\ y \in 0 .. Len(c) /\ n \in 0 .. y
    BY ONLY <2>1
  <2>3. d = SubSeq(c, 1, x) /\ Len(d) - 1 = y /\ d2 = SubSeq(d, 1, y) /\ Len(d2) - 1 = n
        /\ d3 = SubSeq(d2, 1, n)
    <3>1. Len(d) - 1 = y /\ Len(d2) - 1 = n
      BY ONLY <1>1, <1>5, <1>10
    <3> QED
      BY ONLY <3>1
  <2> HIDE DEF x, y, n, d, d2, d3
  <2>4. d2 = SubSeq(c, 1, y)
    BY ONLY <1>1, <2>2, <2>3, CutTwice
  <2> QED
    BY ONLY <1>1, <2>2, <2>3, <2>4, CutTwice
<1> HIDE DEF n, d, d2, d3
<1>15. Ready(SubSeq(c, 1, n), F, s, a, b, "none")
  BY ONLY <1>13, <1>14
<1>16. Goes(c, F, SubSeq(c, 1, n), F)
  <2>1. \A i \in n .. Len(c) : c[i].thread = c[Len(c)].thread
    <3>1. \A i \in n .. Len(c) : i = n \/ i = Len(c) - 2 \/ i = Len(c) - 1 \/ i = Len(c)
      BY ONLY <1>1, <1>2 DEF n
    <3> QED
      BY ONLY <1>2, <3>1, c[Len(c)].thread = t
  <2>2. \A u \in Thread : u # c[Len(c)].thread => F[u] = F[u]
    OBVIOUS
  <2> QED
    BY ONLY <1>1, <1>6, <2>1, <2>2, GoesCut
<1>17. Tips(SubSeq(c, 1, n), F)
  <2>1. SubSeq(c, 1, n)[Len(SubSeq(c, 1, n))] = c[n]
    BY ONLY <1>1, <1>6
  <2> QED
    BY ONLY <1>2, <2>1 DEF Tips
<1>18. "none" # "yield"
  OBVIOUS
<1>19. Whole(SubSeq(c, 1, n), F, V, s, bd, a, b, ef2, "none")
  BY ONLY <1>15, <1>16, <1>17, <1>18, Whole(c, F, V, s, bd, a, b, ef, "none"),
          Typed(V, s, bd, ef2, "none"), StepRuns
<1> QED
  BY ONLY <1>19 DEF n

(* The end of luaD_closeprotected keeps the invariant.                     *)
LEMMA ProtectedClosedKeeps ==
  ASSUME Inv1, ProtectedClosed
  PROVE  Inv1'
<1> DEFINE r == cs[Len(cs) - 2]
           n == Len(cs) - 3
<1>1. /\ exc = "none" /\ cur.kind = "close" /\ cur.for = "protected"
      /\ errfunc' = IF r.kind = "caught" THEN [errfunc EXCEPT ![L] = r.errfunc] ELSE errfunc
      /\ cs' = SubSeq(cs, 1, n)
      /\ UNCHANGED <<ci, tbc, status, body, nC, nny, exc>>
  BY DEF ProtectedClosed, NothingToClose, Running, counts
<1>2. /\ Whole(cs, ci, tbc, status, body, nC, nny, errfunc, "none")
      /\ Typed(tbc, status, body, errfunc, "none")
      /\ Ready(cs, ci, status, nC, nny, "none")
      /\ cs[Len(cs)] = cur /\ cur.thread = L /\ errfunc \in [Thread -> Nat]
  BY <1>1, InvFacts DEF Inv1
<1>3. cs[Len(cs)].thread = L /\ cs[Len(cs)].kind = "close" /\ cs[Len(cs)].for = "protected"
  BY ONLY <1>1, <1>2
<1>4. /\ Len(cs) \in Nat /\ n \in Nat /\ n > 0
      /\ r.kind \in {"caught", "reset"} /\ r \in Acts /\ r.thread = L
      /\ r.kind = "reset" => ci[L] = <<>>
  BY ONLY <1>2, <1>3, ProtectedTop
<1>5. CASE r.kind = "caught"
  <2>1. Typed(tbc, status, body, errfunc', "none")
    <3>1. r.errfunc \in Nat
      BY ONLY <1>4, <1>5, ActFacts
    <3>2. errfunc' \in [Thread -> Nat]
      BY ONLY <1>1, <1>2, <1>5, <3>1
    <3> QED
      BY ONLY <1>2, <3>2 DEF Typed
  <2>2. Whole(SubSeq(cs, 1, Len(cs) - 3), ci, tbc, status, body, nC, nny, errfunc', "none")
    BY ONLY <1>2, <1>3, <1>5, <2>1, CaughtEnds
  <2> QED
    BY ONLY <1>1, <2>2 DEF Inv1
<1>6. CASE r.kind = "reset"
  <2>1. errfunc' = errfunc /\ ci[L] = <<>>
    BY ONLY <1>1, <1>4, <1>6
  <2>2. Starter(cs, n, L)
    <3>1. n + 1 = Len(cs) - 2 /\ n \in 1 .. Len(cs) - 1
      BY ONLY <1>4
    <3>2. First(cs[Len(cs) - 2])
      BY ONLY <1>6 DEF First
    <3> QED
      BY ONLY <1>3, <1>4, <3>1, <3>2 DEF Starter
  <2> HIDE DEF n
  <2>3. Whole(SubSeq(cs, 1, n), ci, tbc, status, body, nC, nny, errfunc, "none")
    BY ONLY <1>2, <2>1, <2>2, EmptyLeaves
  <2> QED
    BY ONLY <1>1, <2>1, <2>3 DEF Inv1
<1> QED
  BY ONLY <1>4, <1>5, <1>6

(* unroll is at the top.                                                   *)
LEMMA UnrollTop ==
  ASSUME NEW c, NEW F, NEW s, NEW a, NEW b, NEW e, Ready(c, F, s, a, b, e),
         NEW t, c[Len(c)].thread = t, c[Len(c)].kind = "unroll"
  PROVE  Len(c) \in Nat /\ Starter(c, Len(c) - 2, t)
<1>1. PICK h : h \in [Nat -> Nat] /\ Stack(c, F, h) /\ Tip(c, F, h, e)
  BY DEF Ready
<1>2. c[Len(c)].kind \notin {"main", "reset", "try"}
  OBVIOUS
<1>3. Len(c) \in 2 .. Len(c) /\ Len(c) \in Nat
  BY ONLY <1>1, <1>2, UnderTop
<1>4. /\ Len(c) - 1 \in 2 .. Len(c) /\ Len(c) - 2 \in 1 .. Len(c)
      /\ First(c[Len(c) - 1]) /\ c[Len(c)].thread = c[Len(c) - 1].thread
  BY ONLY <1>1, <1>3, c[Len(c)].kind = "unroll", UnderUnroll
<1>5. Len(c) - 2 + 1 = Len(c) - 1 /\ Len(c) - 2 \in 1 .. Len(c) - 1
  BY ONLY <1>3, <1>4
<1> QED
  BY ONLY <1>3, <1>4, <1>5, c[Len(c)].thread = t DEF Starter

(* The end of unroll keeps the invariant.                                  *)
LEMMA FinishKeeps ==
  ASSUME Inv1, Finish
  PROVE  Inv1'
<1>1. /\ exc = "none" /\ cur.kind = "unroll" /\ ci[L] = <<>>
      /\ cs' = SubSeq(cs, 1, Len(cs) - 2)
      /\ UNCHANGED <<ci, tbc, status, body, nC, nny, errfunc, exc>>
  BY DEF Finish, Unrolling, Running, counts, thread
<1>2. /\ Whole(cs, ci, tbc, status, body, nC, nny, errfunc, "none")
      /\ Ready(cs, ci, status, nC, nny, "none")
      /\ cs[Len(cs)] = cur /\ cur.thread = L
  BY <1>1, InvFacts DEF Inv1
<1>3. cs[Len(cs)].thread = L /\ cs[Len(cs)].kind = "unroll"
  BY ONLY <1>1, <1>2
<1>4. Starter(cs, Len(cs) - 2, L)
  BY ONLY <1>2, <1>3, UnrollTop
<1>5. Whole(SubSeq(cs, 1, Len(cs) - 2), ci, tbc, status, body, nC, nny, errfunc, "none")
  BY ONLY <1>1, <1>2, <1>4, EmptyLeaves
<1> QED
  BY ONLY <1>1, <1>5 DEF Inv1
(* A frame may stay as it is.                                              *)
LEMMA ReplacedSame ==
  ASSUME NEW F \in [Thread -> Seq(FrameSet)], NEW t \in Thread, F[t] # <<>>
  PROVE  Replaced(F, t, F[t][Len(F[t])], F)
<1> DEFINE FR == F[t]
           E == Retop(FR, Len(FR), FR[Len(FR)])
<1>1. FR \in Seq(FrameSet) /\ FR # <<>>
  OBVIOUS
<1> HIDE DEF FR
<1>2. Len(FR) \in 1 .. Len(FR) /\ Len(FR) \in Nat /\ Len(FR) > 0
  BY ONLY <1>1, FrontFacts
<1>3. FR[Len(FR)] \in FrameSet
  BY ONLY <1>1, <1>2
<1>4. /\ E \in Seq(FrameSet) /\ Len(E) = Len(FR) /\ E[Len(E)] = FR[Len(FR)]
      /\ \A q \in 1 .. Len(FR) - 1 : E[q] = FR[q]
  BY ONLY <1>1, <1>3, RetopFacts
<1> HIDE DEF E
<1>5. \A q \in 1 .. Len(FR) : E[q] = FR[q]
  <2>1. \A q \in 1 .. Len(FR) : q \in 1 .. Len(FR) - 1 \/ q = Len(FR)
    BY ONLY <1>2
  <2> QED
    BY ONLY <1>4, <2>1
<1>6. E = FR
  BY ONLY <1>1, <1>4, <1>5
<1> QED
  BY <1>6 DEF Replaced, E, FR

(* unroll, going on with a Lua function, keeps the invariant.              *)
LEMMA FinishLuaKeeps ==
  ASSUME Inv1, FinishLua
  PROVE  Inv1'
<1> DEFINE r == [kind |-> "exec", thread |-> L, inc |-> 0]
<1>1. /\ exc = "none" /\ cur.kind = "unroll" /\ ci[L] # <<>> /\ top.lua
      /\ cs' = Append(cs, r)
      /\ UNCHANGED <<ci, tbc, status, body, nC, nny, errfunc, exc>>
  BY DEF FinishLua, Unrolling, Running, counts, thread
<1>2. /\ Whole(cs, ci, tbc, status, body, nC, nny, errfunc, "none")
      /\ Typed(tbc, status, body, errfunc, "none")
      /\ Ready(cs, ci, status, nC, nny, "none")
      /\ cs[Len(cs)] = cur /\ cur.thread = L /\ L \in Thread /\ cs \in Seq(Acts) /\ Len(cs) > 0
      /\ ci[L] # <<>> => ci[L][Len(ci[L])] = top
  BY <1>1, InvFacts DEF Inv1
<1>3. r \in Acts /\ r.kind = "exec" /\ r.thread = L /\ r.inc = 0
  BY <1>2 DEF Acts
<1> HIDE DEF r
<1>4. cs[Len(cs)].thread = L /\ cs[Len(cs)].kind = "unroll" /\ ci[L][Len(ci[L])].lua
  BY ONLY <1>1, <1>2
<1>5. Ready(Append(cs, r), ci, status, nC, nny, "none")
  <2>1. status[L] # "err"
    BY ONLY <1>1, InvFacts, Inv1
  <2> QED
    BY ONLY <1>1, <1>2, <1>3, <1>4, <2>1, PushExecute
<1>6. Goes(cs, ci, Append(cs, r), ci)
  <2>1. \A u \in Thread : u # cs[Len(cs)].thread => ci[u] = ci[u]
    OBVIOUS
  <2>2. r.thread = cs[Len(cs)].thread
    BY ONLY <1>3, <1>4
  <2> QED
    BY ONLY <1>2, <1>3, <2>1, <2>2, GoesPush
<1>7. Tips(Append(cs, r), ci)
  <2>1. Append(cs, r)[Len(Append(cs, r))] = r
    BY ONLY <1>2, <1>3
  <2> QED
    BY ONLY <1>3, <2>1 DEF Tips
<1>8. "none" # "yield"
  OBVIOUS
<1>9. Whole(Append(cs, r), ci, tbc, status, body, nC, nny, errfunc, "none")
  BY ONLY <1>2, <1>5, <1>6, <1>7, <1>8, StepRuns
<1> QED
  BY ONLY <1>1, <1>9 DEF Inv1

(* finishCcall keeps the invariant.                                        *)
LEMMA FinishCcallKeeps ==
  ASSUME Inv1, FinishCcall
  PROVE  Inv1'
<1>1. /\ exc = "none" /\ cur.kind = "unroll" /\ ci[L] # <<>> /\ ~top.lua
      /\ UNCHANGED <<tbc, status, body, nC, nny, exc>>
  BY DEF FinishCcall, Unrolling, Running, counts
<1>2. /\ Whole(cs, ci, tbc, status, body, nC, nny, errfunc, "none")
      /\ Typed(tbc, status, body, errfunc, "none")
      /\ cs[Len(cs)] = cur /\ cur.thread = L /\ L \in Thread
      /\ ci \in [Thread -> Seq(FrameSet)]
      /\ ci[L][Len(ci[L])] = top /\ top \in FrameSet /\ FrameOK(top)
  BY <1>1, InvFacts DEF Inv1
<1>3. cs[Len(cs)].thread = L /\ cs[Len(cs)].kind = "unroll"
  BY ONLY <1>1, <1>2
<1>4. CASE top.clsret /\ CloseAndReturn(cs) /\ UNCHANGED errfunc
  <2>1. cur.kind \in {"cfun", "unroll"} /\ (cur.kind = "cfun" => top.recst = "ok")
    BY ONLY <1>1
  <2>2. Whole(cs', ci', tbc, status, body, nC, nny, errfunc, "none")
    BY ONLY <1>1, <1>4, <2>1, Inv1, CloseAndReturnKeeps
  <2> QED
    BY ONLY <1>1, <1>4, <2>2 DEF Inv1
<1>5. CASE ~top.clsret /\ top.ypcall /\ UnrollPcallk
  <2>1. CASE top.recst = "ok"
    <3>1. PcallkFinished(cs)
      BY ONLY <1>5, <2>1 DEF UnrollPcallk
    <3>2. Whole(cs', ci', tbc, status, body, nC, nny, errfunc', "none")
      BY ONLY <1>1, <1>2, <1>3, <1>5, <3>1, Inv1, PcallkFinishedStep
    <3> QED
      BY ONLY <1>1, <3>2 DEF Inv1
  <2>2. CASE top.recst # "ok"
    <3> DEFINE r == Closing(L, top.idx, TRUE, "finishpcallk")
    <3>1. cs' = Append(cs, r) /\ ci' = ci /\ errfunc' = errfunc
      BY <1>5, <2>2 DEF UnrollPcallk
    <3>2. top.idx \in Nat
      BY ONLY <1>2, FrameFacts
    <3>3. /\ r \in Acts /\ r.kind = "close" /\ r.thread = L /\ r.level = top.idx
          /\ r.yy = TRUE /\ r.for = "finishpcallk"
      BY <1>2, <3>2 DEF Closing, Acts
    <3> HIDE DEF r
    <3>5. Closes(cs[Len(cs)], ci[L], r)
      BY ONLY <1>1, <1>2, <1>3, <1>5, <2>2, <3>3 DEF Closes
    <3>6. Whole(Append(cs, r), ci, tbc, status, body, nC, nny, errfunc, "none")
      BY ONLY <1>2, <1>3, <3>5, CloseStep
    <3> QED
      BY ONLY <1>1, <3>1, <3>6 DEF Inv1
  <2> QED
    BY ONLY <2>1, <2>2
<1>6. CASE ~top.clsret /\ ~top.ypcall /\ cs' = Append(cs, Continuation(L)) /\ UNCHANGED <<ci, errfunc>>
  <2> DEFINE r == Continuation(L)
             f == top
  <2>1. r = Continuation(L) /\ cs' = Append(cs, r) /\ ci' = ci /\ errfunc' = errfunc
    BY <1>6
  <2>2. /\ f \in FrameSet /\ FrameOK(f) /\ ~f.lua /\ ~f.ypcall /\ f.recst = "ok"
        /\ f.func = ci[L][Len(ci[L])].func /\ f.lua = ci[L][Len(ci[L])].lua
        /\ f.fresh = ci[L][Len(ci[L])].fresh
    BY <1>1, <1>2, <1>6 DEF FrameOK
  <2>3. Replaced(ci, L, ci[L][Len(ci[L])], ci)
    BY ONLY <1>1, <1>2, ReplacedSame
  <2>4. Replaced(ci, L, f, ci)
    BY ONLY <1>2, <2>3
  <2> HIDE DEF r, f
  <2>5. Whole(Append(cs, r), ci, tbc, status, body, nC, nny, errfunc, "none")
    BY ONLY <1>1, <1>2, <1>3, <2>1, <2>2, <2>4, ContinueStep
  <2> QED
    BY ONLY <1>1, <2>1, <2>5 DEF Inv1
<1> QED
  BY <1>4, <1>5, <1>6 DEF FinishCcall
-----------------------------------------------------------------------------
(* Errors *)

(* An error is thrown.                                                     *)
LEMMA ErrStep ==
  ASSUME NEW c, NEW F, NEW V, NEW s, NEW bd, NEW a, NEW b, NEW ef, NEW e,
         Whole(c, F, V, s, bd, a, b, ef, e), e \in {"none", "error"},
         c[Len(c)].kind \in {"exec", "cfun", "unroll", "handler"}
  PROVE  Whole(c, F, V, s, bd, a, b, ef, "err")
<1>1. Ready(c, F, s, a, b, e) /\ Typed(V, s, bd, ef, e) /\ Tips(c, F)
  BY ONLY Whole(c, F, V, s, bd, a, b, ef, e), WholeFacts
<1>2. Ready(c, F, s, a, b, "err")
  <2>1. "err" # "none" /\ (e = "err" => "err" = "err")
    OBVIOUS
  <2> QED
    BY ONLY <1>1, <2>1, Raised
<1>3. Typed(V, s, bd, ef, "err")
  BY ONLY <1>1 DEF Typed
<1>4. Raising(c, F, b, "err") /\ Faults(c, F, V, a, "err")
  BY DEF Raising, Faults
<1>5. \A u \in Thread : u # c[Len(c)].thread => F[u] = F[u]
  OBVIOUS
<1>6. Goes(c, F, c, F)
  BY ONLY <1>5, GoesSame
<1>7. e # "yield"
  OBVIOUS
<1> QED
  BY ONLY <1>1, <1>2, <1>3, <1>4, <1>6, <1>7, Whole(c, F, V, s, bd, a, b, ef, e), StepSame

(* The return of a message handler keeps the invariant.                    *)
LEMMA HandlerReturnsKeeps ==
  ASSUME Inv1, HandlerReturns
  PROVE  Inv1'
<1>1. /\ exc = "none" /\ cur.kind = "handler" /\ exc' = "err"
      /\ UNCHANGED <<cs, ci, tbc, status, body, nC, nny, errfunc>>
  BY DEF HandlerReturns, Running, counts, thread
<1>2. /\ Whole(cs, ci, tbc, status, body, nC, nny, errfunc, exc) /\ cs[Len(cs)] = cur
  BY InvFacts DEF Inv1
<1>3. exc \in {"none", "error"} /\ cs[Len(cs)].kind \in {"exec", "cfun", "unroll", "handler"}
  BY ONLY <1>1, <1>2
<1>4. Whole(cs, ci, tbc, status, body, nC, nny, errfunc, "err")
  BY ONLY <1>2, <1>3, ErrStep
<1> QED
  BY ONLY <1>1, <1>4 DEF Inv1

(* luaG_errormsg calls the message handler.                                *)
LEMMA HandlerCall ==
  ASSUME NEW c, NEW F, NEW V, NEW s, NEW bd, NEW a, NEW b, NEW ef,
         Whole(c, F, V, s, bd, a, b, ef, "error"),
         NEW t, c[Len(c)].thread = t,
         NEW p \in Acts, p.kind = "handler", p.thread = t,
         NEW r \in Acts, r.kind = "exec", r.thread = t, r.inc = 2,
         NEW G, NEW a2, NEW b2, NEW e2,
         CallMade(F, a, b, r, Frame(TRUE, TRUE, FaultAt(c, F[t], V[t])), G, a2, b2, e2)
  PROVE  Whole(Append(Append(c, p), r), G, V, s, bd, a2, b2, ef, e2)
<1> DEFINE d == Append(c, p)
           x == FaultAt(c, F[t], V[t])
           y == TopAt(F[t], V[t])
           f == Frame(TRUE, TRUE, x)
<1>1. /\ Ready(c, F, s, a, b, "error") /\ Typed(V, s, bd, ef, "error") /\ t \in Thread
      /\ Raising(c, F, b, "error") /\ Faults(c, F, V, a, "error")
      /\ c \in Seq(Acts) /\ Len(c) \in Nat /\ Len(c) > 0
      /\ F[t] \in Seq(FrameSet) /\ V[t] \in Seq(VarSet) /\ a \in [Thread -> Nat]
  BY ONLY Whole(c, F, V, s, bd, a, b, ef, "error"), c[Len(c)].thread = t, WholeFacts
<1>2. c[Len(c)].kind \in {"exec", "cfun", "unroll"}
  BY ONLY <1>1 DEF Raising
<1>3. Reaches(c, t, F[t], IF a[t] = LUAI_MAXCCALLS THEN x ELSE y)
  BY ONLY <1>1, c[Len(c)].thread = t DEF Faults
<1>4. c[Len(c) - 1] \in Acts /\ ~First(c[Len(c)])
  <2>1. ~First(c[Len(c)])
    BY ONLY <1>2 DEF First
  <2> QED
    BY ONLY <1>1, <2>1, BelowTop
<1>5. /\ y \in Nat /\ y > 0 /\ (F[t] # <<>> => F[t][Len(F[t])].func < y)
  BY ONLY <1>1, TopAtFacts
<1>6. x \in Nat /\ y <= x
  BY ONLY <1>1, <1>4, FaultAtFacts
<1> HIDE DEF x, y
<1>7. Reaches(c, t, F[t], x)
  <2>1. CASE a[t] = LUAI_MAXCCALLS
    BY ONLY <1>3, <2>1
  <2>2. CASE a[t] # LUAI_MAXCCALLS
    <3>1. Reaches(c, t, F[t], y)
      BY ONLY <1>3, <2>2
    <3> QED
      BY ONLY <1>1, <1>5, <1>6, <3>1, ReachesMore
  <2> QED
    BY ONLY <2>1, <2>2
<1>8. ~Guard(p)
  BY DEF Guard
<1>9. Reaches(d, t, F[t], x)
  BY ONLY <1>1, <1>7, <1>8, p \in Acts, ReachesPush
<1>10. Ready(d, F, s, a, b, "none")
  <2>1. "error" # "err"
    OBVIOUS
  <2> QED
    BY ONLY <1>1, <1>2, <2>1, c[Len(c)].thread = t, p \in Acts, p.kind = "handler", p.thread = t,
            PushHandler
<1>11. /\ d \in Seq(Acts) /\ Len(d) = Len(c) + 1 /\ d[Len(d)] = p
       /\ \A i \in 1 .. Len(c) : d[i] = c[i]
  BY ONLY <1>1, p \in Acts
<1> HIDE DEF d
<1>12. Typed(V, s, bd, ef, "none")
  BY ONLY <1>1 DEF Typed
<1>13. Whole(d, F, V, s, bd, a, b, ef, "none")
  <2>1. Tips(d, F)
    BY ONLY <1>11, p.kind = "handler" DEF Tips
  <2>2. Goes(c, F, d, F)
    <3>1. \A u \in Thread : u # c[Len(c)].thread => F[u] = F[u]
      OBVIOUS
    <3>2. p.thread = c[Len(c)].thread
      BY ONLY p.thread = t, c[Len(c)].thread = t
    <3> QED
      BY ONLY <1>1, <3>1, <3>2, p \in Acts, GoesPush DEF d
  <2>3. "error" # "yield"
    OBVIOUS
  <2> QED
    BY ONLY <1>10, <1>12, <2>1, <2>2, <2>3, Whole(c, F, V, s, bd, a, b, ef, "error"), StepRuns
<1>14. Call(r) /\ r.inc \in {1, 2} /\ NonYieldable(r)
  BY ONLY r.kind = "exec", r.inc = 2 DEF Call, NonYieldable
<1>15. Kinds(d[Len(d)], r)
  BY ONLY <1>11, p.kind = "handler", p.thread = t, r.kind = "exec", r.inc = 2, r.thread = t
     DEF Kinds, First, Call, Guard
<1> DEFINE tt == TRUE
<1>16. tt \in BOOLEAN /\ tt /\ f = Frame(tt, tt, x)
  OBVIOUS
<1> HIDE DEF tt, f
<1>17. /\ f \in FrameSet /\ FrameOK(f) /\ ~f.ypcall /\ f.recst = "ok"
       /\ f.func = x /\ f.lua /\ f.fresh
  <2>1. x > 0
    BY ONLY <1>5, <1>6
  <2> QED
    BY ONLY <1>6, <1>16, <2>1, NewFrame
<1>18. MayCall(d, F[t], r, f)
  <2>1. Above(d, Len(d), r.thread, f)
    BY ONLY <1>9, <1>17, r.thread = t DEF Above, Reaches
  <2>2. F[t] # <<>> => Follows(F[t][Len(F[t])], f)
    <3> SUFFICES ASSUME F[t] # <<>> PROVE Follows(F[t][Len(F[t])], f)
      OBVIOUS
    <3>1. F[t][Len(F[t])] \in FrameSet
      BY ONLY <1>1, F[t] # <<>>
    <3>2. F[t][Len(F[t])].func \in Nat
      BY ONLY <3>1, FrameFacts
    <3>3. F[t][Len(F[t])].func < x
      BY ONLY <1>5, <1>6, <3>2, F[t] # <<>>
    <3> QED
      BY ONLY <1>9, <1>17, <3>3, F[t] # <<>> DEF Follows, Reaches
  <2>3. f.lua <=> r.kind = "exec"
    BY ONLY <1>17, r.kind = "exec"
  <2> QED
    BY ONLY <1>14, <1>17, <2>1, <2>2, <2>3 DEF MayCall
<1>19. CallMade(F, a, b, r, f, G, a2, b2, e2)
  BY DEF f, x
<1>20. e2 = "error" => Reaches(d, t, F[t], FaultAt(Append(d, r), F[t], V[t]))
  <2> SUFFICES ASSUME e2 = "error"
               PROVE  Reaches(d, t, F[t], FaultAt(Append(d, r), F[t], V[t]))
    OBVIOUS
  <2> DEFINE g == Append(d, r)
  <2>1. g[Len(g) - 1] = p
    BY ONLY <1>1, <1>11, r \in Acts
  <2> HIDE DEF g
  <2>2. g[Len(g) - 1] \in Acts /\ g[Len(g) - 1].kind # "close"
    BY ONLY <2>1, p \in Acts, p.kind = "handler"
  <2>3. FaultAt(g, F[t], V[t]) = TopAt(F[t], V[t])
    BY ONLY <1>1, <2>2, FaultAtFacts
  <2>4. a[t] # LUAI_MAXCCALLS
    <3>1. a[t] \in Nat
      BY ONLY <1>1
    <3>2. Overflow(a[t] + 1) = "error"
      BY ONLY <1>19, r.thread = t, e2 = "error" DEF CallMade
    <3>3. a[t] + 1 \in Nat
      BY ONLY <3>1
    <3>4. a[t] + 1 = LUAI_MAXCCALLS
      BY ONLY <3>2, <3>3, OverflowFacts
    <3> QED
      BY ONLY <3>1, <3>4
  <2>5. Reaches(c, t, F[t], y)
    BY ONLY <1>3, <2>4
  <2>6. Reaches(d, t, F[t], y)
    BY ONLY <1>1, <1>8, <2>5, p \in Acts, ReachesPush DEF d
  <2> QED
    BY ONLY <2>3, <2>6 DEF g, y
<1>21. d[Len(d)].thread = t
  BY ONLY <1>11, p.thread = t
<1> QED
  BY ONLY <1>12, <1>13, <1>14, <1>15, <1>18, <1>19, <1>20, <1>21, r \in Acts, r.thread = t,
          CallStep DEF d
(* luaG_errormsg keeps the invariant.                                      *)
LEMMA RaiseKeeps ==
  ASSUME Inv1, Raise
  PROVE  Inv1'
<1>1. exc = "error" /\ UNCHANGED <<tbc, status, body, errfunc>>
  BY DEF Raise
<1>2. /\ Whole(cs, ci, tbc, status, body, nC, nny, errfunc, "error")
      /\ cs[Len(cs)] = cur /\ cs[Len(cs)].thread = L /\ L \in Thread
      /\ ci \in [Thread -> Seq(FrameSet)] /\ ci[L] \in Seq(FrameSet)
      /\ tbc[L] \in Seq(VarSet) /\ cs \in Seq(Acts)
      /\ TopOf(L) = TopAt(ci[L], tbc[L])
  BY <1>1, InvFacts DEF Inv1
<1>3. /\ Ready(cs, ci, status, nC, nny, "error")
      /\ cs[Len(cs)].kind \in {"exec", "cfun", "unroll"}
  <2>1. Raising(cs, ci, nny, "error")
    BY ONLY <1>2, WholeFacts
  <2>2. cs[Len(cs)].kind \in {"exec", "cfun", "unroll"}
    BY ONLY <2>1 DEF Raising
  <2> QED
    BY ONLY <1>2, <2>2, WholeFacts
<1>4. CASE errfunc[L] = 0
  <2>1. exc' = "err" /\ UNCHANGED <<ci, nC, nny, cs>>
    BY <1>4 DEF Raise, counts
  <2>2. cs[Len(cs)].kind \in {"exec", "cfun", "unroll", "handler"} /\ "error" \in {"none", "error"}
    BY ONLY <1>3
  <2>3. Whole(cs, ci, tbc, status, body, nC, nny, errfunc, "err")
    BY ONLY <1>2, <2>2, ErrStep
  <2> QED
    BY ONLY <1>1, <2>1, <2>3 DEF Inv1
<1>5. CASE errfunc[L] # 0
  <2> DEFINE p == [kind |-> "handler", thread |-> L]
             d == Append(cs, p)
             z == 2
             r == Activation(TRUE, z)
             x == FaultAt(cs, ci[L], tbc[L])
  <2>1. CCall(z, TRUE, ErrorTop, ci[L], d)
    BY <1>5 DEF Raise
  <2>2. ErrorTop = x
    BY <1>2 DEF ErrorTop, FaultAt, below
  <2>3. p \in Acts /\ p.kind = "handler" /\ p.thread = L
    BY <1>2 DEF Acts
  <2>4. z \in 1 .. 2 /\ z = 2
    OBVIOUS
  <2> HIDE DEF p, z, d
  <2>5. x \in Nat
    <3>1. ~First(cs[Len(cs)])
      BY ONLY <1>3 DEF First
    <3>2. cs[Len(cs) - 1] \in Acts
      BY ONLY <1>3, <3>1, BelowTop
    <3> QED
      BY ONLY <1>2, <3>2, FaultAtFacts
  <2> HIDE DEF x
  <2>6. CCall(z, TRUE, x, ci[L], d)
    BY ONLY <2>1, <2>2
  <2>7. /\ r \in Acts /\ Call(r) /\ r.inc = z /\ r.thread = L /\ r.kind = "exec"
        /\ CallMade([ci EXCEPT ![L] = ci[L]], nC, nny, r, Frame(TRUE, TRUE, x),
                    ci', nC', nny', exc')
    BY ONLY <1>2, <2>4, <2>5, <2>6, LuaCallMade
  <2>8. cs' = Append(d, r)
    BY ONLY <2>1 DEF CCall
  <2> HIDE DEF r
  <2>9. [ci EXCEPT ![L] = ci[L]] = ci
    BY ONLY <1>2
  <2>10. CallMade(ci, nC, nny, r, Frame(TRUE, TRUE, x), ci', nC', nny', exc')
    BY ONLY <2>7, <2>9
  <2>11. CallMade(ci, nC, nny, r, Frame(TRUE, TRUE, FaultAt(cs, ci[L], tbc[L])),
                  ci', nC', nny', exc')
    BY ONLY <2>10 DEF x
  <2>12. r.inc = 2
    BY ONLY <2>4, <2>7
  <2>13. Whole(Append(Append(cs, p), r), ci', tbc, status, body, nC', nny', errfunc, exc')
    BY ONLY <1>2, <2>3, <2>7, <2>11, <2>12, HandlerCall
  <2> QED
    BY ONLY <1>1, <2>8, <2>13 DEF Inv1, d
<1> QED
  BY ONLY <1>4, <1>5

(* luaD_throw finds a protected call of the running thread.                *)
LEMMA TargetFacts ==
  ASSUME Inv1, exc \in {"err", "yield", "exception"}
  PROVE  /\ Target \in 1 .. Len(cs) - 1 /\ Target \in 2 .. Len(cs) /\ Catcher = cs[Target]
         /\ cs[Target].kind = "try" /\ cs[Target].thread = L /\ cs[Target] \in Acts
         /\ \A i \in Target + 1 .. Len(cs) : cs[i].kind # "try"
         /\ cs[Len(cs)].kind \in {"exec", "cfun", "unroll", "handler"}
<1>1. /\ Whole(cs, ci, tbc, status, body, nC, nny, errfunc, exc)
      /\ cs[Len(cs)] = cur /\ cs[Len(cs)].thread = L
  BY InvFacts DEF Inv1
<1>2. /\ Ready(cs, ci, status, nC, nny, exc) /\ Raising(cs, ci, nny, exc)
      /\ cs \in Seq(Acts) /\ Len(cs) \in Nat /\ Len(cs) > 0
  BY ONLY <1>1, WholeFacts
<1>3. cs[Len(cs)].kind \in {"exec", "cfun", "unroll", "handler"}
  BY ONLY <1>2, exc \in {"err", "yield", "exception"} DEF Raising
<1>4. PICK h : h \in [Nat -> Nat] /\ Stack(cs, ci, h)
  BY ONLY <1>2 DEF Ready
<1>5. /\ Caught(cs) /\ Segments(cs, h) /\ cs[1].kind = "main"
      /\ \A i \in 1 .. Len(cs) : cs[i] \in Acts
  BY ONLY <1>4, StackShape
<1> DEFINE S == {i \in 1 .. Len(cs) : cs[i].kind = "try"}
           n == Len(cs)
<1>6. Len(cs) \in 2 .. Len(cs)
  <2>1. n = Len(cs)
    OBVIOUS
  <2> HIDE DEF n
  <2>2. n # 1
    BY ONLY <1>3, <1>5, <2>1
  <2> QED
    BY ONLY <1>2, <2>1, <2>2
<1>7. PICK j \in 1 .. Len(cs) : cs[j].kind = "try" /\ cs[j].thread = L
  <2>1. cs[Len(cs)].kind \notin {"reset", "caught"}
    BY ONLY <1>3
  <2>2. \E j \in 1 .. Len(cs) : cs[j].kind = "try" /\ cs[j].thread = cs[Len(cs)].thread
    BY ONLY <1>5, <1>6, <2>1 DEF Caught
  <2> QED
    BY ONLY <1>1, <2>2
<1>8. j \in S
  BY ONLY <1>7
<1>9. Target = IF S # {} THEN CHOOSE x \in S : \A y \in S : x >= y ELSE 0
  BY DEF Target, SelectLastInSeq, Max
<1>10. S \in SUBSET (0 .. n) /\ n \in Nat
  BY ONLY <1>2
<1>11. n = Len(cs)
  OBVIOUS
<1> HIDE DEF n
<1>12. \E x \in S : \A y \in S : y <= x
  <2> HIDE DEF S
  <2> QED
    BY ONLY <1>8, <1>10, GreatestNumber
<1>13. \E x \in S : \A y \in S : x >= y
  BY ONLY <1>2, <1>12
<1>14. Target \in S /\ \A y \in S : Target >= y
  <2> HIDE DEF S
  <2> QED
    BY ONLY <1>9, <1>13
<1>15. /\ Target \in 1 .. Len(cs) /\ cs[Target].kind = "try" /\ Target >= j
       /\ \A i \in 1 .. Len(cs) : cs[i].kind = "try" => Target >= i
  BY ONLY <1>8, <1>14
<1> DEFINE m == Target
<1> HIDE DEF S
<1>16. m = Target
  OBVIOUS
<1> HIDE DEF m
<1>17. m # Len(cs)
  BY ONLY <1>3, <1>15, <1>16
<1>18. m # 1
  BY ONLY <1>5, <1>15, <1>16
<1>19. m \in 1 .. Len(cs) - 1 /\ m \in 2 .. Len(cs)
  BY ONLY <1>2, <1>15, <1>16, <1>17, <1>18
<1>20. cs[m].thread = L
  <2>1. Len(cs) \in 1 .. Len(cs) /\ j <= Len(cs) /\ m \in j .. Len(cs)
    BY ONLY <1>2, <1>7, <1>15, <1>16
  <2> QED
    BY ONLY <1>1, <1>5, <1>7, <2>1 DEF Segments
<1>21. \A i \in m + 1 .. Len(cs) : cs[i].kind # "try"
  <2> SUFFICES ASSUME NEW i \in m + 1 .. Len(cs), cs[i].kind = "try" PROVE FALSE
    OBVIOUS
  <2>1. i \in 1 .. Len(cs) /\ ~(m >= i)
    BY ONLY <1>2, <1>19
  <2> QED
    BY ONLY <1>15, <1>16, <2>1, cs[i].kind = "try"
<1>22. Catcher = cs[m] /\ cs[m] \in Acts
  BY <1>5, <1>15, <1>16 DEF Catcher
<1> QED
  BY ONLY <1>3, <1>15, <1>16, <1>19, <1>20, <1>21, <1>22
(* A function yields only where nothing but lua_resume would catch it.     *)
LEMMA YieldIsResumed ==
  ASSUME Inv1, exc = "yield"
  PROVE  cs[Target].of = "resume"
<1>1. /\ Whole(cs, ci, tbc, status, body, nC, nny, errfunc, "yield")
      /\ cs[Len(cs)].thread = L
  BY InvFacts DEF Inv1
<1>2. Ready(cs, ci, status, nC, nny, "yield") /\ Raising(cs, ci, nny, "yield")
  BY ONLY <1>1, WholeFacts
<1>3. cs[Len(cs)].kind = "cfun" /\ nny[L] = 0
  BY ONLY <1>1, <1>2 DEF Raising
<1>4. NonYields(cs, L, Len(cs)) = 0
  BY ONLY <1>1, <1>2, <1>3, ReadyTypes
<1>5. PICK h : h \in [Nat -> Nat] /\ Stack(cs, ci, h)
  BY ONLY <1>2 DEF Ready
<1>6. Call(cs[Len(cs)])
  BY ONLY <1>3 DEF Call
<1>7. \A i \in 2 .. Len(cs) : cs[i].thread = L => ~Guard(cs[i])
  BY ONLY <1>1, <1>4, <1>5, <1>6, NothingToCatch
<1>8. /\ Target \in 2 .. Len(cs) /\ cs[Target].kind = "try" /\ cs[Target].thread = L
      /\ cs[Target] \in Acts
  BY TargetFacts
<1> QED
  BY ONLY <1>7, <1>8 DEF Guard

(* Sequences made by appending.                                            *)
LEMMA ConcatTwo ==
  ASSUME NEW S, NEW c \in Seq(S), NEW r \in S, NEW q \in S
  PROVE  c \o <<r, q>> = Append(Append(c, r), q)
<1> DEFINE d == c \o <<r, q>>
           e == Append(Append(c, r), q)
<1>1. Len(c) \in Nat
  OBVIOUS
<1>2. d \in Seq(S) /\ Len(d) = Len(c) + 2 /\ d[Len(c) + 1] = r /\ d[Len(c) + 2] = q
      /\ \A i \in 1 .. Len(c) : d[i] = c[i]
  OBVIOUS
<1>3. e \in Seq(S) /\ Len(e) = Len(c) + 2 /\ e[Len(c) + 1] = r /\ e[Len(c) + 2] = q
      /\ \A i \in 1 .. Len(c) : e[i] = c[i]
  OBVIOUS
<1> HIDE DEF d, e
<1>4. \A i \in 1 .. Len(c) + 2 : d[i] = e[i]
  <2>1. \A i \in 1 .. Len(c) + 2 : i \in 1 .. Len(c) \/ i = Len(c) + 1 \/ i = Len(c) + 2
    BY ONLY <1>1
  <2> QED
    BY ONLY <1>2, <1>3, <2>1
<1>5. d = e
  BY ONLY <1>2, <1>3, <1>4
<1> QED
  BY ONLY <1>5 DEF d, e

(* A sequence made by appending one element.                               *)
LEMMA ConcatOne ==
  ASSUME NEW S, NEW c \in Seq(S), NEW r \in S
  PROVE  c \o <<r>> = Append(c, r)
OBVIOUS

(* luaD_pcall or luaD_closeprotected catches an error, and calls luaF_close *)
(* in protected mode.                                                      *)
LEMMA CaughtStep ==
  ASSUME NEW c, NEW F, NEW V, NEW s, NEW bd, NEW a, NEW b, NEW ef, NEW e,
         Whole(c, F, V, s, bd, a, b, ef, e), e # "yield",
         NEW j, NEW t, Protecting(c, j, t),
         NEW G, Shrunk(F, t, c[j].depth, G),
         NEW a2, NEW b2, Restored(a, b, t, c[j].nC, c[j].nny, a2, b2),
         NEW d, IF c[j].of = "pcall"
                  THEN \E k \in Acts : /\ k.kind = "caught" /\ k.thread = t
                                       /\ d = Append(SubSeq(c, 1, j - 1), k)
                  ELSE d = SubSeq(c, 1, j - 1),
         NEW r \in Acts, r.kind = "try", r.of = "close", r.thread = t, r.depth = c[j].depth,
         r.nC = c[j].nC, r.nny = c[j].nny, r.level = c[j].level,
         NEW q \in Acts, q.kind = "close", q.for = "protected", ~q.yy, q.thread = t,
         q.level = r.level
  PROVE  Whole(Append(Append(d, r), q), G, V, s, bd, a2, b2, ef, "none")
<1>1. /\ Ready(c, F, s, a, b, e) /\ Typed(V, s, bd, ef, e)
      /\ c \in Seq(Acts) /\ Len(c) \in Nat /\ Len(c) > 0
      /\ F \in [Thread -> Seq(FrameSet)] /\ c[Len(c)].thread \in Thread
      /\ \A u \in Thread : F[u] \in Seq(FrameSet) /\ Len(F[u]) \in Nat /\ Chain(F[u])
  BY ONLY Whole(c, F, V, s, bd, a, b, ef, e), WholeFacts
<1>2. j \in 1 .. Len(c) - 1 /\ Guard(c[j]) /\ c[j].thread = t /\ c[Len(c)].thread = t
  BY DEF Protecting
<1>3. PICK h : h \in [Nat -> Nat] /\ Stack(c, F, h)
  BY ONLY <1>1 DEF Ready
<1> DEFINE m == j - 1
           x == SubSeq(c, 1, m)
           depth == c[j].depth
<1>4. /\ m \in Nat /\ m > 0 /\ m < Len(c) /\ c[m].thread = t
      /\ c[j].of = "pcall" => c[m].kind \in {"main", "cfun"}
      /\ c[j].of = "close" => c[m].kind \in {"caught", "reset"}
      /\ depth \in 0 .. Len(F[t]) /\ c[j].level > 0
      /\ depth > 0 => F[t][depth].func < c[j].level /\ ~F[t][depth].ypcall
      /\ c[j] \in Acts /\ c[j].kind = "try"
  <2>1. /\ j - 1 \in Nat /\ j - 1 > 0 /\ j - 1 < Len(c) /\ c[j - 1].thread = t
        /\ c[j].of = "pcall" => c[j - 1].kind \in {"main", "cfun"}
        /\ c[j].of = "close" => c[j - 1].kind \in {"caught", "reset"}
        /\ c[j].depth \in 0 .. Len(F[t]) /\ c[j].level > 0
        /\ c[j].depth > 0 => F[t][c[j].depth].func < c[j].level /\ ~F[t][c[j].depth].ypcall
        /\ c[j] \in Acts /\ c[j].kind = "try"
    <3>1. Ready(c, F, s, a, b, e) /\ Stack(c, F, h)
      BY ONLY <1>1, <1>3
    <3> QED
      BY ONLY <3>1, Protecting(c, j, t), GuardFacts
  <2> QED
    BY ONLY <2>1
<1>5. t \in Thread
  BY ONLY <1>1, <1>2
<1>6. Ready(x, G, s, a2, b2, "none")
  BY ONLY <1>1, Protecting(c, j, t), Shrunk(F, t, c[j].depth, G),
          Restored(a, b, t, c[j].nC, c[j].nny, a2, b2), BackToGuard
<1>7. x \in Seq(Acts) /\ Len(x) = m /\ x[Len(x)] = c[m] /\ Len(x) > 0
  <2> HIDE DEF m
  <2>1. m \in 1 .. Len(c)
    BY ONLY <1>1, <1>4
  <2> QED
    BY ONLY <1>1, <1>4, <2>1
<1> HIDE DEF depth
<1>8. /\ G[t] \in Seq(FrameSet) /\ Len(G[t]) = depth
      /\ \A i \in 1 .. depth : G[t][i] = F[t][i]
  <2>1. Shrunk(F, t, depth, G)
    BY DEF depth
  <2> QED
    BY ONLY <1>1, <1>4, <1>5, <2>1, ShrunkFrames, ZenonT(60)
<1>9. Len(G[t]) > 0 => G[t][Len(G[t])].func < c[j].level /\ ~G[t][Len(G[t])].ypcall
  <2> SUFFICES ASSUME Len(G[t]) > 0
               PROVE  G[t][Len(G[t])].func < c[j].level /\ ~G[t][Len(G[t])].ypcall
    OBVIOUS
  <2>1. depth > 0 /\ depth \in 1 .. depth
    BY ONLY <1>4, <1>8, Len(G[t]) > 0
  <2> QED
    BY ONLY <1>4, <1>8, <2>1
<1>10. a2[t] = c[j].nC /\ b2[t] = c[j].nny
  BY ONLY Restored(a, b, t, c[j].nC, c[j].nny, a2, b2) DEF Restored
<1>11. Protects(r, "close", t, G[t], a2, b2)
  <2>1. /\ r \in Acts /\ r.kind = "try" /\ r.of = "close" /\ r.thread = t /\ r.depth = depth
        /\ r.nC = c[j].nC /\ r.nny = c[j].nny /\ r.level = c[j].level
    BY DEF depth
  <2> QED
    BY ONLY <1>4, <1>8, <1>9, <1>10, <2>1 DEF Protects
<1>12. x[Len(x)].thread = t
  BY ONLY <1>4, <1>7
<1>13. \A u \in Thread : u # t => G[u] = F[u]
  BY ONLY Shrunk(F, t, c[j].depth, G) DEF Shrunk
<1>14. Goes(c, F, x, G)
  <2>1. m \in 1 .. Len(c)
    BY ONLY <1>1, <1>4
  <2>2. \A i \in m .. Len(c) : c[i].thread = c[Len(c)].thread
    <3>1. Segments(c, h)
      BY ONLY <1>3, StackShape
    <3>2. Len(c) \in 1 .. Len(c) /\ m <= Len(c) /\ c[m].thread = c[Len(c)].thread
      BY ONLY <1>1, <1>2, <1>4
    <3>3. \A k \in m .. Len(c) : c[k].thread = c[m].thread
      BY ONLY <2>1, <3>1, <3>2 DEF Segments
    <3> QED
      BY ONLY <3>2, <3>3
  <2>3. \A u \in Thread : u # c[Len(c)].thread => G[u] = F[u]
    BY ONLY <1>2, <1>13
  <2> HIDE DEF m
  <2> QED
    BY ONLY <1>1, <2>1, <2>2, <2>3, GoesCut
<1> HIDE DEF x, m
<1>15. c[j].of \in {"pcall", "close"}
  BY ONLY <1>2, <1>4, ActFacts DEF Guard
<1>16. /\ Ready(d, G, s, a2, b2, "none") /\ d[Len(d)].kind \in {"caught", "reset"}
       /\ d[Len(d)].thread = t /\ d \in Seq(Acts) /\ Len(d) > 0 /\ Goes(c, F, d, G)
  <2>1. CASE c[j].of = "pcall"
    <3>1. PICK k \in Acts : k.kind = "caught" /\ k.thread = t /\ d = Append(x, k)
      BY <2>1 DEF x, m
    <3>2. x[Len(x)].kind \in {"main", "cfun"}
      BY ONLY <1>4, <1>7, <2>1
    <3>3. Len(G[t]) > 0 => ~G[t][Len(G[t])].ypcall
      BY ONLY <1>9
    <3>4. Ready(Append(x, k), G, s, a2, b2, "none")
      BY ONLY <1>6, <1>12, <3>1, <3>2, <3>3, PushCaught
    <3>5. Goes(x, G, Append(x, k), G)
      <4>1. \A u \in Thread : u # x[Len(x)].thread => G[u] = G[u]
        OBVIOUS
      <4>2. k.thread = x[Len(x)].thread
        BY ONLY <1>12, <3>1
      <4> QED
        BY ONLY <1>7, <3>1, <4>1, <4>2, GoesPush
    <3>6. Goes(c, F, Append(x, k), G)
      BY ONLY <1>2, <1>12, <1>14, <3>5, GoesOn
    <3>7. d[Len(d)] = k /\ d \in Seq(Acts) /\ Len(d) > 0
      BY ONLY <1>7, <3>1
    <3> QED
      BY ONLY <3>1, <3>4, <3>6, <3>7
  <2>2. CASE c[j].of = "close"
    <3>1. d = x
      BY <2>2 DEF x, m
    <3>2. x[Len(x)].kind \in {"caught", "reset"}
      BY ONLY <1>4, <1>7, <2>2
    <3> QED
      BY ONLY <1>6, <1>7, <1>12, <1>14, <3>1, <3>2
  <2> QED
    BY ONLY <1>15, <2>1, <2>2
<1> DEFINE y == Append(d, r)
           z == Append(y, q)
<1>17. Ready(z, G, s, a2, b2, "none")
  BY ONLY <1>11, <1>16, q \in Acts, q.kind = "close", q.thread = t, q.for = "protected", ~q.yy,
          q.level = r.level, PushProtect
<1>18. y \in Seq(Acts) /\ Len(y) > 0 /\ y[Len(y)] = r
  BY ONLY <1>16, r \in Acts
<1>19. Goes(d, G, y, G)
  <2>1. \A u \in Thread : u # d[Len(d)].thread => G[u] = G[u]
    OBVIOUS
  <2>2. r.thread = d[Len(d)].thread
    BY ONLY <1>16, r.thread = t
  <2> QED
    BY ONLY <1>16, r \in Acts, <2>1, <2>2, GoesPush
<1> HIDE DEF y
<1>20. z \in Seq(Acts) /\ z[Len(z)] = q
  BY ONLY <1>18, q \in Acts
<1>21. Goes(y, G, z, G)
  <2>1. \A u \in Thread : u # y[Len(y)].thread => G[u] = G[u]
    OBVIOUS
  <2>2. q.thread = y[Len(y)].thread
    BY ONLY <1>18, r.thread = t, q.thread = t
  <2> QED
    BY ONLY <1>18, q \in Acts, <2>1, <2>2, GoesPush
<1> HIDE DEF z
<1>22. Goes(c, F, z, G)
  <2>1. c[Len(c)].thread = d[Len(d)].thread /\ c[Len(c)].thread = y[Len(y)].thread
    BY ONLY <1>2, <1>16, <1>18, r.thread = t
  <2>2. Goes(c, F, y, G)
    BY ONLY <1>16, <1>19, <2>1, GoesOn
  <2> QED
    BY ONLY <1>21, <2>1, <2>2, GoesOn
<1>23. Tips(z, G)
  BY ONLY <1>20, q.kind = "close" DEF Tips
<1>24. Typed(V, s, bd, ef, "none")
  BY ONLY <1>1 DEF Typed
<1>25. Whole(z, G, V, s, bd, a2, b2, ef, "none")
  BY ONLY <1>17, <1>22, <1>23, <1>24, Whole(c, F, V, s, bd, a, b, ef, e), e # "yield", StepRuns
<1> QED
  BY ONLY <1>25 DEF z, y
(* A protected call of luaD_pcall or luaD_closeprotected catches an error: *)
(* d is the C stack up to luaD_closeprotected.                             *)
LEMMA CaughtKeeps ==
  ASSUME Inv1, NEW of \in {"pcall", "close"}, Catch(of),
         ci' = [ci EXCEPT ![L] = SubSeq(@, 1, Catcher.depth)],
         exc' = "none", UNCHANGED <<tbc, status, body, errfunc>>,
         NEW d \in Seq(Acts),
         IF of = "pcall"
           THEN \E k \in Acts : /\ k.kind = "caught" /\ k.thread = L
                                /\ d = Append(SubSeq(cs, 1, Target - 1), k)
           ELSE d = SubSeq(cs, 1, Target - 1),
         cs' = d \o Protect(Catcher)
  PROVE  Inv1'
<1> DEFINE j == Target
           w == cs[j]
           r == Try(L, "close", w.depth, <<w.nC, w.nny>>, w.level, 0)
           q == Closing(L, w.level, FALSE, "protected")
<1>1. /\ exc \in {"err", "yield", "exception"} /\ Catcher.of = of
      /\ nC' = [nC EXCEPT ![L] = Catcher.nC] /\ nny' = [nny EXCEPT ![L] = Catcher.nny]
  BY DEF Catch
<1>2. /\ j \in 1 .. Len(cs) - 1 /\ Catcher = w
      /\ w.kind = "try" /\ w.thread = L /\ w \in Acts
  BY <1>1, TargetFacts
<1>3. w.of = of
  BY ONLY <1>1, <1>2
<1>4. exc # "yield"
  <2> SUFFICES ASSUME exc = "yield" PROVE FALSE
    OBVIOUS
  <2>1. cs[Target].of = "resume"
    BY ONLY Inv1, exc = "yield", YieldIsResumed
  <2> QED
    BY <1>3, <2>1
<1>5. /\ Whole(cs, ci, tbc, status, body, nC, nny, errfunc, exc)
      /\ Ready(cs, ci, status, nC, nny, exc)
      /\ cs[Len(cs)].thread = L /\ L \in Thread
      /\ ci \in [Thread -> Seq(FrameSet)] /\ ci[L] \in Seq(FrameSet)
      /\ nC \in [Thread -> Nat] /\ nny \in [Thread -> Nat]
  BY InvFacts DEF Inv1
<1>6. Protecting(cs, j, L)
  BY ONLY <1>2, <1>3, <1>5, of \in {"pcall", "close"} DEF Protecting, Guard
<1>7. /\ w.level \in Nat /\ w.depth \in Nat /\ w.nC \in Nat /\ w.nny \in Nat
  BY ONLY <1>2, ActFacts
<1>8. w.depth \in 0 .. Len(ci[L])
  <2>1. PICK h : Stack(cs, ci, h)
    BY ONLY <1>5 DEF Ready
  <2>2. cs[j].depth \in 0 .. Len(ci[L])
    <3> HIDE DEF j
    <3> QED
      BY ONLY <1>5, <1>6, <2>1, GuardFacts
  <2> QED
    BY ONLY <2>2
<1>9. /\ r \in Acts /\ r.kind = "try" /\ r.of = "close" /\ r.thread = L /\ r.depth = w.depth
      /\ r.nC = w.nC /\ r.nny = w.nny /\ r.level = w.level
  BY <1>5, <1>7 DEF Try, Acts
<1>10. /\ q \in Acts /\ q.kind = "close" /\ q.for = "protected" /\ ~q.yy /\ q.thread = L
       /\ q.level = w.level
  BY <1>5, <1>7 DEF Closing, Acts
<1>11. cs' = d \o <<r, q>>
  <2>1. Protect(Catcher) = <<r, q>>
    BY <1>2 DEF Protect
  <2> QED
    BY <2>1
<1>12. ci' = [ci EXCEPT ![L] = SubSeq(@, 1, w.depth)]
  BY ONLY <1>2, ci' = [ci EXCEPT ![L] = SubSeq(@, 1, Catcher.depth)]
<1> HIDE DEF j, r, q
<1>13. cs' = Append(Append(d, r), q)
  BY ONLY <1>9, <1>10, <1>11, d \in Seq(Acts), ConcatTwo
<1>14. Shrunk(ci, L, w.depth, ci')
  <2> DEFINE m == w.depth
  <2>1. m \in 0 .. Len(ci[L]) /\ ci' = [ci EXCEPT ![L] = SubSeq(@, 1, m)]
    BY ONLY <1>8, <1>12
  <2> HIDE DEF m
  <2>2. Shrunk(ci, L, m, ci')
    BY ONLY <1>5, <2>1, ShrunkBy
  <2> QED
    BY ONLY <2>2 DEF m
<1>15. Restored(nC, nny, L, w.nC, w.nny, nC', nny')
  BY ONLY <1>1, <1>2, <1>5, <1>7 DEF Restored
<1>16. IF cs[j].of = "pcall"
         THEN \E k \in Acts : /\ k.kind = "caught" /\ k.thread = L
                              /\ d = Append(SubSeq(cs, 1, j - 1), k)
         ELSE d = SubSeq(cs, 1, j - 1)
  BY <1>3 DEF j
<1>17. q.level = r.level
  BY ONLY <1>9, <1>10
<1>18. Whole(Append(Append(d, r), q), ci', tbc, status, body, nC', nny', errfunc, "none")
  BY ONLY <1>4, <1>5, <1>6, <1>9, <1>10, <1>14, <1>15, <1>16, <1>17, CaughtStep
<1> QED
  BY <1>13, <1>18 DEF Inv1

(* luaD_pcall, catching an error, keeps the invariant.                     *)
LEMMA CaughtByPcallKeeps ==
  ASSUME Inv1, CaughtByPcall
  PROVE  Inv1'
<1> DEFINE x == SubSeq(cs, 1, Target - 1)
           k == [kind |-> "caught", thread |-> L, errfunc |-> Catcher.errfunc]
           d == Append(x, k)
           of == "pcall"
<1>1. /\ exc \in {"err", "yield", "exception"} /\ Catch(of)
      /\ ci' = [ci EXCEPT ![L] = SubSeq(@, 1, Catcher.depth)]
      /\ cs' = x \o <<k>> \o Protect(Catcher)
      /\ exc' = "none" /\ UNCHANGED <<tbc, status, body, errfunc>>
  BY DEF CaughtByPcall, Catch
<1>2. /\ Target \in 1 .. Len(cs) - 1 /\ Catcher = cs[Target]
      /\ cs[Target].kind = "try" /\ cs[Target] \in Acts
  BY <1>1, TargetFacts
<1>3. cs \in Seq(Acts) /\ L \in Thread /\ Len(cs) \in Nat
  BY InvFacts
<1>4. x \in Seq(Acts)
  BY ONLY <1>2, <1>3
<1>5. Catcher.errfunc \in Nat
  BY ONLY <1>2, ActFacts
<1>6. k \in Acts /\ k.kind = "caught" /\ k.thread = L
  BY ONLY <1>3, <1>5 DEF Acts
<1>7. of = "pcall"
  OBVIOUS
<1> HIDE DEF x, k, of
<1>8. x \o <<k>> = d /\ d \in Seq(Acts)
  BY ONLY <1>4, <1>6, ConcatOne
<1>9. cs' = d \o Protect(Catcher)
  BY ONLY <1>1, <1>8
<1>10. IF of = "pcall"
         THEN \E l \in Acts : /\ l.kind = "caught" /\ l.thread = L
                              /\ d = Append(SubSeq(cs, 1, Target - 1), l)
         ELSE d = SubSeq(cs, 1, Target - 1)
  BY <1>6, <1>7 DEF x
<1> HIDE DEF d
<1>11. of \in {"pcall", "close"}
  BY ONLY <1>7
<1> QED
  BY ONLY <1>1, <1>8, <1>9, <1>10, <1>11, Inv1, CaughtKeeps

(* luaD_closeprotected, catching an error, keeps the invariant.            *)
LEMMA CaughtWhileClosingKeeps ==
  ASSUME Inv1, CaughtWhileClosing
  PROVE  Inv1'
<1> DEFINE d == SubSeq(cs, 1, Target - 1)
           of == "close"
<1>1. /\ exc \in {"err", "yield", "exception"} /\ Catch(of)
      /\ ci' = [ci EXCEPT ![L] = SubSeq(@, 1, Catcher.depth)]
      /\ cs' = d \o Protect(Catcher)
      /\ exc' = "none" /\ UNCHANGED <<tbc, status, body, errfunc>>
  BY DEF CaughtWhileClosing, Catch
<1>2. Target \in 1 .. Len(cs) - 1
  BY <1>1, TargetFacts
<1>3. cs \in Seq(Acts) /\ Len(cs) \in Nat
  BY InvFacts
<1>4. d \in Seq(Acts)
  BY ONLY <1>2, <1>3
<1>5. of = "close"
  OBVIOUS
<1>6. d = SubSeq(cs, 1, Target - 1)
  OBVIOUS
<1> HIDE DEF d, of
<1>7. of \in {"pcall", "close"}
  BY ONLY <1>5
<1>8. IF of = "pcall"
         THEN \E l \in Acts : /\ l.kind = "caught" /\ l.thread = L
                              /\ d = Append(SubSeq(cs, 1, Target - 1), l)
         ELSE d = SubSeq(cs, 1, Target - 1)
  BY ONLY <1>5, <1>6
<1> QED
  BY ONLY <1>1, <1>4, <1>7, <1>8, Inv1, CaughtKeeps
(* recover: the coroutine goes on with what lua_pcallk returns.            *)
LEMMA RecoverStep ==
  ASSUME NEW c, NEW F, NEW V, NEW s, NEW bd, NEW a, NEW b, NEW ef,
         Whole(c, F, V, s, bd, a, b, ef, "err"),
         NEW n, NEW t, Resumed(c, n, t),
         NEW u \in Acts, u.kind = "unroll", u.thread = t,
         NEW j, NEW f, NEW G, Unwound(F, t, j, f, G), f.ypcall,
         NEW a2, NEW b2, Restored(a, b, t, c[n].nC, c[n].nny, a2, b2)
  PROVE  Whole(Append(SubSeq(c, 1, n), u), G, V, s, bd, a2, b2, ef, "none")
<1> DEFINE x == SubSeq(c, 1, n)
           y == Append(x, u)
<1>1. /\ Ready(c, F, s, a, b, "err") /\ Typed(V, s, bd, ef, "err")
      /\ c \in Seq(Acts) /\ Len(c) \in Nat /\ Len(c) > 0
      /\ F \in [Thread -> Seq(FrameSet)] /\ c[Len(c)].thread \in Thread
  BY ONLY Whole(c, F, V, s, bd, a, b, ef, "err"), WholeFacts
<1>2. c[Len(c)].thread = t /\ c[n].thread = t
  BY DEF Resumed
<1>3. Ready(y, G, s, a2, b2, "none")
  BY ONLY <1>1, Resumed(c, n, t), u \in Acts, u.kind = "unroll", u.thread = t,
          Unwound(F, t, j, f, G), Restored(a, b, t, c[n].nC, c[n].nny, a2, b2), Recovered
<1>4. PICK h : h \in [Nat -> Nat] /\ Stack(c, F, h)
  BY ONLY <1>1 DEF Ready
<1>5. /\ n \in Nat /\ n > 0 /\ n < Len(c) /\ n \in 1 .. Len(c)
      /\ \A i \in n .. Len(c) : c[i].thread = t
  <2>1. Ready(c, F, s, a, b, "err") /\ Stack(c, F, h)
    BY ONLY <1>1, <1>4
  <2> QED
    BY ONLY <2>1, Resumed(c, n, t), ResumeFacts
<1>6. \A v \in Thread : v # c[Len(c)].thread => G[v] = F[v]
  BY ONLY <1>2, Unwound(F, t, j, f, G) DEF Unwound
<1>7. Goes(c, F, x, G)
  <2>1. \A i \in n .. Len(c) : c[i].thread = c[Len(c)].thread
    BY ONLY <1>2, <1>5
  <2> QED
    BY ONLY <1>1, <1>5, <1>6, <2>1, GoesCut
<1>8. x \in Seq(Acts) /\ Len(x) > 0 /\ x[Len(x)] = c[n]
  BY ONLY <1>1, <1>5
<1> HIDE DEF x
<1>9. y[Len(y)] = u
  BY ONLY <1>8, u \in Acts
<1>10. Goes(x, G, y, G)
  <2>1. \A v \in Thread : v # x[Len(x)].thread => G[v] = G[v]
    OBVIOUS
  <2>2. u.thread = x[Len(x)].thread
    BY ONLY <1>2, <1>8, u.thread = t
  <2> QED
    BY ONLY <1>8, <2>1, <2>2, u \in Acts, GoesPush
<1> HIDE DEF y
<1>11. Goes(c, F, y, G)
  <2>1. c[Len(c)].thread = x[Len(x)].thread
    BY ONLY <1>2, <1>8
  <2> QED
    BY ONLY <1>7, <1>10, <2>1, GoesOn
<1>12. G[t] # <<>> => Held(G[t][Len(G[t])])
  <2>1. /\ j \in 1 .. Len(F[t]) /\ f \in FrameSet /\ FrameOK(f) /\ G[t] = Retop(F[t], j, f)
        /\ F[t][j].ypcall /\ f.lua = F[t][j].lua
    BY ONLY Unwound(F, t, j, f, G) DEF Unwound
  <2>2. F[t] \in Seq(FrameSet) /\ Chain(F[t]) /\ Len(F[t]) \in Nat
    BY ONLY <1>1, <1>2, ReadyTypes
  <2>3. Len(G[t]) = j /\ G[t][j] = f
    <3>1. j - 1 \in 0 .. Len(F[t]) /\ j - 1 \in Nat
      BY ONLY <2>1, <2>2
    <3>2. SubSeq(F[t], 1, j - 1) \in Seq(FrameSet) /\ Len(SubSeq(F[t], 1, j - 1)) = j - 1
      BY ONLY <2>1, <2>2, <3>1
    <3> QED
      BY ONLY <2>1, <2>2, <3>1, <3>2 DEF Retop
  <2> QED
    BY ONLY <2>1, <2>3, f.ypcall DEF FrameOK, Held
<1>13. Tips(y, G)
  BY ONLY <1>9, <1>12, u.kind = "unroll", u.thread = t DEF Tips
<1>14. Typed(V, s, bd, ef, "none") /\ "err" # "yield"
  BY ONLY <1>1 DEF Typed
<1>15. Whole(y, G, V, s, bd, a2, b2, ef, "none")
  BY ONLY <1>3, <1>11, <1>13, <1>14, Whole(c, F, V, s, bd, a, b, ef, "err"), StepRuns
<1> QED
  BY ONLY <1>15 DEF y, x

(* recover keeps the invariant.                                            *)
LEMMA RecoverKeeps ==
  ASSUME Inv1, Recover
  PROVE  Inv1'
<1> DEFINE S == RecoverPoints
           FR == ci[L]
           j == CHOOSE j \in S : \A i \in S : i <= j
           f == [FR[j] EXCEPT !.recst = "err"]
           n == Target
           u == [kind |-> "unroll", thread |-> L]
<1>1. /\ exc = "err" /\ Catcher.of = "resume" /\ S # {}
      /\ nC' = [nC EXCEPT ![L] = Catcher.nC] /\ nny' = [nny EXCEPT ![L] = Catcher.nny]
      /\ ci' = [ci EXCEPT ![L] = Append(SubSeq(@, 1, j - 1), [@[j] EXCEPT !.recst = "err"])]
      /\ cs' = Append(SubSeq(cs, 1, n), u)
      /\ exc' = "none" /\ UNCHANGED <<tbc, status, body, errfunc>>
  BY DEF Recover, Catch
<1>2. /\ n \in 1 .. Len(cs) - 1 /\ Catcher = cs[n]
      /\ cs[n].kind = "try" /\ cs[n].thread = L /\ cs[n] \in Acts
  BY <1>1, TargetFacts
<1>3. /\ Whole(cs, ci, tbc, status, body, nC, nny, errfunc, "err")
      /\ cs[Len(cs)].thread = L /\ L \in Thread
      /\ ci \in [Thread -> Seq(FrameSet)] /\ FR \in Seq(FrameSet) /\ Len(FR) \in Nat
      /\ Chain(FR)
      /\ nC \in [Thread -> Nat] /\ nny \in [Thread -> Nat]
  BY <1>1, InvFacts DEF Inv1
<1>4. j \in 1 .. Len(FR) /\ FR[j].ypcall
  <2>1. S \in SUBSET (0 .. Len(FR)) /\ \A i \in S : i \in 1 .. Len(FR) /\ FR[i].ypcall
    BY <1>3 DEF RecoverPoints
  <2> HIDE DEF S, FR
  <2>2. \E x \in S : \A y \in S : y <= x
    BY ONLY <1>1, <1>3, <2>1, GreatestNumber
  <2>3. j \in S
    BY ONLY <2>2
  <2> HIDE DEF j
  <2> QED
    BY ONLY <2>1, <2>3
<1>5. ci' = [ci EXCEPT ![L] = Retop(FR, j, f)]
  <2> HIDE DEF j
  <2> QED
    BY ONLY <1>1, <1>3 DEF Retop
<1> HIDE DEF S, j
<1>6. FR[j] \in FrameSet /\ FrameOK(FR[j])
  BY ONLY <1>3, <1>4 DEF Chain
<1>7. /\ f \in FrameSet /\ f.func = FR[j].func /\ f.lua = FR[j].lua /\ f.fresh = FR[j].fresh
      /\ f.ypcall
  BY ONLY <1>4, <1>6 DEF FrameSet
<1>8. FrameOK(f)
  BY ONLY <1>4, <1>6 DEF FrameSet, FrameOK
<1>9. u \in Acts /\ u.kind = "unroll" /\ u.thread = L
  BY <1>3 DEF Acts
<1>10. FR = ci[L]
  OBVIOUS
<1> HIDE DEF f, u, FR, n
<1>11. Retop(FR, j, f) \in Seq(FrameSet)
  BY ONLY <1>3, <1>4, <1>7, <1>8, ChainChange
<1>12. Unwound(ci, L, j, f, ci')
  BY ONLY <1>3, <1>4, <1>5, <1>7, <1>8, <1>10, <1>11 DEF Unwound
<1>13. Resumed(cs, n, L)
  BY ONLY <1>1, <1>2, <1>3 DEF Resumed
<1>14. Restored(nC, nny, L, cs[n].nC, cs[n].nny, nC', nny')
  <2>1. cs[n].nC \in Nat /\ cs[n].nny \in Nat
    BY ONLY <1>2, ActFacts
  <2> QED
    BY ONLY <1>1, <1>2, <1>3, <2>1 DEF Restored
<1>15. Whole(Append(SubSeq(cs, 1, n), u), ci', tbc, status, body, nC', nny', errfunc, "none")
  BY ONLY <1>3, <1>7, <1>9, <1>12, <1>13, <1>14, RecoverStep
<1> QED
  BY ONLY <1>1, <1>15 DEF Inv1
(* A continuation that unroll calls may yield.                             *)
LEMMA ContinuationYields ==
  ASSUME NEW c, NEW F, NEW s, NEW a, NEW b, NEW e, Ready(c, F, s, a, b, e),
         NEW t, c[Len(c)].thread = t, c[Len(c)].kind = "cfun", c[Len(c)].cont
  PROVE  b[t] = 0
<1> DEFINE n == Len(c)
           r == c[n]
<1>1. PICK h : h \in [Nat -> Nat] /\ Stack(c, F, h) /\ Tip(c, F, h, e)
  BY DEF Ready
<1>2. r.kind \notin {"main", "reset", "try"}
  OBVIOUS
<1>3. /\ n \in Nat /\ n - 1 \in 1 .. n /\ n \in 2 .. n /\ Kinds(c[n - 1], r)
      /\ c[n - 1].thread = t
  BY ONLY <1>1, <1>2, c[Len(c)].thread = t, UnderTop
<1>4. c[n - 1].kind = "unroll" /\ r.inc = 0
  BY ONLY <1>3, c[Len(c)].kind = "cfun", c[Len(c)].cont DEF Kinds, Call
<1>5. c[1].kind = "main" /\ b[t] = NonYields(c, t, n)
  BY ONLY Ready(c, F, s, a, b, e), c[Len(c)].thread = t, ReadyTypes
<1>6. n = Len(c)
  OBVIOUS
<1>7. r = c[n] /\ r.thread = t
  OBVIOUS
<1> HIDE DEF n, r
<1>8. n - 1 # 1
  BY ONLY <1>4, <1>5
<1>9. n - 1 \in 2 .. Len(c) /\ n - 1 - 1 = n - 2 /\ n - 1 - 2 = n - 3
  BY ONLY <1>3, <1>6, <1>8
<1>10. /\ c[n - 2].kind = "try" /\ t # MainThread
       /\ \A j \in 1 .. n - 3 : c[j].thread # t
  <2> DEFINE m == n - 1
  <2>1. m \in 2 .. Len(c) /\ c[m].kind = "unroll" /\ c[m].thread = t /\ m - 1 = n - 2 /\ m - 2 = n - 3
    BY ONLY <1>3, <1>4, <1>9
  <2> HIDE DEF m
  <2>2. /\ c[m - 1].kind = "try" /\ c[m].thread # MainThread
        /\ \A j \in 1 .. m - 2 : c[j].thread # c[m].thread
    BY ONLY <1>1, <2>1, UnderUnroll
  <2> QED
    BY ONLY <2>1, <2>2
<1>11. \A i \in 0 + 1 .. n : ~(c[i].thread = t /\ NonYieldable(c[i]))
  <2>1. ~NonYieldable(c[n]) /\ ~NonYieldable(c[n - 1]) /\ ~NonYieldable(c[n - 2])
    BY ONLY <1>4, <1>7, <1>10 DEF NonYieldable, Call
  <2>2. \A i \in 0 + 1 .. n : i \in 1 .. n - 3 \/ i = n - 2 \/ i = n - 1 \/ i = n
    BY ONLY <1>3
  <2> QED
    BY ONLY <1>10, <2>1, <2>2
<1>12. 0 \in 0 .. n
  BY ONLY <1>3
<1>13. NonYields(c, t, 0) = NonYields(c, t, n)
  BY ONLY <1>3, <1>11, <1>12, NoNewNonYields
<1>14. NonYields(c, t, 0) = 0
  <2>1. {i \in 1 .. 0 : c[i].thread = t /\ NonYieldable(c[i])} = {}
    OBVIOUS
  <2>2. MainsOwn(t) = 0
    BY ONLY <1>10 DEF MainsOwn
  <2>3. Cardinality({i \in 1 .. 0 : c[i].thread = t /\ NonYieldable(c[i])}) = 0
    BY ONLY <2>1, FS_EmptySet
  <2> QED
    BY ONLY <2>2, <2>3 DEF NonYields
<1> QED
  BY ONLY <1>5, <1>13, <1>14

(* lua_resume returns, and the coroutine has yielded or died.              *)
LEMMA ResumeReturns ==
  ASSUME NEW c, NEW F, NEW V, NEW s, NEW bd, NEW a, NEW b, NEW ef, NEW e,
         Whole(c, F, V, s, bd, a, b, ef, e), e # "none",
         NEW n, NEW t, Resumed(c, n, t),
         NEW a2, NEW b2, Restored(a, b, t, c[n].nC, c[n].nny, a2, b2),
         NEW s2 \in [Thread -> {"ok", "yield", "err"}], \A u \in Thread : u # t => s2[u] = s[u],
         s2[t] # "err" => s2[t] = s[t] /\ b[t] = 0
  PROVE  Whole(SubSeq(c, 1, n - 1), F, V, s2, bd, a2, b2, ef, "none")
<1>1. /\ Ready(c, F, s, a, b, e) /\ Typed(V, s, bd, ef, e) /\ Settled(c, F, s, bd, e)
      /\ Raising(c, F, b, e) /\ Len(c) \in Nat /\ Len(c) > 0 /\ s[c[Len(c)].thread] # "err"
      /\ c[Len(c)].thread \in Thread
  BY ONLY Whole(c, F, V, s, bd, a, b, ef, e), WholeFacts
<1>2. c[Len(c)].thread = t
  BY DEF Resumed
<1>3. PICK h : Stack(c, F, h)
  BY ONLY <1>1 DEF Ready
<1>4. /\ n \in Nat /\ n > 0 /\ n < Len(c) /\ n \in 2 .. Len(c)
      /\ c[n].nC = CCalls(c, n) + 1 /\ c[n].nny = NonYields(c, t, n)
      /\ c[n].nC < ErrorCCalls
      /\ CCalls(c, n) \in Nat
  <2>1. Ready(c, F, s, a, b, e) /\ Stack(c, F, h)
    BY ONLY <1>1, <1>3
  <2> QED
    BY ONLY <2>1, Resumed(c, n, t), ResumeFacts
<1> DEFINE m == n - 1
<1>5. Starter(c, m, t)
  <2>1. m \in 1 .. Len(c) - 1 /\ m + 1 = n
    BY ONLY <1>1, <1>4
  <2>2. First(c[n]) /\ c[n].thread = t
    BY DEF Resumed, First
  <2> HIDE DEF m
  <2> QED
    BY ONLY <1>2, <2>1, <2>2 DEF Starter
<1>6. Left(F, s, a, b, t, s2, a2, b2)
  <2>1. s2[t] # "err" => \A p \in 1 .. Len(F[t]) - 1 : Held(F[t][p])
    <3> SUFFICES ASSUME s2[t] # "err" PROVE \A p \in 1 .. Len(F[t]) - 1 : Held(F[t][p])
      OBVIOUS
    <3>1. b[t] = 0 /\ s[t] # "err"
      BY ONLY <1>1, <1>2, s2[t] # "err", s2[t] # "err" => s2[t] = s[t] /\ b[t] = 0
    <3> QED
      BY ONLY <1>1, <1>2, <3>1, AllHeld
  <2>2. /\ a2 \in [Thread -> Nat] /\ b2 \in [Thread -> Nat]
        /\ \A u \in Thread : u # t => a2[u] = a[u] /\ b2[u] = b[u]
        /\ a2[t] = c[n].nC /\ b2[t] = c[n].nny
    BY ONLY Restored(a, b, t, c[n].nC, c[n].nny, a2, b2) DEF Restored
  <2>3. NonYields(c, t, n) <= CCalls(c, n) + 1 /\ NonYields(c, t, n) \in Nat
    BY ONLY <1>4, NonYieldsAreCalls, CountsAreNumbers
  <2>4. ErrorCCalls \in Nat
    BY CoroutineConstants
  <2>5. a2[t] <= ErrorCCalls /\ b2[t] <= ErrorCCalls + 1
    BY ONLY <1>4, <2>2, <2>3, <2>4
  <2> QED
    BY ONLY <2>1, <2>2, <2>5, \A u \in Thread : u # t => s2[u] = s[u] DEF Left
<1>7. Typed(V, s2, bd, ef, "none")
  BY ONLY <1>1, s2 \in [Thread -> {"ok", "yield", "err"}] DEF Typed
<1>8. s2[t] = "yield" => F[t] # <<>> /\ ~F[t][Len(F[t])].lua /\ ~F[t][Len(F[t])].ypcall
  <2> SUFFICES ASSUME s2[t] = "yield"
               PROVE  F[t] # <<>> /\ ~F[t][Len(F[t])].lua /\ ~F[t][Len(F[t])].ypcall
    OBVIOUS
  <2>1. s[t] = "yield"
    BY ONLY s2[t] = "yield", s2[t] # "err" => s2[t] = s[t] /\ b[t] = 0
  <2>2. On(c, t) /\ t \in Thread
    BY ONLY <1>1, <1>2 DEF On
  <2>3. e = "yield"
    BY ONLY <1>1, <2>1, <2>2 DEF Settled
  <2> QED
    BY ONLY <1>1, <1>2, <2>3 DEF Raising
<1> HIDE DEF m
<1>9. Whole(SubSeq(c, 1, m), F, V, s2, bd, a2, b2, ef, "none")
  BY ONLY <1>5, <1>6, <1>7, <1>8, Whole(c, F, V, s, bd, a, b, ef, e), LeaveStep
<1> QED
  BY ONLY <1>9 DEF m

(* A coroutine that dies of an error keeps the invariant.                  *)
LEMMA DieKeeps ==
  ASSUME Inv1, Die
  PROVE  Inv1'
<1> DEFINE n == Target
<1>1. /\ exc = "err" /\ Catcher.of = "resume"
      /\ nC' = [nC EXCEPT ![L] = Catcher.nC] /\ nny' = [nny EXCEPT ![L] = Catcher.nny]
      /\ status' = [status EXCEPT ![L] = "err"]
      /\ cs' = SubSeq(cs, 1, n - 1)
      /\ exc' = "none" /\ UNCHANGED <<ci, tbc, body, errfunc>>
  BY DEF Die, Catch
<1>2. /\ n \in 1 .. Len(cs) - 1 /\ Catcher = cs[n]
      /\ cs[n].kind = "try" /\ cs[n].thread = L /\ cs[n] \in Acts
  BY <1>1, TargetFacts
<1>3. /\ Whole(cs, ci, tbc, status, body, nC, nny, errfunc, exc)
      /\ Typed(tbc, status, body, errfunc, exc)
      /\ cs[Len(cs)].thread = L /\ L \in Thread
      /\ nC \in [Thread -> Nat] /\ nny \in [Thread -> Nat]
  BY <1>1, InvFacts DEF Inv1
<1> HIDE DEF n
<1>4. Resumed(cs, n, L)
  BY ONLY <1>1, <1>2, <1>3 DEF Resumed
<1>5. Restored(nC, nny, L, cs[n].nC, cs[n].nny, nC', nny')
  <2>1. cs[n].nC \in Nat /\ cs[n].nny \in Nat
    BY ONLY <1>2, ActFacts
  <2> QED
    BY ONLY <1>1, <1>2, <1>3, <2>1 DEF Restored
<1>6. /\ status' \in [Thread -> {"ok", "yield", "err"}]
      /\ \A u \in Thread : u # L => status'[u] = status[u]
      /\ status'[L] # "err" => status'[L] = status[L] /\ nny[L] = 0
  BY ONLY <1>1, <1>3 DEF Typed
<1>7. exc # "none"
  BY ONLY <1>1
<1>8. Whole(SubSeq(cs, 1, n - 1), ci, tbc, status', body, nC', nny', errfunc, "none")
  BY ONLY <1>3, <1>4, <1>5, <1>6, <1>7, ResumeReturns
<1> QED
  BY ONLY <1>1, <1>8 DEF Inv1

(* The return of lua_resume after a yield keeps the invariant.             *)
LEMMA YieldedKeeps ==
  ASSUME Inv1, Yielded
  PROVE  Inv1'
<1> DEFINE n == Target
<1>1. /\ exc \in {"yield", "exception"} /\ Catcher.of = "resume"
      /\ nC' = [nC EXCEPT ![L] = Catcher.nC] /\ nny' = [nny EXCEPT ![L] = Catcher.nny]
      /\ cs' = SubSeq(cs, 1, n - 1)
      /\ exc' = "none" /\ UNCHANGED <<ci, tbc, status, body, errfunc>>
  BY DEF Yielded, Catch
<1>2. /\ n \in 1 .. Len(cs) - 1 /\ Catcher = cs[n]
      /\ cs[n].kind = "try" /\ cs[n].thread = L /\ cs[n] \in Acts
  BY <1>1, TargetFacts
<1>3. /\ Whole(cs, ci, tbc, status, body, nC, nny, errfunc, exc)
      /\ Typed(tbc, status, body, errfunc, exc) /\ Ready(cs, ci, status, nC, nny, exc)
      /\ cs[Len(cs)].thread = L /\ L \in Thread
      /\ nC \in [Thread -> Nat] /\ nny \in [Thread -> Nat]
  BY <1>1, InvFacts DEF Inv1
<1> HIDE DEF n
<1>4. Resumed(cs, n, L)
  BY ONLY <1>1, <1>2, <1>3 DEF Resumed
<1>5. Restored(nC, nny, L, cs[n].nC, cs[n].nny, nC', nny')
  <2>1. cs[n].nC \in Nat /\ cs[n].nny \in Nat
    BY ONLY <1>2, ActFacts
  <2> QED
    BY ONLY <1>1, <1>2, <1>3, <2>1 DEF Restored
<1>6. nny[L] = 0
  <2>1. Raising(cs, ci, nny, exc)
    BY ONLY <1>3, WholeFacts
  <2>2. CASE exc = "yield"
    BY ONLY <1>3, <2>1, <2>2 DEF Raising
  <2>3. CASE exc = "exception"
    <3>1. cs[Len(cs)].kind = "cfun" /\ cs[Len(cs)].cont
      BY ONLY <2>1, <2>3 DEF Raising
    <3> QED
      BY ONLY <1>3, <3>1, ContinuationYields
  <2> QED
    BY ONLY <1>1, <2>2, <2>3
<1>7. /\ status \in [Thread -> {"ok", "yield", "err"}]
      /\ \A u \in Thread : u # L => status[u] = status[u]
      /\ status[L] # "err" => status[L] = status[L] /\ nny[L] = 0
  BY ONLY <1>3, <1>6 DEF Typed
<1>8. exc # "none"
  BY ONLY <1>1
<1>9. Whole(SubSeq(cs, 1, n - 1), ci, tbc, status, body, nC', nny', errfunc, "none")
  BY ONLY <1>3, <1>4, <1>5, <1>7, <1>8, ResumeReturns
<1> QED
  BY ONLY <1>1, <1>9 DEF Inv1
-----------------------------------------------------------------------------
(* Coroutines *)

(* A coroutine that can be resumed, closed or collected is not on the C    *)
(* stack.                                                                  *)
LEMMA OffTheStack ==
  ASSUME Inv1, exc = "none", NEW co \in Thread, co # L, Suspended(co) \/ DeadThread(co)
  PROVE  ~On(cs, co)
<1>1. /\ Whole(cs, ci, tbc, status, body, nC, nny, errfunc, "none") /\ cs[Len(cs)].thread = L
  BY InvFacts DEF Inv1
<1>2. Ready(cs, ci, status, nC, nny, "none") /\ Settled(cs, ci, status, body, "none")
  BY ONLY <1>1, WholeFacts
<1>3. On(cs, co) => ~body[co] /\ status[co] = "ok"
  BY ONLY <1>2, co \in Thread DEF Settled
<1>4. On(cs, co) => ci[co] = <<>>
  BY <1>3 DEF Suspended, DeadThread, NotStarted
<1> SUFFICES ASSUME On(cs, co) PROVE FALSE
  OBVIOUS
<1>5. PICK h : Stack(cs, ci, h)
  BY ONLY <1>2 DEF Ready
<1>6. PICK j \in 1 .. Len(cs) : cs[j].thread = co
  BY ONLY On(cs, co) DEF On
<1>7. cs[j].thread # cs[Len(cs)].thread
  BY ONLY <1>1, <1>6, co # L
<1>8. ci[cs[j].thread] # <<>>
  BY ONLY <1>5, <1>6, <1>7, OthersHaveFrames
<1> QED
  BY ONLY <1>4, <1>6, <1>8, On(cs, co)

(* Something happens to a thread that is not on the C stack.               *)
LEMMA ElsewhereStep ==
  ASSUME NEW c, NEW F, NEW V, NEW s, NEW bd, NEW a, NEW b, NEW ef,
         Whole(c, F, V, s, bd, a, b, ef, "none"),
         NEW t, ~On(c, t), NEW G, NEW s2, Elsewhere(c, F, s, t, G, s2),
         NEW V2, NEW bd2, NEW ef2, Typed(V2, s2, bd2, ef2, "none"),
         \A u \in Thread : u # t => bd2[u] = bd[u],
         s2[t] = "yield" => G[t] # <<>> /\ ~G[t][Len(G[t])].lua /\ ~G[t][Len(G[t])].ypcall
  PROVE  Whole(c, G, V2, s2, bd2, a, b, ef2, "none")
<1>1. /\ Ready(c, F, s, a, b, "none") /\ Settled(c, F, s, bd, "none") /\ Tips(c, F)
      /\ Len(c) \in Nat /\ Len(c) > 0 /\ c[Len(c)].thread \in Thread
  BY ONLY Whole(c, F, V, s, bd, a, b, ef, "none"), WholeFacts
<1>2. Ready(c, G, s2, a, b, "none")
  BY ONLY <1>1, Elsewhere(c, F, s, t, G, s2), OffStack
<1>3. \A u \in Thread : u # t => G[u] = F[u] /\ s2[u] = s[u]
  BY DEF Elsewhere
<1>4. Settled(c, G, s2, bd2, "none")
  <2> SUFFICES ASSUME NEW u \in Thread
               PROVE  /\ On(c, u) => ~bd2[u] /\ s2[u] = "ok"
                      /\ ~On(c, u) /\ s2[u] = "yield" =>
                           G[u] # <<>> /\ ~G[u][Len(G[u])].lua /\ ~G[u][Len(G[u])].ypcall
    BY DEF Settled
  <2>1. CASE u = t
    BY <2>1
  <2>2. CASE u # t
    <3>1. /\ On(c, u) => ~bd[u] /\ s[u] = "ok"
          /\ ~On(c, u) /\ s[u] = "yield" =>
               F[u] # <<>> /\ ~F[u][Len(F[u])].lua /\ ~F[u][Len(F[u])].ypcall
      BY ONLY <1>1, u \in Thread DEF Settled
    <3>2. G[u] = F[u] /\ s2[u] = s[u] /\ bd2[u] = bd[u]
      BY ONLY <1>3, <2>2, u \in Thread, \A v \in Thread : v # t => bd2[v] = bd[v]
    <3> QED
      BY ONLY <3>1, <3>2
  <2> QED
    BY ONLY <2>1, <2>2
<1>5. Tips(c, G)
  <2>1. c[Len(c)].thread # t
    BY ONLY <1>1, ~On(c, t) DEF On
  <2>2. G[c[Len(c)].thread] = F[c[Len(c)].thread]
    BY ONLY <1>1, <1>3, <2>1
  <2> QED
    BY ONLY <1>1, <2>2 DEF Tips
<1>6. Raising(c, G, b, "none") /\ Faults(c, G, V2, a, "none")
  BY ONLY DEF Raising, Faults
<1> QED
  BY ONLY <1>2, <1>4, <1>5, <1>6, Typed(V2, s2, bd2, ef2, "none") DEF Whole

(* A thread without frames.                                                *)
LEMMA ElsewhereEmpty ==
  ASSUME NEW c, NEW F \in [Thread -> Seq(FrameSet)], NEW s \in [Thread -> {"ok", "yield", "err"}],
         NEW t \in Thread, ~On(c, t)
  PROVE  Elsewhere(c, F, s, t, [F EXCEPT ![t] = <<>>], [s EXCEPT ![t] = "ok"])
<1> DEFINE G == [F EXCEPT ![t] = <<>>]
<1>1. G \in [Thread -> Seq(FrameSet)] /\ G[t] = <<>>
      /\ \A u \in Thread : u # t => G[u] = F[u] /\ [s EXCEPT ![t] = "ok"][u] = s[u]
  OBVIOUS
<1>2. Chain(G[t])
  <2>1. Len(G[t]) = 0
    BY ONLY <1>1
  <2> QED
    BY ONLY <1>1, <2>1 DEF Chain
<1>3. \A p \in 1 .. Len(G[t]) - 1 : Held(G[t][p])
  BY ONLY <1>1
<1>4. \A i \in 1 .. Len(c) : c[i].thread # t
  BY DEF On
<1> QED
  BY ONLY <1>1, <1>2, <1>3, <1>4 DEF Elsewhere

(* coroutine.create keeps the invariant.                                   *)
LEMMA CreateKeeps ==
  ASSUME Inv1, NEW co \in Thread, Create(co)
  PROVE  Inv1'
<1>1. /\ exc = "none" /\ co # L /\ DeadThread(co)
      /\ tbc' = [tbc EXCEPT ![co] = <<>>]
      /\ ci' = [ci EXCEPT ![co] = <<>>]
      /\ status' = [status EXCEPT ![co] = "ok"]
      /\ body' = [body EXCEPT ![co] = TRUE]
      /\ errfunc' = [errfunc EXCEPT ![co] = 0]
      /\ UNCHANGED <<nC, nny, cs, exc>>
  BY DEF Create, InC, Running, counts
<1>2. /\ Whole(cs, ci, tbc, status, body, nC, nny, errfunc, "none")
      /\ Typed(tbc, status, body, errfunc, "none")
      /\ ci \in [Thread -> Seq(FrameSet)]
  BY <1>1, InvFacts DEF Inv1
<1>3. ~On(cs, co)
  BY ONLY <1>1, Inv1, co \in Thread, OffTheStack
<1>4. status \in [Thread -> {"ok", "yield", "err"}]
  BY ONLY <1>2 DEF Typed
<1>5. Elsewhere(cs, ci, status, co, ci', status')
  BY ONLY <1>1, <1>2, <1>3, <1>4, co \in Thread, ElsewhereEmpty
<1>6. Typed(tbc', status', body', errfunc', "none")
  <2>1. tbc' \in [Thread -> Seq(VarSet)]
    BY ONLY <1>1, <1>2 DEF Typed
  <2> QED
    BY ONLY <1>1, <1>2, <2>1 DEF Typed
<1>7. \A u \in Thread : u # co => body'[u] = body[u]
  BY ONLY <1>1, <1>2 DEF Typed
<1>8. status'[co] = "yield" =>
        ci'[co] # <<>> /\ ~ci'[co][Len(ci'[co])].lua /\ ~ci'[co][Len(ci'[co])].ypcall
  BY ONLY <1>1, <1>4, co \in Thread
<1>9. Whole(cs, ci', tbc', status', body', nC, nny, errfunc', "none")
  BY ONLY <1>2, <1>3, <1>5, <1>6, <1>7, <1>8, ElsewhereStep
<1> QED
  BY ONLY <1>1, <1>9 DEF Inv1
(* More activations of a thread that was not on the C stack.               *)
Joined(c, d, t) == \A u \in Thread : On(d, u) <=> On(c, u) \/ u = t
(* resume and unroll put the coroutine on the C stack,                     *)
LEMMA JoinedByTwo ==
  ASSUME NEW c \in Seq(Acts), NEW t, NEW r \in Acts, NEW q \in Acts, r.thread = t, q.thread = t
  PROVE  Joined(c, Append(Append(c, r), q), t)
<1> DEFINE d == Append(Append(c, r), q)
<1>1. /\ Len(c) \in Nat /\ Len(d) = Len(c) + 2
      /\ d[Len(c) + 1] = r /\ d[Len(c) + 2] = q
      /\ \A i \in 1 .. Len(c) : d[i] = c[i]
  OBVIOUS
<1> HIDE DEF d
<1>2. \A i \in 1 .. Len(d) : i \in 1 .. Len(c) \/ i = Len(c) + 1 \/ i = Len(c) + 2
  BY ONLY <1>1
<1>3. 1 .. Len(c) \subseteq 1 .. Len(d) /\ Len(c) + 1 \in 1 .. Len(d)
  BY ONLY <1>1
<1>4. Joined(c, d, t)
  BY ONLY <1>1, <1>2, <1>3, r.thread = t, q.thread = t DEF Joined, On
<1> QED
  BY <1>4 DEF d
(* and what they call leaves it there.                                     *)
LEMMA JoinedMore ==
  ASSUME NEW c \in Seq(Acts), NEW d \in Seq(Acts), NEW t, NEW r \in Acts, r.thread = t,
         Joined(c, d, t)
  PROVE  Joined(c, Append(d, r), t)
<1> DEFINE e == Append(d, r)
<1>1. /\ Len(d) \in Nat /\ Len(e) = Len(d) + 1
      /\ e[Len(d) + 1] = r
      /\ \A i \in 1 .. Len(d) : e[i] = d[i]
  OBVIOUS
<1> HIDE DEF e
<1>2. \A i \in 1 .. Len(e) : i \in 1 .. Len(d) \/ i = Len(d) + 1
  BY ONLY <1>1
<1>3. 1 .. Len(d) \subseteq 1 .. Len(e) /\ Len(d) + 1 \in 1 .. Len(e)
  BY ONLY <1>1
<1>4. \A u \in Thread : On(e, u) <=> On(d, u) \/ u = t
  BY ONLY <1>1, <1>2, <1>3, r.thread = t DEF On
<1>5. Joined(c, e, t)
  BY ONLY <1>4, Joined(c, d, t) DEF Joined
<1> QED
  BY <1>5 DEF e
(* A coroutine gets on the C stack.                                        *)
LEMMA JoinSettled ==
  ASSUME NEW c, NEW F, NEW s, NEW bd, Settled(c, F, s, bd, "none"),
         NEW d, NEW t, Joined(c, d, t), s[t] = "ok", ~bd[t]
  PROVE  Settled(d, F, s, bd, "none")
  BY "none" # "yield" DEF Settled, Joined
(* luaE_resetthread closes the variables of a coroutine in protected mode. *)
LEMMA ResetStep ==
  ASSUME NEW c, NEW F, NEW V, NEW s, NEW bd, NEW a, NEW b, NEW ef,
         Whole(c, F, V, s, bd, a, b, ef, "none"), c[Len(c)].kind = "cfun",
         NEW t, t # MainThread, ~On(c, t), F[t] = <<>>, s[t] = "ok", ~bd[t],
         NEW r \in Acts, r.kind = "reset", r.thread = t,
         NEW a2, NEW b2, Restored(a, b, t, a[c[Len(c)].thread], 0, a2, b2),
         NEW p, Protects(p, "close", t, F[t], a2, b2),
         NEW q \in Acts, q.kind = "close", q.thread = t, q.for = "protected", ~q.yy,
         q.level = p.level
  PROVE  Whole(Append(Append(Append(c, r), p), q), F, V, s, bd, a2, b2, ef, "none")
<1> DEFINE c1 == Append(c, r)
           d == Append(Append(c1, p), q)
<1>1. /\ Ready(c, F, s, a, b, "none") /\ Typed(V, s, bd, ef, "none")
      /\ Settled(c, F, s, bd, "none") /\ c \in Seq(Acts) /\ Len(c) \in Nat
  BY ONLY Whole(c, F, V, s, bd, a, b, ef, "none"), WholeFacts
<1>2. \A i \in 1 .. Len(c) : c[i].thread # t
  BY ONLY ~On(c, t) DEF On
<1>3. Ready(c1, F, s, a2, b2, "none")
  BY ONLY <1>1, <1>2, c[Len(c)].kind = "cfun", t # MainThread, F[t] = <<>>,
          r \in Acts, r.kind = "reset", r.thread = t,
          Restored(a, b, t, a[c[Len(c)].thread], 0, a2, b2), PushReset
<1>4. /\ c1 \in Seq(Acts) /\ Len(c1) = Len(c) + 1 /\ c1[Len(c1)] = r
  BY <1>1
<1>5. p \in Acts /\ p.thread = t
  BY DEF Protects
<1>6. /\ d \in Seq(Acts) /\ Len(d) = Len(c) + 3 /\ d[Len(d)] = q
  BY <1>1, <1>5
<1>7. Joined(c, Append(c1, p), t) /\ Append(c1, p) \in Seq(Acts)
  <2>1. Joined(c, Append(Append(c, r), p), t)
    BY ONLY <1>1, <1>5, r \in Acts, r.thread = t, JoinedByTwo
  <2> QED
    BY <2>1, <1>4, <1>5
<1> HIDE DEF c1
<1>8. Joined(c, d, t)
  <2>1. Joined(c, Append(Append(c1, p), q), t)
    BY ONLY <1>1, <1>7, q \in Acts, q.thread = t, JoinedMore
  <2> QED
    BY <2>1
<1>9. Ready(d, F, s, a2, b2, "none")
  <2>1. c1[Len(c1)].thread = t /\ c1[Len(c1)].kind \in {"caught", "reset"}
    BY <1>4
  <2>2. Ready(Append(Append(c1, p), q), F, s, a2, b2, "none")
    BY ONLY <1>3, <2>1, Protects(p, "close", t, F[t], a2, b2), q \in Acts, q.kind = "close",
            q.thread = t, q.for = "protected", ~q.yy, q.level = p.level, PushProtect
  <2> QED
    BY <2>2
<1> HIDE DEF d
<1>10. Settled(d, F, s, bd, "none")
  BY ONLY <1>1, <1>8, s[t] = "ok", ~bd[t], JoinSettled
<1>11. Tips(d, F)
  BY ONLY <1>6, q.kind = "close" DEF Tips
<1>12. Raising(d, F, b2, "none") /\ Faults(d, F, V, a2, "none")
  BY DEF Raising, Faults
<1>13. Whole(d, F, V, s, bd, a2, b2, ef, "none")
  BY ONLY <1>1, <1>9, <1>10, <1>11, <1>12 DEF Whole
<1> QED
  BY <1>13 DEF d, c1
(* A sequence made by appending three elements.                            *)
LEMMA ConcatThree ==
  ASSUME NEW S, NEW c \in Seq(S), NEW r \in S, NEW q \in S, NEW z \in S
  PROVE  c \o <<r, q, z>> = Append(Append(Append(c, r), q), z)
  OBVIOUS
(* coroutine.close keeps the invariant.                                    *)
LEMMA CloseCoroutineKeeps ==
  ASSUME Inv1, NEW co \in Coroutine, CloseCoroutine(co)
  PROVE  Inv1'
<1>1. /\ InC /\ exc = "none" /\ cur.kind = "cfun" /\ co \in Thread /\ co # MainThread
      /\ UNCHANGED <<tbc, errfunc>>
      /\ \/ co # L /\ (Suspended(co) \/ DeadThread(co))
            /\ nC' = [nC EXCEPT ![co] = nC[L]] /\ nny' = [nny EXCEPT ![co] = 0]
            /\ ci' = [ci EXCEPT ![co] = <<>>]
            /\ status' = [status EXCEPT ![co] = "ok"]
            /\ body' = [body EXCEPT ![co] = FALSE]
            /\ cs' = cs \o << [kind |-> "reset", thread |-> co],
                              Try(co, "close", 0, <<nC[L], 0>>, 1, 0),
                              Closing(co, 1, FALSE, "protected") >>
            /\ exc' = exc
         \/ exc' = "error" /\ UNCHANGED <<ci, status, body, nC, nny, cs>>
  BY DEF CloseCoroutine, InC, Running, counts, Coroutine
<1>2. CASE exc' = "error" /\ UNCHANGED <<ci, status, body, nC, nny, cs>>
  BY ONLY <1>1, <1>2, Inv1, ErrorKeeps
<1>3. CASE /\ co # L /\ (Suspended(co) \/ DeadThread(co))
           /\ nC' = [nC EXCEPT ![co] = nC[L]] /\ nny' = [nny EXCEPT ![co] = 0]
           /\ ci' = [ci EXCEPT ![co] = <<>>]
           /\ status' = [status EXCEPT ![co] = "ok"]
           /\ body' = [body EXCEPT ![co] = FALSE]
           /\ cs' = cs \o << [kind |-> "reset", thread |-> co],
                             Try(co, "close", 0, <<nC[L], 0>>, 1, 0),
                             Closing(co, 1, FALSE, "protected") >>
           /\ exc' = exc
  <2> DEFINE r == [kind |-> "reset", thread |-> co]
             p == Try(co, "close", 0, <<nC[L], 0>>, 1, 0)
             q == Closing(co, 1, FALSE, "protected")
  <2>1. /\ Whole(cs, ci, tbc, status, body, nC, nny, errfunc, "none")
        /\ Typed(tbc, status, body, errfunc, "none")
        /\ ci \in [Thread -> Seq(FrameSet)] /\ cs \in Seq(Acts) /\ Len(cs) \in Nat
        /\ cs[Len(cs)].kind = "cfun" /\ cs[Len(cs)].thread = L /\ L \in Thread
        /\ nC \in [Thread -> Nat] /\ nny \in [Thread -> Nat]
    BY <1>1, Inv1, InvFacts DEF Inv1
  <2>2. ~On(cs, co)
    BY ONLY <1>1, <1>3, Inv1, OffTheStack
  <2>3. status \in [Thread -> {"ok", "yield", "err"}]
    BY ONLY <2>1 DEF Typed
  <2>4. Elsewhere(cs, ci, status, co, ci', status')
    BY ONLY <1>1, <1>3, <2>1, <2>2, <2>3, ElsewhereEmpty
  <2>5. Typed(tbc, status', body', errfunc, "none")
    BY ONLY <1>1, <1>3, <2>1 DEF Typed
  <2>6. \A u \in Thread : u # co => body'[u] = body[u]
    BY ONLY <1>3, <2>1 DEF Typed
  <2>7. status'[co] = "ok" /\ ~body'[co] /\ ci'[co] = <<>> /\ status'[co] # "yield"
    BY ONLY <1>1, <1>3, <2>1, <2>3 DEF Typed
  <2>8. Whole(cs, ci', tbc, status', body', nC, nny, errfunc, "none")
    BY ONLY <2>1, <2>2, <2>4, <2>5, <2>6, <2>7, ElsewhereStep, SMTT(30)
  <2>9. Restored(nC, nny, co, nC[cs[Len(cs)].thread], 0, nC', nny')
    BY ONLY <1>1, <1>3, <2>1 DEF Restored
  <2>10. /\ r \in Acts /\ r.kind = "reset" /\ r.thread = co
    BY <1>1 DEF Acts
  <2>11. /\ q \in Acts /\ q.kind = "close" /\ q.thread = co /\ q.for = "protected" /\ ~q.yy
         /\ q.level = 1
    BY <1>1 DEF Acts, Closing
  <2>12. nC[L] \in Nat
    BY <2>1
  <2>13. /\ p \in Acts /\ p.kind = "try" /\ p.of = "close" /\ p.thread = co
         /\ p.depth = 0 /\ p.nC = nC[L] /\ p.nny = 0 /\ p.level = 1
    BY <1>1, <2>12 DEF Acts, Try
  <2> HIDE DEF r, p, q
  <2>14. Protects(p, "close", co, ci'[co], nC', nny')
    <3>1. nC'[co] = nC[L] /\ nny'[co] = 0 /\ Len(ci'[co]) = 0
      BY ONLY <1>1, <1>3, <2>1
    <3> QED
      BY ONLY <2>13, <3>1 DEF Protects
  <2>15. Whole(Append(Append(Append(cs, r), p), q), ci', tbc, status', body', nC', nny',
               errfunc, "none")
    <3>1. q.level = p.level
      BY <2>11, <2>13
    <3> QED
      BY ONLY <1>1, <2>1, <2>2, <2>7, <2>8, <2>9, <2>10, <2>11, <2>14, <3>1, ResetStep
  <2>16. cs' = Append(Append(Append(cs, r), p), q)
    <3>1. cs' = cs \o <<r, p, q>>
      BY <1>3 DEF r, p, q
    <3> QED
      BY ONLY <3>1, <2>1, <2>10, <2>11, <2>13, ConcatThree
  <2> QED
    BY ONLY <1>1, <1>3, <2>15, <2>16 DEF Inv1
<1> QED
  BY ONLY <1>1, <1>2, <1>3
(* lua_resume starts or continues a coroutine, up to resume or unroll.     *)
LEMMA ResumeStep ==
  ASSUME NEW c, NEW F, NEW V, NEW s, NEW bd, NEW a, NEW b, NEW ef,
         Whole(c, F, V, s, bd, a, b, ef, "none"), c[Len(c)].kind = "cfun",
         NEW t, t # MainThread, ~On(c, t), s[t] = "ok", ~bd[t],
         F[t] # <<>> => Held(F[t][Len(F[t])]),
         NEW r \in Acts, r.kind = "try", r.of = "resume", r.thread = t,
         r.nC = a[c[Len(c)].thread] + 1, r.nny = 0, r.nC < ErrorCCalls,
         NEW u \in Acts, u.kind = "unroll", u.thread = t,
         NEW a2, NEW b2, Restored(a, b, t, r.nC, 0, a2, b2)
  PROVE  Whole(Append(Append(c, r), u), F, V, s, bd, a2, b2, ef, "none")
<1> DEFINE d == Append(Append(c, r), u)
<1>1. /\ Ready(c, F, s, a, b, "none") /\ Typed(V, s, bd, ef, "none")
      /\ Settled(c, F, s, bd, "none") /\ c \in Seq(Acts) /\ Len(c) \in Nat
  BY ONLY Whole(c, F, V, s, bd, a, b, ef, "none"), WholeFacts
<1>2. \A i \in 1 .. Len(c) : c[i].thread # t
  BY ONLY ~On(c, t) DEF On
<1>3. Ready(d, F, s, a2, b2, "none")
  BY <1>1, <1>2, PushResume
<1>4. Joined(c, d, t)
  BY <1>1, JoinedByTwo
<1>5. d[Len(d)] = u
  BY <1>1
<1> HIDE DEF d
<1>6. Settled(d, F, s, bd, "none")
  BY ONLY <1>1, <1>4, s[t] = "ok", ~bd[t], JoinSettled
<1>7. Tips(d, F)
  BY ONLY <1>5, u.kind = "unroll", u.thread = t, F[t] # <<>> => Held(F[t][Len(F[t])]) DEF Tips
<1>8. Raising(d, F, b2, "none") /\ Faults(d, F, V, a2, "none")
  BY DEF Raising, Faults
<1>9. Whole(d, F, V, s, bd, a2, b2, ef, "none")
  BY ONLY <1>1, <1>3, <1>6, <1>7, <1>8 DEF Whole
<1> QED
  BY <1>9 DEF d
(* It does so when the coroutine leaves the frames and the status G and s2. *)
Resumes(c, t, n, r, u) ==
  /\ r \in Acts /\ r.kind = "try" /\ r.of = "resume" /\ r.thread = t
  /\ r.nC = n /\ r.nny = 0 /\ n < ErrorCCalls
  /\ u \in Acts /\ u.kind = "unroll" /\ u.thread = t
(* lua_resume puts the coroutine on the C stack as it left its frames.     *)
LEMMA ResumedStep ==
  ASSUME NEW c, NEW F, NEW V, NEW s, NEW bd, NEW a, NEW b, NEW ef,
         Whole(c, F, V, s, bd, a, b, ef, "none"), c[Len(c)].kind = "cfun",
         NEW t \in Thread, t # MainThread, ~On(c, t),
         NEW G, NEW s2, Elsewhere(c, F, s, t, G, s2), s2[t] = "ok",
         NEW bd2, Typed(V, s2, bd2, ef, "none"), \A v \in Thread : v # t => bd2[v] = bd[v],
         ~bd2[t], G[t] # <<>> => Held(G[t][Len(G[t])]),
         NEW r, NEW u, Resumes(c, t, a[c[Len(c)].thread] + 1, r, u),
         NEW a2, NEW b2, Restored(a, b, t, a[c[Len(c)].thread] + 1, 0, a2, b2)
  PROVE  Whole(Append(Append(c, r), u), G, V, s2, bd2, a2, b2, ef, "none")
<1>1. s2[t] # "yield"
  BY ONLY s2[t] = "ok"
<1>2. Whole(c, G, V, s2, bd2, a, b, ef, "none")
  BY <1>1, ElsewhereStep
<1>3. /\ r \in Acts /\ r.kind = "try" /\ r.of = "resume" /\ r.thread = t
      /\ r.nC = a[c[Len(c)].thread] + 1 /\ r.nny = 0 /\ r.nC < ErrorCCalls
      /\ u \in Acts /\ u.kind = "unroll" /\ u.thread = t
  BY DEF Resumes
<1>4. Restored(a, b, t, r.nC, 0, a2, b2)
  BY <1>3
<1> QED
  BY ONLY <1>2, <1>3, <1>4, c[Len(c)].kind = "cfun", t # MainThread, ~On(c, t), s2[t] = "ok", ~bd2[t],
          G[t] # <<>> => Held(G[t][Len(G[t])]), ResumeStep
(* resume cannot run a body at the limit of C calls.                       *)
LEMMA ResumeOverflows ==
  ASSUME NEW c, NEW F, NEW V, NEW s, NEW bd, NEW a, NEW b, NEW ef,
         Whole(c, F, V, s, bd, a, b, ef, "none"),
         c[Len(c)].kind = "unroll", NEW t, c[Len(c)].thread = t, F[t] = <<>>
  PROVE  Whole(c, F, V, s, bd, a, b, ef, "error")
<1>1. /\ Ready(c, F, s, a, b, "none") /\ Typed(V, s, bd, ef, "none") /\ Tips(c, F)
      /\ c \in Seq(Acts) /\ Len(c) \in Nat /\ Len(c) > 0
  BY ONLY Whole(c, F, V, s, bd, a, b, ef, "none"), WholeFacts
<1>2. Ready(c, F, s, a, b, "error")
  BY ONLY <1>1, "error" # "none", "none" # "err", Raised
<1>3. Raising(c, F, b, "error")
  BY ONLY c[Len(c)].kind = "unroll" DEF Raising
<1>4. Typed(V, s, bd, ef, "error")
  BY ONLY <1>1 DEF Typed
<1>5. PICK h \in [Nat -> Nat] : Stack(c, F, h)
  BY ONLY <1>1 DEF Ready
<1>6. \A i \in 2 .. Len(c) : c[i].thread = t => ~Guard(c[i])
  <2>1. /\ c[1].kind = "main" /\ Len(c) \in 2 .. Len(c)
    <3>1. c[1].kind = "main"
      BY ONLY <1>1, ReadyTypes
    <3>2. Len(c) # 1
      BY <3>1
    <3>3. Len(c) \in Nat /\ Len(c) > 0
      BY ONLY <1>1
    <3>4. \A n \in Nat : n > 0 /\ n # 1 => n \in 2 .. n
      OBVIOUS
    <3>5. Len(c) \in 2 .. Len(c)
      BY ONLY <3>2, <3>3, <3>4
    <3> QED
      BY ONLY <3>1, <3>5
  <2>2. /\ Len(c) - 1 \in 2 .. Len(c) /\ c[Len(c) - 1].kind = "try" /\ c[Len(c) - 1].of = "resume"
        /\ \A j \in 1 .. Len(c) - 2 : c[j].thread # t
    BY <1>5, <2>1, UnderUnroll
  <2>3. ~Guard(c[Len(c) - 1]) /\ ~Guard(c[Len(c)])
    BY ONLY <2>2, c[Len(c)].kind = "unroll" DEF Guard
  <2>4. \A i \in 2 .. Len(c) : i \in 1 .. Len(c) - 2 \/ i = Len(c) - 1 \/ i = Len(c)
    BY ONLY <1>1
  <2> QED
    BY ONLY <2>2, <2>3, <2>4
<1>7. Faults(c, F, V, a, "error")
  BY ONLY <1>6, c[Len(c)].thread = t, F[t] = <<>> DEF Faults, Reaches
<1> QED
  BY <1>1, <1>2, <1>3, <1>4, <1>7, StepSame, GoesSame
(* A coroutine that is resumed can begin with its body.                    *)
LEMMA BodyMayStart ==
  ASSUME NEW c, NEW F, NEW s, NEW a, NEW b, NEW e, Ready(c, F, s, a, b, e),
         c[Len(c)].kind = "unroll", NEW t, c[Len(c)].thread = t, F[t] = <<>>,
         NEW r, r.thread = t, r.kind = "exec"
  PROVE  MayCall(c, F[t], r, Frame(TRUE, TRUE, 1))
<1> DEFINE f == Frame(TRUE, TRUE, 1)
<1>1. /\ f \in FrameSet /\ FrameOK(f) /\ ~f.ypcall /\ f.recst = "ok" /\ f.lua /\ f.fresh
  BY DEF Frame, FrameSet, FrameOK
<1>2. PICK h \in [Nat -> Nat] : Stack(c, F, h)
  BY DEF Ready
<1> HIDE DEF f
<1>3. c[1].kind = "main" /\ Len(c) \in Nat /\ Len(c) > 0
  BY ReadyTypes
<1>4. Len(c) # 1
  BY <1>3
<1>5. Len(c) \in 2 .. Len(c) /\ Len(c) \in 1 .. Len(c)
  <2>1. \A n \in Nat : n > 0 /\ n # 1 => n \in 2 .. n /\ n \in 1 .. n
    OBVIOUS
  <2> QED
    BY ONLY <1>3, <1>4, <2>1
<1>6. Above(c, Len(c), t, f)
  BY <1>2, <1>5, AboveUnroll
<1>7. MayCall(c, F[t], r, f)
  BY ONLY <1>1, <1>6, F[t] = <<>>, r.thread = t, r.kind = "exec" DEF MayCall
<1> QED
  BY <1>7 DEF f
(* What lua_resume does before it runs the coroutine.                      *)
Resuming(co, r, u) ==
  /\ exc = "none" /\ co \in Thread /\ co # MainThread /\ co # L /\ Suspended(co)
  /\ ~On(cs, co)
  /\ cs[Len(cs)].kind = "cfun"
  /\ UNCHANGED <<tbc, errfunc>>
  /\ Resumes(cs, co, nC[cs[Len(cs)].thread] + 1, r, u)
  /\ Restored(nC, nny, co, nC[cs[Len(cs)].thread] + 1, 0, nC', nny')
  /\ status' = [status EXCEPT ![co] = "ok"]
  /\ body' = [body EXCEPT ![co] = FALSE]
  /\ Append(Append(cs, r), u) \in Seq(Acts)
  /\ Append(Append(cs, r), u)[Len(Append(Append(cs, r), u))] = u
(* Resume, in the terms of the lemmas.                                     *)
LEMMA ResumeBegins ==
  ASSUME Inv1, NEW co \in Coroutine, Resume(co)
  PROVE  \E r, u : /\ Resuming(co, r, u)
                   /\ LET base == Append(Append(cs, r), u)
                          over == nC[L] + 1 = LUAI_MAXCCALLS
                      IN  \/ /\ status[co] = "ok"
                             /\ ci' = [ci EXCEPT ![co] =
                                         IF over THEN <<>> ELSE << Frame(TRUE, TRUE, 1) >>]
                             /\ cs' = IF over THEN base
                                      ELSE Append(base, [kind |-> "exec", thread |-> co,
                                                         inc |-> 0])
                             /\ exc' = IF over THEN "error" ELSE "none"
                          \/ /\ status[co] = "yield" /\ exc' = "none"
                             /\ \/ /\ Last(ci[co]).k /\ ci' = ci
                                   /\ cs' = Append(base, Continuation(co))
                                \/ /\ ~Last(ci[co]).k /\ Last(ci[co]).clsret
                                   /\ ci' = [ci EXCEPT ![co] =
                                        WithTop(co, [Last(ci[co]) EXCEPT !.doing = "return"])]
                                   /\ cs' = Append(base, Closing(co, Last(ci[co]).func, TRUE,
                                                                 "poscall"))
                                \/ /\ ~Last(ci[co]).k /\ ~Last(ci[co]).clsret
                                   /\ ci' = [ci EXCEPT ![co] = Front(@)]
                                   /\ cs' = base
<1> DEFINE r == Try(co, "resume", 0, <<nC[L] + 1, 0>>, 0, 0)
           u == [kind |-> "unroll", thread |-> co]
<1>1. /\ Whole(cs, ci, tbc, status, body, nC, nny, errfunc, exc)
      /\ ci \in [Thread -> Seq(FrameSet)] /\ cs \in Seq(Acts) /\ Len(cs) \in Nat
      /\ cs[Len(cs)] = cur /\ cs[Len(cs)].thread = L /\ L \in Thread
      /\ nC \in [Thread -> Nat] /\ nny \in [Thread -> Nat]
  BY Inv1, InvFacts DEF Inv1
<1>2. /\ exc = "none" /\ cur.kind = "cfun" /\ co # L /\ Suspended(co) /\ co \in Thread
      /\ co # MainThread /\ nC[L] < LUAI_MAXCCALLS /\ UNCHANGED <<tbc, errfunc>>
      /\ nC' = [nC EXCEPT ![co] = nC[L] + 1] /\ nny' = [nny EXCEPT ![co] = 0]
      /\ status' = [status EXCEPT ![co] = "ok"]
      /\ body' = [body EXCEPT ![co] = FALSE]
  BY DEF Resume, InC, Running, Coroutine
<1>3. ~On(cs, co)
  BY ONLY <1>2, Inv1, OffTheStack
<1>4. /\ nC[L] \in Nat /\ nC[L] + 1 \in Nat /\ nC[L] + 1 < ErrorCCalls
  <2>1. nC[L] \in Nat
    BY ONLY <1>1
  <2> QED
    BY ONLY <2>1, <1>2, CoroutineConstants DEF CoroutineConstants
<1>5. /\ r \in Acts /\ r.kind = "try" /\ r.of = "resume" /\ r.thread = co
      /\ r.nC = nC[L] + 1 /\ r.nny = 0
  BY <1>2, <1>4 DEF Acts, Try
<1>6. u \in Acts /\ u.kind = "unroll" /\ u.thread = co
  BY <1>2 DEF Acts
<1>7. cs \o <<r, u>> = Append(Append(cs, r), u)
  <2> HIDE DEF r, u
  <2> QED
    BY ONLY <1>1, <1>5, <1>6, ConcatTwo
<1>8. LET base == cs \o <<r, u>>
          over == nC[L] + 1 = LUAI_MAXCCALLS
      IN  \/ /\ status[co] = "ok"
             /\ ci' = [ci EXCEPT ![co] =
                         IF over THEN <<>> ELSE << Frame(TRUE, TRUE, 1) >>]
             /\ cs' = IF over THEN base
                      ELSE Append(base, [kind |-> "exec", thread |-> co, inc |-> 0])
             /\ exc' = IF over THEN "error" ELSE "none"
          \/ /\ status[co] = "yield" /\ exc' = exc
             /\ \/ /\ Last(ci[co]).k /\ ci' = ci
                   /\ cs' = Append(base, Continuation(co))
                \/ /\ ~Last(ci[co]).k /\ Last(ci[co]).clsret
                   /\ ci' = [ci EXCEPT ![co] =
                        WithTop(co, [Last(ci[co]) EXCEPT !.doing = "return"])]
                   /\ cs' = Append(base, Closing(co, Last(ci[co]).func, TRUE, "poscall"))
                \/ /\ ~Last(ci[co]).k /\ ~Last(ci[co]).clsret
                   /\ ci' = [ci EXCEPT ![co] = Front(@)]
                   /\ cs' = base
  BY DEF Resume
<1>9. Restored(nC, nny, co, nC[L] + 1, 0, nC', nny')
  BY ONLY <1>1, <1>2, <1>4 DEF Restored
<1> HIDE DEF r, u
<1>10. /\ Append(Append(cs, r), u) \in Seq(Acts)
       /\ Append(Append(cs, r), u)[Len(Append(Append(cs, r), u))] = u
  BY ONLY <1>1, <1>5, <1>6
<1>11. Resumes(cs, co, nC[L] + 1, r, u)
  BY ONLY <1>4, <1>5, <1>6 DEF Resumes
<1>12. Resuming(co, r, u)
  BY ONLY <1>1, <1>2, <1>3, <1>9, <1>10, <1>11 DEF Resuming
<1> QED
  BY ONLY <1>2, <1>7, <1>8, <1>12
(* What holds when a coroutine is resumed.                                 *)
LEMMA ResumedFacts ==
  ASSUME Inv1, NEW co, NEW r, NEW u, Resuming(co, r, u)
  PROVE  /\ Whole(cs, ci, tbc, status, body, nC, nny, errfunc, "none")
         /\ Ready(cs, ci, status, nC, nny, "none")
         /\ ci \in [Thread -> Seq(FrameSet)] /\ ci[co] \in Seq(FrameSet) /\ Chain(ci[co])
         /\ status \in [Thread -> {"ok", "yield", "err"}]
         /\ Typed(tbc, status', body', errfunc, "none")
         /\ status'[co] = "ok" /\ ~body'[co]
         /\ \A v \in Thread : v # co => body'[v] = body[v] /\ status'[v] = status[v]
         /\ \A i \in 1 .. Len(cs) : cs[i].thread # co
         /\ co \in Thread
<1>1. /\ Whole(cs, ci, tbc, status, body, nC, nny, errfunc, "none")
      /\ Typed(tbc, status, body, errfunc, "none")
      /\ Ready(cs, ci, status, nC, nny, "none")
      /\ ci \in [Thread -> Seq(FrameSet)]
  BY Inv1, InvFacts DEF Inv1, Resuming
<1>2. /\ co \in Thread /\ ~On(cs, co)
      /\ status' = [status EXCEPT ![co] = "ok"]
      /\ body' = [body EXCEPT ![co] = FALSE]
  BY DEF Resuming
<1>3. ci[co] \in Seq(FrameSet) /\ Chain(ci[co])
  BY ONLY <1>1, <1>2 DEF Ready
<1>4. /\ status \in [Thread -> {"ok", "yield", "err"}]
      /\ body \in [Thread -> BOOLEAN]
  BY ONLY <1>1 DEF Typed
<1>5. Typed(tbc, status', body', errfunc, "none")
  BY ONLY <1>1, <1>2 DEF Typed
<1>6. /\ status'[co] = "ok" /\ ~body'[co]
      /\ \A v \in Thread : v # co => body'[v] = body[v] /\ status'[v] = status[v]
  BY ONLY <1>2, <1>4
<1>7. \A i \in 1 .. Len(cs) : cs[i].thread # co
  BY ONLY <1>2 DEF On
<1> QED
  BY ONLY <1>1, <1>2, <1>3, <1>4, <1>5, <1>6, <1>7
(* lua_resume runs the body of a coroutine.                                *)
LEMMA ResumeBodyKeeps ==
  ASSUME Inv1, NEW co, NEW r, NEW u, Resuming(co, r, u), status[co] = "ok",
         NEW over \in BOOLEAN,
         ci' = [ci EXCEPT ![co] = IF over THEN <<>> ELSE << Frame(TRUE, TRUE, 1) >>],
         cs' = IF over THEN Append(Append(cs, r), u)
               ELSE Append(Append(Append(cs, r), u),
                           [kind |-> "exec", thread |-> co, inc |-> 0]),
         exc' = IF over THEN "error" ELSE "none"
  PROVE  Inv1'
<1> DEFINE E == [ci EXCEPT ![co] = <<>>]
           base == Append(Append(cs, r), u)
           x == [kind |-> "exec", thread |-> co, inc |-> 0]
           f == Frame(TRUE, TRUE, 1)
<1>1. /\ Whole(cs, ci, tbc, status, body, nC, nny, errfunc, "none")
      /\ ci \in [Thread -> Seq(FrameSet)] /\ co \in Thread
      /\ status \in [Thread -> {"ok", "yield", "err"}]
      /\ Typed(tbc, status', body', errfunc, "none")
      /\ status'[co] = "ok" /\ ~body'[co]
      /\ \A v \in Thread : v # co => body'[v] = body[v] /\ status'[v] = status[v]
  BY ONLY Inv1, Resuming(co, r, u), ResumedFacts
<1>2. /\ exc = "none" /\ co # MainThread /\ ~On(cs, co) /\ cs[Len(cs)].kind = "cfun"
      /\ UNCHANGED <<tbc, errfunc>>
      /\ Resumes(cs, co, nC[cs[Len(cs)].thread] + 1, r, u)
      /\ Restored(nC, nny, co, nC[cs[Len(cs)].thread] + 1, 0, nC', nny')
      /\ status' = [status EXCEPT ![co] = "ok"]
      /\ base \in Seq(Acts) /\ base[Len(base)] = u
  BY DEF Resuming
<1>3. u.kind = "unroll" /\ u.thread = co
  BY ONLY <1>2 DEF Resumes
<1>4. f \in FrameSet /\ f.lua
  BY DEF Frame, FrameSet
<1>5. x \in Acts /\ Call(x) /\ x.thread = co /\ x.inc = 0 /\ x.kind = "exec" /\ Kinds(u, x)
  <2>1. x \in Acts
    BY ONLY <1>1 DEF Acts
  <2>2. x.thread = co /\ x.inc = 0 /\ x.kind = "exec"
    OBVIOUS
  <2> HIDE DEF x
  <2> QED
    BY ONLY <1>3, <2>1, <2>2 DEF Call, Kinds, First, Guard
<1> HIDE DEF base, f, x
<1>6. Elsewhere(cs, ci, status, co, E, status')
  BY ONLY <1>1, <1>2, ElsewhereEmpty
<1>7. E \in [Thread -> Seq(FrameSet)] /\ E[co] = <<>> /\ \A v \in Thread : v # co => E[v] = ci[v]
  BY ONLY <1>1
<1> HIDE DEF E
<1>8. Whole(base, E, tbc, status', body', nC', nny', errfunc, "none")
  <2>1. E[co] # <<>> => Held(E[co][Len(E[co])])
    BY ONLY <1>7
  <2>2. \A v \in Thread : v # co => body'[v] = body[v]
    BY ONLY <1>1
  <2>3. Whole(Append(Append(cs, r), u), E, tbc, status', body', nC', nny', errfunc, "none")
    BY ONLY <1>1, <1>2, <1>6, <2>1, <2>2, ResumedStep, ZenonT(60)
  <2> QED
    BY <2>3 DEF base
<1>9. CASE over
  <2>1. Whole(base, E, tbc, status', body', nC', nny', errfunc, "error")
    BY ONLY <1>2, <1>3, <1>7, <1>8, ResumeOverflows
  <2>2. ci' = E /\ cs' = base /\ exc' = "error"
    BY <1>9 DEF E, base
  <2> QED
    BY ONLY <1>2, <2>1, <2>2 DEF Inv1
<1>10. CASE ~over
  <2>1. /\ ci' = [ci EXCEPT ![co] = <<f>>] /\ cs' = Append(base, x) /\ exc' = "none"
    BY <1>10 DEF base, f, x
  <2>2. MayCall(base, E[co], x, f)
    <3>1. Ready(base, E, status', nC', nny', "none")
      BY ONLY <1>8, WholeFacts
    <3>2. MayCall(base, E[co], x, Frame(TRUE, TRUE, 1))
      BY ONLY <3>1, <1>2, <1>3, <1>5, <1>7, BodyMayStart
    <3> QED
      BY <3>2 DEF f
  <2>3. Extended(E, co, f, ci')
    <3>1. ci' \in [Thread -> Seq(FrameSet)]
      BY ONLY <2>1, <1>1, <1>4
    <3>2. ci'[co] = <<f>> /\ \A v \in Thread : v # co => ci'[v] = ci[v]
      BY ONLY <2>1, <1>1
    <3>3. Append(<<>>, f) = <<f>>
      OBVIOUS
    <3> QED
      BY ONLY <3>1, <3>2, <3>3, <1>7 DEF Extended
  <2>4. Whole(Append(base, x), ci', tbc, status', body', nC', nny', errfunc, "none")
    <3>1. base[Len(base)].thread = co /\ Kinds(base[Len(base)], x)
      BY ONLY <1>2, <1>3, <1>5
    <3> QED
      BY ONLY <1>5, <1>8, <3>1, <2>2, <2>3, FreeCall
  <2> QED
    BY ONLY <1>2, <2>1, <2>4 DEF Inv1
<1> QED
  BY ONLY <1>9, <1>10, over \in BOOLEAN
(* The frame of a function that yielded.                                   *)
LEMMA YieldedFacts ==
  ASSUME Inv1, NEW co, NEW r, NEW u, Resuming(co, r, u), status[co] = "yield"
  PROVE  /\ ci[co] # <<>> /\ Len(ci[co]) \in Nat /\ Len(ci[co]) \in 1 .. Len(ci[co])
         /\ ci[co][Len(ci[co])] = Last(ci[co]) /\ Last(ci[co]) \in FrameSet
         /\ FrameOK(Last(ci[co])) /\ ~Last(ci[co]).lua /\ ~Last(ci[co]).ypcall
         /\ Last(ci[co]).recst = "ok"
         /\ \A p \in 1 .. Len(ci[co]) - 1 : Held(ci[co][p])
         /\ \A f : WithTop(co, f) = Retop(ci[co], Len(ci[co]), f)
         /\ Front(ci[co]) = SubSeq(ci[co], 1, Len(ci[co]) - 1)
<1>1. /\ Settled(cs, ci, status, body, exc) /\ Ready(cs, ci, status, nC, nny, "none")
      /\ ci[co] \in Seq(FrameSet) /\ Chain(ci[co]) /\ co \in Thread
      /\ ~On(cs, co) /\ \A i \in 1 .. Len(cs) : cs[i].thread # co
  BY Inv1, InvFacts, ResumedFacts DEF Resuming
<1>2. ci[co] # <<>> /\ ~ci[co][Len(ci[co])].lua /\ ~ci[co][Len(ci[co])].ypcall
  BY ONLY <1>1, status[co] = "yield" DEF Settled
<1>3. /\ Last(ci[co]) = ci[co][Len(ci[co])]
      /\ \A f : WithTop(co, f) = Retop(ci[co], Len(ci[co]), f)
      /\ Front(ci[co]) = SubSeq(ci[co], 1, Len(ci[co]) - 1)
  BY ONLY <1>1, FrameNames
<1>4. Len(ci[co]) \in Nat /\ Len(ci[co]) \in 1 .. Len(ci[co]) /\ ci[co][Len(ci[co])] \in FrameSet
  BY ONLY <1>1, <1>2
<1>5. FrameOK(ci[co][Len(ci[co])])
  BY ONLY <1>1, <1>4 DEF Chain
<1>6. ci[co][Len(ci[co])].recst = "ok"
  BY ONLY <1>2, <1>5 DEF FrameOK
<1>7. \A p \in 1 .. Len(ci[co]) - 1 : Held(ci[co][p])
  BY ONLY <1>1, status[co] = "yield", "yield" # "err", OffStackHeld
<1> QED
  BY ONLY <1>2, <1>3, <1>4, <1>5, <1>6, <1>7
(* lua_resume continues a coroutine that left the frames G.                *)
LEMMA ResumedTo ==
  ASSUME Inv1, NEW co, NEW r, NEW u, Resuming(co, r, u),
         NEW G \in [Thread -> Seq(FrameSet)], \A v \in Thread : v # co => G[v] = ci[v],
         Chain(G[co]), \A p \in 1 .. Len(G[co]) : Held(G[co][p])
  PROVE  /\ Whole(Append(Append(cs, r), u), G, tbc, status', body', nC', nny', errfunc, "none")
         /\ Append(Append(cs, r), u)[Len(Append(Append(cs, r), u))].kind = "unroll"
         /\ Append(Append(cs, r), u)[Len(Append(Append(cs, r), u))].thread = co
<1>1. /\ Whole(cs, ci, tbc, status, body, nC, nny, errfunc, "none")
      /\ co \in Thread
      /\ Typed(tbc, status', body', errfunc, "none")
      /\ status'[co] = "ok" /\ ~body'[co]
      /\ \A v \in Thread : v # co => body'[v] = body[v] /\ status'[v] = status[v]
      /\ \A i \in 1 .. Len(cs) : cs[i].thread # co
  BY ONLY Inv1, Resuming(co, r, u), ResumedFacts
<1>2. /\ co # MainThread /\ ~On(cs, co) /\ cs[Len(cs)].kind = "cfun"
      /\ Resumes(cs, co, nC[cs[Len(cs)].thread] + 1, r, u)
      /\ Restored(nC, nny, co, nC[cs[Len(cs)].thread] + 1, 0, nC', nny')
      /\ Append(Append(cs, r), u)[Len(Append(Append(cs, r), u))] = u
  BY DEF Resuming
<1>3. Len(G[co]) \in Nat /\ (G[co] # <<>> => Len(G[co]) \in 1 .. Len(G[co]))
  BY <1>1
<1>4. \A p \in 1 .. Len(G[co]) - 1 : p \in 1 .. Len(G[co])
  BY ONLY <1>3
<1>5. Elsewhere(cs, ci, status, co, G, status')
  BY ONLY <1>1, <1>4, G \in [Thread -> Seq(FrameSet)], \A v \in Thread : v # co => G[v] = ci[v],
          Chain(G[co]), \A p \in 1 .. Len(G[co]) : Held(G[co][p]) DEF Elsewhere
<1>6. G[co] # <<>> => Held(G[co][Len(G[co])])
  BY ONLY <1>3, \A p \in 1 .. Len(G[co]) : Held(G[co][p])
<1>7. \A v \in Thread : v # co => body'[v] = body[v]
  BY ONLY <1>1
<1>8. Whole(Append(Append(cs, r), u), G, tbc, status', body', nC', nny', errfunc, "none")
  BY ONLY <1>1, <1>2, <1>5, <1>6, <1>7, ResumedStep
<1>9. u.kind = "unroll" /\ u.thread = co
  BY ONLY <1>2 DEF Resumes
<1> QED
  BY ONLY <1>2, <1>8, <1>9
(* lua_resume goes on with a function that has a continuation.             *)
LEMMA ResumeContinuationKeeps ==
  ASSUME Inv1, NEW co, NEW r, NEW u, Resuming(co, r, u), status[co] = "yield",
         exc' = "none", Last(ci[co]).k, ci' = ci,
         cs' = Append(Append(Append(cs, r), u), Continuation(co))
  PROVE  Inv1'
<1> DEFINE base == Append(Append(cs, r), u)
           f == Last(ci[co])
<1>1. /\ ci[co] # <<>> /\ Len(ci[co]) \in Nat
      /\ ci[co][Len(ci[co])] = f /\ f \in FrameSet
      /\ FrameOK(f) /\ ~f.lua /\ ~f.ypcall /\ f.recst = "ok"
      /\ \A p \in 1 .. Len(ci[co]) - 1 : Held(ci[co][p])
  BY YieldedFacts
<1>2. /\ ci \in [Thread -> Seq(FrameSet)] /\ Chain(ci[co]) /\ co \in Thread
      /\ Typed(tbc, status', body', errfunc, "none")
  BY ResumedFacts
<1>3. UNCHANGED <<tbc, errfunc>>
  BY DEF Resuming
<1>4. cs' = Append(base, Continuation(co)) /\ f.k
  OBVIOUS
<1> HIDE DEF f
<1>5. \A p \in 1 .. Len(ci[co]) : Held(ci[co][p])
  <2>1. Held(f)
    BY ONLY <1>4 DEF Held
  <2>2. \A p \in 1 .. Len(ci[co]) : p \in 1 .. Len(ci[co]) - 1 \/ p = Len(ci[co])
    BY ONLY <1>1
  <2> QED
    BY ONLY <1>1, <2>1, <2>2
<1>6. /\ Whole(base, ci, tbc, status', body', nC', nny', errfunc, "none")
      /\ base[Len(base)].kind = "unroll" /\ base[Len(base)].thread = co
  BY <1>2, <1>5, ResumedTo
<1> HIDE DEF base
<1>7. Replaced(ci, co, f, ci)
  BY ONLY <1>1, <1>2, ReplacedSame
<1>8. Whole(Append(base, Continuation(co)), ci, tbc, status', body', nC', nny', errfunc, "none")
  <2> DEFINE x == Continuation(co)
  <2>1. x = Continuation(co)
    OBVIOUS
  <2>2. f.func = ci[co][Len(ci[co])].func /\ f.lua = ci[co][Len(ci[co])].lua
        /\ f.fresh = ci[co][Len(ci[co])].fresh
    BY ONLY <1>1
  <2> HIDE DEF x
  <2>3. Whole(Append(base, x), ci, tbc, status', body', nC', nny', errfunc, "none")
    BY ONLY <1>1, <1>2, <1>6, <1>7, <2>1, <2>2, ContinueStep
  <2> QED
    BY <2>3 DEF x
<1>9. cs' = Append(base, Continuation(co)) /\ ci' = ci /\ exc' = "none"
  BY <1>4
<1> QED
  BY ONLY <1>3, <1>8, <1>9 DEF Inv1
(* lua_resume goes on with a function that was closing its variables.      *)
LEMMA ResumeClosingKeeps ==
  ASSUME Inv1, NEW co, NEW r, NEW u, Resuming(co, r, u), status[co] = "yield",
         exc' = "none", Last(ci[co]).clsret,
         ci' = [ci EXCEPT ![co] = WithTop(co, [Last(ci[co]) EXCEPT !.doing = "return"])],
         cs' = Append(Append(Append(cs, r), u), Closing(co, Last(ci[co]).func, TRUE, "poscall"))
  PROVE  Inv1'
<1> DEFINE base == Append(Append(cs, r), u)
           f == Last(ci[co])
           g == [f EXCEPT !.doing = "return"]
           q == Closing(co, f.func, TRUE, "poscall")
<1>1. /\ ci[co] # <<>> /\ Len(ci[co]) \in Nat
      /\ ci[co][Len(ci[co])] = f /\ f \in FrameSet
      /\ FrameOK(f) /\ ~f.lua /\ ~f.ypcall /\ f.recst = "ok"
      /\ \A p \in 1 .. Len(ci[co]) - 1 : Held(ci[co][p])
      /\ WithTop(co, g) = Retop(ci[co], Len(ci[co]), g)
  BY YieldedFacts
<1>2. /\ ci \in [Thread -> Seq(FrameSet)] /\ Chain(ci[co]) /\ co \in Thread
      /\ Typed(tbc, status', body', errfunc, "none")
  BY ResumedFacts
<1>3. UNCHANGED <<tbc, errfunc>>
  BY DEF Resuming
<1>4. /\ cs' = Append(base, q) /\ f.clsret
      /\ ci' = [ci EXCEPT ![co] = WithTop(co, g)]
  OBVIOUS
<1> HIDE DEF f
<1>5. \A p \in 1 .. Len(ci[co]) : Held(ci[co][p])
  <2>1. Held(f)
    BY ONLY <1>4 DEF Held
  <2>2. \A p \in 1 .. Len(ci[co]) : p \in 1 .. Len(ci[co]) - 1 \/ p = Len(ci[co])
    BY ONLY <1>1
  <2> QED
    BY ONLY <1>1, <2>1, <2>2
<1>6. /\ Whole(base, ci, tbc, status', body', nC', nny', errfunc, "none")
      /\ base[Len(base)].kind = "unroll" /\ base[Len(base)].thread = co
  BY <1>2, <1>5, ResumedTo
<1> HIDE DEF base
<1>7. /\ g \in FrameSet /\ g.func = f.func /\ g.lua = f.lua /\ g.fresh = f.fresh
      /\ g.doing = "return" /\ g.clsret = f.clsret /\ g.ypcall = f.ypcall /\ g.k = f.k
      /\ g.recst = f.recst /\ g.idx = f.idx
  BY <1>1 DEF FrameSet
<1>8. /\ q \in Acts /\ q.kind = "close" /\ q.yy /\ q.thread = co /\ q.for = "poscall"
      /\ q.level = f.func
  <2>1. f.func \in Nat
    BY ONLY <1>1, FrameFacts
  <2> QED
    BY <1>2, <2>1 DEF Acts, Closing
<1> HIDE DEF g, q
<1>9. FrameOK(g)
  BY ONLY <1>1, <1>4, <1>7 DEF FrameOK
<1>10. Replaced(ci, co, g, ci')
  BY ONLY <1>1, <1>2, <1>4, <1>7, ReplacedBy
<1>11. /\ ci'[co] # <<>> /\ ci'[co][Len(ci'[co])] = g
  BY ONLY <1>1, <1>2, <1>7, <1>10, ReplacedTop
<1>12. MayChange(base, ci, co, nny', g)
  BY ONLY <1>1, <1>6, <1>7, <1>9 DEF MayChange
<1>13. Closes(base[Len(base)], ci'[co], q)
  BY ONLY <1>1, <1>4, <1>6, <1>7, <1>8, <1>11 DEF Closes
<1>14. base[Len(base)].kind = "unroll" => Held(g)
  BY ONLY <1>4, <1>7 DEF Held
<1>15. Whole(Append(base, q), ci', tbc, status', body', nC', nny', errfunc, "none")
  BY ONLY <1>6, <1>10, <1>12, <1>13, <1>14, ChangeClose
<1> QED
  BY ONLY <1>3, <1>4, <1>15, exc' = "none" DEF Inv1
(* lua_resume ends a function that yielded without a continuation.         *)
LEMMA ResumeEndKeeps ==
  ASSUME Inv1, NEW co, NEW r, NEW u, Resuming(co, r, u), status[co] = "yield",
         exc' = "none",
         ci' = [ci EXCEPT ![co] = Front(@)],
         cs' = Append(Append(cs, r), u)
  PROVE  Inv1'
<1>1. /\ ci[co] # <<>> /\ Len(ci[co]) \in Nat
      /\ \A p \in 1 .. Len(ci[co]) - 1 : Held(ci[co][p])
      /\ Front(ci[co]) = SubSeq(ci[co], 1, Len(ci[co]) - 1)
      /\ Len(ci[co]) \in 1 .. Len(ci[co])
  BY YieldedFacts
<1>2. /\ ci \in [Thread -> Seq(FrameSet)] /\ ci[co] \in Seq(FrameSet) /\ Chain(ci[co])
      /\ co \in Thread
  BY ResumedFacts
<1>3. Len(ci[co]) - 1 \in 0 .. Len(ci[co])
  BY ONLY <1>1
<1>4. /\ Front(ci[co]) \in Seq(FrameSet) /\ Len(Front(ci[co])) = Len(ci[co]) - 1
      /\ \A q \in 1 .. Len(ci[co]) - 1 : Front(ci[co])[q] = ci[co][q]
      /\ Chain(Front(ci[co]))
  BY ONLY <1>1, <1>2, <1>3, ChainCut
<1>5. /\ ci' \in [Thread -> Seq(FrameSet)] /\ ci'[co] = Front(ci[co])
      /\ \A v \in Thread : v # co => ci'[v] = ci[v]
  BY ONLY <1>2, <1>4, ci' = [ci EXCEPT ![co] = Front(@)]
<1>6. Chain(ci'[co]) /\ \A p \in 1 .. Len(ci'[co]) : Held(ci'[co][p])
  BY ONLY <1>1, <1>4, <1>5
<1>7. Whole(Append(Append(cs, r), u), ci', tbc, status', body', nC', nny', errfunc, "none")
  BY <1>5, <1>6, ResumedTo
<1>8. UNCHANGED <<tbc, errfunc>>
  BY DEF Resuming
<1> QED
  BY ONLY <1>7, <1>8, exc' = "none", cs' = Append(Append(cs, r), u) DEF Inv1
(* lua_resume keeps the invariant.                                         *)
LEMMA ResumeKeeps ==
  ASSUME Inv1, NEW co \in Coroutine, Resume(co)
  PROVE  Inv1'
<1>1. PICK r, u :
        /\ Resuming(co, r, u)
        /\ LET base == Append(Append(cs, r), u)
               over == nC[L] + 1 = LUAI_MAXCCALLS
           IN  \/ /\ status[co] = "ok"
                  /\ ci' = [ci EXCEPT ![co] =
                              IF over THEN <<>> ELSE << Frame(TRUE, TRUE, 1) >>]
                  /\ cs' = IF over THEN base
                           ELSE Append(base, [kind |-> "exec", thread |-> co, inc |-> 0])
                  /\ exc' = IF over THEN "error" ELSE "none"
               \/ /\ status[co] = "yield" /\ exc' = "none"
                  /\ \/ /\ Last(ci[co]).k /\ ci' = ci
                        /\ cs' = Append(base, Continuation(co))
                     \/ /\ ~Last(ci[co]).k /\ Last(ci[co]).clsret
                        /\ ci' = [ci EXCEPT ![co] =
                             WithTop(co, [Last(ci[co]) EXCEPT !.doing = "return"])]
                        /\ cs' = Append(base, Closing(co, Last(ci[co]).func, TRUE, "poscall"))
                     \/ /\ ~Last(ci[co]).k /\ ~Last(ci[co]).clsret
                        /\ ci' = [ci EXCEPT ![co] = Front(@)]
                        /\ cs' = base
  BY ONLY Inv1, co \in Coroutine, Resume(co), ResumeBegins
<1>2. CASE status[co] = "ok" /\ \E over \in BOOLEAN :
             /\ ci' = [ci EXCEPT ![co] = IF over THEN <<>> ELSE << Frame(TRUE, TRUE, 1) >>]
             /\ cs' = IF over THEN Append(Append(cs, r), u)
                      ELSE Append(Append(Append(cs, r), u),
                                  [kind |-> "exec", thread |-> co, inc |-> 0])
             /\ exc' = IF over THEN "error" ELSE "none"
  BY ONLY <1>1, <1>2, Inv1, ResumeBodyKeeps
<1>3. CASE status[co] = "yield" /\ exc' = "none" /\ Last(ci[co]).k /\ ci' = ci
           /\ cs' = Append(Append(Append(cs, r), u), Continuation(co))
  BY ONLY <1>1, <1>3, Inv1, ResumeContinuationKeeps
<1>4. CASE status[co] = "yield" /\ exc' = "none" /\ Last(ci[co]).clsret
           /\ ci' = [ci EXCEPT ![co] = WithTop(co, [Last(ci[co]) EXCEPT !.doing = "return"])]
           /\ cs' = Append(Append(Append(cs, r), u),
                           Closing(co, Last(ci[co]).func, TRUE, "poscall"))
  BY ONLY <1>1, <1>4, Inv1, ResumeClosingKeeps
<1>5. CASE status[co] = "yield" /\ exc' = "none" /\ ci' = [ci EXCEPT ![co] = Front(@)]
           /\ cs' = Append(Append(cs, r), u)
  BY ONLY <1>1, <1>5, Inv1, ResumeEndKeeps
<1>6. (nC[L] + 1 = LUAI_MAXCCALLS) \in BOOLEAN
  OBVIOUS
<1> QED
  BY ONLY <1>1, <1>2, <1>3, <1>4, <1>5, <1>6
-----------------------------------------------------------------------------
(* The invariant holds at the beginning.                                   *)
LEMMA InitWhole ==
  ASSUME Init
  PROVE  Inv1
<1> DEFINE h == [n \in Nat |-> 0]
           m == [kind |-> "main", thread |-> MainThread]
<1>1. /\ ci = [t \in Thread |-> <<>>] /\ tbc = [t \in Thread |-> <<>>]
      /\ status = [t \in Thread |-> "ok"] /\ body = [t \in Thread |-> t # MainThread]
      /\ nC = [t \in Thread |-> 0]
      /\ nny = [t \in Thread |-> IF t = MainThread THEN 1 ELSE 0]
      /\ errfunc = [t \in Thread |-> 0] /\ cs = <<m>> /\ exc = "none"
  BY DEF Init
<1>2. MainThread \in Thread /\ ErrorCCalls \in Nat /\ ErrorCCalls > 0
  BY CoroutineConstants DEF CoroutineConstants
<1>3. m \in Acts /\ m.kind = "main" /\ m.thread = MainThread
  BY <1>2 DEF Acts
<1>4. (~Call(m) /\ ~First(m)) \/ m.kind = "main"
  BY <1>3
<1>5. /\ cs \in Seq(Acts) /\ Len(cs) = 1 /\ cs[1] = m
  BY <1>1, <1>3
<1>6. h \in [Nat -> Nat] /\ h[1] = 0
  OBVIOUS
<1>7. ~Call(m) /\ ~IsCounted(m) /\ ~NonYieldable(m)
  BY ONLY <1>3 DEF Call, IsCounted, NonYieldable
<1> HIDE DEF h, m
<1>8. \A i \in 1 .. Len(cs) : i = 1
  BY ONLY <1>5
<1>9. \A i \in 2 .. Len(cs) : FALSE
  BY ONLY <1>5
<1>10. Stack(cs, ci, h)
  <2>1. Shapes(cs, ci, h)
    BY ONLY <1>1, <1>3, <1>5, <1>6 DEF Shapes
  <2>2. Piled(cs) /\ Fits(cs, ci, h) /\ Starts(cs, ci, h) /\ Framed(cs, h) /\ Caught(cs)
        /\ Inside(cs, ci, h)
    BY ONLY <1>9 DEF Piled, Fits, Starts, Framed, Caught, Inside
  <2>3. Segments(cs, h)
    BY ONLY <1>5, <1>6 DEF Segments
  <2> QED
    BY ONLY <2>1, <2>2, <2>3 DEF Stack
<1>11. \A t \in Thread : ci[t] = <<>> /\ Len(ci[t]) = 0 /\ ci[t] \in Seq(FrameSet)
  BY ONLY <1>1
<1>12. \A t \in Thread : Chain(ci[t])
  BY ONLY <1>11 DEF Chain
<1>13. Tip(cs, ci, h, exc)
  BY ONLY <1>2, <1>3, <1>5, <1>6, <1>7, <1>11 DEF Tip
<1>14. Finishable(cs, ci, h, status)
  BY ONLY <1>11 DEF Finishable
<1>15. CCalls(cs, 1) = 0 /\ NonYields(cs, MainThread, 1) = 1
  <2>1. {i \in 1 .. 1 : IsCounted(cs[i])} = {}
    BY ONLY <1>5, <1>7
  <2>2. {i \in 1 .. 1 : cs[i].thread = MainThread /\ NonYieldable(cs[i])} = {}
    BY ONLY <1>5, <1>7
  <2>3. Cardinality({}) = 0
    BY FS_EmptySet
  <2>4. CCalls(cs, 1) = 0
    BY ONLY <2>1, <2>3 DEF CCalls
  <2>5. NonYields(cs, MainThread, 1) = 1 + 0
    BY ONLY <2>2, <2>3 DEF NonYields, MainsOwn
  <2> QED
    BY ONLY <2>4, <2>5
<1>16. Counted(cs, nC, nny, exc)
  <2>1. /\ nC \in [Thread -> Nat] /\ nny \in [Thread -> Nat]
        /\ \A t \in Thread : nC[t] <= ErrorCCalls /\ nny[t] <= ErrorCCalls + 1
    BY ONLY <1>1, <1>2
  <2>2. nny[MainThread] = 1 /\ nC[MainThread] = 0
    BY ONLY <1>1, <1>2
  <2>3. cs[1].thread = MainThread /\ cs[1].kind # "try"
    BY ONLY <1>3, <1>5
  <2> QED
    BY ONLY <1>2, <1>5, <1>8, <1>15, <2>1, <2>2, <2>3 DEF Counted
<1>17. Ready(cs, ci, status, nC, nny, exc)
  BY ONLY <1>6, <1>10, <1>12, <1>13, <1>14, <1>16 DEF Ready
<1>18. Typed(tbc, status, body, errfunc, exc)
  BY ONLY <1>1 DEF Typed
<1>19. Settled(cs, ci, status, body, exc)
  <2>1. \A t \in Thread : On(cs, t) <=> t = MainThread
    BY ONLY <1>3, <1>5, <1>8 DEF On
  <2>2. \A t \in Thread : status[t] = "ok" /\ status[t] # "yield" /\ (body[t] <=> t # MainThread)
    BY ONLY <1>1
  <2> QED
    BY ONLY <2>1, <2>2 DEF Settled
<1>20. Tips(cs, ci)
  BY ONLY <1>3, <1>5 DEF Tips
<1>21. Raising(cs, ci, nny, exc) /\ Faults(cs, ci, tbc, nC, exc)
  BY ONLY <1>1 DEF Raising, Faults
<1> QED
  BY ONLY <1>17, <1>18, <1>19, <1>20, <1>21 DEF Inv1, Whole
(* Every step keeps it.                                                    *)
LEMMA NextKeeps ==
  ASSUME Inv1, [Next]_vars
  PROVE  Inv1'
<1>1. CASE Program
  <2>1. CASE StartMain
    BY ONLY <2>1, Inv1, StartMainKeeps
  <2>2. CASE CallLua
    BY ONLY <2>2, Inv1, CallLuaKeeps
  <2>3. CASE CallC
    BY ONLY <2>3, Inv1, CallCKeeps
  <2>4. CASE CallMeta
    BY ONLY <2>4, Inv1, CallMetaKeeps
  <2>5. CASE DeclareTbc
    BY ONLY <2>5, Inv1, DeclareTbcKeeps
  <2>6. CASE CloseBlock
    BY ONLY <2>6, Inv1, CloseBlockKeeps
  <2>7. CASE ReturnLua
    BY ONLY <2>7, Inv1, ReturnLuaKeeps
  <2>8. CASE \E k, isLua \in BOOLEAN : CallFromC(k, isLua)
    BY ONLY <2>8, Inv1, CallFromCKeeps
  <2>9. CASE \E k, handler, isLua \in BOOLEAN : PcallFromC(k, handler, isLua)
    BY ONLY <2>9, Inv1, PcallFromCKeeps
  <2>10. CASE ToClose
    BY ONLY <2>10, Inv1, ToCloseKeeps
  <2>11. CASE ReturnC
    BY ONLY <2>11, Inv1, ReturnCKeeps
  <2>12. CASE Error
    <3>1. exc = "none" /\ (InLua \/ InC) /\ exc' = "error"
          /\ UNCHANGED <<ci, tbc, status, body, nC, nny, errfunc, cs>>
      BY <2>12 DEF Error, InLua, InC, Running, counts, thread
    <3> QED
      BY ONLY <3>1, Inv1, ErrorKeeps
  <2>13. CASE Exception
    BY ONLY <2>13, Inv1, ExceptionKeeps
  <2>14. CASE \E k \in BOOLEAN : Yield(k)
    BY ONLY <2>14, Inv1, YieldKeeps
  <2>15. ASSUME NEW co \in Coroutine, Create(co) \/ Resume(co) \/ CloseCoroutine(co)
         PROVE  Inv1'
    <3>1. co \in Thread
      BY DEF Coroutine
    <3> QED
      BY ONLY <2>15, <3>1, Inv1, CreateKeeps, ResumeKeeps, CloseCoroutineKeeps
  <2> QED
    BY ONLY <1>1, <2>1, <2>2, <2>3, <2>4, <2>5, <2>6, <2>7, <2>8, <2>9, <2>10, <2>11, <2>12,
            <2>13, <2>14, <2>15 DEF Program
<1>2. CASE Machine
  <2>1. CASE RepeatClose \/ PcallkReturns \/ PcallReturns \/ CloseNext \/ BlockClosed
             \/ FunctionClosed
    BY ONLY <2>1, Inv1, RepeatCloseKeeps, PcallkReturnsKeeps, PcallReturnsKeeps,
            CloseNextKeeps, BlockClosedKeeps, FunctionClosedKeeps
  <2>2. CASE PcallkClosed \/ ProtectedClosed \/ FinishCcall \/ FinishLua \/ Finish
    BY ONLY <2>2, Inv1, PcallkClosedKeeps, ProtectedClosedKeeps, FinishCcallKeeps,
            FinishLuaKeeps, FinishKeeps
  <2>3. CASE Raise \/ HandlerReturns \/ CaughtByPcall \/ CaughtWhileClosing
    BY ONLY <2>3, Inv1, RaiseKeeps, HandlerReturnsKeeps, CaughtByPcallKeeps,
            CaughtWhileClosingKeeps
  <2>4. CASE Recover \/ Die \/ Yielded
    BY ONLY <2>4, Inv1, RecoverKeeps, DieKeeps, YieldedKeeps
  <2> QED
    BY ONLY <1>2, <2>1, <2>2, <2>3, <2>4 DEF Machine
<1>3. CASE UNCHANGED vars
  BY ONLY <1>3, Inv1 DEF vars, Inv1
<1> QED
  BY ONLY <1>1, <1>2, <1>3, [Next]_vars DEF Next
(* The invariant says that the counts of calls are exact,                  *)
LEMMA CountsHold ==
  ASSUME Inv1
  PROVE  CallsAreCounted
<1>1. /\ Ready(cs, ci, status, nC, nny, exc) /\ Typed(tbc, status, body, errfunc, exc)
      /\ cs \in Seq(Acts) /\ Len(cs) \in Nat /\ Len(cs) > 0 /\ cs[Len(cs)].thread = L
      /\ L \in Thread
  BY InvFacts
<1>2. Counted(cs, nC, nny, exc) /\ cs[1].kind = "main"
  BY ONLY <1>1, ReadyTypes DEF Ready
<1>3. TypeOK
  <2>1. /\ nC \in [Thread -> Nat] /\ nny \in [Thread -> Nat]
        /\ \A t \in Thread : nC[t] <= ErrorCCalls /\ nny[t] <= ErrorCCalls + 1
    BY ONLY <1>2 DEF Counted
  <2>2. nC \in [Thread -> 0 .. ErrorCCalls] /\ nny \in [Thread -> 0 .. ErrorCCalls + 1]
    BY ONLY <2>1, CoroutineConstants DEF CoroutineConstants
  <2>3. /\ status \in [Thread -> {"ok", "yield", "err"}]
        /\ body \in [Thread -> BOOLEAN]
        /\ errfunc \in [Thread -> Nat]
        /\ exc \in {"none", "error", "err", "yield", "exception"}
    BY ONLY <1>1 DEF Typed
  <2> QED
    BY ONLY <1>1, <1>2, <2>2, <2>3 DEF TypeOK
<1>4. CCallsExact
  <2> SUFFICES ASSUME exc = "none", NEW t \in Thread, Activations(t) # {}
               PROVE  /\ nny[t] = (IF t = MainThread THEN 1 ELSE 0) +
                                     Cardinality({i \in Activations(t) :
                                       cs[i].kind \in {"exec", "cfun"} /\ cs[i].inc = 2})
                      /\ (t = L) => nC[t] = Cardinality({i \in 1 .. Len(cs) :
                                     \/ (cs[i].kind \in {"exec", "cfun"} /\ cs[i].inc > 0)
                                     \/ cs[i].kind = "unroll"})
    BY DEF CCallsExact
  <2>1. PICK i \in 1 .. Len(cs) : cs[i].thread = t
    BY DEF Activations
  <2>2. nny[t] = NonYields(cs, t, Len(cs))
    BY ONLY <1>2, <2>1 DEF Counted
  <2>3. {j \in Activations(t) : cs[j].kind \in {"exec", "cfun"} /\ cs[j].inc = 2}
          = {j \in 1 .. Len(cs) : cs[j].thread = t /\ NonYieldable(cs[j])}
    BY DEF Activations, NonYieldable, Call
  <2>4. {j \in 1 .. Len(cs) : \/ (cs[j].kind \in {"exec", "cfun"} /\ cs[j].inc > 0)
                              \/ cs[j].kind = "unroll"}
          = {j \in 1 .. Len(cs) : IsCounted(cs[j])}
    BY DEF IsCounted, Call
  <2>5. nC[L] = CCalls(cs, Len(cs))
    <3>1. nC[cs[Len(cs)].thread] = CCalls(cs, Len(cs))
      BY ONLY <1>1, ReadyTypes
    <3> QED
      BY ONLY <1>1, <3>1
  <2>6. nny[t] = (IF t = MainThread THEN 1 ELSE 0) +
                    Cardinality({j \in Activations(t) :
                      cs[j].kind \in {"exec", "cfun"} /\ cs[j].inc = 2})
    <3>1. nny[t] = MainsOwn(t) + Cardinality({j \in 1 .. Len(cs) :
                                                 cs[j].thread = t /\ NonYieldable(cs[j])})
      BY ONLY <2>2 DEF NonYields
    <3> QED
      BY ONLY <3>1, <2>3 DEF MainsOwn
  <2>7. nC[L] = Cardinality({j \in 1 .. Len(cs) :
                  \/ (cs[j].kind \in {"exec", "cfun"} /\ cs[j].inc > 0)
                  \/ cs[j].kind = "unroll"})
    BY ONLY <2>4, <2>5 DEF CCalls
  <2> QED
    BY ONLY <2>6, <2>7
<1> QED
  BY ONLY <1>3, <1>4 DEF CallsAreCounted
(* that an interrupted C function has what finishCcall needs,              *)
LEMMA ContinuesHold ==
  ASSUME Inv1
  PROVE  CanContinue
<1> SUFFICES ASSUME Finishing, ~top.clsret
             PROVE  top.k /\ yieldable
  BY DEF CanContinue
<1>1. /\ Ready(cs, ci, status, nC, nny, exc) /\ Tips(cs, ci)
      /\ cs[Len(cs)] = cur /\ cur.thread = L
      /\ cur.kind = "unroll" /\ ci[L] # <<>> /\ ~top.lua
      /\ ci[L][Len(ci[L])] = top
  BY InvFacts DEF Finishing, Unrolling
<1>2. Held(top)
  BY ONLY <1>1 DEF Tips
<1>3. nny[L] = 0
  BY ONLY <1>1, UnrollYields
<1> QED
  BY <1>1, <1>2, <1>3 DEF Held, yieldable
(* and that no lua_pcallk is inside a luaD_pcall.                          *)
LEMMA InnermostHolds ==
  ASSUME Inv1
  PROVE  InnermostCatches
<1>1. Ready(cs, ci, status, nC, nny, exc)
  BY InvFacts
<1>2. PICK h : h \in [Nat -> Nat] /\ Stack(cs, ci, h)
  BY ONLY <1>1 DEF Ready
<1> SUFFICES ASSUME NEW i \in 1 .. Len(cs), cs[i].kind = "try", cs[i].of # "resume",
                    NEW j \in 1 .. Len(ci[cs[i].thread]), j > cs[i].depth
             PROVE  ~ci[cs[i].thread][j].ypcall
  BY DEF InnermostCatches
<1>3. /\ Fits(cs, ci, h) /\ Inside(cs, ci, h) /\ cs[1].kind = "main" /\ Len(cs) \in Nat
      /\ cs[i] \in Acts /\ cs[i].thread \in Thread /\ h[i] \in Nat
      /\ Len(ci[cs[i].thread]) \in Nat
  <2>1. /\ Len(cs) \in Nat
        /\ \A k \in 1 .. Len(cs) : cs[k] \in Acts /\ cs[k].thread \in Thread
        /\ \A t \in Thread : Len(ci[t]) \in Nat
        /\ \A k \in 0 .. Len(cs) : h[k] \in Nat
        /\ cs[1].kind = "main" /\ Fits(cs, ci, h) /\ Inside(cs, ci, h)
    BY ONLY <1>2, StackShape
  <2>2. i \in 0 .. Len(cs)
    BY ONLY <2>1, i \in 1 .. Len(cs)
  <2> QED
    BY ONLY <2>1, <2>2, i \in 1 .. Len(cs)
<1>4. Guard(cs[i]) /\ i \in 2 .. Len(cs)
  <2>1. i # 1
    BY <1>3
  <2>2. Guard(cs[i])
    BY DEF Guard
  <2> QED
    BY ONLY <1>3, <2>1, <2>2, i \in 1 .. Len(cs)
<1>5. cs[i].depth = h[i]
  BY ONLY <1>3, <1>4 DEF Fits, Fit
<1>6. j \in h[i] + 1 .. Len(ci[cs[i].thread])
  BY ONLY <1>3, <1>5, j \in 1 .. Len(ci[cs[i].thread]), j > cs[i].depth
<1> QED
  BY ONLY <1>3, <1>4, <1>6 DEF Inside
-----------------------------------------------------------------------------
(* The invariant holds in every state.                                     *)
THEOREM InvariantHolds == Spec => []Inv1
  BY InitWhole, NextKeeps, PTL DEF Spec
(* The counts that luaE_checkcstack and lua_yieldk rely on, L->nCcalls,    *)
(* are exact in every state without an error under way, and within their   *)
(* limits in all, whatever mixture of errors, yields and resumes went      *)
(* before (ccall, luaD_pcall, lua_resume, luaE_resetthread).               *)
THEOREM CallsStayCounted == Spec => []CallsAreCounted
<1>1. Inv1 => CallsAreCounted
  BY CountsHold
<1> QED
  BY <1>1, InvariantHolds, PTL
(* The assertions of finishCcall hold: a C function that unroll goes on    *)
(* with, and that was not closing its variables, has a continuation, and   *)
(* the thread may yield again.                                             *)
THEOREM InterruptedCanContinue == Spec => []CanContinue
<1>1. Inv1 => CanContinue
  BY ContinuesHold
<1> QED
  BY <1>1, InvariantHolds, PTL
(* An error that luaD_throw gives to a luaD_pcall skips no lua_pcallk: the *)
(* frames above any protected call hold none, so that recover and longjmp  *)
(* agree about the innermost protected call.                               *)
THEOREM InnermostCallCatches == Spec => []InnermostCatches
<1>1. Inv1 => InnermostCatches
  BY InnermostHolds
<1> QED
  BY <1>1, InvariantHolds, PTL
-----------------------------------------------------------------------------
(* To-be-closed variables *)

(* The frame f answers for the variable v: v is of its function, or it is  *)
(* that of a lua_pcallk which is to close v after an error.                *)
Carries(f, v) ==
  \/ f.func = v.owner
  \/ /\ f.ypcall /\ f.recst # "ok"
     /\ f.idx <= v.level \/ (f.clsret /\ f.func <= v.level)

Holds(FR, v) == \E p \in 1 .. Len(FR) : Carries(FR[p], v)

(* luaF_close of luaD_closeprotected.                                      *)
Protective(r) == r.kind = "close" /\ r.for = "protected"

Covered(c, FR, t, v) ==
  \/ Holds(FR, v)
  \/ \E i \in 1 .. Len(c) : Protective(c[i]) /\ c[i].thread = t /\ c[i].level <= v.level

Covers(c, FR, W, t) == \A i \in 1 .. Len(W) : Covered(c, FR, t, W[i])

(* The variables W of a thread with frames FR are in the order of their    *)
(* slots, above the functions they are of, and a C function has none       *)
(* before it calls lua_toclose.                                            *)
Pending(W, FR) ==
  /\ \A i \in 1 .. Len(W) : W[i].owner < W[i].level
  /\ \A i, j \in 1 .. Len(W) : i < j => W[i].level < W[j].level
  /\ \A p \in 1 .. Len(FR) : ~FR[p].lua /\ ~FR[p].clsret =>
       \A i \in 1 .. Len(W) : W[i].owner # FR[p].func

Kept(c, FR, W, t) == Pending(W, FR) /\ Covers(c, FR, W, t)

Owned(c, F, V, s) ==
  \A t \in Thread : Pending(V[t], F[t]) /\ (s[t] # "err" => Covers(c, F[t], V[t], t))

Inv2 == Inv1 /\ Owned(cs, ci, tbc, status)

(* What luaD_closeprotected is to close, on the C stack c, is to be closed *)
(* on d too.                                                               *)
Passes(c, d) ==
  \A i \in 1 .. Len(c) : Protective(c[i]) =>
    \E k \in 1 .. Len(d) :
      Protective(d[k]) /\ d[k].thread = c[i].thread /\ d[k].level = c[i].level

(* Every luaD_closeprotected that is left as it is goes on.                *)
LEMMA PassesSame ==
  ASSUME NEW c
  PROVE  Passes(c, c)
BY DEF Passes

(* Another activation stops none of them.                                  *)
LEMMA PassesPush ==
  ASSUME NEW S, NEW c \in Seq(S), NEW d \in Seq(S), NEW r \in S, Passes(c, d)
  PROVE  Passes(c, Append(d, r))
<1>1. /\ Len(d) \in Nat /\ Len(Append(d, r)) = Len(d) + 1
      /\ \A k \in 1 .. Len(d) : Append(d, r)[k] = d[k] /\ k \in 1 .. Len(d) + 1
  OBVIOUS
<1> DEFINE e == Append(d, r)
<1>2. /\ Len(d) \in Nat /\ Len(e) = Len(d) + 1
      /\ \A k \in 1 .. Len(d) : e[k] = d[k] /\ k \in 1 .. Len(e)
  BY <1>1
<1> HIDE DEF e
<1>3. Passes(c, e)
  BY ONLY <1>2, Passes(c, d) DEF Passes
<1> QED
  BY <1>3 DEF e

(* A cut of the C stack above all of them leaves each.                     *)
LEMMA PassesCut ==
  ASSUME NEW c \in Seq(Acts), NEW n \in 0 .. Len(c),
         \A i \in n + 1 .. Len(c) : ~Protective(c[i])
  PROVE  Passes(c, SubSeq(c, 1, n))
<1> DEFINE d == SubSeq(c, 1, n)
<1>1. n \in Nat /\ Len(c) \in Nat /\ n <= Len(c)
  OBVIOUS
<1>2. Len(d) = n /\ \A k \in 1 .. n : d[k] = c[k]
  BY <1>1
<1> HIDE DEF d
<1>3. \A i \in 1 .. Len(c) : i \in 1 .. n \/ i \in n + 1 .. Len(c)
  BY ONLY <1>1
<1>4. Passes(c, d)
  BY <1>2, <1>3 DEF Passes
<1> QED
  BY <1>4 DEF d

(* The end of any other activation leaves each.                            *)
LEMMA PassesPop ==
  ASSUME NEW c \in Seq(Acts), Len(c) > 0, ~Protective(c[Len(c)])
  PROVE  Passes(c, Popped(c))
<1>1. Len(c) \in Nat
  OBVIOUS
<1>2. Len(c) - 1 \in 0 .. Len(c) /\ \A i \in (Len(c) - 1) + 1 .. Len(c) : i = Len(c)
  BY ONLY <1>1, Len(c) > 0
<1>3. \A i \in (Len(c) - 1) + 1 .. Len(c) : ~Protective(c[i])
  BY ONLY <1>2, ~Protective(c[Len(c)])
<1> QED
  BY ONLY <1>2, <1>3, c \in Seq(Acts), PassesCut DEF Popped

(* A variable that had an owner has one after a change that keeps its      *)
(* frame.                                                                  *)
LEMMA CoveredStill ==
  ASSUME NEW c, NEW FR, NEW t, NEW v, Covered(c, FR, t, v), NEW d, Passes(c, d),
         NEW GR, Holds(FR, v) => Holds(GR, v)
  PROVE  Covered(d, GR, t, v)
<1>1. CASE Holds(FR, v)
  BY <1>1 DEF Covered
<1>2. CASE ~Holds(FR, v)
  <2>1. PICK i \in 1 .. Len(c) : Protective(c[i]) /\ c[i].thread = t /\ c[i].level <= v.level
    BY <1>2 DEF Covered
  <2>2. PICK k \in 1 .. Len(d) :
          Protective(d[k]) /\ d[k].thread = c[i].thread /\ d[k].level = c[i].level
    BY ONLY <2>1, Passes(c, d) DEF Passes
  <2>3. Protective(d[k]) /\ d[k].thread = t /\ d[k].level <= v.level
    BY ONLY <2>1, <2>2
  <2> QED
    BY <2>3 DEF Covered
<1> QED
  BY <1>1, <1>2

(* The same of all the variables W of a thread.                            *)
LEMMA CoversStill ==
  ASSUME NEW c, NEW FR, NEW W, NEW t, Covers(c, FR, W, t), NEW d, Passes(c, d),
         NEW GR, \A i \in 1 .. Len(W) : Holds(FR, W[i]) => Holds(GR, W[i])
  PROVE  Covers(d, GR, W, t)
<1>1. SUFFICES ASSUME NEW i \in 1 .. Len(W) PROVE Covered(d, GR, t, W[i])
  BY DEF Covers
<1>2. Covered(c, FR, t, W[i]) /\ (Holds(FR, W[i]) => Holds(GR, W[i]))
  BY DEF Covers
<1> QED
  BY ONLY <1>2, Passes(c, d), CoveredStill

(* A step concerns the variables of one thread.                            *)
LEMMA OwnedStep ==
  ASSUME NEW c, NEW F, NEW V, NEW s, Owned(c, F, V, s), NEW d, Passes(c, d),
         NEW t \in Thread, NEW G, NEW W, NEW s2,
         \A u \in Thread : u # t => G[u] = F[u] /\ W[u] = V[u] /\ s2[u] = s[u],
         Pending(W[t], G[t]), s2[t] # "err" => Covers(d, G[t], W[t], t)
  PROVE  Owned(d, G, W, s2)
<1>1. SUFFICES ASSUME NEW u \in Thread, u # t
      PROVE  Pending(W[u], G[u]) /\ (s2[u] # "err" => Covers(d, G[u], W[u], u))
  BY DEF Owned
<1>2. G[u] = F[u] /\ W[u] = V[u] /\ s2[u] = s[u]
  BY <1>1
<1>3. Pending(V[u], F[u]) /\ (s[u] # "err" => Covers(c, F[u], V[u], u))
  BY DEF Owned
<1>4. ASSUME s[u] # "err" PROVE Covers(d, F[u], V[u], u)
  <2>1. Covers(c, F[u], V[u], u)
    BY <1>3, <1>4
  <2> QED
    BY ONLY <2>1, Passes(c, d), CoversStill
<1> QED
  BY <1>2, <1>3, <1>4

(* What the invariant says of the running thread.                          *)
LEMMA OwnedNow ==
  ASSUME Inv2
  PROVE  Kept(cs, ci[L], tbc[L], L)
<1>1. L \in Thread /\ status[L] # "err" /\ Owned(cs, ci, tbc, status)
  BY InvFacts DEF Inv2
<1> QED
  BY ONLY <1>1 DEF Owned, Kept

(* A step of the running thread.                                           *)
LEMMA OwnedRun ==
  ASSUME Inv2, NEW d, Passes(cs, d), NEW G, NEW W,
         \A u \in Thread : u # L => G[u] = ci[u] /\ W[u] = tbc[u],
         Kept(d, G[L], W[L], L)
  PROVE  Owned(d, G, W, status)
<1>1. L \in Thread /\ status[L] # "err" /\ Owned(cs, ci, tbc, status)
  BY InvFacts DEF Inv2
<1>2. Pending(W[L], G[L]) /\ Covers(d, G[L], W[L], L)
  BY DEF Kept
<1> DEFINE t == L
<1>3. t = L
  OBVIOUS
<1> HIDE DEF t
<1>4. /\ \A u \in Thread : u # t => G[u] = ci[u] /\ W[u] = tbc[u] /\ status[u] = status[u]
      /\ t \in Thread /\ Pending(W[t], G[t]) /\ Covers(d, G[t], W[t], t)
  BY <1>1, <1>2, <1>3
<1> QED
  BY ONLY <1>1, <1>4, Passes(cs, d), OwnedStep
-----------------------------------------------------------------------------
(* How the frames of a thread may change *)

(* A change of the C stack alone leaves the variables owned.               *)
LEMMA KeptSame ==
  ASSUME NEW c, NEW FR, NEW W, NEW t, Kept(c, FR, W, t), NEW d, Passes(c, d)
  PROVE  Kept(d, FR, W, t)
<1>1. Pending(W, FR) /\ Covers(c, FR, W, t)
  BY DEF Kept
<1>2. Covers(d, FR, W, t)
  BY ONLY <1>1, Passes(c, d), CoversStill
<1> QED
  BY <1>1, <1>2 DEF Kept

(* A new frame.                                                            *)
LEMMA KeptPush ==
  ASSUME NEW c, NEW FR \in Seq(FrameSet), NEW W, NEW t, Kept(c, FR, W, t),
         NEW d, Passes(c, d),
         NEW f \in FrameSet, f.lua \/ \A i \in 1 .. Len(W) : W[i].owner # f.func
  PROVE  Kept(d, Append(FR, f), W, t)
<1>1. Pending(W, FR) /\ Covers(c, FR, W, t)
  BY DEF Kept
<1> DEFINE n == Len(FR)
           GR == Append(FR, f)
<1>2. /\ n \in Nat /\ n = Len(FR) /\ Len(GR) = n + 1 /\ GR[n + 1] = f
      /\ \A q \in 1 .. n : GR[q] = FR[q]
  OBVIOUS
<1> HIDE DEF n, GR
<1>3. \A q \in 1 .. Len(GR) : q \in 1 .. n \/ q = n + 1
  BY ONLY <1>2
<1>4. \A q \in 1 .. n : q \in 1 .. Len(GR)
  BY ONLY <1>2
<1>5. \A i \in 1 .. Len(W) : Holds(FR, W[i]) => Holds(GR, W[i])
  BY ONLY <1>2, <1>4 DEF Holds
<1>6. Covers(d, GR, W, t)
  BY ONLY <1>1, <1>5, Passes(c, d), CoversStill
<1>7. Pending(W, GR)
  <2>1. SUFFICES ASSUME NEW p \in 1 .. Len(GR), ~GR[p].lua, ~GR[p].clsret, NEW i \in 1 .. Len(W)
        PROVE  W[i].owner # GR[p].func
    BY <1>1 DEF Pending
  <2>2. CASE p \in 1 .. n
    BY <2>1, <2>2, <1>1, <1>2 DEF Pending
  <2>3. CASE p = n + 1
    BY <2>1, <2>3, <1>2
  <2> QED
    BY <1>3, <2>2, <2>3
<1>8. Kept(d, GR, W, t)
  BY <1>6, <1>7 DEF Kept
<1> QED
  BY <1>8 DEF GR

(* The frames are cut, and what those that go away answered for is dealt   *)
(* with.                                                                   *)
LEMMA KeptCut ==
  ASSUME NEW c, NEW FR \in Seq(FrameSet), NEW W, NEW t, Kept(c, FR, W, t),
         NEW d, Passes(c, d), NEW m \in 0 .. Len(FR), NEW GR, Len(GR) = m,
         \A q \in 1 .. m : GR[q] = FR[q],
         \A q \in m + 1 .. Len(FR) : \A i \in 1 .. Len(W) :
           Carries(FR[q], W[i]) => Covered(d, GR, t, W[i])
  PROVE  Kept(d, GR, W, t)
<1>1. Pending(W, FR) /\ Covers(c, FR, W, t)
  BY DEF Kept
<1>2. \A q \in 1 .. m : q \in 1 .. Len(FR)
  OBVIOUS
<1>3. Pending(W, GR)
  <2>1. \A p \in 1 .. Len(GR) : GR[p] = FR[p] /\ p \in 1 .. Len(FR)
    BY ONLY <1>2, Len(GR) = m, \A q \in 1 .. m : GR[q] = FR[q]
  <2> QED
    BY ONLY <1>1, <2>1 DEF Pending
<1>4. SUFFICES ASSUME NEW i \in 1 .. Len(W) PROVE Covered(d, GR, t, W[i])
  BY <1>3 DEF Kept, Covers
<1>5. Covered(c, FR, t, W[i])
  BY <1>1 DEF Covers
<1>6. CASE \E q \in m + 1 .. Len(FR) : Carries(FR[q], W[i])
  BY <1>6
<1>7. CASE ~ \E q \in m + 1 .. Len(FR) : Carries(FR[q], W[i])
  <2>1. Holds(FR, W[i]) => Holds(GR, W[i])
    <3>1. SUFFICES ASSUME NEW p \in 1 .. Len(FR), Carries(FR[p], W[i])
          PROVE  \E q \in 1 .. Len(GR) : Carries(GR[q], W[i])
      BY DEF Holds
    <3>2. p \in 1 .. m
      BY <3>1, <1>7
    <3>3. Carries(GR[p], W[i])
      BY <3>1, <3>2
    <3> QED
      BY <3>2, <3>3
  <2> QED
    BY ONLY <1>5, <2>1, Passes(c, d), CoveredStill
<1> QED
  BY <1>6, <1>7

(* The frame at the top ends.                                              *)
LEMMA KeptPop ==
  ASSUME NEW c, NEW FR \in Seq(FrameSet), FR # <<>>, NEW W, NEW t, Kept(c, FR, W, t),
         NEW d, Passes(c, d),
         \A i \in 1 .. Len(W) : ~Carries(FR[Len(FR)], W[i])
  PROVE  Kept(d, SubSeq(FR, 1, Len(FR) - 1), W, t)
<1> DEFINE m == Len(FR) - 1
           GR == SubSeq(FR, 1, m)
<1>1. /\ m \in 0 .. Len(FR) /\ Len(GR) = m /\ \A q \in 1 .. m : GR[q] = FR[q]
      /\ \A q \in m + 1 .. Len(FR) : q = Len(FR)
  <2>1. Len(FR) \in Nat /\ Len(FR) > 0
    OBVIOUS
  <2>2. m \in Nat /\ m \in 0 .. Len(FR) /\ \A q \in m + 1 .. Len(FR) : q = Len(FR)
    BY ONLY <2>1
  <2> HIDE DEF m
  <2>3. Len(GR) = m /\ \A q \in 1 .. m : GR[q] = FR[q]
    BY <2>1, <2>2
  <2> QED
    BY ONLY <2>2, <2>3
<1> HIDE DEF m, GR
<1>2. \A q \in m + 1 .. Len(FR) : \A i \in 1 .. Len(W) :
        Carries(FR[q], W[i]) => Covered(d, GR, t, W[i])
  BY ONLY <1>1, \A i \in 1 .. Len(W) : ~Carries(FR[Len(FR)], W[i])
<1>3. Kept(d, GR, W, t)
  BY ONLY <1>1, <1>2, FR \in Seq(FrameSet), Kept(c, FR, W, t), Passes(c, d), KeptCut
<1> QED
  BY <1>3 DEF GR, m

(* The frame at the top becomes f.                                         *)
LEMMA KeptRetop ==
  ASSUME NEW c, NEW FR \in Seq(FrameSet), FR # <<>>, NEW W, NEW t, Kept(c, FR, W, t),
         NEW d, Passes(c, d),
         NEW f \in FrameSet, f.func = FR[Len(FR)].func, f.lua = FR[Len(FR)].lua,
         FR[Len(FR)].clsret => f.clsret,
         \A i \in 1 .. Len(W) : Carries(FR[Len(FR)], W[i]) => Carries(f, W[i])
  PROVE  Kept(d, Retop(FR, Len(FR), f), W, t)
<1>1. Pending(W, FR) /\ Covers(c, FR, W, t)
  BY DEF Kept
<1> DEFINE n == Len(FR)
           GR == Retop(FR, n, f)
<1>2. n \in Nat /\ n = Len(FR) /\ n \in 1 .. n
  OBVIOUS
<1>3. /\ Len(GR) = Len(FR) /\ GR[Len(GR)] = f
      /\ \A q \in 1 .. Len(FR) - 1 : GR[q] = FR[q]
  BY RetopFacts
<1> HIDE DEF n, GR
<1>4. Len(GR) = n /\ GR[n] = f /\ \A q \in 1 .. n : q = n \/ GR[q] = FR[q]
  BY ONLY <1>2, <1>3
<1>5. /\ f.func = FR[n].func /\ f.lua = FR[n].lua /\ (FR[n].clsret => f.clsret)
      /\ \A i \in 1 .. Len(W) : Carries(FR[n], W[i]) => Carries(f, W[i])
  BY <1>2
<1>6. \A i \in 1 .. Len(W) : Holds(FR, W[i]) => Holds(GR, W[i])
  BY ONLY <1>2, <1>4, <1>5 DEF Holds
<1>7. Covers(d, GR, W, t)
  BY ONLY <1>1, <1>6, Passes(c, d), CoversStill
<1>8. Pending(W, GR)
  <2>1. SUFFICES ASSUME NEW p \in 1 .. Len(GR), ~GR[p].lua, ~GR[p].clsret, NEW i \in 1 .. Len(W)
        PROVE  W[i].owner # GR[p].func
    BY <1>1 DEF Pending
  <2>2. ~FR[p].lua /\ ~FR[p].clsret /\ FR[p].func = GR[p].func /\ p \in 1 .. Len(FR)
    BY ONLY <2>1, <1>2, <1>4, <1>5
  <2> QED
    BY <2>2, <1>1 DEF Pending
<1>9. Kept(d, GR, W, t)
  BY <1>7, <1>8 DEF Kept
<1> QED
  BY <1>9 DEF GR, n

(* What decides whether a frame answers for a variable.                    *)
LEMMA CarriesToo ==
  ASSUME NEW f, NEW g, g.func = f.func, NEW v, Carries(f, v),
         f.recst = "ok" \/ (/\ g.ypcall = f.ypcall /\ g.recst = f.recst
                            /\ g.idx = f.idx /\ g.clsret = f.clsret)
  PROVE  Carries(g, v)
BY DEF Carries

(* The first free slot is above every pending variable.                    *)
LEMMA SlotsInOrder ==
  ASSUME NEW FR \in Seq(FrameSet), NEW W \in Seq(VarSet), Pending(W, FR)
  PROVE  /\ \A i \in 1 .. Len(W) : /\ W[i] \in VarSet /\ W[i].owner \in Nat /\ W[i].level \in Nat
                                   /\ W[i].owner < W[i].level
                                   /\ W[i].level <= W[Len(W)].level
         /\ \A i \in 1 .. Len(W) : W[i].level < TopAt(FR, W) /\ W[i].owner < TopAt(FR, W)
<1>1. \A i \in 1 .. Len(W) : /\ W[i] \in VarSet /\ W[i].owner \in Nat /\ W[i].level \in Nat
                             /\ W[i].owner < W[i].level
  <2> TAKE i \in 1 .. Len(W)
  <2>1. W[i] \in VarSet
    OBVIOUS
  <2>2. W[i].owner < W[i].level
    BY DEF Pending
  <2> QED
    BY ONLY <2>1, <2>2 DEF VarSet
<1>2. \A i \in 1 .. Len(W) : W[i].level <= W[Len(W)].level
  <2> TAKE i \in 1 .. Len(W)
  <2>1. Len(W) \in 1 .. Len(W) /\ (i < Len(W) \/ i = Len(W))
    OBVIOUS
  <2>2. CASE i < Len(W)
    <3>1. W[i].level < W[Len(W)].level
      BY <2>1, <2>2 DEF Pending
    <3> QED
      BY ONLY <3>1, <2>1, <1>1
  <2>3. CASE i = Len(W)
    BY ONLY <2>3, <1>1, <2>1
  <2> QED
    BY ONLY <2>1, <2>2, <2>3
<1>3. ASSUME NEW i \in 1 .. Len(W)
      PROVE  W[Len(W)].level < TopAt(FR, W) /\ TopAt(FR, W) \in Nat
  <2>1. W # <<>> /\ Len(W) \in 1 .. Len(W) /\ Last(W) = W[Len(W)]
    BY DEF Last
  <2>2. W[Len(W)].level \in Nat
    BY <1>1, <2>1
  <2> DEFINE func == IF FR = <<>> THEN 0 ELSE Last(FR).func
  <2>3. func \in Nat
    <3>1. CASE FR = <<>>
      BY <3>1
    <3>2. CASE FR # <<>>
      <4>1. FR[Len(FR)] \in FrameSet /\ Last(FR) = FR[Len(FR)]
        BY <3>2 DEF Last
      <4> QED
        BY <4>1, <3>2 DEF FrameSet
    <3> QED
      BY <3>1, <3>2
  <2>4. TopAt(FR, W) = 1 + IF Last(W).level > func THEN Last(W).level ELSE func
    BY <2>1 DEF TopAt
  <2> HIDE DEF func
  <2> QED
    BY ONLY <2>1, <2>2, <2>3, <2>4
<1> QED
  BY <1>1, <1>2, <1>3
-----------------------------------------------------------------------------
(* The steps again *)
OwnedNext == Owned(cs', ci', tbc', status')

(* Only the C stack changes.                                               *)
LEMMA OwnedIdle ==
  ASSUME Inv2, Passes(cs, cs'), ci' = ci, tbc' = tbc, status' = status
  PROVE  OwnedNext
<1>1. Kept(cs, ci[L], tbc[L], L)
  BY OwnedNow
<1>2. Kept(cs', ci[L], tbc[L], L)
  BY ONLY <1>1, Passes(cs, cs'), KeptSame
<1>3. Owned(cs', ci, tbc, status)
  BY ONLY <1>2, Inv2, Passes(cs, cs'), OwnedRun
<1> QED
  BY <1>3 DEF OwnedNext

(* A step that puts an activation on the C stack, and nothing else.        *)
LEMMA OwnedPush ==
  ASSUME Inv2, NEW r \in Acts, cs' = Append(cs, r), ci' = ci, tbc' = tbc, status' = status
  PROVE  OwnedNext
<1>1. cs \in Seq(Acts) /\ Inv1
  BY InvFacts DEF Inv2
<1>2. Passes(cs, Append(cs, r))
  BY ONLY <1>1, r \in Acts, PassesSame, PassesPush
<1> QED
  BY <1>2, OwnedIdle

(* The running thread calls a function by ccall.                           *)
LEMMA CallOwned ==
  ASSUME Inv2, NEW inc \in 1 .. 2, NEW isLua \in BOOLEAN, NEW func \in Nat, func > 0,
         NEW frames \in Seq(FrameSet), NEW stack \in Seq(Acts),
         CCall(inc, isLua, func, frames, stack), Passes(cs, stack),
         \A u \in Thread : u # L => tbc'[u] = tbc[u],
         Kept(cs, frames, tbc'[L], L),
         isLua \/ \A i \in 1 .. Len(tbc'[L]) : tbc'[L][i].owner # func,
         status' = status
  PROVE  OwnedNext
<1>1. L \in Thread /\ ci \in [Thread -> Seq(FrameSet)]
  BY InvFacts DEF Inv2
<1>2. PICK r \in Acts : CallBy(r, inc, isLua, func, frames, stack)
  BY ONLY <1>1, inc \in 1 .. 2, isLua \in BOOLEAN, func \in Nat, frames \in Seq(FrameSet),
          CCall(inc, isLua, func, frames, stack), FunctionCallMade
<1> DEFINE t == TRUE
           f == Frame(isLua, t, func)
           E == [ci EXCEPT ![L] = frames]
<1>3. f \in FrameSet /\ f.lua = isLua /\ f.func = func
  <2>1. t \in BOOLEAN
    OBVIOUS
  <2> HIDE DEF t
  <2> QED
    BY ONLY <2>1, isLua \in BOOLEAN, func \in Nat, func > 0, NewFrame
<1>4. cs' = Append(stack, r) /\ r.thread = L /\ CallMade(E, nC, nny, r, f, ci', nC', nny', exc')
  BY <1>2 DEF CallBy
<1>5. E[L] = frames /\ \A u \in Thread : u # L => E[u] = ci[u]
  BY <1>1
<1> HIDE DEF E, f
<1>6. Passes(cs, cs')
  BY ONLY <1>4, Passes(cs, stack), stack \in Seq(Acts), r \in Acts, Inv2, InvFacts, PassesPush DEF Inv2
<1>7. /\ ci'[L] = frames \/ ci'[L] = Append(frames, f)
      /\ \A u \in Thread : u # L => ci'[u] = ci[u]
  <2>1. IF exc' = "none" THEN Extended(E, L, f, ci') ELSE ci' = E
    BY ONLY <1>4 DEF CallMade
  <2>2. CASE exc' = "none"
    BY ONLY <2>1, <2>2, <1>5 DEF Extended
  <2>3. CASE exc' # "none"
    BY ONLY <2>1, <2>3, <1>5
  <2> QED
    BY ONLY <2>2, <2>3
<1>8. Kept(cs', ci'[L], tbc'[L], L)
  <2>1. f.lua \/ \A i \in 1 .. Len(tbc'[L]) : tbc'[L][i].owner # f.func
    BY <1>3
  <2>2. Kept(cs', frames, tbc'[L], L)
    BY ONLY <1>6, Kept(cs, frames, tbc'[L], L), KeptSame
  <2>3. Kept(cs', Append(frames, f), tbc'[L], L)
    BY ONLY <1>3, <1>6, <2>1, Kept(cs, frames, tbc'[L], L), frames \in Seq(FrameSet), KeptPush
  <2> QED
    BY ONLY <1>7, <2>2, <2>3
<1>9. Owned(cs', ci', tbc', status)
  BY ONLY <1>6, <1>7, <1>8, Inv2, \A u \in Thread : u # L => tbc'[u] = tbc[u], OwnedRun
<1> QED
  BY <1>9 DEF OwnedNext

(* No pending variable is of a function called at the first free slot.     *)
LEMMA FreshSlot ==
  ASSUME Inv2
  PROVE  /\ TopOf(L) \in Nat /\ TopOf(L) > 0
         /\ \A i \in 1 .. Len(tbc[L]) : tbc[L][i].owner # TopOf(L)
         /\ \A i \in 1 .. Len(tbc[L]) : tbc[L][i].level < TopOf(L)
<1>1. /\ ci[L] \in Seq(FrameSet) /\ tbc[L] \in Seq(VarSet) /\ Kept(cs, ci[L], tbc[L], L)
      /\ TopOf(L) = TopAt(ci[L], tbc[L]) /\ TopOf(L) \in Nat /\ TopOf(L) > 0
  BY InvFacts, OwnedNow DEF Inv2
<1>2. Pending(tbc[L], ci[L])
  BY <1>1 DEF Kept
<1>3. \A i \in 1 .. Len(tbc[L]) : /\ tbc[L][i].owner < TopOf(L) /\ tbc[L][i].owner \in Nat
                                  /\ tbc[L][i].level < TopOf(L)
  BY ONLY <1>1, <1>2, SlotsInOrder
<1> QED
  BY <1>1, <1>3

(* The running thread calls at the first free slot.                        *)
LEMMA CallAtTop ==
  ASSUME Inv2, NEW inc \in 1 .. 2, NEW isLua \in BOOLEAN,
         NEW frames \in Seq(FrameSet), NEW stack \in Seq(Acts),
         CCall(inc, isLua, TopOf(L), frames, stack), Passes(cs, stack),
         Kept(cs, frames, tbc[L], L), tbc' = tbc, status' = status
  PROVE  OwnedNext
<1>1. /\ TopOf(L) \in Nat /\ TopOf(L) > 0
      /\ \A i \in 1 .. Len(tbc[L]) : tbc[L][i].owner # TopOf(L)
  BY FreshSlot
<1>2. /\ \A u \in Thread : u # L => tbc'[u] = tbc[u]
      /\ Kept(cs, frames, tbc'[L], L)
      /\ isLua \/ \A i \in 1 .. Len(tbc'[L]) : tbc'[L][i].owner # TopOf(L)
  BY <1>1
<1> QED
  BY ONLY <1>1, <1>2, Inv2, inc \in 1 .. 2, isLua \in BOOLEAN, frames \in Seq(FrameSet),
          stack \in Seq(Acts), CCall(inc, isLua, TopOf(L), frames, stack), Passes(cs, stack),
          status' = status, CallOwned

(* The main thread calls its first function.                               *)
LEMMA StartMainOwned ==
  ASSUME Inv2, StartMain
  PROVE  OwnedNext
<1> DEFINE p == Try(L, "pcall", 0, <<nC[L], nny[L]>>, TopOf(L), errfunc[L])
           z == TRUE
<1>1. /\ CCall(2, z, TopOf(L), ci[L], Append(cs, p)) /\ tbc' = tbc /\ status' = status
  BY DEF StartMain
<1>2. /\ cs \in Seq(Acts) /\ L \in Thread /\ ci[L] \in Seq(FrameSet)
      /\ nC[L] \in Nat /\ nny[L] \in Nat /\ errfunc[L] \in Nat /\ TopOf(L) \in Nat
      /\ Kept(cs, ci[L], tbc[L], L)
  BY InvFacts, OwnedNow DEF Inv2
<1>3. p \in Acts
  BY <1>2, TryFacts
<1>4. z \in BOOLEAN /\ 2 \in 1 .. 2
  OBVIOUS
<1> HIDE DEF p, z
<1>5. Append(cs, p) \in Seq(Acts) /\ Passes(cs, Append(cs, p))
  BY ONLY <1>2, <1>3, PassesSame, PassesPush
<1> QED
  BY ONLY Inv2, <1>1, <1>2, <1>4, <1>5, CallAtTop

(* A metamethod is called from the interpreter.                            *)
LEMMA CallMetaOwned ==
  ASSUME Inv2, CallMeta
  PROVE  OwnedNext
<1> DEFINE z == TRUE
<1>1. /\ CCall(1, z, TopOf(L), ci[L], cs) /\ tbc' = tbc /\ status' = status
  BY DEF CallMeta
<1>2. cs \in Seq(Acts) /\ ci[L] \in Seq(FrameSet) /\ Kept(cs, ci[L], tbc[L], L)
  BY InvFacts, OwnedNow DEF Inv2
<1>3. z \in BOOLEAN /\ 1 \in 1 .. 2 /\ Passes(cs, cs)
  BY PassesSame
<1> HIDE DEF z
<1> QED
  BY ONLY Inv2, <1>1, <1>2, <1>3, CallAtTop

(* A frame is put at the first free slot, and maybe an activation.         *)
LEMMA FrameAtTop ==
  ASSUME Inv2, NEW f \in FrameSet, f.func = TopOf(L),
         ci' = [ci EXCEPT ![L] = Append(@, f)], Passes(cs, cs'), tbc' = tbc, status' = status
  PROVE  OwnedNext
<1>1. /\ L \in Thread /\ ci \in [Thread -> Seq(FrameSet)] /\ ci[L] \in Seq(FrameSet)
      /\ Kept(cs, ci[L], tbc[L], L)
  BY InvFacts, OwnedNow DEF Inv2
<1>2. \A i \in 1 .. Len(tbc[L]) : tbc[L][i].owner # f.func
  BY FreshSlot
<1>3. ci'[L] = Append(ci[L], f) /\ \A u \in Thread : u # L => ci'[u] = ci[u]
  BY <1>1
<1>4. Kept(cs', ci'[L], tbc[L], L)
  BY ONLY <1>1, <1>2, <1>3, f \in FrameSet, Passes(cs, cs'), KeptPush
<1>5. Owned(cs', ci', tbc, status)
  BY ONLY Inv2, <1>3, <1>4, Passes(cs, cs'), OwnedRun
<1> QED
  BY <1>5 DEF OwnedNext

(* luaV_execute goes on with a Lua function that it calls.                 *)
LEMMA CallLuaOwned ==
  ASSUME Inv2, CallLua
  PROVE  OwnedNext
<1> DEFINE x == TRUE
           y == FALSE
           f == Frame(x, y, TopOf(L))
<1>1. ci' = [ci EXCEPT ![L] = Append(@, f)] /\ tbc' = tbc /\ status' = status /\ cs' = cs
  BY DEF CallLua
<1>2. TopOf(L) \in Nat /\ TopOf(L) > 0 /\ x \in BOOLEAN /\ y \in BOOLEAN
  BY FreshSlot
<1> HIDE DEF x, y
<1>3. f \in FrameSet /\ f.func = TopOf(L)
  BY ONLY <1>2, NewFrame
<1>4. Passes(cs, cs')
  BY ONLY <1>1, PassesSame
<1> HIDE DEF f
<1> QED
  BY ONLY Inv2, <1>1, <1>3, <1>4, FrameAtTop

(* luaV_execute calls a C function.                                        *)
LEMMA CallCOwned ==
  ASSUME Inv2, CallC
  PROVE  OwnedNext
<1> DEFINE y == FALSE
           f == Frame(y, y, TopOf(L))
           r == Activation(FALSE, 0)
<1>1. ci' = [ci EXCEPT ![L] = Append(@, f)] /\ tbc' = tbc /\ status' = status /\ cs' = Append(cs, r)
  BY DEF CallC
<1>2. TopOf(L) \in Nat /\ TopOf(L) > 0 /\ y \in BOOLEAN /\ cs \in Seq(Acts) /\ L \in Thread
  BY FreshSlot, InvFacts DEF Inv2
<1>3. r \in Acts
  BY <1>2 DEF Activation, Acts
<1> HIDE DEF y, r
<1>4. f \in FrameSet /\ f.func = TopOf(L)
  BY ONLY <1>2, NewFrame
<1>5. Passes(cs, cs')
  BY ONLY <1>1, <1>2, <1>3, PassesSame, PassesPush
<1> HIDE DEF f
<1> QED
  BY ONLY Inv2, <1>1, <1>4, <1>5, FrameAtTop
(* The function at the top has a new variable to be closed.                *)
LEMMA KeptDeclare ==
  ASSUME NEW c, NEW FR \in Seq(FrameSet), FR # <<>>, Chain(FR), NEW W \in Seq(VarSet), NEW t,
         Kept(c, FR, W, t), FR[Len(FR)].lua \/ FR[Len(FR)].clsret,
         NEW v \in VarSet, v.owner = FR[Len(FR)].func, v.level = TopAt(FR, W),
         v.owner < v.level
  PROVE  Kept(c, FR, Append(W, v), t)
<1>1. Pending(W, FR) /\ Covers(c, FR, W, t)
  BY DEF Kept
<1> DEFINE n == Len(W)
           m == Len(FR)
           W2 == Append(W, v)
<1>2. /\ n \in Nat /\ n = Len(W) /\ Len(W2) = n + 1 /\ W2[n + 1] = v
      /\ \A i \in 1 .. n : W2[i] = W[i]
  OBVIOUS
<1>3. m \in Nat /\ m = Len(FR) /\ m \in 1 .. m /\ m \in 1 .. Len(FR)
  OBVIOUS
<1>4. \A i \in 1 .. Len(W) : W[i].owner \in Nat /\ W[i].level \in Nat /\ W[i].level < v.level
  BY ONLY <1>1, FR \in Seq(FrameSet), W \in Seq(VarSet), v.level = TopAt(FR, W), SlotsInOrder
<1> HIDE DEF n, m, W2
<1>5. \A i \in 1 .. Len(W2) : i \in 1 .. n \/ i = n + 1
  BY ONLY <1>2
<1>6. Pending(W2, FR)
  <2>1. \A i \in 1 .. Len(W2) : W2[i].owner < W2[i].level
    BY <1>1, <1>2, <1>5 DEF Pending
  <2>2. ASSUME NEW i \in 1 .. Len(W2), NEW j \in 1 .. Len(W2), i < j
        PROVE  W2[i].level < W2[j].level
    <3>1. i \in 1 .. n
      BY ONLY <1>2, <2>2
    <3>2. CASE j \in 1 .. n
      BY <1>1, <1>2, <2>2, <3>1, <3>2 DEF Pending
    <3>3. CASE j = n + 1
      BY ONLY <1>2, <1>4, <3>1, <3>3
    <3> QED
      BY <1>5, <3>2, <3>3
  <2>3. ASSUME NEW p \in 1 .. Len(FR), ~FR[p].lua, ~FR[p].clsret, NEW i \in 1 .. Len(W2)
        PROVE  W2[i].owner # FR[p].func
    <3>1. CASE i \in 1 .. n
      BY <1>1, <1>2, <2>3, <3>1 DEF Pending
    <3>2. CASE i = n + 1
      <4>1. p # m
        BY <1>3, <2>3
      <4>2. p \in 1 .. m - 1
        BY ONLY <1>3, <2>3, <4>1
      <4>3. FR[p].func < FR[m].func
        BY ONLY <1>3, <4>2, FR \in Seq(FrameSet), Chain(FR), ChainOrder
      <4>4. FR[p].func \in Nat /\ FR[m].func \in Nat
        <5>1. FR[p] \in FrameSet /\ FR[m] \in FrameSet
          BY ONLY <1>3, <2>3, FR \in Seq(FrameSet)
        <5> QED
          BY <5>1 DEF FrameSet
      <4>5. W2[i].owner = FR[m].func
        BY <1>2, <1>3, <3>2
      <4> QED
        BY ONLY <4>3, <4>4, <4>5
    <3> QED
      BY <1>5, <3>1, <3>2
  <2> QED
    BY <2>1, <2>2, <2>3 DEF Pending
<1>7. Covers(c, FR, W2, t)
  <2>1. SUFFICES ASSUME NEW i \in 1 .. Len(W2) PROVE Covered(c, FR, t, W2[i])
    BY DEF Covers
  <2>2. CASE i \in 1 .. n
    BY <1>1, <1>2, <2>2 DEF Covers
  <2>3. CASE i = n + 1
    <3>1. W2[i] = v
      BY <1>2, <2>3
    <3>2. Carries(FR[m], v)
      BY <1>3 DEF Carries
    <3> QED
      BY <1>3, <3>1, <3>2 DEF Covered, Holds
  <2> QED
    BY <1>5, <2>2, <2>3
<1>8. Kept(c, FR, W2, t)
  BY <1>6, <1>7 DEF Kept
<1> QED
  BY <1>8 DEF W2

(* The frame at the top of the running thread becomes f.                   *)
LEMMA TopKept ==
  ASSUME Inv2, ci[L] # <<>>, NEW d, Passes(cs, d),
         NEW f \in FrameSet, f.func = top.func, f.lua = top.lua, top.clsret => f.clsret,
         top.recst = "ok" \/ (/\ f.ypcall = top.ypcall /\ f.recst = top.recst
                              /\ f.idx = top.idx /\ f.clsret = top.clsret)
  PROVE  /\ Kept(d, WithTop(L, f), tbc[L], L)
         /\ WithTop(L, f) \in Seq(FrameSet)
         /\ [ci EXCEPT ![L] = WithTop(L, f)][L] = WithTop(L, f)
         /\ \A u \in Thread : u # L => [ci EXCEPT ![L] = WithTop(L, f)][u] = ci[u]
<1>1. /\ L \in Thread /\ ci \in [Thread -> Seq(FrameSet)] /\ ci[L] \in Seq(FrameSet)
      /\ ci[L][Len(ci[L])] = top
      /\ Kept(cs, ci[L], tbc[L], L)
      /\ WithTop(L, f) = Retop(ci[L], Len(ci[L]), f)
  BY InvFacts, OwnedNow DEF Inv2
<1>2. \A i \in 1 .. Len(tbc[L]) : Carries(top, tbc[L][i]) => Carries(f, tbc[L][i])
  BY CarriesToo
<1>3. /\ \A i \in 1 .. Len(tbc[L]) : Carries(ci[L][Len(ci[L])], tbc[L][i]) => Carries(f, tbc[L][i])
      /\ f.func = ci[L][Len(ci[L])].func /\ f.lua = ci[L][Len(ci[L])].lua
      /\ ci[L][Len(ci[L])].clsret => f.clsret
  BY <1>1, <1>2
<1>4. Kept(d, Retop(ci[L], Len(ci[L]), f), tbc[L], L)
  BY ONLY <1>1, <1>3, f \in FrameSet, ci[L] # <<>>, Passes(cs, d), KeptRetop
<1>5. Retop(ci[L], Len(ci[L]), f) \in Seq(FrameSet)
  <2>1. LET E == Retop(ci[L], Len(ci[L]), f) IN E \in Seq(FrameSet)
    BY ONLY <1>1, ci[L] # <<>>, f \in FrameSet, RetopFacts
  <2> QED
    BY <2>1
<1> QED
  BY <1>1, <1>4, <1>5

(* The frame at the top changes, and still answers for what it did.        *)
LEMMA TopOwned ==
  ASSUME Inv2, ci[L] # <<>>, Passes(cs, cs'), tbc' = tbc, status' = status,
         NEW f \in FrameSet, f.func = top.func, f.lua = top.lua, top.clsret => f.clsret,
         top.recst = "ok" \/ (/\ f.ypcall = top.ypcall /\ f.recst = top.recst
                              /\ f.idx = top.idx /\ f.clsret = top.clsret),
         ci' = [ci EXCEPT ![L] = WithTop(L, f)]
  PROVE  OwnedNext
<1>1. /\ Kept(cs', ci'[L], tbc[L], L)
      /\ \A u \in Thread : u # L => ci'[u] = ci[u]
  BY TopKept
<1>2. Owned(cs', ci', tbc, status)
  BY ONLY <1>1, Inv2, Passes(cs, cs'), OwnedRun
<1> QED
  BY <1>2 DEF OwnedNext

(* A new variable of the function that runs.                               *)
LEMMA DeclareOwned ==
  ASSUME Inv2, ci[L] # <<>>, NewTbc, status' = status, cs' = cs,
         NEW f \in FrameSet, f.func = top.func, f.lua = top.lua, top.clsret => f.clsret,
         top.recst = "ok" \/ (/\ f.ypcall = top.ypcall /\ f.recst = top.recst
                              /\ f.idx = top.idx /\ f.clsret = top.clsret),
         f.lua \/ f.clsret, FrameOK(f), f.fresh = top.fresh,
         ci' = [ci EXCEPT ![L] = WithTop(L, f)]
  PROVE  OwnedNext
<1> DEFINE FR == WithTop(L, f)
           W == tbc[L]
           v == [level |-> TopOf(L), owner |-> top.func]
<1>1. /\ Passes(cs, cs)
      /\ L \in Thread /\ ci[L] \in Seq(FrameSet) /\ Chain(ci[L]) /\ W \in Seq(VarSet)
      /\ tbc \in [Thread -> Seq(VarSet)]
      /\ ci[L][Len(ci[L])] = top /\ top \in FrameSet /\ top.func < TopOf(L)
      /\ TopOf(L) = TopAt(ci[L], W) /\ TopOf(L) \in Nat
      /\ FR = Retop(ci[L], Len(ci[L]), f) /\ Len(ci[L]) \in 1 .. Len(ci[L])
  BY InvFacts, PassesSame DEF Inv2
<1>2. /\ Kept(cs, FR, W, L) /\ FR \in Seq(FrameSet)
      /\ ci'[L] = FR /\ \A u \in Thread : u # L => ci'[u] = ci[u]
  BY ONLY <1>1, Inv2, ci[L] # <<>>, f \in FrameSet, f.func = top.func, f.lua = top.lua,
          top.clsret => f.clsret, ci' = [ci EXCEPT ![L] = WithTop(L, f)],
          top.recst = "ok" \/ (/\ f.ypcall = top.ypcall /\ f.recst = top.recst
                               /\ f.idx = top.idx /\ f.clsret = top.clsret), TopKept
<1>3. FR # <<>> /\ Len(FR) = Len(ci[L]) /\ FR[Len(FR)] = f
  <2>1. LET E == Retop(ci[L], Len(ci[L]), f)
        IN  E \in Seq(FrameSet) /\ E # <<>> /\ Len(E) = Len(ci[L]) /\ E[Len(E)] = f
    BY ONLY <1>1, ci[L] # <<>>, f \in FrameSet, RetopFacts
  <2> HIDE DEF FR
  <2> QED
    BY ONLY <2>1, <1>1
<1>4. Chain(FR)
  <2>1. Chain(Retop(ci[L], Len(ci[L]), f))
    <3>1. /\ f.func = ci[L][Len(ci[L])].func /\ f.lua = ci[L][Len(ci[L])].lua
          /\ f.fresh = ci[L][Len(ci[L])].fresh
      BY <1>1
    <3> QED
      BY ONLY <1>1, <3>1, f \in FrameSet, FrameOK(f), ChainChange
  <2> QED
    BY ONLY <2>1, <1>1
<1>5. v \in VarSet /\ v.owner = top.func /\ v.level = TopOf(L) /\ v.owner < v.level
  <2>1. top.func \in Nat
    BY <1>1 DEF FrameSet
  <2> QED
    BY <2>1, <1>1 DEF VarSet
<1>6. tbc'[L] = Append(W, v) /\ \A u \in Thread : u # L => tbc'[u] = tbc[u]
  BY <1>1 DEF NewTbc
<1> HIDE DEF FR, W, v
<1>7. v.level = TopAt(FR, W)
  <2>1. FR[Len(FR)].func = ci[L][Len(ci[L])].func
    BY <1>1, <1>3
  <2> QED
    BY ONLY <1>1, <1>3, <1>5, <2>1, ci[L] # <<>>, TopAtSame
<1>8. Kept(cs, FR, Append(W, v), L)
  <2>1. /\ FR[Len(FR)].lua \/ FR[Len(FR)].clsret
        /\ v.owner = FR[Len(FR)].func
    BY <1>3, <1>5
  <2> QED
    BY ONLY <1>1, <1>2, <1>3, <1>4, <1>5, <1>7, <2>1, KeptDeclare
<1>9. Kept(cs, ci'[L], tbc'[L], L)
  BY ONLY <1>2, <1>6, <1>8
<1>10. Owned(cs, ci', tbc', status)
  BY ONLY <1>1, <1>2, <1>6, <1>9, Inv2, OwnedRun
<1> QED
  BY <1>10 DEF OwnedNext

(* A Lua function declares a variable that is to be closed.                *)
LEMMA DeclareTbcOwned ==
  ASSUME Inv2, DeclareTbc
  PROVE  OwnedNext
<1>1. exc = "none" /\ Call(cur) /\ NewTbc /\ status' = status /\ cs' = cs /\ ci' = ci
      /\ cur.kind = "exec"
  BY DEF DeclareTbc, InLua, Running, Call
<1>2. ci[L] # <<>> /\ top \in FrameSet /\ FrameOK(top) /\ top.lua
  BY <1>1, RunFacts DEF Inv2
<1>3. ci' = [ci EXCEPT ![L] = WithTop(L, top)]
  <2>1. /\ ci \in [Thread -> Seq(FrameSet)] /\ L \in Thread /\ ci[L] \in Seq(FrameSet)
        /\ ci[L][Len(ci[L])] = top /\ WithTop(L, top) = Retop(ci[L], Len(ci[L]), top)
    BY <1>2, InvFacts DEF Inv2
  <2>2. Retop(ci[L], Len(ci[L]), ci[L][Len(ci[L])]) = ci[L]
    BY <1>2, <2>1 DEF Retop
  <2> QED
    BY <1>1, <2>1, <2>2
<1> DEFINE f == top
<1>4. f = top
  OBVIOUS
<1> HIDE DEF f
<1>5. /\ f \in FrameSet /\ f.func = top.func /\ f.lua = top.lua /\ (top.clsret => f.clsret)
      /\ f.ypcall = top.ypcall /\ f.recst = top.recst /\ f.idx = top.idx /\ f.clsret = top.clsret
      /\ FrameOK(f) /\ f.fresh = top.fresh /\ f.lua /\ ci' = [ci EXCEPT ![L] = WithTop(L, f)]
  BY ONLY <1>2, <1>3, <1>4
<1> QED
  BY ONLY <1>1, <1>2, <1>5, Inv2, DeclareOwned

(* A C function marks a slot with lua_toclose.                             *)
LEMMA ToCloseOwned ==
  ASSUME Inv2, ToClose
  PROVE  OwnedNext
<1> DEFINE f == [top EXCEPT !.clsret = TRUE]
<1>1. exc = "none" /\ Call(cur) /\ NewTbc /\ status' = status /\ cs' = cs
      /\ ci' = [ci EXCEPT ![L] = WithTop(L, f)] /\ cur.kind = "cfun" /\ "toclose" \in Uses
  BY DEF ToClose, InC, Running, Call
<1>2. ci[L] # <<>> /\ top \in FrameSet /\ FrameOK(top) /\ ~top.lua /\ top.recst = "ok"
  BY <1>1, RunFacts DEF Inv2
<1>3. /\ f \in FrameSet /\ f.func = top.func /\ f.lua = top.lua /\ f.clsret = TRUE
      /\ f.fresh = top.fresh /\ FrameOK(f)
  BY <1>1, <1>2 DEF FrameSet, FrameOK
<1> HIDE DEF f
<1> QED
  BY ONLY <1>1, <1>2, <1>3, Inv2, DeclareOwned
(* The pending variables of the running thread.                            *)
LEMMA VariableFacts ==
  ASSUME Inv2, NEW i \in 1 .. Len(tbc[L])
  PROVE  /\ tbc[L][i].owner \in Nat /\ tbc[L][i].level \in Nat
         /\ tbc[L][i].owner < tbc[L][i].level
         /\ tbc[L][i].level <= Last(tbc[L]).level
         /\ tbc[L] # <<>>
<1>1. /\ ci[L] \in Seq(FrameSet) /\ tbc[L] \in Seq(VarSet) /\ Kept(cs, ci[L], tbc[L], L)
  BY InvFacts, OwnedNow DEF Inv2
<1>2. Pending(tbc[L], ci[L])
  BY <1>1 DEF Kept
<1>3. \A j \in 1 .. Len(tbc[L]) : /\ tbc[L][j].owner \in Nat /\ tbc[L][j].level \in Nat
                                  /\ tbc[L][j].owner < tbc[L][j].level
                                  /\ tbc[L][j].level <= tbc[L][Len(tbc[L])].level
  BY ONLY <1>1, <1>2, SlotsInOrder
<1>4. Last(tbc[L]) = tbc[L][Len(tbc[L])]
  BY DEF Last
<1> QED
  BY <1>1, <1>3, <1>4

(* The frame at the top ends with nothing left to close.                   *)
LEMMA TopEnds ==
  ASSUME Inv2, ci[L] # <<>>, \A i \in 1 .. Len(tbc[L]) : ~Carries(top, tbc[L][i]),
         ci' = [ci EXCEPT ![L] = Front(@)], Passes(cs, cs'), tbc' = tbc, status' = status
  PROVE  OwnedNext
<1>1. /\ L \in Thread /\ ci \in [Thread -> Seq(FrameSet)] /\ ci[L] \in Seq(FrameSet)
      /\ ci[L][Len(ci[L])] = top /\ Kept(cs, ci[L], tbc[L], L)
      /\ Front(ci[L]) = SubSeq(ci[L], 1, Len(ci[L]) - 1)
  BY InvFacts, OwnedNow DEF Inv2
<1>2. /\ ci'[L] = SubSeq(ci[L], 1, Len(ci[L]) - 1)
      /\ \A u \in Thread : u # L => ci'[u] = ci[u]
  BY <1>1
<1>3. \A i \in 1 .. Len(tbc[L]) : ~Carries(ci[L][Len(ci[L])], tbc[L][i])
  BY <1>1
<1>4. Kept(cs', SubSeq(ci[L], 1, Len(ci[L]) - 1), tbc[L], L)
  BY ONLY <1>1, <1>3, ci[L] # <<>>, Passes(cs, cs'), KeptPop
<1>5. Kept(cs', ci'[L], tbc[L], L)
  BY ONLY <1>2, <1>4
<1>6. Owned(cs', ci', tbc, status)
  BY ONLY <1>2, <1>5, Inv2, Passes(cs, cs'), OwnedRun
<1> QED
  BY <1>6 DEF OwnedNext

(* A block of a Lua function is left.                                      *)
LEMMA CloseBlockOwned ==
  ASSUME Inv2, CloseBlock
  PROVE  OwnedNext
<1>1. /\ exc = "none" /\ Call(cur) /\ tbc' = tbc /\ status' = status
  BY DEF CloseBlock, InLua, Running, Call
<1>2. ci[L] # <<>> /\ top \in FrameSet
  BY <1>1, RunFacts DEF Inv2
<1>3. PICK i \in OwnTbc(L) :
        /\ ci' = [ci EXCEPT ![L] =
                    WithTop(L, [top EXCEPT !.doing = "close", !.idx = tbc[L][i].level])]
        /\ cs' = Append(cs, Closing(L, tbc[L][i].level, TRUE, "block"))
  BY DEF CloseBlock
<1>4. i \in 1 .. Len(tbc[L])
  BY DEF OwnTbc
<1> DEFINE level == tbc[L][i].level
           f == [top EXCEPT !.doing = "close", !.idx = level]
           r == Closing(L, level, TRUE, "block")
<1>5. level \in Nat /\ L \in Thread /\ cs \in Seq(Acts)
  BY <1>4, VariableFacts, InvFacts DEF Inv2
<1>6. r \in Acts
  BY <1>5 DEF Closing, Acts
<1>7. /\ f \in FrameSet /\ f.func = top.func /\ f.lua = top.lua /\ f.clsret = top.clsret
      /\ f.recst = top.recst /\ f.ypcall = top.ypcall
  BY <1>2, <1>5 DEF FrameSet
<1>8. ci' = [ci EXCEPT ![L] = WithTop(L, f)] /\ cs' = Append(cs, r)
  BY <1>3
<1>9. top.recst = "ok"
  <2>1. cur.kind = "exec"
    BY DEF CloseBlock, InLua
  <2>2. top.lua /\ FrameOK(top)
    BY <1>1, <2>1, RunFacts DEF Inv2
  <2> QED
    BY <2>2 DEF FrameOK
<1> HIDE DEF f, r
<1>10. Passes(cs, cs')
  BY ONLY <1>5, <1>6, <1>8, PassesSame, PassesPush
<1> QED
  BY ONLY <1>1, <1>2, <1>7, <1>8, <1>9, <1>10, Inv2, TopOwned

(* A Lua function returns: one with variables closes them first.           *)
LEMMA ReturnLuaOwned ==
  ASSUME Inv2, ReturnLua
  PROVE  OwnedNext
<1>1. exc = "none" /\ cur.kind = "exec" /\ tbc' = tbc /\ status' = status
  BY DEF ReturnLua, InLua, Running
<1>2. Call(cur)
  BY <1>1 DEF Call
<1>3. ci[L] # <<>> /\ top \in FrameSet /\ FrameOK(top) /\ top.lua /\ top.func \in Nat
  BY <1>1, <1>2, RunFacts DEF Inv2
<1>4. /\ ci \in [Thread -> Seq(FrameSet)] /\ L \in Thread /\ cs[Len(cs)] = cur
      /\ cs \in Seq(Acts) /\ Len(cs) > 0
  BY InvFacts DEF Inv2
<1>5. CASE OwnTbc(L) = {}
  <2>1. PopLua
    BY <1>5 DEF ReturnLua
  <2>2. ci' = [ci EXCEPT ![L] = Front(@)] /\ (cs' = cs \/ cs' = Popped(cs))
    BY <2>1 DEF PopLua, Front, Popped
  <2>3. ~Protective(cs[Len(cs)])
    BY <1>1, <1>4 DEF Protective
  <2>4. Passes(cs, cs')
    BY ONLY <1>4, <2>2, <2>3, PassesSame, PassesPop
  <2>5. ~top.ypcall
    BY <1>3 DEF FrameOK
  <2>6. ASSUME NEW i \in 1 .. Len(tbc[L]) PROVE ~Carries(top, tbc[L][i])
    <3>1. tbc[L][i].owner \in Nat /\ tbc[L][i].level \in Nat /\ tbc[L][i].owner < tbc[L][i].level
      BY VariableFacts
    <3>2. ~(tbc[L][i].level > Last(ci[L]).func)
      BY <1>5 DEF OwnTbc
    <3>3. ~(tbc[L][i].level > top.func)
      BY ONLY <3>2 DEF top
    <3>4. top.func # tbc[L][i].owner
      BY ONLY <1>3, <3>1, <3>3
    <3> QED
      BY ONLY <2>5, <3>4 DEF Carries
  <2> QED
    BY ONLY <1>1, <1>3, <2>2, <2>4, <2>6, Inv2, TopEnds
<1>6. CASE OwnTbc(L) # {}
  <2> DEFINE f == [top EXCEPT !.doing = "return"]
             r == Closing(L, top.func + 1, TRUE, "return")
  <2>1. ci' = [ci EXCEPT ![L] = WithTop(L, f)] /\ cs' = Append(cs, r)
    BY <1>6 DEF ReturnLua
  <2>2. r \in Acts
    BY <1>3, <1>4 DEF Closing, Acts
  <2>3. /\ f \in FrameSet /\ f.func = top.func /\ f.lua = top.lua /\ f.clsret = top.clsret
        /\ f.ypcall = top.ypcall /\ f.recst = top.recst /\ f.idx = top.idx
    BY <1>3 DEF FrameSet
  <2> HIDE DEF f, r
  <2>4. Passes(cs, cs')
    BY ONLY <1>4, <2>1, <2>2, PassesSame, PassesPush
  <2> QED
    BY ONLY <1>1, <1>3, <2>1, <2>3, <2>4, Inv2, TopOwned
<1> QED
  BY ONLY <1>5, <1>6

(* OP_RETURN again, after a __close method that yielded.                   *)
LEMMA RepeatCloseOwned ==
  ASSUME Inv2, RepeatClose
  PROVE  OwnedNext
<1>1. exc = "none" /\ cur.kind = "exec" /\ ci' = ci /\ tbc' = tbc /\ status' = status
  BY DEF RepeatClose, Running, thread
<1>2. Call(cur)
  BY <1>1 DEF Call
<1>3. top \in FrameSet /\ L \in Thread
  BY <1>1, <1>2, RunFacts, InvFacts DEF Inv2
<1> DEFINE r == IF top.doing = "close" THEN Closing(L, top.idx, TRUE, "block")
                                       ELSE Closing(L, top.func + 1, TRUE, "return")
<1>4. r \in Acts
  <2>1. top.func \in Nat /\ top.idx \in Nat
    BY <1>3 DEF FrameSet
  <2> QED
    BY <1>3, <2>1 DEF Closing, Acts
<1>5. cs' = Append(cs, r)
  BY DEF RepeatClose
<1> HIDE DEF r
<1> QED
  BY ONLY <1>1, <1>4, <1>5, Inv2, OwnedPush

(* lua_callk of a C function.                                              *)
LEMMA CallFromCOwned ==
  ASSUME Inv2, NEW k \in BOOLEAN, NEW isLua \in BOOLEAN, CallFromC(k, isLua)
  PROVE  OwnedNext
<1>1. /\ exc = "none" /\ Call(cur) /\ cur.kind = "cfun" /\ tbc' = tbc /\ status' = status
      /\ IF k /\ yieldable
           THEN CCall(1, isLua, TopOf(L), WithTop(L, [top EXCEPT !.k = TRUE]), cs)
           ELSE CCall(2, isLua, TopOf(L), ci[L], cs)
  BY DEF CallFromC, InC, Running, Call
<1>2. ci[L] # <<>> /\ top \in FrameSet /\ 1 \in 1 .. 2 /\ 2 \in 1 .. 2
  BY <1>1, RunFacts DEF Inv2
<1>3. /\ cs \in Seq(Acts) /\ ci[L] \in Seq(FrameSet) /\ Kept(cs, ci[L], tbc[L], L)
      /\ Passes(cs, cs)
  BY InvFacts, OwnedNow, PassesSame DEF Inv2
<1> DEFINE f == [top EXCEPT !.k = TRUE]
<1>4. /\ f \in FrameSet /\ f.func = top.func /\ f.lua = top.lua /\ f.clsret = top.clsret
      /\ f.ypcall = top.ypcall /\ f.recst = top.recst /\ f.idx = top.idx
  BY <1>2 DEF FrameSet
<1>5. CASE k /\ yieldable
  <2>1. CCall(1, isLua, TopOf(L), WithTop(L, f), cs)
    BY <1>1, <1>5
  <2> HIDE DEF f
  <2>2. Kept(cs, WithTop(L, f), tbc[L], L) /\ WithTop(L, f) \in Seq(FrameSet)
    BY ONLY <1>2, <1>3, <1>4, Inv2, TopKept
  <2> QED
    BY ONLY <1>1, <1>2, <1>3, <2>1, <2>2, Inv2, isLua \in BOOLEAN, CallAtTop
<1>6. CASE ~(k /\ yieldable)
  <2>1. CCall(2, isLua, TopOf(L), ci[L], cs)
    BY <1>1, <1>6
  <2> QED
    BY ONLY <1>1, <1>2, <1>3, <2>1, Inv2, isLua \in BOOLEAN, CallAtTop
<1> QED
  BY ONLY <1>5, <1>6

(* lua_pcallk of a C function.                                             *)
LEMMA PcallFromCOwned ==
  ASSUME Inv2, NEW k \in BOOLEAN, NEW handler \in BOOLEAN, NEW isLua \in BOOLEAN,
         PcallFromC(k, handler, isLua)
  PROVE  OwnedNext
<1> DEFINE f == [top EXCEPT !.k = TRUE, !.ypcall = TRUE,
                            !.olderr = errfunc[L], !.idx = TopOf(L)]
           p == Try(L, "pcall", Len(ci[L]), <<nC[L], nny[L]>>, TopOf(L), errfunc[L])
<1>1. /\ exc = "none" /\ Call(cur) /\ cur.kind = "cfun" /\ tbc' = tbc /\ status' = status
      /\ IF k /\ yieldable
           THEN CCall(1, isLua, TopOf(L), WithTop(L, f), cs)
           ELSE CCall(2, isLua, TopOf(L), ci[L], Append(cs, p))
  BY DEF PcallFromC, InC, Running, Call
<1>2. ci[L] # <<>> /\ top \in FrameSet /\ top.recst = "ok" /\ 1 \in 1 .. 2 /\ 2 \in 1 .. 2
  BY <1>1, RunFacts DEF Inv2
<1>3. /\ cs \in Seq(Acts) /\ ci[L] \in Seq(FrameSet) /\ Kept(cs, ci[L], tbc[L], L)
      /\ Passes(cs, cs) /\ L \in Thread /\ Len(ci[L]) \in Nat
      /\ nC[L] \in Nat /\ nny[L] \in Nat /\ errfunc[L] \in Nat /\ TopOf(L) \in Nat
  BY InvFacts, OwnedNow, PassesSame DEF Inv2
<1>4. /\ f \in FrameSet /\ f.func = top.func /\ f.lua = top.lua /\ f.clsret = top.clsret
  BY <1>2, <1>3 DEF FrameSet
<1>5. p \in Acts
  BY <1>3, TryFacts
<1> HIDE DEF f, p
<1>6. CASE k /\ yieldable
  <2>1. CCall(1, isLua, TopOf(L), WithTop(L, f), cs)
    BY <1>1, <1>6
  <2>2. Kept(cs, WithTop(L, f), tbc[L], L) /\ WithTop(L, f) \in Seq(FrameSet)
    BY ONLY <1>2, <1>3, <1>4, Inv2, TopKept
  <2> QED
    BY ONLY <1>1, <1>2, <1>3, <2>1, <2>2, Inv2, isLua \in BOOLEAN, CallAtTop
<1>7. CASE ~(k /\ yieldable)
  <2>1. CCall(2, isLua, TopOf(L), ci[L], Append(cs, p))
    BY <1>1, <1>7
  <2>2. Append(cs, p) \in Seq(Acts) /\ Passes(cs, Append(cs, p))
    BY ONLY <1>3, <1>5, PassesPush
  <2> QED
    BY ONLY <1>1, <1>2, <1>3, <2>1, <2>2, Inv2, isLua \in BOOLEAN, CallAtTop
<1> QED
  BY ONLY <1>6, <1>7
(* lua_pcallk with a continuation returns normally.                        *)
LEMMA PcallkReturnsOwned ==
  ASSUME Inv2, PcallkReturns
  PROVE  OwnedNext
<1> DEFINE f == [top EXCEPT !.ypcall = FALSE]
<1>1. /\ exc = "none" /\ Call(cur) /\ cur.kind = "cfun" /\ tbc' = tbc /\ status' = status
      /\ cs' = cs /\ ci' = [ci EXCEPT ![L] = WithTop(L, f)]
  BY DEF PcallkReturns, Running, Call
<1>2. ci[L] # <<>> /\ top \in FrameSet /\ top.recst = "ok" /\ Passes(cs, cs)
  BY <1>1, RunFacts, PassesSame DEF Inv2
<1>3. f \in FrameSet /\ f.func = top.func /\ f.lua = top.lua /\ f.clsret = top.clsret
  BY <1>2 DEF FrameSet
<1> HIDE DEF f
<1> QED
  BY ONLY <1>1, <1>2, <1>3, Inv2, TopOwned

(* lua_pcallk without one does.                                            *)
LEMMA PcallReturnsOwned ==
  ASSUME Inv2, PcallReturns
  PROVE  OwnedNext
<1>1. cur.kind = "try" /\ ci' = ci /\ tbc' = tbc /\ status' = status /\ cs' = Popped(cs)
  BY DEF PcallReturns, Popped, Front
<1>2. cs \in Seq(Acts) /\ Len(cs) > 0 /\ cs[Len(cs)] = cur
  BY InvFacts DEF Inv2
<1>3. ~Protective(cs[Len(cs)])
  BY <1>1, <1>2 DEF Protective
<1>4. Passes(cs, cs')
  BY ONLY <1>1, <1>2, <1>3, PassesPop
<1> QED
  BY ONLY <1>1, <1>4, Inv2, OwnedIdle

(* A function that closes its variables as it returns.                     *)
LEMMA CloseAndReturnOwned ==
  ASSUME Inv2, ci[L] # <<>>, CloseAndReturn(cs), tbc' = tbc, status' = status
  PROVE  OwnedNext
<1> DEFINE f == [top EXCEPT !.doing = "return"]
           r == Closing(L, top.func, TRUE, "poscall")
<1>1. ci' = [ci EXCEPT ![L] = WithTop(L, f)] /\ cs' = Append(cs, r)
  BY DEF CloseAndReturn
<1>2. top \in FrameSet /\ L \in Thread /\ cs \in Seq(Acts)
  BY InvFacts DEF Inv2
<1>3. r \in Acts
  <2>1. top.func \in Nat
    BY <1>2 DEF FrameSet
  <2> QED
    BY <1>2, <2>1 DEF Closing, Acts
<1>4. /\ f \in FrameSet /\ f.func = top.func /\ f.lua = top.lua /\ f.clsret = top.clsret
      /\ f.ypcall = top.ypcall /\ f.recst = top.recst /\ f.idx = top.idx
  BY <1>2 DEF FrameSet
<1> HIDE DEF f, r
<1>5. Passes(cs, cs')
  BY ONLY <1>1, <1>2, <1>3, PassesSame, PassesPush
<1> QED
  BY ONLY <1>1, <1>4, <1>5, Inv2, ci[L] # <<>>, tbc' = tbc, status' = status, TopOwned

(* A C function returns: one that has marked slots closes them first.      *)
LEMMA ReturnCOwned ==
  ASSUME Inv2, ReturnC
  PROVE  OwnedNext
<1>1. /\ exc = "none" /\ Call(cur) /\ cur.kind = "cfun" /\ ~top.ypcall
      /\ tbc' = tbc /\ status' = status
      /\ IF top.clsret THEN CloseAndReturn(cs) ELSE PopC
  BY DEF ReturnC, InC, Running, Call
<1>2. ci[L] # <<>> /\ top \in FrameSet /\ ~top.lua
  BY <1>1, RunFacts DEF Inv2
<1>3. CASE top.clsret
  BY ONLY <1>1, <1>2, <1>3, Inv2, CloseAndReturnOwned
<1>4. CASE ~top.clsret
  <2>1. ci' = [ci EXCEPT ![L] = Front(@)] /\ cs' = Popped(cs)
    BY <1>1, <1>4 DEF PopC, Popped, Front
  <2>2. /\ cs \in Seq(Acts) /\ Len(cs) > 0 /\ cs[Len(cs)] = cur
        /\ Kept(cs, ci[L], tbc[L], L) /\ ci[L][Len(ci[L])] = top /\ Len(ci[L]) \in 1 .. Len(ci[L])
    BY <1>2, InvFacts, OwnedNow DEF Inv2
  <2>3. ~Protective(cs[Len(cs)])
    BY <1>1, <2>2 DEF Protective
  <2>4. Passes(cs, cs')
    BY ONLY <2>1, <2>2, <2>3, PassesPop
  <2>5. ASSUME NEW i \in 1 .. Len(tbc[L]) PROVE ~Carries(top, tbc[L][i])
    <3>1. tbc[L][i].owner # top.func
      BY <1>2, <1>4, <2>2 DEF Kept, Pending
    <3> QED
      BY <1>1, <3>1 DEF Carries
  <2> QED
    BY ONLY <1>1, <1>2, <2>1, <2>4, <2>5, Inv2, TopEnds
<1> QED
  BY ONLY <1>3, <1>4

(* Only the C stack or what is being raised changes.                       *)
LEMMA IdleOwned ==
  ASSUME Inv2, Error \/ Exception \/ HandlerReturns
  PROVE  OwnedNext
<1>1. cs' = cs /\ ci' = ci /\ tbc' = tbc /\ status' = status
  BY DEF Error, Exception, HandlerReturns, thread
<1>2. Passes(cs, cs')
  BY ONLY <1>1, PassesSame
<1> QED
  BY ONLY <1>1, <1>2, Inv2, OwnedIdle

(* lua_yieldk leaves the variables of the coroutine to it.                 *)
LEMMA YieldOwned ==
  ASSUME Inv2, NEW k \in BOOLEAN, Yield(k)
  PROVE  OwnedNext
<1> DEFINE f == [top EXCEPT !.k = k]
<1>1. /\ exc = "none" /\ Call(cur) /\ tbc' = tbc /\ cs' = cs
      /\ IF yieldable
           THEN /\ status' = [status EXCEPT ![L] = "yield"]
                /\ ci' = [ci EXCEPT ![L] = WithTop(L, f)]
           ELSE status' = status /\ ci' = ci
  BY DEF Yield, InC, Running, Call
<1>2. ci[L] # <<>> /\ top \in FrameSet
  BY <1>1, RunFacts DEF Inv2
<1>3. Passes(cs, cs) /\ L \in Thread /\ status \in [Thread -> {"ok", "yield", "err"}]
  BY PassesSame, InvFacts DEF Inv2, Typed
<1>4. /\ f \in FrameSet /\ f.func = top.func /\ f.lua = top.lua /\ f.clsret = top.clsret
      /\ f.ypcall = top.ypcall /\ f.recst = top.recst /\ f.idx = top.idx
  BY <1>2 DEF FrameSet
<1> HIDE DEF f
<1>5. CASE yieldable
  <2>1. /\ Kept(cs, WithTop(L, f), tbc[L], L)
        /\ [ci EXCEPT ![L] = WithTop(L, f)][L] = WithTop(L, f)
        /\ \A u \in Thread : u # L => [ci EXCEPT ![L] = WithTop(L, f)][u] = ci[u]
    BY ONLY <1>2, <1>3, <1>4, Inv2, TopKept
  <2> DEFINE t == L
  <2>2. /\ \A u \in Thread : u # t => ci'[u] = ci[u] /\ tbc[u] = tbc[u] /\ status'[u] = status[u]
        /\ Pending(tbc[t], ci'[t]) /\ Covers(cs, ci'[t], tbc[t], t)
    BY <1>1, <1>3, <1>5, <2>1 DEF Kept
  <2>3. t \in Thread /\ Owned(cs, ci, tbc, status)
    BY <1>3 DEF Inv2
  <2> HIDE DEF t
  <2>4. Owned(cs, ci', tbc, status')
    BY ONLY <1>3, <2>2, <2>3, OwnedStep
  <2> QED
    BY <1>1, <2>4 DEF OwnedNext
<1>6. CASE ~yieldable
  <2>1. status' = status /\ ci' = ci /\ tbc' = tbc /\ Passes(cs, cs')
    BY <1>1, <1>3, <1>6
  <2> QED
    BY ONLY <2>1, Inv2, OwnedIdle
<1> QED
  BY ONLY <1>5, <1>6

-----------------------------------------------------------------------------
(* luaF_close calls the __close method of the last variable.               *)
LEMMA CloseNextOwned ==
  ASSUME Inv2, CloseNext
  PROVE  OwnedNext
<1> DEFINE W == tbc[L]
           W2 == Front(W)
           z == TRUE
           inc == IF cur.yy THEN 1 ELSE 2
<1>1. /\ W # <<>> /\ tbc' = [tbc EXCEPT ![L] = W2] /\ status' = status
      /\ CCall(inc, z, Last(W).level + 1, ci[L], cs)
  BY DEF CloseNext
<1>2. /\ cs \in Seq(Acts) /\ ci[L] \in Seq(FrameSet) /\ W \in Seq(VarSet) /\ Kept(cs, ci[L], W, L)
      /\ L \in Thread /\ tbc \in [Thread -> Seq(VarSet)] /\ Passes(cs, cs)
  BY InvFacts, OwnedNow, PassesSame DEF Inv2
<1>3. tbc'[L] = W2 /\ \A u \in Thread : u # L => tbc'[u] = tbc[u]
  BY <1>1, <1>2
<1>4. z \in BOOLEAN /\ inc \in 1 .. 2 /\ z
  OBVIOUS
<1>5. Last(W).level + 1 \in Nat /\ Last(W).level + 1 > 0
  <2>1. Last(W) \in VarSet
    BY <1>1, <1>2 DEF Last
  <2> QED
    BY <2>1 DEF VarSet
<1>6. \A i \in 1 .. Len(W2) : W2[i] = W[i] /\ i \in 1 .. Len(W)
  BY <1>1, <1>2, FrontFacts
<1> HIDE DEF W, W2, z, inc
<1>7. Kept(cs, ci[L], W2, L)
  BY ONLY <1>2, <1>6 DEF Kept, Pending, Covers
<1>8. Kept(cs, ci[L], tbc'[L], L)
  BY ONLY <1>3, <1>7
<1>9. z \/ \A i \in 1 .. Len(tbc'[L]) : tbc'[L][i].owner # Last(W).level + 1
  BY ONLY <1>4
<1> QED
  BY ONLY <1>1, <1>2, <1>3, <1>4, <1>5, <1>8, <1>9, Inv2, CallOwned
-----------------------------------------------------------------------------
(* luaF_close has nothing left to close. *)

(* The level it closes from, by what it was called for.                    *)
LEMMA ClosingLevel ==
  ASSUME NEW c, NEW F, NEW s, NEW a, NEW b, NEW e, Ready(c, F, s, a, b, e),
         NEW t, c[Len(c)].thread = t, c[Len(c)].kind = "close"
  PROVE  /\ c[Len(c)].for = "return" => F[t][Len(F[t])].func + 1 = c[Len(c)].level
         /\ c[Len(c)].for = "poscall" => F[t][Len(F[t])].func = c[Len(c)].level
         /\ c[Len(c)].for = "finishpcallk" => F[t][Len(F[t])].idx = c[Len(c)].level
<1>1. PICK h : h \in [Nat -> Nat] /\ Stack(c, F, h) /\ Tip(c, F, h, e)
  BY DEF Ready
<1> DEFINE n == Len(c)
           r == c[n]
           p == c[n - 1]
           FR == F[t]
<1>2. r.kind \notin {"main", "reset", "try"}
  OBVIOUS
<1>3. Fit(FR, p, r, h[n - 1], Len(FR))
  BY ONLY <1>1, <1>2, c[Len(c)].thread = t, UnderTop
<1>4. r.kind = "close"
  OBVIOUS
<1> HIDE DEF n, r, p, FR
<1>5. /\ r.for = "return" => FR[Len(FR)].func + 1 = r.level
      /\ r.for = "poscall" => FR[Len(FR)].func = r.level
      /\ r.for = "finishpcallk" => FR[Len(FR)].idx = r.level
  BY ONLY <1>3, <1>4 DEF Fit
<1> QED
  BY ONLY <1>5 DEF n, r, p, FR

(* The pending variables are below the level, and the frame at the top     *)
(* tells it.                                                               *)
LEMMA NothingLeft ==
  ASSUME Inv2, NothingToClose
  PROVE  /\ exc = "none" /\ cur.kind = "close" /\ cur.level \in Nat /\ Len(cs) - 1 > 0
         /\ cs \in Seq(Acts) /\ Len(cs) \in Nat /\ cs[Len(cs)] = cur
         /\ cs[Len(cs) - 1] \in Acts /\ Kinds(cs[Len(cs) - 1], cur)
         /\ Ready(cs, ci, status, nC, nny, "none")
         /\ \A i \in 1 .. Len(tbc[L]) :
              /\ tbc[L][i].owner \in Nat /\ tbc[L][i].level \in Nat
              /\ tbc[L][i].owner < tbc[L][i].level /\ tbc[L][i].level < cur.level
         /\ cur.for # "protected" =>
              /\ ci[L] # <<>> /\ top \in FrameSet /\ FrameOK(top) /\ top.func \in Nat
              /\ top.idx \in Nat
         /\ cur.for = "return" => top.lua /\ top.func + 1 = cur.level
         /\ cur.for = "poscall" => top.clsret /\ top.func = cur.level
         /\ cur.for = "finishpcallk" => top.ypcall /\ ~top.clsret /\ top.idx = cur.level
<1>1. exc = "none" /\ cur.kind = "close" /\ (tbc[L] # <<>> => Last(tbc[L]).level < cur.level)
  BY DEF NothingToClose, Running
<1>2. /\ Ready(cs, ci, status, nC, nny, "none") /\ cs \in Seq(Acts) /\ Len(cs) \in Nat
      /\ cs[Len(cs)] = cur /\ cur \in Acts /\ cs[Len(cs)].thread = L
      /\ ci[L] # <<>> => ci[L][Len(ci[L])] = top /\ top \in FrameSet /\ FrameOK(top)
  BY <1>1, InvFacts DEF Inv2
<1>3. cur.level \in Nat
  BY ONLY <1>1, <1>2, ActFacts
<1>4. cs[Len(cs)].kind = "close"
  BY ONLY <1>1, <1>2
<1>5. Len(cs) - 1 > 0 /\ cs[Len(cs) - 1] \in Acts /\ Kinds(cs[Len(cs) - 1], cs[Len(cs)])
  <2>1. ~First(cs[Len(cs)])
    BY ONLY <1>4 DEF First
  <2> QED
    BY ONLY <1>2, <2>1, BelowTop
<1>6. ASSUME NEW i \in 1 .. Len(tbc[L])
      PROVE  /\ tbc[L][i].owner \in Nat /\ tbc[L][i].level \in Nat
             /\ tbc[L][i].owner < tbc[L][i].level /\ tbc[L][i].level < cur.level
  <2>1. /\ tbc[L][i].owner \in Nat /\ tbc[L][i].level \in Nat
        /\ tbc[L][i].owner < tbc[L][i].level
        /\ tbc[L][i].level <= Last(tbc[L]).level /\ tbc[L] # <<>>
    BY ONLY Inv2, i \in 1 .. Len(tbc[L]), VariableFacts
  <2>2. Last(tbc[L]) \in VarSet
    <3>1. tbc[L] \in Seq(VarSet)
      BY InvFacts DEF Inv2
    <3> QED
      BY ONLY <2>1, <3>1 DEF Last
  <2>3. Last(tbc[L]).level \in Nat
    BY ONLY <2>2 DEF VarSet
  <2> QED
    BY ONLY <1>1, <1>3, <2>1, <2>3
<1>7. /\ cur.for # "protected" => ci[L] # <<>>
      /\ cur.for = "return" => ci[L][Len(ci[L])].lua
      /\ cur.for = "poscall" => ci[L][Len(ci[L])].clsret
      /\ cur.for = "finishpcallk" => ci[L][Len(ci[L])].ypcall /\ ~ci[L][Len(ci[L])].clsret
  BY ONLY <1>2, <1>4, ClosingTop
<1>8. /\ cur.for = "return" => ci[L][Len(ci[L])].func + 1 = cur.level
      /\ cur.for = "poscall" => ci[L][Len(ci[L])].func = cur.level
      /\ cur.for = "finishpcallk" => ci[L][Len(ci[L])].idx = cur.level
  BY ONLY <1>2, <1>4, ClosingLevel
<1>9. cur.for # "protected" => top.func \in Nat /\ top.idx \in Nat
  BY ONLY <1>2, <1>7, FrameFacts
<1> QED
  BY ONLY <1>1, <1>2, <1>3, <1>5, <1>6, <1>7, <1>8, <1>9

(* The variables of the block are closed.                                  *)
LEMMA BlockClosedOwned ==
  ASSUME Inv2, BlockClosed
  PROVE  OwnedNext
<1> DEFINE f == [top EXCEPT !.doing = "run"]
<1>1. /\ NothingToClose /\ cur.for = "block" /\ tbc' = tbc /\ status' = status
      /\ cs' = Popped(cs) /\ ci' = [ci EXCEPT ![L] = WithTop(L, f)]
  BY DEF BlockClosed, Popped, Front
<1>2. /\ ci[L] # <<>> /\ top \in FrameSet /\ cs \in Seq(Acts) /\ Len(cs) > 0
      /\ cs[Len(cs)] = cur
  BY <1>1, NothingLeft, InvFacts DEF Inv2
<1>3. /\ f \in FrameSet /\ f.func = top.func /\ f.lua = top.lua /\ f.clsret = top.clsret
      /\ f.ypcall = top.ypcall /\ f.recst = top.recst /\ f.idx = top.idx
  BY <1>2 DEF FrameSet
<1>4. ~Protective(cs[Len(cs)])
  BY <1>1, <1>2 DEF Protective
<1> HIDE DEF f
<1>5. Passes(cs, cs')
  BY ONLY <1>1, <1>2, <1>4, PassesPop
<1> QED
  BY ONLY <1>1, <1>2, <1>3, <1>5, Inv2, TopOwned

(* The variables of a function that returns are closed.                    *)
LEMMA FunctionClosedOwned ==
  ASSUME Inv2, FunctionClosed
  PROVE  OwnedNext
<1>1. /\ NothingToClose /\ cur.for \in {"return", "poscall"} /\ tbc' = tbc /\ status' = status
      /\ ci' = [ci EXCEPT ![L] = Front(@)]
      /\ \/ cs' = Front(Front(cs)) /\ below.kind \in {"exec", "cfun"}
         \/ cs' = Front(cs)
  BY DEF FunctionClosed
<1>2. /\ ci[L] # <<>> /\ FrameOK(top) /\ top.func \in Nat /\ top.idx \in Nat
      /\ cs \in Seq(Acts) /\ Len(cs) \in Nat /\ Len(cs) - 1 > 0 /\ cs[Len(cs)] = cur
      /\ cur.kind = "close" /\ cur.level \in Nat
      /\ cur.for = "return" => top.lua /\ top.func + 1 = cur.level
      /\ cur.for = "poscall" => top.clsret /\ top.func = cur.level
  BY <1>1, NothingLeft
<1>3. Passes(cs, cs')
  <2>1. ~Protective(cs[Len(cs)])
    BY ONLY <1>1, <1>2 DEF Protective
  <2>2. CASE cs' = Front(cs)
    <3>1. cs' = Popped(cs) /\ Len(cs) > 0
      BY ONLY <1>2, <2>2 DEF Popped, Front
    <3> QED
      BY ONLY <1>2, <2>1, <3>1, PassesPop
  <2>3. CASE cs' = Front(Front(cs)) /\ below.kind \in {"exec", "cfun"}
    <3> DEFINE n == Len(cs) - 2
    <3>1. n \in 0 .. Len(cs) /\ \A i \in n + 1 .. Len(cs) : i = Len(cs) - 1 \/ i = Len(cs)
      BY ONLY <1>2
    <3>2. cs' = SubSeq(cs, 1, n)
      <4>1. Front(cs) = SubSeq(cs, 1, Len(cs) - 1) /\ Len(SubSeq(cs, 1, Len(cs) - 1)) = Len(cs) - 1
        BY ONLY <1>2 DEF Front
      <4>2. cs' = SubSeq(SubSeq(cs, 1, Len(cs) - 1), 1, Len(cs) - 1 - 1)
        BY ONLY <2>3, <4>1 DEF Front
      <4>3. SubSeq(SubSeq(cs, 1, Len(cs) - 1), 1, Len(cs) - 1 - 1) = SubSeq(cs, 1, Len(cs) - 2)
        BY ONLY <1>2
      <4> QED
        BY ONLY <4>2, <4>3
    <3>3. ~Protective(cs[Len(cs) - 1])
      BY ONLY <2>3 DEF Protective, below
    <3> HIDE DEF n
    <3>4. \A i \in n + 1 .. Len(cs) : ~Protective(cs[i])
      BY ONLY <2>1, <3>1, <3>3
    <3> QED
      BY ONLY <1>2, <3>1, <3>2, <3>4, PassesCut
  <2> QED
    BY ONLY <1>1, <2>2, <2>3
<1>4. ASSUME NEW i \in 1 .. Len(tbc[L]) PROVE ~Carries(top, tbc[L][i])
  <2> DEFINE v == tbc[L][i]
  <2>1. /\ v.owner \in Nat /\ v.level \in Nat /\ v.owner < v.level /\ v.level < cur.level
    BY ONLY <1>1, Inv2, i \in 1 .. Len(tbc[L]), NothingLeft
  <2> HIDE DEF v
  <2>2. v.level <= top.func
    BY ONLY <1>1, <1>2, <2>1
  <2>3. top.func # v.owner
    BY ONLY <1>2, <2>1, <2>2
  <2>4. ~(top.ypcall /\ top.idx <= v.level)
    <3>1. top.ypcall => top.func < top.idx
      BY ONLY <1>2 DEF FrameOK
    <3> QED
      BY ONLY <1>2, <2>1, <2>2, <3>1
  <2>5. ~(top.clsret /\ top.func <= v.level)
    <3>1. top.lua => ~top.clsret
      BY ONLY <1>2 DEF FrameOK
    <3> QED
      BY ONLY <1>1, <1>2, <2>1, <3>1
  <2>6. ~Carries(top, v)
    BY ONLY <2>3, <2>4, <2>5 DEF Carries
  <2> QED
    BY ONLY <2>6 DEF v
<1> QED
  BY ONLY <1>1, <1>2, <1>3, <1>4, Inv2, TopEnds
(* The frame at the top becomes f, which answers for the same variables.   *)
LEMMA TopBecomes ==
  ASSUME Inv2, ci[L] # <<>>, Passes(cs, cs'), tbc' = tbc, status' = status,
         NEW f \in FrameSet, f.func = top.func, f.lua = top.lua, top.clsret => f.clsret,
         \A i \in 1 .. Len(tbc[L]) : Carries(top, tbc[L][i]) => Carries(f, tbc[L][i]),
         ci' = [ci EXCEPT ![L] = WithTop(L, f)]
  PROVE  OwnedNext
<1>1. /\ L \in Thread /\ ci \in [Thread -> Seq(FrameSet)] /\ ci[L] \in Seq(FrameSet)
      /\ ci[L][Len(ci[L])] = top
      /\ Kept(cs, ci[L], tbc[L], L)
      /\ WithTop(L, f) = Retop(ci[L], Len(ci[L]), f)
  BY InvFacts, OwnedNow DEF Inv2
<1>2. /\ \A i \in 1 .. Len(tbc[L]) : Carries(ci[L][Len(ci[L])], tbc[L][i]) => Carries(f, tbc[L][i])
      /\ f.func = ci[L][Len(ci[L])].func /\ f.lua = ci[L][Len(ci[L])].lua
      /\ ci[L][Len(ci[L])].clsret => f.clsret
  BY <1>1
<1>3. Kept(cs', Retop(ci[L], Len(ci[L]), f), tbc[L], L)
  BY ONLY <1>1, <1>2, f \in FrameSet, ci[L] # <<>>, Passes(cs, cs'), KeptRetop
<1>4. ci'[L] = Retop(ci[L], Len(ci[L]), f) /\ \A u \in Thread : u # L => ci'[u] = ci[u]
  BY <1>1
<1>5. Kept(cs', ci'[L], tbc[L], L)
  BY ONLY <1>3, <1>4
<1>6. Owned(cs', ci', tbc, status)
  BY ONLY <1>4, <1>5, Inv2, Passes(cs, cs'), OwnedRun
<1> QED
  BY <1>6 DEF OwnedNext

(* The end of finishpcallk, the variables of the calls that failed being   *)
(* closed.                                                                 *)
LEMMA PcallkClosedOwned ==
  ASSUME Inv2, PcallkClosed
  PROVE  OwnedNext
<1> DEFINE f == [top EXCEPT !.recst = "ok", !.ypcall = FALSE]
           r == Continuation(L)
<1>1. /\ NothingToClose /\ cur.for = "finishpcallk" /\ tbc' = tbc /\ status' = status
      /\ cs' = Append(Popped(cs), r) /\ ci' = [ci EXCEPT ![L] = WithTop(L, f)]
  BY DEF PcallkClosed, PcallkFinished, Popped, Front
<1>2. /\ ci[L] # <<>> /\ top \in FrameSet /\ cs \in Seq(Acts) /\ Len(cs) > 0
      /\ cs[Len(cs)] = cur /\ ~top.clsret /\ top.idx = cur.level /\ top.idx \in Nat
      /\ \A i \in 1 .. Len(tbc[L]) :
           tbc[L][i].level \in Nat /\ tbc[L][i].level < cur.level
      /\ Ready(cs, ci, status, nC, nny, "none") /\ cur.kind = "close"
  BY ONLY <1>1, Inv2, NothingLeft, InvFacts DEF Inv2
<1>3. f \in FrameSet /\ f.func = top.func /\ f.lua = top.lua /\ f.clsret = top.clsret
  BY <1>2 DEF FrameSet
<1>4. ~Protective(cs[Len(cs)])
  BY <1>1, <1>2 DEF Protective
<1>5. L \in Thread
  BY InvFacts DEF Inv2
<1>6. r \in Acts
  BY <1>5 DEF Continuation, Acts
<1> HIDE DEF f, r
<1>7. Popped(cs) \in Seq(Acts)
  <2>1. ~First(cs[Len(cs)]) /\ \A u \in Thread : u # cs[Len(cs)].thread => ci[u] = ci[u]
    BY ONLY <1>2 DEF First
  <2> QED
    BY ONLY <1>2, <2>1, PoppedFacts
<1>8. Passes(cs, cs')
  <2>1. Passes(cs, Popped(cs))
    BY ONLY <1>2, <1>4, PassesPop
  <2> QED
    BY ONLY <1>1, <1>2, <1>6, <1>7, <2>1, PassesPush
<1>9. ASSUME NEW i \in 1 .. Len(tbc[L]), Carries(top, tbc[L][i])
      PROVE  Carries(f, tbc[L][i])
  <2>1. top.func = tbc[L][i].owner
    BY ONLY <1>2, <1>9 DEF Carries
  <2> QED
    BY ONLY <1>3, <2>1 DEF Carries
<1> QED
  BY ONLY <1>1, <1>2, <1>3, <1>8, <1>9, Inv2, TopBecomes

(* luaD_closeprotected returns: its variables are closed.                  *)
LEMMA ProtectedClosedOwned ==
  ASSUME Inv2, ProtectedClosed
  PROVE  OwnedNext
<1>1. /\ NothingToClose /\ cur.for = "protected" /\ cs' = SubSeq(cs, 1, Len(cs) - 3)
      /\ ci' = ci /\ tbc' = tbc /\ status' = status
  BY DEF ProtectedClosed
<1>2. /\ cs \in Seq(Acts) /\ Len(cs) \in Nat /\ cs[Len(cs)] = cur /\ cur.kind = "close"
      /\ cur.level \in Nat /\ Ready(cs, ci, status, nC, nny, "none")
      /\ \A i \in 1 .. Len(tbc[L]) : tbc[L][i].level \in Nat /\ tbc[L][i].level < cur.level
  BY ONLY <1>1, Inv2, NothingLeft
<1>3. cur.thread = L /\ Owned(cs, ci, tbc, status)
  BY InvFacts DEF Inv2
<1>4. /\ Len(cs) - 3 \in Nat /\ Len(cs) - 3 > 0
      /\ cs[Len(cs) - 1].kind = "try" /\ cs[Len(cs) - 2].kind \in {"caught", "reset"}
  <2>1. cs[Len(cs)].thread = L /\ cs[Len(cs)].kind = "close" /\ cs[Len(cs)].for = "protected"
    BY ONLY <1>1, <1>2, <1>3
  <2> QED
    BY ONLY <1>2, <2>1, ProtectedTop
<1> DEFINE n == Len(cs) - 3
<1>5. /\ n \in Nat /\ n <= Len(cs)
      /\ \A i \in 1 .. Len(cs) :
           i \in 1 .. n \/ i = Len(cs) - 2 \/ i = Len(cs) - 1 \/ i = Len(cs)
  BY ONLY <1>2, <1>4
<1>6. Len(cs') = n /\ \A i \in 1 .. n : cs'[i] = cs[i]
  <2>1. /\ cs \in Seq(Acts) /\ Len(cs) \in Nat /\ n \in Nat /\ n <= Len(cs)
        /\ cs' = SubSeq(cs, 1, n)
    BY ONLY <1>1, <1>2, <1>5
  <2> HIDE DEF n
  <2> QED
    BY ONLY <2>1
<1> HIDE DEF n
<1>7. ASSUME NEW i \in 1 .. Len(cs), Protective(cs[i])
      PROVE  i \in 1 .. n \/ i = Len(cs)
  <2>1. cs[i].kind = "close"
    BY ONLY <1>7 DEF Protective
  <2> QED
    BY ONLY <1>4, <1>5, <2>1
<1>8. ASSUME NEW t \in Thread, NEW k \in 1 .. Len(tbc[t]), Covered(cs, ci[t], t, tbc[t][k])
      PROVE  Covered(cs', ci[t], t, tbc[t][k])
  <2>1. CASE Holds(ci[t], tbc[t][k])
    BY ONLY <2>1 DEF Covered
  <2>2. CASE ~Holds(ci[t], tbc[t][k])
    <3>1. PICK i \in 1 .. Len(cs) :
            Protective(cs[i]) /\ cs[i].thread = t /\ cs[i].level <= tbc[t][k].level
      BY ONLY <1>8, <2>2 DEF Covered
    <3>2. i # Len(cs)
      <4> SUFFICES ASSUME i = Len(cs) PROVE FALSE
        OBVIOUS
      <4>1. t = L /\ cur.level <= tbc[t][k].level
        BY ONLY <1>2, <1>3, <3>1, i = Len(cs)
      <4>2. tbc[t][k].level \in Nat /\ tbc[t][k].level < cur.level
        BY ONLY <1>2, <1>8, <4>1
      <4> QED
        BY ONLY <1>2, <4>1, <4>2
    <3>3. i \in 1 .. Len(cs') /\ cs'[i] = cs[i]
      BY ONLY <1>6, <1>7, <3>1, <3>2
    <3> QED
      BY ONLY <3>1, <3>3 DEF Covered
  <2> QED
    BY ONLY <2>1, <2>2
<1>9. Owned(cs', ci, tbc, status)
  BY ONLY <1>3, <1>8 DEF Owned, Covers
<1> QED
  BY ONLY <1>1, <1>9 DEF OwnedNext

-----------------------------------------------------------------------------
(* unroll *)

(* unroll goes on with a Lua function that was interrupted.                *)
LEMMA FinishLuaOwned ==
  ASSUME Inv2, FinishLua
  PROVE  OwnedNext
<1> DEFINE r == [kind |-> "exec", thread |-> L, inc |-> 0]
<1>1. cs' = Append(cs, r) /\ ci' = ci /\ tbc' = tbc /\ status' = status
  BY DEF FinishLua, thread
<1>2. L \in Thread
  BY InvFacts DEF Inv2
<1>3. r \in Acts
  BY <1>2 DEF Acts
<1> HIDE DEF r
<1> QED
  BY ONLY <1>1, <1>3, Inv2, OwnedPush

(* unroll has no more frames to go on with.                                *)
LEMMA FinishOwned ==
  ASSUME Inv2, Finish
  PROVE  OwnedNext
<1>1. /\ cur.kind = "unroll" /\ ci' = ci /\ tbc' = tbc /\ status' = status
      /\ cs' = SubSeq(cs, 1, Len(cs) - 2)
  BY DEF Finish, Unrolling, thread
<1>2. /\ cs \in Seq(Acts) /\ Len(cs) \in Nat /\ cs[Len(cs)] = cur
      /\ Ready(cs, ci, status, nC, nny, exc)
  BY InvFacts DEF Inv2
<1>3. Len(cs) - 1 > 0 /\ cs[Len(cs) - 1].kind = "try"
  <2>1. ~First(cs[Len(cs)])
    BY ONLY <1>1, <1>2 DEF First
  <2>2. Len(cs) - 1 > 0 /\ Kinds(cs[Len(cs) - 1], cs[Len(cs)])
    BY ONLY <1>2, <2>1, BelowTop
  <2> QED
    BY ONLY <1>1, <1>2, <2>2 DEF Kinds
<1> DEFINE n == Len(cs) - 2
<1>4. n \in 0 .. Len(cs) /\ \A i \in n + 1 .. Len(cs) : i = Len(cs) - 1 \/ i = Len(cs)
  BY ONLY <1>2, <1>3
<1>5. cs' = SubSeq(cs, 1, n)
  BY ONLY <1>1
<1> HIDE DEF n
<1>6. \A i \in n + 1 .. Len(cs) : ~Protective(cs[i])
  BY ONLY <1>1, <1>2, <1>3, <1>4 DEF Protective
<1>7. Passes(cs, cs')
  BY ONLY <1>2, <1>4, <1>5, <1>6, PassesCut
<1> QED
  BY ONLY <1>1, <1>7, Inv2, OwnedIdle

(* unroll goes on with a C function: its continuation, or what it was      *)
(* closing.                                                                *)
LEMMA FinishCcallOwned ==
  ASSUME Inv2, FinishCcall
  PROVE  OwnedNext
<1>1. ci[L] # <<>> /\ tbc' = tbc /\ status' = status
  BY DEF FinishCcall
<1>2. top \in FrameSet /\ L \in Thread /\ cs \in Seq(Acts)
  BY <1>1, InvFacts DEF Inv2
<1> DEFINE q == Continuation(L)
<1>3. q \in Acts
  BY <1>2 DEF Continuation, Acts
<1>4. CASE top.clsret /\ CloseAndReturn(cs)
  BY ONLY <1>1, <1>4, Inv2, CloseAndReturnOwned
<1>5. CASE ~top.clsret /\ top.ypcall /\ UnrollPcallk
  <2>1. CASE top.recst = "ok"
    <3> DEFINE f == [top EXCEPT !.recst = "ok", !.ypcall = FALSE]
    <3>1. cs' = Append(cs, q) /\ ci' = [ci EXCEPT ![L] = WithTop(L, f)]
      BY <1>5, <2>1 DEF UnrollPcallk, PcallkFinished
    <3>2. f \in FrameSet /\ f.func = top.func /\ f.lua = top.lua /\ f.clsret = top.clsret
      BY <1>2 DEF FrameSet
    <3> HIDE DEF f, q
    <3>3. Passes(cs, cs')
      BY ONLY <1>2, <1>3, <3>1, PassesSame, PassesPush
    <3> QED
      BY ONLY <1>1, <2>1, <3>1, <3>2, <3>3, Inv2, TopOwned
  <2>2. CASE top.recst # "ok"
    <3> DEFINE r == Closing(L, top.idx, TRUE, "finishpcallk")
    <3>1. cs' = Append(cs, r) /\ ci' = ci
      BY <1>5, <2>2 DEF UnrollPcallk
    <3>2. top.idx \in Nat
      BY ONLY <1>2, FrameFacts
    <3>3. r \in Acts
      BY <1>2, <3>2 DEF Closing, Acts
    <3> HIDE DEF r
    <3> QED
      BY ONLY <1>1, <3>1, <3>3, Inv2, OwnedPush
  <2> QED
    BY ONLY <2>1, <2>2
<1>6. CASE cs' = Append(cs, q) /\ ci' = ci
  <2> HIDE DEF q
  <2> QED
    BY ONLY <1>1, <1>3, <1>6, Inv2, OwnedPush
<1> QED
  BY <1>4, <1>5, <1>6 DEF FinishCcall
-----------------------------------------------------------------------------
(* Errors again *)

(* An error is raised, or the handler of one is called first.              *)
LEMMA RaiseOwned ==
  ASSUME Inv2, Raise
  PROVE  OwnedNext
<1>1. exc = "error" /\ tbc' = tbc /\ status' = status
  BY DEF Raise
<1>2. /\ Whole(cs, ci, tbc, status, body, nC, nny, errfunc, "error")
      /\ cs[Len(cs)] = cur /\ cs[Len(cs)].thread = L /\ L \in Thread
      /\ ci[L] \in Seq(FrameSet) /\ tbc[L] \in Seq(VarSet) /\ cs \in Seq(Acts)
      /\ TopOf(L) = TopAt(ci[L], tbc[L])
      /\ Kept(cs, ci[L], tbc[L], L) /\ Passes(cs, cs)
  BY <1>1, InvFacts, OwnedNow, PassesSame DEF Inv1, Inv2
<1>3. /\ Ready(cs, ci, status, nC, nny, "error")
      /\ cs[Len(cs)].kind \in {"exec", "cfun", "unroll"}
  <2>1. Raising(cs, ci, nny, "error")
    BY ONLY <1>2, WholeFacts
  <2>2. cs[Len(cs)].kind \in {"exec", "cfun", "unroll"}
    BY ONLY <2>1 DEF Raising
  <2> QED
    BY ONLY <1>2, <2>2, WholeFacts
<1>4. CASE errfunc[L] = 0
  <2>1. ci' = ci /\ cs' = cs
    BY <1>4 DEF Raise
  <2> QED
    BY ONLY <1>1, <1>2, <2>1, Inv2, OwnedIdle
<1>5. CASE errfunc[L] # 0
  <2> DEFINE p == [kind |-> "handler", thread |-> L]
             d == Append(cs, p)
             x == FaultAt(cs, ci[L], tbc[L])
             z == TRUE
             inc == 2
  <2>1. CCall(inc, z, ErrorTop, ci[L], d)
    BY <1>5 DEF Raise
  <2>2. ErrorTop = x
    BY <1>2 DEF ErrorTop, FaultAt, below
  <2>3. p \in Acts
    BY <1>2 DEF Acts
  <2>4. inc \in 1 .. 2 /\ z \in BOOLEAN /\ z
    OBVIOUS
  <2> HIDE DEF p, z, inc
  <2>5. x \in Nat /\ x > 0
    <3>1. ~First(cs[Len(cs)])
      BY ONLY <1>3 DEF First
    <3>2. cs[Len(cs) - 1] \in Acts
      BY ONLY <1>3, <3>1, BelowTop
    <3>3. TopAt(ci[L], tbc[L]) \in Nat /\ TopAt(ci[L], tbc[L]) > 0
      BY ONLY <1>2, TopAtFacts
    <3>4. x \in Nat /\ TopAt(ci[L], tbc[L]) <= x
      BY ONLY <1>2, <3>2, FaultAtFacts
    <3> HIDE DEF x
    <3> QED
      BY ONLY <3>3, <3>4
  <2> HIDE DEF x
  <2>6. CCall(inc, z, x, ci[L], d)
    BY ONLY <2>1, <2>2
  <2>7. d \in Seq(Acts) /\ Passes(cs, d)
    BY ONLY <1>2, <2>3, PassesPush
  <2>8. /\ \A u \in Thread : u # L => tbc'[u] = tbc[u]
        /\ Kept(cs, ci[L], tbc'[L], L)
    BY ONLY <1>1, <1>2
  <2>9. z \/ \A i \in 1 .. Len(tbc'[L]) : tbc'[L][i].owner # x
    BY ONLY <2>4
  <2> HIDE DEF d
  <2> QED
    BY ONLY <1>1, <1>2, <2>4, <2>5, <2>6, <2>7, <2>8, <2>9, Inv2, CallOwned
<1> QED
  BY ONLY <1>4, <1>5

(* The frames that an error cuts off come after the protected call.        *)
LEMMA FramesCut ==
  ASSUME Inv1, exc \in {"err", "yield", "exception"}, Catcher.of # "resume"
  PROVE  /\ Catcher.depth \in 0 .. Len(ci[L]) /\ Catcher.level \in Nat
         /\ \A q \in Catcher.depth + 1 .. Len(ci[L]) :
              Catcher.level <= ci[L][q].func /\ ~ci[L][q].ypcall
<1>1. /\ Target \in 1 .. Len(cs) - 1 /\ Target \in 2 .. Len(cs) /\ Catcher = cs[Target]
      /\ cs[Target].kind = "try" /\ cs[Target].thread = L /\ cs[Target] \in Acts
  BY TargetFacts
<1>2. Ready(cs, ci, status, nC, nny, exc) /\ cs[Len(cs)].thread = L
  BY InvFacts
<1>3. PICK h : h \in [Nat -> Nat] /\ Stack(cs, ci, h)
  BY ONLY <1>2 DEF Ready
<1>4. Guard(cs[Target])
  BY ONLY <1>1, Catcher.of # "resume" DEF Guard
<1>5. Protecting(cs, Target, L)
  BY ONLY <1>1, <1>2, <1>4 DEF Protecting
<1>6. cs[Target].depth \in 0 .. Len(ci[L])
  BY ONLY <1>2, <1>3, <1>5, GuardFacts
<1>7. Fits(cs, ci, h) /\ Inside(cs, ci, h)
  BY ONLY <1>3, StackShape
<1>8. cs[Target].depth = h[Target]
  <2>1. Fit(ci[cs[Target].thread], cs[Target - 1], cs[Target], h[Target - 1], h[Target])
    BY ONLY <1>1, <1>7 DEF Fits
  <2> QED
    BY ONLY <1>4, <2>1 DEF Fit
<1>9. \A q \in h[Target] + 1 .. Len(ci[cs[Target].thread]) :
        /\ cs[Target].level <= ci[cs[Target].thread][q].func
        /\ ~ci[cs[Target].thread][q].ypcall
  BY ONLY <1>1, <1>4, <1>7 DEF Inside
<1>10. cs[Target].level \in Nat
  BY ONLY <1>1, ActFacts
<1> QED
  BY ONLY <1>1, <1>6, <1>8, <1>9, <1>10

(* A luaD_closeprotected that an error reaches closes from the same level. *)
LEMMA ClosingCaught ==
  ASSUME Inv1, exc \in {"err", "yield", "exception"},
         NEW i \in 1 .. Len(cs), Protective(cs[i]), ~(i <= Target - 1)
  PROVE  cs[i].thread = L /\ cs[i].level = Catcher.level /\ Catcher.of = "close"
<1>1. /\ Target \in 1 .. Len(cs) - 1 /\ Target \in 2 .. Len(cs) /\ Catcher = cs[Target]
      /\ cs[Target].kind = "try" /\ cs[Target].thread = L
      /\ \A k \in Target + 1 .. Len(cs) : cs[k].kind # "try"
  BY TargetFacts
<1>2. Ready(cs, ci, status, nC, nny, exc) /\ Len(cs) \in Nat
  BY InvFacts
<1>3. Piled(cs)
  BY ONLY <1>2, ReadyTypes
<1>4. cs[i].kind = "close" /\ cs[i].for = "protected"
  BY DEF Protective
<1>5. i # Target
  BY ONLY <1>1, <1>4
<1>6. i \in 2 .. Len(cs) /\ i - 1 \in Target .. Len(cs)
  BY ONLY <1>1, <1>2, <1>5, i \in 1 .. Len(cs), ~(i <= Target - 1)
<1>7. Kinds(cs[i - 1], cs[i])
  BY ONLY <1>3, <1>6 DEF Piled
<1>8. /\ cs[i - 1].kind = "try" /\ cs[i - 1].of = "close" /\ cs[i].level = cs[i - 1].level
      /\ cs[i].thread = cs[i - 1].thread
  <2>1. ~First(cs[i])
    BY ONLY <1>4 DEF First
  <2> QED
    BY ONLY <1>4, <1>7, <2>1 DEF Kinds
<1>9. i - 1 = Target
  BY ONLY <1>1, <1>2, <1>6, <1>8
<1> QED
  BY ONLY <1>1, <1>8, <1>9
(* A protected call catches an error, and closes the variables of the      *)
(* calls that it cuts off: d is the C stack up to luaD_closeprotected.     *)
LEMMA GuardCaughtOwned ==
  ASSUME Inv2, exc \in {"err", "yield", "exception"}, Catcher.of # "resume",
         ci' = [ci EXCEPT ![L] = SubSeq(@, 1, Catcher.depth)], tbc' = tbc, status' = status,
         NEW d \in Seq(Acts), Target - 1 <= Len(d), \A i \in 1 .. Target - 1 : d[i] = cs[i],
         cs' = d \o Protect(Catcher)
  PROVE  OwnedNext
<1> DEFINE r == Try(L, "close", Catcher.depth, <<Catcher.nC, Catcher.nny>>, Catcher.level, 0)
           p == Closing(L, Catcher.level, FALSE, "protected")
           n == Len(d) + 2
<1>1. /\ Inv1 /\ cs \in Seq(Acts) /\ Len(cs) \in Nat /\ L \in Thread
      /\ ci \in [Thread -> Seq(FrameSet)] /\ ci[L] \in Seq(FrameSet) /\ Len(ci[L]) \in Nat
      /\ tbc[L] \in Seq(VarSet)
      /\ Kept(cs, ci[L], tbc[L], L)
  BY InvFacts, OwnedNow DEF Inv2
<1>2. /\ Target \in 1 .. Len(cs) - 1 /\ Catcher = cs[Target]
      /\ cs[Target].kind = "try" /\ cs[Target].thread = L /\ cs[Target] \in Acts
  BY ONLY <1>1, exc \in {"err", "yield", "exception"}, TargetFacts
<1>3. /\ Catcher.depth \in 0 .. Len(ci[L]) /\ Catcher.level \in Nat
      /\ \A q \in Catcher.depth + 1 .. Len(ci[L]) :
           Catcher.level <= ci[L][q].func /\ ~ci[L][q].ypcall
  BY ONLY <1>1, exc \in {"err", "yield", "exception"}, Catcher.of # "resume", FramesCut
<1>4. p.kind = "close" /\ p.for = "protected" /\ p.level = Catcher.level /\ p.thread = L
  BY DEF Closing
<1>5. cs' = d \o <<r, p>>
  BY DEF Protect
<1>6. Protective(p)
  BY ONLY <1>4 DEF Protective
<1> HIDE DEF r, p
<1>7. /\ Len(cs') = n /\ n \in 1 .. n /\ Len(d) \in Nat /\ cs'[n] = p
      /\ \A i \in 1 .. Len(d) : cs'[i] = d[i] /\ i \in 1 .. n
  BY ONLY <1>5, d \in Seq(Acts)
<1> HIDE DEF n
<1>8. Passes(cs, cs')
  <2>1. SUFFICES ASSUME NEW i \in 1 .. Len(cs), Protective(cs[i])
        PROVE  \E k \in 1 .. Len(cs') :
                 /\ Protective(cs'[k])
                 /\ cs'[k].thread = cs[i].thread /\ cs'[k].level = cs[i].level
    BY DEF Passes
  <2>2. CASE i <= Target - 1
    <3>1. i \in 1 .. Target - 1 /\ i \in 1 .. Len(d)
      BY ONLY <1>1, <1>2, <1>7, <2>2, i \in 1 .. Len(cs), Target - 1 <= Len(d)
    <3>2. i \in 1 .. Len(cs') /\ cs'[i] = cs[i]
      BY ONLY <1>7, <3>1, \A k \in 1 .. Target - 1 : d[k] = cs[k]
    <3> QED
      BY ONLY <2>1, <3>2
  <2>3. CASE ~(i <= Target - 1)
    <3>1. cs[i].thread = L /\ cs[i].level = Catcher.level
      BY ONLY <1>1, <2>1, <2>3, i \in 1 .. Len(cs), exc \in {"err", "yield", "exception"},
              ClosingCaught
    <3> QED
      BY ONLY <1>4, <1>6, <1>7, <3>1
  <2> QED
    BY ONLY <2>2, <2>3
<1> DEFINE m == Catcher.depth
           FR == ci[L]
           GR == SubSeq(FR, 1, m)
<1>9. /\ ci'[L] = GR /\ \A u \in Thread : u # L => ci'[u] = ci[u]
  BY ONLY <1>1, ci' = [ci EXCEPT ![L] = SubSeq(@, 1, Catcher.depth)]
<1>10. Len(GR) = m /\ \A q \in 1 .. m : GR[q] = FR[q]
  <2>1. m \in 0 .. Len(FR) /\ FR \in Seq(FrameSet)
    BY ONLY <1>1, <1>3
  <2> HIDE DEF m, FR
  <2> QED
    BY ONLY <2>1
<1>11. ASSUME NEW q \in m + 1 .. Len(FR), NEW i \in 1 .. Len(tbc[L]), Carries(FR[q], tbc[L][i])
       PROVE  Covered(cs', GR, L, tbc[L][i])
  <2> DEFINE v == tbc[L][i]
  <2>1. v.owner \in Nat /\ v.level \in Nat /\ v.owner < v.level
    BY ONLY Inv2, i \in 1 .. Len(tbc[L]), VariableFacts
  <2>2. FR[q].func = v.owner /\ Catcher.level <= FR[q].func
    BY ONLY <1>3, <1>11 DEF Carries
  <2> HIDE DEF v, GR, FR, m
  <2>3. p.level <= v.level
    BY ONLY <1>3, <1>4, <2>1, <2>2
  <2>4. Covered(cs', GR, L, v)
    BY ONLY <1>4, <1>6, <1>7, <2>3 DEF Covered
  <2> QED
    BY ONLY <2>4 DEF v
<1>12. FR \in Seq(FrameSet) /\ Kept(cs, FR, tbc[L], L) /\ m \in 0 .. Len(FR)
  BY ONLY <1>1, <1>3
<1> HIDE DEF GR, FR, m
<1>13. Kept(cs', GR, tbc[L], L)
  BY ONLY <1>8, <1>10, <1>11, <1>12, KeptCut
<1>14. Kept(cs', ci'[L], tbc[L], L)
  BY ONLY <1>9, <1>13
<1>15. Owned(cs', ci', tbc, status)
  BY ONLY <1>8, <1>9, <1>14, Inv2, OwnedRun
<1> QED
  BY ONLY <1>15, tbc' = tbc, status' = status DEF OwnedNext

(* A protected call without a continuation closes what it cuts off.        *)
LEMMA CaughtByPcallOwned ==
  ASSUME Inv2, CaughtByPcall
  PROVE  OwnedNext
<1> DEFINE x == SubSeq(cs, 1, Target - 1)
           k == [kind |-> "caught", thread |-> L, errfunc |-> Catcher.errfunc]
           d == x \o <<k>>
<1>1. /\ exc \in {"err", "yield", "exception"} /\ Catcher.of = "pcall"
      /\ ci' = [ci EXCEPT ![L] = SubSeq(@, 1, Catcher.depth)] /\ tbc' = tbc /\ status' = status
      /\ cs' = d \o Protect(Catcher)
  BY DEF CaughtByPcall, Catch
<1>2. cs \in Seq(Acts) /\ L \in Thread /\ Len(cs) \in Nat
  BY InvFacts DEF Inv2
<1>3. Target \in 1 .. Len(cs) - 1 /\ Catcher = cs[Target] /\ cs[Target] \in Acts
      /\ cs[Target].kind = "try"
  BY <1>1, TargetFacts DEF Inv2
<1>4. Catcher.errfunc \in Nat
  BY ONLY <1>3, ActFacts
<1>5. k \in Acts
  BY ONLY <1>2, <1>4 DEF Acts
<1> HIDE DEF k
<1> DEFINE n == Target - 1
<1>6. n \in Nat /\ n <= Len(cs) /\ x = SubSeq(cs, 1, n)
  BY ONLY <1>2, <1>3
<1> HIDE DEF n
<1>7. x \in Seq(Acts) /\ Len(x) = n /\ \A i \in 1 .. n : x[i] = cs[i]
  <2> HIDE DEF x
  <2> QED
    BY ONLY <1>2, <1>6
<1> HIDE DEF x
<1>8. d \in Seq(Acts) /\ n <= Len(d) /\ \A i \in 1 .. n : d[i] = cs[i]
  BY ONLY <1>5, <1>6, <1>7
<1>9. Target - 1 <= Len(d) /\ \A i \in 1 .. Target - 1 : d[i] = cs[i]
  BY ONLY <1>8 DEF n
<1> HIDE DEF d
<1>10. Catcher.of # "resume"
  BY ONLY <1>1
<1> QED
  BY ONLY <1>1, <1>8, <1>9, <1>10, Inv2, GuardCaughtOwned

(* luaD_closeprotected catches an error of a __close method and starts     *)
(* again.                                                                  *)
LEMMA CaughtWhileClosingOwned ==
  ASSUME Inv2, CaughtWhileClosing
  PROVE  OwnedNext
<1> DEFINE d == SubSeq(cs, 1, Target - 1)
<1>1. /\ exc \in {"err", "yield", "exception"} /\ Catcher.of = "close"
      /\ ci' = [ci EXCEPT ![L] = SubSeq(@, 1, Catcher.depth)] /\ tbc' = tbc /\ status' = status
      /\ cs' = d \o Protect(Catcher)
  BY DEF CaughtWhileClosing, Catch
<1>2. cs \in Seq(Acts) /\ Len(cs) \in Nat
  BY InvFacts DEF Inv2
<1>3. Target \in 1 .. Len(cs) - 1
  BY <1>1, TargetFacts DEF Inv2
<1> DEFINE n == Target - 1
<1>4. n \in Nat /\ n <= Len(cs) /\ d = SubSeq(cs, 1, n)
  BY ONLY <1>2, <1>3
<1> HIDE DEF n
<1>5. d \in Seq(Acts) /\ n <= Len(d) /\ \A i \in 1 .. n : d[i] = cs[i]
  <2> HIDE DEF d
  <2> QED
    BY ONLY <1>2, <1>4
<1>6. Target - 1 <= Len(d) /\ \A i \in 1 .. Target - 1 : d[i] = cs[i]
  BY ONLY <1>5 DEF n
<1> HIDE DEF d
<1>7. Catcher.of # "resume"
  BY ONLY <1>1
<1> QED
  BY ONLY <1>1, <1>5, <1>6, <1>7, Inv2, GuardCaughtOwned
(* An error that lua_resume catches goes past no luaD_closeprotected.      *)
LEMMA ResumeCaught ==
  ASSUME Inv1, exc \in {"err", "yield", "exception"}, Catcher.of = "resume"
  PROVE  /\ Passes(cs, SubSeq(cs, 1, Target - 1))
         /\ Passes(cs, SubSeq(cs, 1, Target)) /\ SubSeq(cs, 1, Target) \in Seq(Acts)
<1>1. cs \in Seq(Acts) /\ Len(cs) \in Nat
  BY InvFacts
<1>2. Target \in 1 .. Len(cs) - 1
  BY TargetFacts
<1> DEFINE n == Target - 1
           m == Target
<1>3. /\ n \in 0 .. Len(cs) /\ \A i \in n + 1 .. Len(cs) : i \in 1 .. Len(cs) /\ ~(i <= n)
      /\ m \in 0 .. Len(cs) /\ \A i \in m + 1 .. Len(cs) : i \in n + 1 .. Len(cs)
  BY ONLY <1>1, <1>2
<1>4. \A i \in 1 .. Len(cs) : Protective(cs[i]) => i <= n
  <2> SUFFICES ASSUME NEW i \in 1 .. Len(cs), Protective(cs[i]), ~(i <= Target - 1)
        PROVE  FALSE
    OBVIOUS
  <2>1. Catcher.of = "close"
    BY ClosingCaught
  <2> QED
    BY ONLY <2>1, Catcher.of = "resume"
<1> HIDE DEF n, m
<1>5. \A i \in n + 1 .. Len(cs) : ~Protective(cs[i])
  BY ONLY <1>3, <1>4
<1>6. \A i \in m + 1 .. Len(cs) : ~Protective(cs[i])
  BY ONLY <1>3, <1>5
<1>7. Passes(cs, SubSeq(cs, 1, n))
  BY ONLY <1>1, <1>3, <1>5, PassesCut
<1>8. Passes(cs, SubSeq(cs, 1, m))
  BY ONLY <1>1, <1>3, <1>6, PassesCut
<1>9. SubSeq(cs, 1, m) \in Seq(Acts)
  BY ONLY <1>1, <1>3
<1> QED
  BY ONLY <1>7, <1>8, <1>9 DEF n, m

(* The frames above the lua_pcallk j, the last one, are cut: it is to      *)
(* close their variables.                                                  *)
LEMMA KeptUnwound ==
  ASSUME NEW c, NEW FR \in Seq(FrameSet), Chain(FR), NEW W \in Seq(VarSet), NEW t,
         Kept(c, FR, W, t), NEW d, Passes(c, d),
         NEW j \in 1 .. Len(FR), FR[j].ypcall, \A q \in j + 1 .. Len(FR) : ~FR[q].ypcall,
         NEW f \in FrameSet, f.func = FR[j].func, f.lua = FR[j].lua, f.clsret = FR[j].clsret,
         f.idx = FR[j].idx, f.ypcall, f.recst # "ok"
  PROVE  Kept(d, Retop(FR, j, f), W, t)
<1> DEFINE GR == Retop(FR, j, f)
<1>1. Pending(W, FR) /\ Covers(c, FR, W, t)
  BY DEF Kept
<1>2. Len(FR) \in Nat /\ j - 1 \in 0 .. Len(FR) /\ j \in Nat
  OBVIOUS
<1>3. Len(GR) = j /\ GR[j] = f /\ \A q \in 1 .. j - 1 : GR[q] = FR[q]
  <2> DEFINE n == j - 1
  <2>1. /\ SubSeq(FR, 1, n) \in Seq(FrameSet) /\ Len(SubSeq(FR, 1, n)) = n
        /\ \A q \in 1 .. n : SubSeq(FR, 1, n)[q] = FR[q]
    <3>1. n \in 0 .. Len(FR)
      BY ONLY <1>2
    <3> HIDE DEF n
    <3> QED
      BY ONLY <3>1, FR \in Seq(FrameSet), Chain(FR), ChainCut
  <2>2. n \in Nat /\ n + 1 = j
    BY ONLY <1>2, j \in 1 .. Len(FR)
  <2>3. GR = Append(SubSeq(FR, 1, n), f)
    BY DEF Retop
  <2> HIDE DEF n, GR
  <2>4. Len(GR) = n + 1 /\ GR[n + 1] = f /\ \A q \in 1 .. n : GR[q] = FR[q]
    BY ONLY <2>1, <2>2, <2>3, f \in FrameSet
  <2> QED
    BY ONLY <2>2, <2>4 DEF n
<1> HIDE DEF GR
<1>4. \A p \in 1 .. j : p \in 1 .. Len(FR) /\ (p \in 1 .. j - 1 \/ p = j)
  BY ONLY <1>2, j \in 1 .. Len(FR)
<1>5. \A p \in 1 .. Len(GR) : /\ p \in 1 .. Len(FR) /\ GR[p].lua = FR[p].lua
                              /\ GR[p].clsret = FR[p].clsret /\ GR[p].func = FR[p].func
  BY ONLY <1>3, <1>4, f.func = FR[j].func, f.lua = FR[j].lua, f.clsret = FR[j].clsret
<1>6. Pending(W, GR)
  BY ONLY <1>1, <1>5 DEF Pending
<1>7. ASSUME NEW i \in 1 .. Len(W), NEW p \in 1 .. Len(FR), Carries(FR[p], W[i])
      PROVE  Holds(GR, W[i])
  <2> DEFINE v == W[i]
  <2>1. /\ v.owner \in Nat /\ v.level \in Nat /\ v.owner < v.level
    BY ONLY <1>1, FR \in Seq(FrameSet), W \in Seq(VarSet), i \in 1 .. Len(W), SlotsInOrder
  <2>2. Carries(FR[p], v)
    BY <1>7
  <2> HIDE DEF v
  <2>3. CASE p \in 1 .. j - 1
    <3>1. p \in 1 .. Len(GR)
      BY ONLY <1>2, <1>3, <2>3
    <3> QED
      BY ONLY <1>3, <2>2, <2>3, <3>1 DEF Holds, v
  <2>4. CASE p = j
    <3>1. Carries(f, v)
      BY ONLY <2>2, <2>4, f.func = FR[j].func, f.clsret = FR[j].clsret, f.idx = FR[j].idx,
              f.ypcall, f.recst # "ok" DEF Carries
    <3>2. j \in 1 .. Len(GR)
      BY ONLY <1>2, <1>3, j \in 1 .. Len(FR)
    <3> QED
      BY ONLY <1>3, <3>1, <3>2 DEF Holds, v
  <2>5. CASE p \in j + 1 .. Len(FR)
    <3>1. v.owner = FR[p].func
      BY ONLY <2>2, <2>5, \A q \in j + 1 .. Len(FR) : ~FR[q].ypcall DEF Carries
    <3>2. FR[j].func < FR[p].func /\ (FR[j].clsret \/ FR[j].idx <= FR[p].func)
      <4>1. j \in 1 .. p - 1
        BY ONLY <1>2, <2>5, j \in 1 .. Len(FR)
      <4> QED
        BY ONLY <4>1, FR \in Seq(FrameSet), Chain(FR), p \in 1 .. Len(FR), FR[j].ypcall, ChainOrder
    <3>3. f.func \in Nat /\ f.idx \in Nat
      BY ONLY f \in FrameSet, FrameFacts
    <3>4. f.idx <= v.level \/ (f.clsret /\ f.func <= v.level)
      BY ONLY <2>1, <3>1, <3>2, <3>3, f.func = FR[j].func, f.clsret = FR[j].clsret,
              f.idx = FR[j].idx
    <3>5. Carries(f, v)
      BY ONLY <3>4, f.ypcall, f.recst # "ok" DEF Carries
    <3>6. j \in 1 .. Len(GR)
      BY ONLY <1>2, <1>3, j \in 1 .. Len(FR)
    <3> QED
      BY ONLY <1>3, <3>5, <3>6 DEF Holds, v
  <2>6. p \in 1 .. j - 1 \/ p = j \/ p \in j + 1 .. Len(FR)
    BY ONLY <1>2, p \in 1 .. Len(FR), j \in 1 .. Len(FR)
  <2> QED
    BY ONLY <2>3, <2>4, <2>5, <2>6
<1>8. \A i \in 1 .. Len(W) : Holds(FR, W[i]) => Holds(GR, W[i])
  <2> SUFFICES ASSUME NEW i \in 1 .. Len(W), Holds(FR, W[i]) PROVE Holds(GR, W[i])
    OBVIOUS
  <2>1. PICK p \in 1 .. Len(FR) : Carries(FR[p], W[i])
    BY DEF Holds
  <2> QED
    BY ONLY <1>7, <2>1, i \in 1 .. Len(W)
<1>9. Covers(d, GR, W, t)
  BY ONLY <1>1, <1>8, Passes(c, d), CoversStill
<1> QED
  BY ONLY <1>6, <1>9 DEF Kept, GR
(* lua_resume gives an error to the lua_pcallk that is to close its        *)
(* variables.                                                              *)
LEMMA RecoverOwned ==
  ASSUME Inv2, Recover
  PROVE  OwnedNext
<1> DEFINE S == RecoverPoints
           FR == ci[L]
           j == CHOOSE j \in S : \A i \in S : i <= j
           f == [FR[j] EXCEPT !.recst = "err"]
           u == [kind |-> "unroll", thread |-> L]
           x == SubSeq(cs, 1, Target)
<1>1. /\ exc = "err" /\ exc \in {"err", "yield", "exception"} /\ Catcher.of = "resume" /\ S # {}
      /\ ci' = [ci EXCEPT ![L] = Append(SubSeq(@, 1, j - 1), [@[j] EXCEPT !.recst = "err"])]
      /\ cs' = Append(x, u) /\ tbc' = tbc /\ status' = status
  BY DEF Recover, Catch
<1>2. /\ Inv1 /\ L \in Thread
      /\ ci \in [Thread -> Seq(FrameSet)] /\ FR \in Seq(FrameSet) /\ Len(FR) \in Nat
      /\ Chain(FR) /\ tbc[L] \in Seq(VarSet) /\ Kept(cs, FR, tbc[L], L)
  BY InvFacts, OwnedNow DEF Inv2
<1>3. x \in Seq(Acts) /\ Passes(cs, x)
  BY ONLY <1>1, <1>2, ResumeCaught
<1>4. j \in 1 .. Len(FR) /\ FR[j].ypcall /\ \A q \in j + 1 .. Len(FR) : ~FR[q].ypcall
  <2>1. /\ S \in SUBSET (0 .. Len(FR)) /\ \A i \in S : i \in 1 .. Len(FR) /\ FR[i].ypcall
        /\ \A q \in 1 .. Len(FR) : FR[q].ypcall => q \in S
    BY <1>2 DEF RecoverPoints
  <2> HIDE DEF S, FR
  <2>2. \E y \in S : \A z \in S : z <= y
    BY ONLY <1>1, <1>2, <2>1, GreatestNumber
  <2>3. j \in S /\ \A i \in S : i <= j
    BY ONLY <2>2
  <2> HIDE DEF j
  <2>4. \A q \in j + 1 .. Len(FR) : q \in 1 .. Len(FR) /\ ~(q <= j)
    BY ONLY <1>2, <2>1, <2>3
  <2> QED
    BY ONLY <2>1, <2>3, <2>4
<1>5. ci' = [ci EXCEPT ![L] = Retop(FR, j, f)]
  <2> HIDE DEF j
  <2> QED
    BY ONLY <1>1, <1>2 DEF Retop
<1> HIDE DEF S, j
<1>6. FR[j] \in FrameSet
  BY ONLY <1>2, <1>4
<1>7. /\ f \in FrameSet /\ f.func = FR[j].func /\ f.lua = FR[j].lua /\ f.clsret = FR[j].clsret
      /\ f.idx = FR[j].idx /\ f.ypcall /\ f.recst # "ok"
  BY ONLY <1>4, <1>6 DEF FrameSet
<1>8. u \in Acts
  BY <1>2 DEF Acts
<1>9. ci'[L] = Retop(FR, j, f) /\ \A t \in Thread : t # L => ci'[t] = ci[t]
  BY ONLY <1>2, <1>5
<1> HIDE DEF f, u, FR, x
<1>10. Passes(cs, cs')
  BY ONLY <1>1, <1>2, <1>3, <1>8, InvFacts, PassesPush
<1>11. Kept(cs', Retop(FR, j, f), tbc[L], L)
  BY ONLY <1>2, <1>4, <1>7, <1>10, KeptUnwound
<1>12. Kept(cs', ci'[L], tbc[L], L)
  BY ONLY <1>9, <1>11
<1>13. Owned(cs', ci', tbc, status)
  BY ONLY <1>9, <1>10, <1>12, Inv2, OwnedRun
<1> QED
  BY ONLY <1>1, <1>13 DEF OwnedNext

(* lua_resume returns from a coroutine that yielded.                       *)
LEMMA YieldedOwned ==
  ASSUME Inv2, Yielded
  PROVE  OwnedNext
<1>1. /\ exc \in {"err", "yield", "exception"} /\ Catcher.of = "resume"
      /\ cs' = SubSeq(cs, 1, Target - 1) /\ ci' = ci /\ tbc' = tbc /\ status' = status
  BY DEF Yielded, Catch
<1>2. Inv1
  BY DEF Inv2
<1>3. Passes(cs, cs')
  BY ONLY <1>1, <1>2, ResumeCaught
<1> QED
  BY ONLY <1>1, <1>3, Inv2, OwnedIdle

(* What a coroutine that dies has pending is for coroutine.close.          *)
LEMMA DieOwned ==
  ASSUME Inv2, Die
  PROVE  OwnedNext
<1>1. /\ exc \in {"err", "yield", "exception"} /\ Catcher.of = "resume"
      /\ cs' = SubSeq(cs, 1, Target - 1) /\ ci' = ci /\ tbc' = tbc
      /\ status' = [status EXCEPT ![L] = "err"]
  BY DEF Die, Catch
<1>2. Inv1 /\ Owned(cs, ci, tbc, status)
  BY DEF Inv2
<1>3. Passes(cs, cs')
  BY ONLY <1>1, <1>2, ResumeCaught
<1>4. L \in Thread /\ Typed(tbc, status, body, errfunc, exc)
  BY <1>2, InvFacts
<1> DEFINE t == L
<1>5. t \in Thread /\ status'[t] = "err" /\ \A u \in Thread : u # t => status'[u] = status[u]
  BY ONLY <1>1, <1>4 DEF Typed
<1> HIDE DEF t
<1>6. Pending(tbc[t], ci[t])
  BY ONLY <1>2, <1>5 DEF Owned
<1>7. Owned(cs', ci, tbc, status')
  <2>1. \A u \in Thread : u # t => ci[u] = ci[u] /\ tbc[u] = tbc[u] /\ status'[u] = status[u]
    BY ONLY <1>5
  <2>2. status'[t] # "err" => Covers(cs', ci[t], tbc[t], t)
    BY ONLY <1>5
  <2> QED
    BY ONLY <1>2, <1>3, <1>5, <1>6, <2>1, <2>2, OwnedStep
<1> QED
  BY ONLY <1>1, <1>7 DEF OwnedNext
-----------------------------------------------------------------------------
(* Coroutines again *)

(* A step that concerns the variables of the coroutine co.                 *)
LEMMA OwnedElsewhere ==
  ASSUME Inv2, NEW co \in Thread, Passes(cs, cs'),
         \A u \in Thread : u # co => ci'[u] = ci[u] /\ tbc'[u] = tbc[u] /\ status'[u] = status[u],
         Kept(cs', ci'[co], tbc'[co], co)
  PROVE  OwnedNext
<1>1. Owned(cs, ci, tbc, status)
  BY DEF Inv2
<1>2. Pending(tbc'[co], ci'[co]) /\ Covers(cs', ci'[co], tbc'[co], co)
  BY DEF Kept
<1> DEFINE d == cs'
           G == ci'
           W == tbc'
           s2 == status'
<1>3. /\ Passes(cs, d) /\ Pending(W[co], G[co]) /\ (s2[co] # "err" => Covers(d, G[co], W[co], co))
      /\ \A u \in Thread : u # co => G[u] = ci[u] /\ W[u] = tbc[u] /\ s2[u] = status[u]
  BY <1>2
<1> HIDE DEF d, G, W, s2
<1>4. Owned(d, G, W, s2)
  BY ONLY <1>1, <1>3, co \in Thread, OwnedStep
<1> QED
  BY ONLY <1>4 DEF OwnedNext, d, G, W, s2

(* A coroutine without pending variables.                                  *)
LEMMA KeptNone ==
  ASSUME NEW c, NEW FR, NEW W, NEW t, Len(W) = 0
  PROVE  Kept(c, FR, W, t)
BY DEF Kept, Pending, Covers

(* A new thread has no variables.                                          *)
LEMMA CreateOwned ==
  ASSUME Inv2, NEW co \in Thread, Create(co)
  PROVE  OwnedNext
<1>1. /\ tbc' = [tbc EXCEPT ![co] = <<>>] /\ ci' = [ci EXCEPT ![co] = <<>>]
      /\ status' = [status EXCEPT ![co] = "ok"] /\ cs' = cs
  BY DEF Create
<1>2. /\ tbc \in [Thread -> Seq(VarSet)] /\ ci \in [Thread -> Seq(FrameSet)]
      /\ Typed(tbc, status, body, errfunc, exc)
  BY InvFacts DEF Inv2
<1>3. status \in [Thread -> {"ok", "yield", "err"}]
  BY ONLY <1>2 DEF Typed
<1>4. /\ tbc'[co] = <<>>
      /\ \A u \in Thread : u # co => ci'[u] = ci[u] /\ tbc'[u] = tbc[u] /\ status'[u] = status[u]
  BY ONLY <1>1, <1>2, <1>3, co \in Thread
<1>5. Len(tbc'[co]) = 0
  BY ONLY <1>4
<1>6. Kept(cs', ci'[co], tbc'[co], co)
  BY ONLY <1>5, KeptNone
<1>7. Passes(cs, cs')
  BY ONLY <1>1, PassesSame
<1> QED
  BY ONLY <1>4, <1>6, <1>7, Inv2, co \in Thread, OwnedElsewhere

(* luaE_resetthread is to close all that is pending.                       *)
LEMMA CloseCoroutineOwned ==
  ASSUME Inv2, NEW co \in Thread, CloseCoroutine(co)
  PROVE  OwnedNext
<1>1. tbc' = tbc
  BY DEF CloseCoroutine
<1>2. /\ cs \in Seq(Acts) /\ Len(cs) \in Nat /\ ci \in [Thread -> Seq(FrameSet)]
      /\ tbc \in [Thread -> Seq(VarSet)] /\ Typed(tbc, status, body, errfunc, exc)
      /\ Owned(cs, ci, tbc, status)
  BY InvFacts DEF Inv2
<1>3. CASE ci' = ci /\ status' = status /\ cs' = cs
  <2>1. Passes(cs, cs')
    BY ONLY <1>3, PassesSame
  <2> QED
    BY ONLY <1>1, <1>3, <2>1, Inv2, OwnedIdle
<1>4. CASE \E x, y : /\ ci' = [ci EXCEPT ![co] = <<>>]
                     /\ status' = [status EXCEPT ![co] = "ok"]
                     /\ cs' = cs \o <<x, y, Closing(co, 1, FALSE, "protected")>>
  <2>1. PICK x, y : /\ ci' = [ci EXCEPT ![co] = <<>>]
                    /\ status' = [status EXCEPT ![co] = "ok"]
                    /\ cs' = cs \o <<x, y, Closing(co, 1, FALSE, "protected")>>
    BY ONLY <1>4
  <2> DEFINE z == Closing(co, 1, FALSE, "protected")
             n == Len(cs) + 3
  <2>2. Protective(z) /\ z.thread = co /\ z.level = 1
    BY DEF Closing, Protective
  <2>3. cs' = cs \o <<x, y, z>>
    BY ONLY <2>1
  <2> HIDE DEF z
  <2>4. /\ Len(cs') = n /\ cs'[n] = z /\ n \in 1 .. n
        /\ \A i \in 1 .. Len(cs) : cs'[i] = cs[i] /\ i \in 1 .. n
    BY ONLY <1>2, <2>3
  <2> HIDE DEF n
  <2>5. Passes(cs, cs')
    BY ONLY <2>4 DEF Passes
  <2>6. status \in [Thread -> {"ok", "yield", "err"}]
    BY ONLY <1>2 DEF Typed
  <2>7. /\ ci'[co] = <<>>
        /\ \A u \in Thread : u # co => ci'[u] = ci[u] /\ tbc'[u] = tbc[u] /\ status'[u] = status[u]
    BY ONLY <1>1, <1>2, <2>1, <2>6, co \in Thread
  <2>8. Pending(tbc[co], ci[co])
    BY ONLY <1>2, co \in Thread DEF Owned
  <2>9. Pending(tbc[co], ci'[co])
    <3>1. Len(ci'[co]) = 0
      BY ONLY <2>7
    <3> QED
      BY ONLY <2>8, <3>1 DEF Pending
  <2>10. ASSUME NEW i \in 1 .. Len(tbc[co]) PROVE Covered(cs', ci'[co], co, tbc[co][i])
    <3>1. ci[co] \in Seq(FrameSet) /\ tbc[co] \in Seq(VarSet)
      BY ONLY <1>2, co \in Thread
    <3>2. /\ tbc[co][i].owner \in Nat /\ tbc[co][i].level \in Nat
          /\ tbc[co][i].owner < tbc[co][i].level
      BY ONLY <2>8, <3>1, i \in 1 .. Len(tbc[co]), SlotsInOrder
    <3>3. z.level <= tbc[co][i].level
      BY ONLY <2>2, <3>2
    <3> QED
      BY ONLY <2>2, <2>4, <3>3 DEF Covered
  <2>11. Kept(cs', ci'[co], tbc'[co], co)
    BY ONLY <1>1, <2>9, <2>10 DEF Kept, Covers
  <2> QED
    BY ONLY <2>5, <2>7, <2>11, Inv2, co \in Thread, OwnedElsewhere
<1> QED
  BY <1>3, <1>4 DEF CloseCoroutine

-----------------------------------------------------------------------------
(* lua_resume: what a coroutine that goes on leaves on the C stack.        *)
LEMMA ResumedOwned ==
  ASSUME Inv2, NEW co, NEW r, NEW u, Resuming(co, r, u), Passes(cs, cs'),
         \A t \in Thread : t # co => ci'[t] = ci[t],
         Kept(cs', ci'[co], tbc[co], co)
  PROVE  OwnedNext
<1>1. /\ co \in Thread /\ \A v \in Thread : v # co => status'[v] = status[v]
  BY ResumedFacts DEF Inv2
<1>2. tbc' = tbc
  BY DEF Resuming
<1>3. /\ \A v \in Thread : v # co => ci'[v] = ci[v] /\ tbc'[v] = tbc[v] /\ status'[v] = status[v]
      /\ Kept(cs', ci'[co], tbc'[co], co)
  BY ONLY <1>1, <1>2, \A t \in Thread : t # co => ci'[t] = ci[t], Kept(cs', ci'[co], tbc[co], co)
<1> QED
  BY ONLY <1>1, <1>3, Inv2, Passes(cs, cs'), OwnedElsewhere

(* lua_resume puts activations on the C stack, and takes none away.        *)
LEMMA ResumePasses ==
  ASSUME Inv2, NEW co, NEW r, NEW u, Resuming(co, r, u)
  PROVE  /\ Passes(cs, Append(Append(cs, r), u))
         /\ \A x \in Acts : Passes(cs, Append(Append(Append(cs, r), u), x))
<1>1. cs \in Seq(Acts)
  BY InvFacts DEF Inv2
<1>2. r \in Acts /\ u \in Acts /\ Append(Append(cs, r), u) \in Seq(Acts)
  BY DEF Resuming, Resumes
<1>3. Append(cs, r) \in Seq(Acts)
  BY ONLY <1>1, <1>2
<1>4. Passes(cs, Append(cs, r))
  BY ONLY <1>1, <1>2, PassesSame, PassesPush
<1> DEFINE b == Append(cs, r)
<1>5. b \in Seq(Acts) /\ Passes(cs, b)
  BY ONLY <1>3, <1>4
<1> HIDE DEF b
<1>6. Passes(cs, Append(b, u)) /\ Append(b, u) \in Seq(Acts)
  BY ONLY <1>1, <1>2, <1>5, PassesPush
<1> DEFINE e == Append(b, u)
<1>7. e \in Seq(Acts) /\ Passes(cs, e)
  BY ONLY <1>6
<1> HIDE DEF e
<1>8. ASSUME NEW x \in Acts PROVE Passes(cs, Append(e, x))
  BY ONLY <1>1, <1>7, x \in Acts, PassesPush
<1> QED
  BY ONLY <1>6, <1>8 DEF e, b
(* The body of a coroutine starts with no pending variables.               *)
LEMMA ResumeBodyOwned ==
  ASSUME Inv2, NEW co, NEW r, NEW u, Resuming(co, r, u), status[co] = "ok",
         NEW G, ci' = [ci EXCEPT ![co] = G], Passes(cs, cs')
  PROVE  OwnedNext
<1>1. /\ ci \in [Thread -> Seq(FrameSet)] /\ co \in Thread
      /\ \A i \in 1 .. Len(cs) : cs[i].thread # co
  BY ResumedFacts DEF Inv2
<1>2. Suspended(co)
  BY DEF Resuming
<1>3. ci[co] = <<>>
  BY ONLY <1>2, status[co] = "ok" DEF Suspended, NotStarted
<1>4. tbc[co] \in Seq(VarSet) /\ Covers(cs, ci[co], tbc[co], co)
  <2>1. tbc \in [Thread -> Seq(VarSet)] /\ Owned(cs, ci, tbc, status)
    BY InvFacts DEF Inv2
  <2> QED
    BY ONLY <1>1, <2>1, status[co] = "ok" DEF Owned
<1>5. Len(tbc[co]) = 0
  <2> SUFFICES ASSUME Len(tbc[co]) # 0 PROVE FALSE
    OBVIOUS
  <2>1. 1 \in 1 .. Len(tbc[co])
    BY ONLY <1>4, Len(tbc[co]) # 0
  <2>2. Covered(cs, ci[co], co, tbc[co][1])
    BY ONLY <1>4, <2>1 DEF Covers
  <2>3. ~Holds(ci[co], tbc[co][1])
    BY ONLY <1>3 DEF Holds
  <2> QED
    BY ONLY <1>1, <2>2, <2>3 DEF Covered
<1>6. Kept(cs', ci'[co], tbc[co], co)
  BY ONLY <1>5, KeptNone
<1>7. \A t \in Thread : t # co => ci'[t] = ci[t]
  BY ONLY <1>1, ci' = [ci EXCEPT ![co] = G]
<1> QED
  BY ONLY <1>6, <1>7, Inv2, Resuming(co, r, u), Passes(cs, cs'), ResumedOwned

(* What a suspended coroutine has pending.                                 *)
LEMMA YieldedKept ==
  ASSUME Inv2, NEW co, NEW r, NEW u, Resuming(co, r, u), status[co] = "yield"
  PROVE  /\ Kept(cs, ci[co], tbc[co], co) /\ co \in Thread
         /\ ci \in [Thread -> Seq(FrameSet)] /\ ci[co] \in Seq(FrameSet)
<1>1. /\ ci \in [Thread -> Seq(FrameSet)] /\ co \in Thread
  BY ResumedFacts DEF Inv2
<1>2. Owned(cs, ci, tbc, status)
  BY DEF Inv2
<1>3. status[co] # "err"
  BY ONLY status[co] = "yield"
<1> QED
  BY ONLY <1>1, <1>2, <1>3 DEF Owned, Kept

(* The coroutine goes on in the continuation of a C function.              *)
LEMMA ResumeContinuationOwned ==
  ASSUME Inv2, NEW co, NEW r, NEW u, Resuming(co, r, u), status[co] = "yield", ci' = ci,
         cs' = Append(Append(Append(cs, r), u), Continuation(co))
  PROVE  OwnedNext
<1>1. Kept(cs, ci[co], tbc[co], co) /\ co \in Thread
  BY YieldedKept
<1>2. Continuation(co) \in Acts
  BY <1>1 DEF Continuation, Acts
<1>3. Passes(cs, cs')
  BY <1>2, ResumePasses
<1>4. Kept(cs', ci'[co], tbc[co], co)
  BY ONLY <1>1, <1>3, ci' = ci, KeptSame
<1>5. \A t \in Thread : t # co => ci'[t] = ci[t]
  BY ONLY ci' = ci
<1> QED
  BY ONLY <1>3, <1>4, <1>5, Inv2, Resuming(co, r, u), ResumedOwned

(* The coroutine goes on with the variables that it was closing.           *)
LEMMA ResumeClosingOwned ==
  ASSUME Inv2, NEW co, NEW r, NEW u, Resuming(co, r, u), status[co] = "yield",
         ci' = [ci EXCEPT ![co] = WithTop(co, [Last(ci[co]) EXCEPT !.doing = "return"])],
         cs' = Append(Append(Append(cs, r), u), Closing(co, Last(ci[co]).func, TRUE, "poscall"))
  PROVE  OwnedNext
<1> DEFINE g == Last(ci[co])
           f == [g EXCEPT !.doing = "return"]
           x == Closing(co, g.func, TRUE, "poscall")
<1>1. /\ Kept(cs, ci[co], tbc[co], co) /\ co \in Thread
      /\ ci \in [Thread -> Seq(FrameSet)] /\ ci[co] \in Seq(FrameSet)
  BY YieldedKept
<1>2. /\ ci[co] # <<>> /\ ci[co][Len(ci[co])] = g /\ g \in FrameSet
      /\ WithTop(co, f) = Retop(ci[co], Len(ci[co]), f)
  BY YieldedFacts DEF Inv2
<1>3. g.func \in Nat
  BY ONLY <1>2, FrameFacts
<1>4. x \in Acts
  BY ONLY <1>1, <1>3 DEF Closing, Acts
<1>5. Passes(cs, cs')
  BY <1>4, ResumePasses
<1>6. /\ f \in FrameSet /\ f.func = g.func /\ f.lua = g.lua /\ f.clsret = g.clsret
      /\ f.ypcall = g.ypcall /\ f.recst = g.recst /\ f.idx = g.idx
  BY ONLY <1>2 DEF FrameSet
<1>7. ci'[co] = Retop(ci[co], Len(ci[co]), f) /\ \A t \in Thread : t # co => ci'[t] = ci[t]
  <2>1. ci' = [ci EXCEPT ![co] = WithTop(co, f)]
    OBVIOUS
  <2> HIDE DEF f
  <2> QED
    BY ONLY <1>1, <1>2, <2>1
<1> HIDE DEF f, g, x
<1>8. \A i \in 1 .. Len(tbc[co]) : Carries(g, tbc[co][i]) => Carries(f, tbc[co][i])
  BY ONLY <1>6, CarriesToo
<1>9. /\ f.func = ci[co][Len(ci[co])].func /\ f.lua = ci[co][Len(ci[co])].lua
      /\ ci[co][Len(ci[co])].clsret => f.clsret
      /\ \A i \in 1 .. Len(tbc[co]) :
           Carries(ci[co][Len(ci[co])], tbc[co][i]) => Carries(f, tbc[co][i])
  BY ONLY <1>2, <1>6, <1>8
<1>10. Kept(cs', Retop(ci[co], Len(ci[co]), f), tbc[co], co)
  BY ONLY <1>1, <1>2, <1>5, <1>6, <1>9, KeptRetop
<1>11. Kept(cs', ci'[co], tbc[co], co)
  BY ONLY <1>7, <1>10
<1> QED
  BY ONLY <1>5, <1>7, <1>11, Inv2, Resuming(co, r, u), ResumedOwned

(* The coroutine goes on, and its last frame has ended.                    *)
LEMMA ResumeEndOwned ==
  ASSUME Inv2, NEW co, NEW r, NEW u, Resuming(co, r, u), status[co] = "yield",
         ~Last(ci[co]).clsret, ci' = [ci EXCEPT ![co] = Front(@)],
         cs' = Append(Append(cs, r), u)
  PROVE  OwnedNext
<1> DEFINE g == Last(ci[co])
           W == tbc[co]
<1>1. /\ Kept(cs, ci[co], W, co) /\ co \in Thread
      /\ ci \in [Thread -> Seq(FrameSet)] /\ ci[co] \in Seq(FrameSet)
  BY YieldedKept
<1>2. /\ ci[co] # <<>> /\ ci[co][Len(ci[co])] = g /\ ~g.lua /\ ~g.ypcall
      /\ Len(ci[co]) \in 1 .. Len(ci[co])
      /\ Front(ci[co]) = SubSeq(ci[co], 1, Len(ci[co]) - 1)
  BY YieldedFacts DEF Inv2
<1>3. Passes(cs, cs')
  BY ResumePasses
<1>4. ~g.clsret
  OBVIOUS
<1>5. ci'[co] = SubSeq(ci[co], 1, Len(ci[co]) - 1) /\ \A t \in Thread : t # co => ci'[t] = ci[t]
  BY ONLY <1>1, <1>2, ci' = [ci EXCEPT ![co] = Front(@)]
<1> HIDE DEF g, W
<1>6. \A i \in 1 .. Len(W) : ~Carries(ci[co][Len(ci[co])], W[i])
  <2>1. Pending(W, ci[co])
    BY ONLY <1>1 DEF Kept
  <2>2. \A i \in 1 .. Len(W) : W[i].owner # g.func
    BY ONLY <1>2, <1>4, <2>1 DEF Pending
  <2>3. \A i \in 1 .. Len(W) : ~Carries(g, W[i])
    BY ONLY <1>2, <2>2 DEF Carries
  <2> QED
    BY ONLY <1>2, <2>3
<1>7. Kept(cs', SubSeq(ci[co], 1, Len(ci[co]) - 1), W, co)
  BY ONLY <1>1, <1>2, <1>3, <1>6, KeptPop
<1>8. Kept(cs', ci'[co], tbc[co], co)
  BY ONLY <1>5, <1>7 DEF W
<1> QED
  BY ONLY <1>3, <1>5, <1>8, Inv2, Resuming(co, r, u), ResumedOwned

(* lua_resume leaves every variable to its owner.                          *)
LEMMA ResumeOwned ==
  ASSUME Inv2, NEW co \in Coroutine, Resume(co)
  PROVE  OwnedNext
<1> DEFINE z == [kind |-> "exec", thread |-> co, inc |-> 0]
<1>1. PICK r, u :
        /\ Resuming(co, r, u)
        /\ LET base == Append(Append(cs, r), u)
               over == nC[L] + 1 = LUAI_MAXCCALLS
           IN  \/ /\ status[co] = "ok"
                  /\ ci' = [ci EXCEPT ![co] =
                              IF over THEN <<>> ELSE << Frame(TRUE, TRUE, 1) >>]
                  /\ cs' = IF over THEN base ELSE Append(base, z)
               \/ /\ status[co] = "yield"
                  /\ \/ /\ Last(ci[co]).k /\ ci' = ci
                        /\ cs' = Append(base, Continuation(co))
                     \/ /\ ~Last(ci[co]).k /\ Last(ci[co]).clsret
                        /\ ci' = [ci EXCEPT ![co] =
                             WithTop(co, [Last(ci[co]) EXCEPT !.doing = "return"])]
                        /\ cs' = Append(base, Closing(co, Last(ci[co]).func, TRUE, "poscall"))
                     \/ /\ ~Last(ci[co]).k /\ ~Last(ci[co]).clsret
                        /\ ci' = [ci EXCEPT ![co] = Front(@)]
                        /\ cs' = base
  <2>1. Inv1
    BY DEF Inv2
  <2> QED
    BY ONLY <2>1, co \in Coroutine, Resume(co), ResumeBegins
<1>2. z \in Acts
  BY DEF Coroutine, Acts
<1>3. /\ Passes(cs, Append(Append(cs, r), u))
      /\ Passes(cs, Append(Append(Append(cs, r), u), z))
  BY ONLY <1>1, <1>2, Inv2, ResumePasses
<1> HIDE DEF z
<1>4. CASE status[co] = "ok" /\ \E G, over :
             /\ ci' = [ci EXCEPT ![co] = G]
             /\ cs' = IF over THEN Append(Append(cs, r), u)
                      ELSE Append(Append(Append(cs, r), u), z)
  <2>1. Passes(cs, cs')
    BY ONLY <1>3, <1>4
  <2> QED
    BY ONLY <1>1, <1>4, <2>1, Inv2, ResumeBodyOwned
<1>5. CASE status[co] = "yield" /\ ci' = ci
           /\ cs' = Append(Append(Append(cs, r), u), Continuation(co))
  BY ONLY <1>1, <1>5, Inv2, ResumeContinuationOwned
<1>6. CASE /\ status[co] = "yield"
           /\ ci' = [ci EXCEPT ![co] = WithTop(co, [Last(ci[co]) EXCEPT !.doing = "return"])]
           /\ cs' = Append(Append(Append(cs, r), u),
                           Closing(co, Last(ci[co]).func, TRUE, "poscall"))
  BY ONLY <1>1, <1>6, Inv2, ResumeClosingOwned
<1>7. CASE /\ status[co] = "yield" /\ ~Last(ci[co]).clsret
           /\ ci' = [ci EXCEPT ![co] = Front(@)] /\ cs' = Append(Append(cs, r), u)
  BY ONLY <1>1, <1>7, Inv2, ResumeEndOwned
<1> QED
  BY ONLY <1>1, <1>4, <1>5, <1>6, <1>7
-----------------------------------------------------------------------------
(* No thread has variables at first.                                       *)
LEMMA InitOwned ==
  ASSUME Init
  PROVE  Inv2
<1>1. Inv1
  BY InitWhole
<1>2. tbc = [t \in Thread |-> <<>>]
  BY DEF Init
<1>3. ASSUME NEW t \in Thread PROVE Pending(tbc[t], ci[t]) /\ Covers(cs, ci[t], tbc[t], t)
  <2>1. Len(tbc[t]) = 0
    BY ONLY <1>2, t \in Thread
  <2> QED
    BY ONLY <2>1 DEF Pending, Covers
<1>4. Owned(cs, ci, tbc, status)
  BY ONLY <1>3 DEF Owned
<1> QED
  BY ONLY <1>1, <1>4 DEF Inv2

(* What every step does: the variables that were owned are, of every       *)
(* thread.                                                                 *)
LEMMA StepOwned ==
  ASSUME Inv2, [Next]_vars
  PROVE  OwnedNext
<1>1. CASE Program
  <2>1. CASE StartMain \/ CallLua \/ CallC \/ CallMeta
    BY ONLY <2>1, Inv2, StartMainOwned, CallLuaOwned, CallCOwned, CallMetaOwned
  <2>2. CASE DeclareTbc \/ CloseBlock \/ ReturnLua
    BY ONLY <2>2, Inv2, DeclareTbcOwned, CloseBlockOwned, ReturnLuaOwned
  <2>3. CASE \E k, isLua \in BOOLEAN : CallFromC(k, isLua)
    BY ONLY <2>3, Inv2, CallFromCOwned
  <2>4. CASE \E k, handler, isLua \in BOOLEAN : PcallFromC(k, handler, isLua)
    BY ONLY <2>4, Inv2, PcallFromCOwned
  <2>5. CASE ToClose \/ ReturnC \/ Error \/ Exception
    BY ONLY <2>5, Inv2, ToCloseOwned, ReturnCOwned, IdleOwned
  <2>6. CASE \E k \in BOOLEAN : Yield(k)
    BY ONLY <2>6, Inv2, YieldOwned
  <2>7. ASSUME NEW co \in Coroutine, Create(co) \/ Resume(co) \/ CloseCoroutine(co)
        PROVE  OwnedNext
    <3>1. co \in Thread
      BY DEF Coroutine
    <3> QED
      BY ONLY <2>7, <3>1, Inv2, CreateOwned, ResumeOwned, CloseCoroutineOwned
  <2> QED
    BY ONLY <1>1, <2>1, <2>2, <2>3, <2>4, <2>5, <2>6, <2>7 DEF Program
<1>2. CASE Machine
  <2>1. CASE RepeatClose \/ PcallkReturns \/ PcallReturns \/ CloseNext \/ BlockClosed
             \/ FunctionClosed
    BY ONLY <2>1, Inv2, RepeatCloseOwned, PcallkReturnsOwned, PcallReturnsOwned,
            CloseNextOwned, BlockClosedOwned, FunctionClosedOwned
  <2>2. CASE PcallkClosed \/ ProtectedClosed \/ FinishCcall \/ FinishLua \/ Finish
    BY ONLY <2>2, Inv2, PcallkClosedOwned, ProtectedClosedOwned, FinishCcallOwned,
            FinishLuaOwned, FinishOwned
  <2>3. CASE Raise \/ HandlerReturns \/ CaughtByPcall \/ CaughtWhileClosing
    BY ONLY <2>3, Inv2, RaiseOwned, IdleOwned, CaughtByPcallOwned, CaughtWhileClosingOwned
  <2>4. CASE Recover \/ Die \/ Yielded
    BY ONLY <2>4, Inv2, RecoverOwned, DieOwned, YieldedOwned
  <2> QED
    BY ONLY <1>2, <2>1, <2>2, <2>3, <2>4 DEF Machine
<1>3. CASE UNCHANGED vars
  <2>1. cs' = cs /\ ci' = ci /\ tbc' = tbc /\ status' = status
    BY <1>3 DEF vars
  <2>2. Passes(cs, cs')
    BY ONLY <2>1, PassesSame
  <2> QED
    BY ONLY <2>1, <2>2, Inv2, OwnedIdle
<1> QED
  BY ONLY <1>1, <1>2, <1>3, [Next]_vars DEF Next

(* The inductive invariant of the theorem below is kept by every step.     *)
LEMMA NextOwned ==
  ASSUME Inv2, [Next]_vars
  PROVE  Inv2'
<1>1. OwnedNext
  BY StepOwned
<1>2. Inv1'
  <2>1. Inv1
    BY DEF Inv2
  <2> QED
    BY ONLY <2>1, [Next]_vars, NextKeeps
<1> QED
  BY ONLY <1>1, <1>2 DEF Inv2, OwnedNext

(* A variable with an owner is not forgotten.                              *)
LEMMA OwnedIsKept ==
  ASSUME Inv2
  PROVE  NoneForgotten
<1> SUFFICES ASSUME NEW t \in Thread, NEW i \in 1 .. Len(tbc[t]), status[t] # "err"
             PROVE  \/ \E f \in Frames(t) : f.func = tbc[t][i].owner
                    \/ \E k \in Activations(t) :
                         cs[k].kind = "close" /\ cs[k].level <= tbc[t][i].level
                    \/ \E f \in Frames(t) :
                         /\ f.ypcall /\ f.recst # "ok"
                         /\ \/ f.idx <= tbc[t][i].level
                            \/ f.clsret /\ f.func <= tbc[t][i].level
  BY DEF NoneForgotten
<1>1. Covered(cs, ci[t], t, tbc[t][i])
  BY DEF Inv2, Owned, Covers
<1>2. CASE Holds(ci[t], tbc[t][i])
  <2>1. PICK p \in 1 .. Len(ci[t]) : Carries(ci[t][p], tbc[t][i])
    BY ONLY <1>2 DEF Holds
  <2>2. ci[t][p] \in Frames(t)
    BY ONLY <2>1 DEF Frames
  <2> QED
    BY ONLY <2>1, <2>2 DEF Carries
<1>3. CASE ~Holds(ci[t], tbc[t][i])
  <2>1. PICK k \in 1 .. Len(cs) :
          Protective(cs[k]) /\ cs[k].thread = t /\ cs[k].level <= tbc[t][i].level
    BY ONLY <1>1, <1>3 DEF Covered
  <2>2. k \in Activations(t) /\ cs[k].kind = "close"
    BY ONLY <2>1 DEF Activations, Protective
  <2> QED
    BY ONLY <2>1, <2>2
<1> QED
  BY ONLY <1>2, <1>3

(* No to-be-closed variable is forgotten.  A thread that is not dead has,  *)
(* for each one that is pending, the function that declared it, a          *)
(* lua_pcallk that is to close it, or luaD_closeprotected at work on it,   *)
(* whatever errors, yields and resumes have cut the stack down             *)
(* (luaF_close, luaD_closeprotected, finishpcallk, lua_resume).            *)
THEOREM NoVariableForgotten == Spec => []NoneForgotten
<1>1. Inv2 => NoneForgotten
  BY OwnedIsKept
<1> QED
  BY <1>1, InitOwned, NextOwned, PTL DEF Spec
-----------------------------------------------------------------------------
(* Message handlers *)

(* A protected call of luaD_pcall by the thread t, or what is left of one  *)
(* that caught an error: it will put errfunc back.                         *)
Catches(r, t) == r.thread = t /\ (r.kind = "caught" \/ (r.kind = "try" /\ r.of = "pcall"))

(* So will a lua_pcallk, one of the n lowest frames.                       *)
InPcall(FR, n) == \E p \in 1 .. n : FR[p].ypcall
InCatch(c, n, t) == \E i \in 1 .. n : Catches(c[i], t)

(* The handler e of the thread t, and those that its protected calls are   *)
(* to put back, are of a protected call that is not over.                  *)
Pledged(c, FR, e, t) ==
  /\ e # 0 => "handler" \in Uses /\ (InPcall(FR, Len(FR)) \/ InCatch(c, Len(c), t))
  /\ \A p \in 1 .. Len(FR) : FR[p].ypcall /\ FR[p].olderr # 0 =>
       "handler" \in Uses /\ InPcall(FR, p - 1)
  /\ \A i \in 1 .. Len(c) : Catches(c[i], t) /\ c[i].errfunc # 0 =>
       "handler" \in Uses /\ (InPcall(FR, Len(FR)) \/ InCatch(c, i - 1, t))

Handled(c, F, E) == \A t \in Thread : Pledged(c, F[t], E[t], t)
Inv3 == Inv1 /\ Handled(cs, ci, errfunc)

(* The C stacks c and d have the same protected calls of the thread t.     *)
SameCatches(c, d, t) ==
  /\ \A i \in 1 .. Len(c) : Catches(c[i], t) =>
       i \in 1 .. Len(d) /\ Catches(d[i], t) /\ d[i].errfunc = c[i].errfunc
  /\ \A i \in 1 .. Len(d) : Catches(d[i], t) =>
       i \in 1 .. Len(c) /\ Catches(c[i], t) /\ d[i].errfunc = c[i].errfunc

(* The frames FR and GR have the same lua_pcallk.                          *)
SamePcalls(FR, GR) ==
  /\ \A p \in 1 .. Len(FR) : FR[p].ypcall =>
       p \in 1 .. Len(GR) /\ GR[p].ypcall /\ GR[p].olderr = FR[p].olderr
  /\ \A p \in 1 .. Len(GR) : GR[p].ypcall =>
       p \in 1 .. Len(FR) /\ FR[p].ypcall /\ GR[p].olderr = FR[p].olderr

(* The same frames have the same lua_pcallk.                               *)
LEMMA PcallsSame ==
  ASSUME NEW FR
  PROVE  SamePcalls(FR, FR)
BY DEF SamePcalls

(* The same C stack has the same protected calls.                          *)
LEMMA CatchesSame ==
  ASSUME NEW c, NEW t
  PROVE  SameCatches(c, c, t)
BY DEF SameCatches

(* What is no protected call of the thread may be pushed.                  *)
LEMMA CatchesPush ==
  ASSUME NEW S, NEW c, NEW d \in Seq(S), NEW t, SameCatches(c, d, t), NEW r \in S, ~Catches(r, t)
  PROVE  SameCatches(c, Append(d, r), t)
<1> DEFINE e == Append(d, r)
<1>1. /\ Len(d) \in Nat /\ Len(e) = Len(d) + 1 /\ e[Len(d) + 1] = r
      /\ \A k \in 1 .. Len(d) : e[k] = d[k]
  OBVIOUS
<1> HIDE DEF e
<1>2. /\ \A i \in 1 .. Len(d) : i \in 1 .. Len(e)
      /\ \A i \in 1 .. Len(e) : i \in 1 .. Len(d) \/ i = Len(d) + 1
  BY ONLY <1>1
<1>3. SameCatches(c, e, t)
  <2>1. \A i \in 1 .. Len(e) : Catches(e[i], t) => i \in 1 .. Len(d) /\ e[i] = d[i]
    BY ONLY <1>1, <1>2, ~Catches(r, t)
  <2>2. \A i \in 1 .. Len(d) : i \in 1 .. Len(e) /\ e[i] = d[i]
    BY ONLY <1>1, <1>2
  <2> QED
    BY ONLY <2>1, <2>2, SameCatches(c, d, t) DEF SameCatches
<1> QED
  BY ONLY <1>3 DEF e

(* It may be cut off too.                                                  *)
LEMMA CatchesCut ==
  ASSUME NEW c \in Seq(Acts), NEW t, NEW n \in 0 .. Len(c),
         \A i \in n + 1 .. Len(c) : ~Catches(c[i], t)
  PROVE  SameCatches(c, SubSeq(c, 1, n), t)
<1> DEFINE d == SubSeq(c, 1, n)
<1>1. n \in Nat /\ Len(c) \in Nat /\ n <= Len(c)
  OBVIOUS
<1>2. Len(d) = n /\ \A k \in 1 .. n : d[k] = c[k] /\ k \in 1 .. Len(c)
  BY <1>1
<1> HIDE DEF d
<1>3. \A i \in 1 .. Len(c) : i \in 1 .. n \/ i \in n + 1 .. Len(c)
  BY ONLY <1>1
<1>4. SameCatches(c, d, t)
  BY <1>2, <1>3 DEF SameCatches
<1> QED
  BY <1>4 DEF d

(* It may go away when it is at the top.                                   *)
LEMMA CatchesPop ==
  ASSUME NEW c \in Seq(Acts), NEW t, Len(c) > 0, ~Catches(c[Len(c)], t)
  PROVE  SameCatches(c, Popped(c), t)
<1>1. Len(c) \in Nat
  OBVIOUS
<1>2. Len(c) - 1 \in 0 .. Len(c) /\ \A i \in (Len(c) - 1) + 1 .. Len(c) : i = Len(c)
  BY ONLY <1>1, Len(c) > 0
<1>3. \A i \in (Len(c) - 1) + 1 .. Len(c) : ~Catches(c[i], t)
  BY ONLY <1>2, ~Catches(c[Len(c)], t)
<1> QED
  BY ONLY <1>2, <1>3, c \in Seq(Acts), CatchesCut DEF Popped

(* A new frame.                                                            *)
LEMMA PcallsPush ==
  ASSUME NEW FR \in Seq(FrameSet), NEW GR \in Seq(FrameSet), SamePcalls(FR, GR),
         NEW f \in FrameSet, ~f.ypcall
  PROVE  SamePcalls(FR, Append(GR, f))
<1> DEFINE H == Append(GR, f)
<1>1. /\ Len(GR) \in Nat /\ Len(H) = Len(GR) + 1 /\ H[Len(GR) + 1] = f
      /\ \A k \in 1 .. Len(GR) : H[k] = GR[k]
  OBVIOUS
<1> HIDE DEF H
<1>2. /\ \A i \in 1 .. Len(GR) : i \in 1 .. Len(H)
      /\ \A i \in 1 .. Len(H) : i \in 1 .. Len(GR) \/ i = Len(GR) + 1
  BY ONLY <1>1
<1>3. \A i \in 1 .. Len(H) : H[i].ypcall => i \in 1 .. Len(GR) /\ H[i] = GR[i]
  BY ONLY <1>1, <1>2, ~f.ypcall
<1>4. SamePcalls(FR, H)
  BY ONLY <1>1, <1>2, <1>3, SamePcalls(FR, GR) DEF SamePcalls
<1> QED
  BY ONLY <1>4 DEF H

(* The frames are cut above the frames of lua_pcallk, and the last one of  *)
(* those that are left may change, as long as it is the same lua_pcallk.   *)
LEMMA PcallsCut ==
  ASSUME NEW FR \in Seq(FrameSet), NEW m \in 0 .. Len(FR),
         \A q \in m + 1 .. Len(FR) : ~FR[q].ypcall,
         NEW GR, Len(GR) = m,
         \A q \in 1 .. m : GR[q].ypcall = FR[q].ypcall /\ GR[q].olderr = FR[q].olderr
  PROVE  SamePcalls(FR, GR)
<1>1. m \in Nat /\ Len(FR) \in Nat /\ m <= Len(FR)
  OBVIOUS
<1>2. \A i \in 1 .. Len(FR) : i \in 1 .. m \/ i \in m + 1 .. Len(FR)
  BY ONLY <1>1
<1>3. \A i \in 1 .. m : i \in 1 .. Len(FR)
  BY ONLY <1>1
<1> QED
  BY <1>2, <1>3 DEF SamePcalls

(* The frame at the top, not of a lua_pcallk, goes away.                   *)
LEMMA PcallsPop ==
  ASSUME NEW FR \in Seq(FrameSet), FR # <<>>, ~FR[Len(FR)].ypcall
  PROVE  SamePcalls(FR, SubSeq(FR, 1, Len(FR) - 1))
<1> DEFINE m == Len(FR) - 1
           GR == SubSeq(FR, 1, m)
<1>1. Len(FR) \in Nat /\ Len(FR) > 0
  OBVIOUS
<1>2. m \in 0 .. Len(FR) /\ m \in Nat /\ m <= Len(FR) /\ \A q \in m + 1 .. Len(FR) : q = Len(FR)
  BY ONLY <1>1
<1> HIDE DEF m
<1>3. Len(GR) = m /\ \A q \in 1 .. m : GR[q] = FR[q]
  BY <1>1, <1>2
<1> HIDE DEF GR
<1>4. SamePcalls(FR, GR)
  BY ONLY <1>2, <1>3, FR \in Seq(FrameSet), ~FR[Len(FR)].ypcall, PcallsCut
<1> QED
  BY ONLY <1>4 DEF GR, m

(* The frame at the top changes, and stays that of the same lua_pcallk or  *)
(* of none.                                                                *)
LEMMA PcallsRetop ==
  ASSUME NEW FR \in Seq(FrameSet), NEW j \in 1 .. Len(FR),
         \A q \in j + 1 .. Len(FR) : ~FR[q].ypcall,
         NEW f \in FrameSet, f.ypcall = FR[j].ypcall, f.olderr = FR[j].olderr
  PROVE  SamePcalls(FR, Retop(FR, j, f))
<1> DEFINE GR == Retop(FR, j, f)
<1>1. j \in Nat /\ Len(FR) \in Nat /\ j > 0 /\ j <= Len(FR) /\ j \in 0 .. Len(FR)
  OBVIOUS
<1>2. Len(GR) = j /\ GR[j] = f /\ \A q \in 1 .. j - 1 : GR[q] = FR[q]
  BY <1>1 DEF Retop
<1> HIDE DEF GR
<1>3. \A q \in 1 .. j : q = j \/ q \in 1 .. j - 1
  BY ONLY <1>1
<1>4. \A q \in 1 .. j : GR[q].ypcall = FR[q].ypcall /\ GR[q].olderr = FR[q].olderr
  BY ONLY <1>2, <1>3, f.ypcall = FR[j].ypcall, f.olderr = FR[j].olderr
<1>5. SamePcalls(FR, GR)
  BY ONLY <1>1, <1>2, <1>4, FR \in Seq(FrameSet), \A q \in j + 1 .. Len(FR) : ~FR[q].ypcall,
          PcallsCut
<1> QED
  BY ONLY <1>5 DEF GR

(* Nothing changes for the handlers of a thread.                           *)
LEMMA PledgedStill ==
  ASSUME NEW c, NEW FR \in Seq(FrameSet), NEW e, NEW t, Pledged(c, FR, e, t), c \in Seq(Acts),
         NEW d \in Seq(Acts), NEW GR \in Seq(FrameSet), SameCatches(c, d, t), SamePcalls(FR, GR)
  PROVE  Pledged(d, GR, e, t)
<1>1. /\ Len(c) \in Nat /\ Len(d) \in Nat /\ Len(FR) \in Nat /\ Len(GR) \in Nat
  OBVIOUS
<1>2. InPcall(FR, Len(FR)) => InPcall(GR, Len(GR))
  BY ONLY SamePcalls(FR, GR) DEF InPcall, SamePcalls
<1>3. InCatch(c, Len(c), t) => InCatch(d, Len(d), t)
  BY ONLY SameCatches(c, d, t) DEF InCatch, SameCatches
<1>4. ASSUME NEW p \in 1 .. Len(GR), GR[p].ypcall, InPcall(FR, p - 1), p \in 1 .. Len(FR)
      PROVE  InPcall(GR, p - 1)
  <2>1. PICK q \in 1 .. p - 1 : FR[q].ypcall
    BY ONLY <1>4 DEF InPcall
  <2>2. q \in 1 .. Len(FR)
    BY ONLY <1>1, <1>4
  <2>3. GR[q].ypcall
    BY ONLY <2>1, <2>2, SamePcalls(FR, GR) DEF SamePcalls
  <2> QED
    BY ONLY <2>3 DEF InPcall
<1>5. ASSUME NEW i \in 1 .. Len(d), InCatch(c, i - 1, t), i \in 1 .. Len(c)
      PROVE  InCatch(d, i - 1, t)
  <2>1. PICK q \in 1 .. i - 1 : Catches(c[q], t)
    BY ONLY <1>5 DEF InCatch
  <2>2. q \in 1 .. Len(c)
    BY ONLY <1>1, <1>5
  <2>3. Catches(d[q], t)
    BY ONLY <2>1, <2>2, SameCatches(c, d, t) DEF SameCatches
  <2> QED
    BY ONLY <2>3 DEF InCatch
<1>6. \A p \in 1 .. Len(GR) : GR[p].ypcall /\ GR[p].olderr # 0 =>
        "handler" \in Uses /\ InPcall(GR, p - 1)
  BY ONLY <1>4, Pledged(c, FR, e, t), SamePcalls(FR, GR) DEF Pledged, SamePcalls
<1>7. \A i \in 1 .. Len(d) : Catches(d[i], t) /\ d[i].errfunc # 0 =>
        "handler" \in Uses /\ (InPcall(GR, Len(GR)) \/ InCatch(d, i - 1, t))
  BY ONLY <1>2, <1>5, Pledged(c, FR, e, t), SameCatches(c, d, t) DEF Pledged, SameCatches
<1>8. e # 0 => "handler" \in Uses /\ (InPcall(GR, Len(GR)) \/ InCatch(d, Len(d), t))
  BY ONLY <1>2, <1>3, Pledged(c, FR, e, t) DEF Pledged
<1> QED
  BY ONLY <1>6, <1>7, <1>8 DEF Pledged
(* What has caught an error is about to be followed by luaD_closeprotected. *)
LEMMA CaughtIsGuarded ==
  ASSUME Inv1, NEW i \in 1 .. Len(cs), cs[i].kind = "caught"
  PROVE  i + 1 \in 1 .. Len(cs) /\ Guard(cs[i + 1]) /\ cs[i + 1].thread = cs[i].thread
<1>1. Tips(cs, ci) /\ Ready(cs, ci, status, nC, nny, exc) /\ Len(cs) \in Nat
  BY InvFacts
<1>2. Piled(cs)
  BY ONLY <1>1, ReadyTypes
<1>3. i # Len(cs)
  BY ONLY <1>1, cs[i].kind = "caught" DEF Tips
<1>4. i \in Nat /\ i + 1 \in 2 .. Len(cs) /\ (i + 1) - 1 = i
  BY ONLY <1>1, <1>3, i \in 1 .. Len(cs)
<1> DEFINE j == i + 1
<1>5. j \in 2 .. Len(cs) /\ j - 1 = i
  BY ONLY <1>4
<1> HIDE DEF j
<1>6. Kinds(cs[i], cs[j])
  BY ONLY <1>2, <1>5 DEF Piled
<1>7. cs[j].kind = "try" /\ cs[j].of = "close"
  BY ONLY <1>6, cs[i].kind = "caught" DEF Kinds
<1>8. ~First(cs[j])
  BY ONLY <1>7 DEF First
<1>9. Guard(cs[j]) /\ cs[j].thread = cs[i].thread
  BY ONLY <1>6, <1>7, <1>8 DEF Kinds, Guard
<1> QED
  BY ONLY <1>4, <1>9 DEF j

(* At a protected call that is not over, or above it, is a                 *)
(* luaD_rawrunprotected.                                                   *)
LEMMA CatchIsGuarded ==
  ASSUME Inv1, NEW t, NEW i \in 1 .. Len(cs), Catches(cs[i], t)
  PROVE  \E j \in i .. Len(cs) : Guard(cs[j]) /\ cs[j].thread = t
<1>1. Len(cs) \in Nat
  BY InvFacts
<1>2. CASE cs[i].kind = "caught"
  <2>1. i + 1 \in 1 .. Len(cs) /\ Guard(cs[i + 1]) /\ cs[i + 1].thread = t
    BY <1>2, CaughtIsGuarded DEF Catches
  <2>2. i + 1 \in i .. Len(cs)
    BY ONLY <1>1, <2>1, i \in 1 .. Len(cs)
  <2> QED
    BY ONLY <2>1, <2>2
<1>3. CASE cs[i].kind # "caught"
  <2>1. Guard(cs[i]) /\ cs[i].thread = t
    BY ONLY <1>3, Catches(cs[i], t) DEF Catches, Guard
  <2>2. i \in i .. Len(cs)
    BY ONLY <1>1, i \in 1 .. Len(cs)
  <2> QED
    BY ONLY <2>1, <2>2
<1> QED
  BY ONLY <1>2, <1>3

(* The protected calls of luaD_pcall below the running function.           *)
LEMMA GuardIsLower ==
  ASSUME Inv1, exc = "none", Call(cur), NEW j \in 1 .. Len(cs), Guard(cs[j]), cs[j].thread = L
  PROVE  cs[j].depth < Len(ci[L]) /\ cs[j].depth \in Nat
<1>1. /\ Ready(cs, ci, status, nC, nny, exc) /\ cs[Len(cs)] = cur /\ cs[Len(cs)].thread = L
      /\ Len(cs) \in Nat
  BY InvFacts
<1>2. PICK h : h \in [Nat -> Nat] /\ Stack(cs, ci, h) /\ Tip(cs, ci, h, exc)
  BY ONLY <1>1 DEF Ready
<1>3. /\ \A k \in 0 .. Len(cs) : h[k] \in Nat
      /\ cs[1].kind = "main" /\ Fits(cs, ci, h) /\ Segments(cs, h)
  BY ONLY <1>2, StackShape
<1>4. ~First(cs[Len(cs)]) /\ ~Guard(cs[Len(cs)])
  BY ONLY <1>1, Call(cur) DEF Call, First, Guard
<1>5. Len(cs) - 1 \in 1 .. Len(cs) /\ cs[Len(cs) - 1].thread = L /\ Len(cs) - 1 \in Nat
  BY ONLY <1>1, <1>4, BelowTop
<1>6. j # Len(cs) /\ j # 1
  BY ONLY <1>3, <1>4, Guard(cs[j]) DEF Guard
<1> DEFINE n == Len(cs) - 1
<1>7. j \in 2 .. Len(cs) /\ j <= n /\ n \in 1 .. Len(cs) /\ n \in 0 .. Len(cs) /\ j \in 0 .. Len(cs)
  BY ONLY <1>1, <1>5, <1>6, j \in 1 .. Len(cs)
<1>8. h[n] < Len(ci[L])
  BY ONLY <1>1, <1>2, exc = "none", Call(cur) DEF Tip
<1>9. cs[n].thread = L
  BY ONLY <1>5
<1> HIDE DEF n
<1>10. h[j] <= h[n]
  BY ONLY <1>3, <1>7, <1>9, cs[j].thread = L, j \in 1 .. Len(cs) DEF Segments
<1>11. cs[j].depth = h[j]
  BY ONLY <1>3, <1>7, Guard(cs[j]) DEF Fits, Fit
<1>12. h[j] \in Nat /\ h[n] \in Nat /\ Len(ci[L]) \in Nat
  BY <1>3, <1>7, InvFacts
<1> QED
  BY ONLY <1>8, <1>10, <1>11, <1>12

(* unroll runs inside no protected call of its coroutine.                  *)
LEMMA UnrollIsBare ==
  ASSUME NEW c, NEW F, NEW s, NEW a, NEW b, NEW e, Ready(c, F, s, a, b, e),
         NEW n \in 1 .. Len(c), c[n].kind = "unroll", NEW t, c[n].thread = t, c[Len(c)].thread = t
  PROVE  \A i \in 1 .. n : ~Catches(c[i], t)
<1>1. PICK h : h \in [Nat -> Nat] /\ Stack(c, F, h)
  BY DEF Ready
<1>2. Piled(c) /\ c[1].kind = "main" /\ Len(c) \in Nat
  BY ReadyTypes
<1>3. n # 1
  BY ONLY <1>2, c[n].kind = "unroll"
<1> DEFINE m == n - 1
<1>4. n \in 2 .. Len(c) /\ m \in 1 .. Len(c) - 1
  BY ONLY <1>2, <1>3, n \in 1 .. Len(c)
<1>5. Kinds(c[m], c[n])
  BY ONLY <1>2, <1>4 DEF Piled
<1> HIDE DEF m
<1>6. ~First(c[n])
  BY ONLY c[n].kind = "unroll" DEF First
<1>7. c[m].kind = "try" /\ c[m].of = "resume" /\ c[m].thread = t
  BY ONLY <1>5, <1>6, c[n].kind = "unroll", c[n].thread = t DEF Kinds
<1>8. Resumed(c, m, t)
  BY ONLY <1>4, <1>7, c[Len(c)].thread = t DEF Resumed
<1>9. \A i \in 1 .. m - 1 : c[i].thread # t
  <2>1. Stack(c, F, h)
    BY ONLY <1>1
  <2>2. /\ \A i \in m .. Len(c) : c[i].thread = t
        /\ \A i \in 1 .. m - 1 : c[i].thread # t
    BY ONLY <1>8, <2>1, Ready(c, F, s, a, b, e), ResumeFacts
  <2> QED
    BY ONLY <2>2
<1>10. \A i \in 1 .. n : i \in 1 .. m - 1 \/ i = m \/ i = n
  BY ONLY <1>2, <1>4 DEF m
<1> QED
  BY ONLY <1>7, <1>9, <1>10, c[n].kind = "unroll" DEF Catches

-----------------------------------------------------------------------------
(* Steps *)
HandledNext == Handled(cs', ci', errfunc')

(* Inv1, after the step, and what it tells of types.                       *)
LEMMA TypesNext == Inv1' => cs' \in Seq(Acts) /\ ci' \in [Thread -> Seq(FrameSet)]
<1>1. Inv1 => cs \in Seq(Acts) /\ ci \in [Thread -> Seq(FrameSet)]
  BY InvFacts
<1>2. Inv1' => (cs \in Seq(Acts) /\ ci \in [Thread -> Seq(FrameSet)])'
  BY <1>1, PTL
<1> QED
  BY <1>2

(* InnermostCatches holds after the step.                                  *)
LEMMA InnermostNext == Inv1' => InnermostCatches'
<1>1. Inv1 => InnermostCatches
  BY InnermostHolds
<1> QED
  BY <1>1, PTL

(* The handlers of the running thread.                                     *)
LEMMA PledgedNow ==
  ASSUME Inv3
  PROVE  Pledged(cs, ci[L], errfunc[L], L)
<1>1. L \in Thread
  BY InvFacts DEF Inv3
<1> QED
  BY <1>1 DEF Inv3, Handled

(* A step concerns the handlers of one thread.                             *)
LEMMA HandledStep ==
  ASSUME Inv3, Inv1', NEW t \in Thread,
         \A u \in Thread : u # t => /\ SameCatches(cs, cs', u)
                                    /\ ci'[u] = ci[u] /\ errfunc'[u] = errfunc[u],
         Pledged(cs', ci'[t], errfunc'[t], t)
  PROVE  HandledNext
<1> DEFINE d == cs'
           G == ci'
           E == errfunc'
<1>1. d \in Seq(Acts) /\ G \in [Thread -> Seq(FrameSet)]
  BY TypesNext
<1>2. cs \in Seq(Acts) /\ ci \in [Thread -> Seq(FrameSet)] /\ Handled(cs, ci, errfunc)
  BY InvFacts DEF Inv3
<1>3. /\ \A u \in Thread : u # t => SameCatches(cs, d, u) /\ G[u] = ci[u] /\ E[u] = errfunc[u]
      /\ Pledged(d, G[t], E[t], t)
  OBVIOUS
<1> HIDE DEF d, G, E
<1>4. ASSUME NEW u \in Thread PROVE Pledged(d, G[u], E[u], u)
  <2>1. CASE u = t
    BY ONLY <1>3, <2>1
  <2>2. CASE u # t
    <3>1. SamePcalls(ci[u], ci[u])
      BY ONLY PcallsSame
    <3>2. Pledged(cs, ci[u], errfunc[u], u) /\ ci[u] \in Seq(FrameSet)
      BY ONLY <1>2, u \in Thread DEF Handled
    <3>3. SameCatches(cs, d, u) /\ G[u] = ci[u] /\ E[u] = errfunc[u]
      BY ONLY <1>3, <2>2, u \in Thread
    <3>4. Pledged(d, ci[u], errfunc[u], u)
      BY ONLY <1>1, <1>2, <3>1, <3>2, <3>3, PledgedStill
    <3> QED
      BY ONLY <3>3, <3>4
  <2> QED
    BY ONLY <2>1, <2>2
<1>5. Handled(d, G, E)
  BY ONLY <1>4 DEF Handled
<1> QED
  BY ONLY <1>5 DEF HandledNext, d, G, E

(* The C stack changes, and the protected calls on it do not.              *)
AllCatches(c, d) == \A t \in Thread : SameCatches(c, d, t)

(* A step of the running thread, that neither begins nor ends a protected  *)
(* call.                                                                   *)
LEMMA HandledRun ==
  ASSUME Inv3, Inv1', AllCatches(cs, cs'), SamePcalls(ci[L], ci'[L]),
         \A u \in Thread : u # L => ci'[u] = ci[u], errfunc' = errfunc
  PROVE  HandledNext
<1> DEFINE t == L
<1>1. /\ t \in Thread /\ cs \in Seq(Acts) /\ ci[t] \in Seq(FrameSet)
      /\ Pledged(cs, ci[t], errfunc[t], t)
  BY PledgedNow, InvFacts DEF Inv3
<1>2. cs' \in Seq(Acts) /\ ci'[t] \in Seq(FrameSet)
  BY <1>1, TypesNext
<1>3. SamePcalls(ci[t], ci'[t]) /\ \A u \in Thread : u # t => ci'[u] = ci[u]
  OBVIOUS
<1> HIDE DEF t
<1>4. Pledged(cs', ci'[t], errfunc[t], t)
  BY ONLY <1>1, <1>2, <1>3, AllCatches(cs, cs'), PledgedStill DEF AllCatches
<1>5. Pledged(cs', ci'[t], errfunc'[t], t)
  BY ONLY <1>4, errfunc' = errfunc
<1>6. \A u \in Thread : u # t => SameCatches(cs, cs', u) /\ ci'[u] = ci[u] /\ errfunc'[u] = errfunc[u]
  BY ONLY <1>3, AllCatches(cs, cs'), errfunc' = errfunc DEF AllCatches
<1> QED
  BY ONLY <1>1, <1>5, <1>6, Inv3, Inv1', HandledStep

(* Only the C stack changes.                                               *)
LEMMA HandledIdle ==
  ASSUME Inv3, Inv1', AllCatches(cs, cs'), ci' = ci, errfunc' = errfunc
  PROVE  HandledNext
<1>1. SamePcalls(ci[L], ci'[L])
  BY ONLY ci' = ci, PcallsSame
<1> QED
  BY ONLY <1>1, Inv3, Inv1', AllCatches(cs, cs'), ci' = ci, errfunc' = errfunc, HandledRun
(* What is not a protected call may come and go on the C stack.            *)
Bare(r) == r.kind # "caught" /\ ~(r.kind = "try" /\ r.of = "pcall")

(* It is no protected call of any thread.                                  *)
LEMMA BareCatchesNot ==
  ASSUME NEW r, Bare(r), NEW t
  PROVE  ~Catches(r, t)
BY DEF Bare, Catches

(* The C stack does not change.                                            *)
LEMMA AllSame ==
  ASSUME NEW c
  PROVE  AllCatches(c, c)
BY CatchesSame DEF AllCatches

(* It may be pushed.                                                       *)
LEMMA AllPush ==
  ASSUME NEW c, NEW d \in Seq(Acts), AllCatches(c, d), NEW r \in Acts, Bare(r)
  PROVE  AllCatches(c, Append(d, r))
<1> SUFFICES ASSUME NEW t \in Thread PROVE SameCatches(c, Append(d, r), t)
  BY DEF AllCatches
<1>1. SameCatches(c, d, t)
  BY DEF AllCatches
<1>2. ~Catches(r, t)
  BY BareCatchesNot
<1> QED
  BY ONLY <1>1, <1>2, d \in Seq(Acts), r \in Acts, CatchesPush

(* Any number of them may be cut off.                                      *)
LEMMA AllCut ==
  ASSUME NEW c \in Seq(Acts), NEW n \in 0 .. Len(c), \A i \in n + 1 .. Len(c) : Bare(c[i])
  PROVE  AllCatches(c, SubSeq(c, 1, n))
<1> SUFFICES ASSUME NEW t \in Thread PROVE SameCatches(c, SubSeq(c, 1, n), t)
  BY DEF AllCatches
<1>1. \A i \in n + 1 .. Len(c) : ~Catches(c[i], t)
  BY BareCatchesNot
<1> QED
  BY ONLY <1>1, c \in Seq(Acts), n \in 0 .. Len(c), CatchesCut

(* It may go away.                                                         *)
LEMMA AllPop ==
  ASSUME NEW c \in Seq(Acts), Len(c) > 0, Bare(c[Len(c)])
  PROVE  AllCatches(c, Popped(c))
<1> SUFFICES ASSUME NEW t \in Thread PROVE SameCatches(c, Popped(c), t)
  BY DEF AllCatches
<1>1. ~Catches(c[Len(c)], t)
  BY BareCatchesNot
<1> QED
  BY ONLY <1>1, c \in Seq(Acts), Len(c) > 0, CatchesPop

(* A step that puts an activation on the C stack, and nothing else.        *)
LEMMA HandledPush ==
  ASSUME Inv3, Inv1', NEW r \in Acts, Bare(r), cs' = Append(cs, r), ci' = ci, errfunc' = errfunc
  PROVE  HandledNext
<1>1. cs \in Seq(Acts)
  BY InvFacts DEF Inv3
<1>2. AllCatches(cs, cs')
  BY ONLY <1>1, r \in Acts, Bare(r), cs' = Append(cs, r), AllSame, AllPush
<1> QED
  BY ONLY <1>2, Inv3, Inv1', ci' = ci, errfunc' = errfunc, HandledIdle

(* The running thread calls a function by ccall, from what 'frames' and    *)
(* 'stack' say.                                                            *)
LEMMA CallChanges ==
  ASSUME Inv3, NEW inc \in 1 .. 2, NEW isLua \in BOOLEAN, NEW func \in Nat, func > 0,
         NEW frames \in Seq(FrameSet), NEW stack \in Seq(Acts),
         CCall(inc, isLua, func, frames, stack)
  PROVE  /\ \A u : SameCatches(stack, cs', u)
         /\ \A c, u : SameCatches(c, stack, u) => SameCatches(c, cs', u)
         /\ SamePcalls(frames, ci'[L])
         /\ \A u \in Thread : u # L => ci'[u] = ci[u]
<1>1. L \in Thread /\ ci \in [Thread -> Seq(FrameSet)]
  BY InvFacts DEF Inv3
<1>2. PICK r \in Acts : CallBy(r, inc, isLua, func, frames, stack)
  BY ONLY <1>1, inc \in 1 .. 2, isLua \in BOOLEAN, func \in Nat, frames \in Seq(FrameSet),
          CCall(inc, isLua, func, frames, stack), FunctionCallMade
<1> DEFINE t == TRUE
           f == Frame(isLua, t, func)
           E == [ci EXCEPT ![L] = frames]
<1>3. f \in FrameSet /\ ~f.ypcall
  <2>1. t \in BOOLEAN
    OBVIOUS
  <2>2. f \in FrameSet
    <3> HIDE DEF t
    <3> QED
      BY ONLY <2>1, isLua \in BOOLEAN, func \in Nat, func > 0, NewFrame
  <2> QED
    BY ONLY <2>2 DEF Frame
<1>4. cs' = Append(stack, r) /\ Call(r) /\ r.thread = L
      /\ CallMade(E, nC, nny, r, f, ci', nC', nny', exc')
  BY <1>2 DEF CallBy
<1>5. E[L] = frames /\ \A u \in Thread : u # L => E[u] = ci[u]
  BY <1>1
<1> HIDE DEF E, f
<1>6. \A u : ~Catches(r, u)
  BY ONLY <1>4 DEF Call, Catches
<1>7. \A c, u : SameCatches(c, stack, u) => SameCatches(c, cs', u)
  BY ONLY <1>4, <1>6, r \in Acts, stack \in Seq(Acts), CatchesPush
<1>8. /\ ci'[L] = frames \/ ci'[L] = Append(frames, f)
      /\ \A u \in Thread : u # L => ci'[u] = ci[u]
  <2>1. IF exc' = "none" THEN Extended(E, L, f, ci') ELSE ci' = E
    BY ONLY <1>4 DEF CallMade
  <2>2. CASE exc' = "none"
    BY ONLY <2>1, <2>2, <1>5 DEF Extended
  <2>3. CASE exc' # "none"
    BY ONLY <2>1, <2>3, <1>5
  <2> QED
    BY ONLY <2>2, <2>3
<1>9. SamePcalls(frames, ci'[L])
  <2>1. SamePcalls(frames, frames)
    BY ONLY PcallsSame
  <2>2. SamePcalls(frames, Append(frames, f))
    BY ONLY <1>3, <2>1, frames \in Seq(FrameSet), PcallsPush
  <2> QED
    BY ONLY <1>8, <2>1, <2>2
<1> QED
  BY ONLY <1>7, <1>8, <1>9, CatchesSame

(* Such a call, when the handlers are those of the C stack and the frames  *)
(* it starts from.                                                         *)
LEMMA CallHandled ==
  ASSUME Inv3, Inv1', NEW inc \in 1 .. 2, NEW isLua \in BOOLEAN, NEW func \in Nat, func > 0,
         NEW frames \in Seq(FrameSet), NEW stack \in Seq(Acts),
         CCall(inc, isLua, func, frames, stack),
         \A u \in Thread : u # L => SameCatches(cs, stack, u) /\ errfunc'[u] = errfunc[u],
         Pledged(stack, frames, errfunc'[L], L)
  PROVE  HandledNext
<1>1. /\ \A u : SameCatches(stack, cs', u)
      /\ \A c, u : SameCatches(c, stack, u) => SameCatches(c, cs', u)
      /\ SamePcalls(frames, ci'[L])
      /\ \A u \in Thread : u # L => ci'[u] = ci[u]
  BY ONLY Inv3, inc \in 1 .. 2, isLua \in BOOLEAN, func \in Nat, func > 0,
          frames \in Seq(FrameSet), stack \in Seq(Acts), CCall(inc, isLua, func, frames, stack),
          CallChanges
<1> DEFINE t == L
           GR == ci'[t]
           e == errfunc'[t]
<1>2. t \in Thread
  BY InvFacts DEF Inv3
<1>3. cs' \in Seq(Acts) /\ GR \in Seq(FrameSet)
  BY <1>2, TypesNext
<1>4. SameCatches(stack, cs', t) /\ SamePcalls(frames, GR) /\ Pledged(stack, frames, e, t)
  BY <1>1
<1>5. \A u \in Thread : u # t => /\ SameCatches(cs, cs', u)
                                 /\ ci'[u] = ci[u] /\ errfunc'[u] = errfunc[u]
  BY <1>1
<1> HIDE DEF t, GR, e
<1>6. Pledged(cs', GR, e, t)
  BY ONLY <1>3, <1>4, frames \in Seq(FrameSet), stack \in Seq(Acts), PledgedStill
<1>7. Pledged(cs', ci'[t], errfunc'[t], t)
  BY ONLY <1>6 DEF GR, e
<1> QED
  BY ONLY <1>2, <1>5, <1>7, Inv3, Inv1', HandledStep

(* The call is not a protected one.                                        *)
LEMMA PlainCallHandled ==
  ASSUME Inv3, Inv1', NEW inc \in 1 .. 2, NEW isLua \in BOOLEAN, NEW func \in Nat, func > 0,
         NEW frames \in Seq(FrameSet), NEW stack \in Seq(Acts),
         CCall(inc, isLua, func, frames, stack),
         AllCatches(cs, stack), SamePcalls(ci[L], frames), errfunc' = errfunc
  PROVE  HandledNext
<1>1. /\ L \in Thread /\ cs \in Seq(Acts) /\ ci[L] \in Seq(FrameSet)
      /\ Pledged(cs, ci[L], errfunc[L], L)
  BY PledgedNow, InvFacts DEF Inv3
<1>2. /\ SameCatches(cs, stack, L)
      /\ \A u \in Thread : u # L => SameCatches(cs, stack, u) /\ errfunc'[u] = errfunc[u]
  BY ONLY <1>1, AllCatches(cs, stack), errfunc' = errfunc DEF AllCatches
<1>3. Pledged(stack, frames, errfunc[L], L)
  <2> DEFINE t == L
             FR == ci[t]
             e == errfunc[t]
  <2>1. /\ cs \in Seq(Acts) /\ FR \in Seq(FrameSet) /\ Pledged(cs, FR, e, t)
        /\ SameCatches(cs, stack, t) /\ SamePcalls(FR, frames)
    BY <1>1, <1>2
  <2> HIDE DEF t, FR, e
  <2>2. Pledged(stack, frames, e, t)
    BY ONLY <2>1, frames \in Seq(FrameSet), stack \in Seq(Acts), PledgedStill
  <2> QED
    BY ONLY <2>2 DEF e, t
<1>4. Pledged(stack, frames, errfunc'[L], L)
  BY ONLY <1>3, errfunc' = errfunc
<1> QED
  BY ONLY <1>2, <1>4, Inv3, Inv1', inc \in 1 .. 2, isLua \in BOOLEAN, func \in Nat, func > 0,
          frames \in Seq(FrameSet), stack \in Seq(Acts), CCall(inc, isLua, func, frames, stack),
          CallHandled

-----------------------------------------------------------------------------
(* The frame at the top becomes f.                                         *)
LEMMA TopHandled ==
  ASSUME Inv3, Inv1', ci[L] # <<>>, AllCatches(cs, cs'), errfunc' = errfunc,
         NEW f \in FrameSet, f.ypcall = top.ypcall, f.olderr = top.olderr,
         ci' = [ci EXCEPT ![L] = WithTop(L, f)]
  PROVE  HandledNext
<1> DEFINE FR == ci[L]
           n == Len(FR)
<1>1. /\ FR \in Seq(FrameSet) /\ L \in Thread /\ ci \in [Thread -> Seq(FrameSet)]
      /\ n \in 1 .. Len(FR) /\ n \in Nat /\ FR[n] = top /\ WithTop(L, f) = Retop(FR, n, f)
  BY InvFacts DEF Inv3
<1>2. ci'[L] = Retop(FR, n, f) /\ \A u \in Thread : u # L => ci'[u] = ci[u]
  <2> HIDE DEF FR, n
  <2> QED
    BY ONLY <1>1, ci' = [ci EXCEPT ![L] = WithTop(L, f)]
<1>3. f.ypcall = FR[n].ypcall /\ f.olderr = FR[n].olderr
  BY ONLY <1>1, f.ypcall = top.ypcall, f.olderr = top.olderr
<1>4. \A q \in n + 1 .. Len(FR) : ~FR[q].ypcall
  <2>1. \A q \in n + 1 .. n : FALSE
    BY ONLY <1>1
  <2> QED
    BY ONLY <2>1 DEF n
<1> HIDE DEF n
<1>5. SamePcalls(FR, Retop(FR, n, f))
  BY ONLY <1>1, <1>3, <1>4, f \in FrameSet, PcallsRetop
<1>6. SamePcalls(ci[L], ci'[L])
  BY ONLY <1>2, <1>5 DEF FR
<1> QED
  BY ONLY <1>2, <1>6, Inv3, Inv1', AllCatches(cs, cs'), errfunc' = errfunc, HandledRun

(* The frame at the top ends.                                              *)
LEMMA TopEndHandled ==
  ASSUME Inv3, Inv1', ci[L] # <<>>, ~top.ypcall, AllCatches(cs, cs'), errfunc' = errfunc,
         ci' = [ci EXCEPT ![L] = Front(@)]
  PROVE  HandledNext
<1>1. /\ ci[L] \in Seq(FrameSet) /\ L \in Thread /\ ci \in [Thread -> Seq(FrameSet)]
      /\ ci[L][Len(ci[L])] = top
      /\ Front(ci[L]) = SubSeq(ci[L], 1, Len(ci[L]) - 1)
  BY InvFacts DEF Inv3
<1>2. ci'[L] = SubSeq(ci[L], 1, Len(ci[L]) - 1) /\ \A u \in Thread : u # L => ci'[u] = ci[u]
  BY ONLY <1>1, ci' = [ci EXCEPT ![L] = Front(@)]
<1>3. SamePcalls(ci[L], SubSeq(ci[L], 1, Len(ci[L]) - 1))
  BY ONLY <1>1, ci[L] # <<>>, ~top.ypcall, PcallsPop
<1>4. SamePcalls(ci[L], ci'[L])
  BY ONLY <1>2, <1>3
<1> QED
  BY ONLY <1>2, <1>4, Inv3, Inv1', AllCatches(cs, cs'), errfunc' = errfunc, HandledRun
(* luaD_pcall begins.                                                      *)
LEMMA PledgedTry ==
  ASSUME NEW c \in Seq(Acts), NEW FR, NEW e, NEW t, Pledged(c, FR, e, t),
         NEW r \in Acts, Catches(r, t), r.errfunc = e, NEW e2, e2 # 0 => "handler" \in Uses
  PROVE  Pledged(Append(c, r), FR, e2, t)
<1> DEFINE d == Append(c, r)
           n == Len(c)
<1>1. /\ n \in Nat /\ n = Len(c) /\ Len(d) = n + 1 /\ d[n + 1] = r
      /\ \A i \in 1 .. n : d[i] = c[i]
  OBVIOUS
<1> HIDE DEF d, n
<1>2. \A i \in 1 .. Len(d) : i \in 1 .. n \/ i = n + 1
  BY ONLY <1>1
<1>3. InCatch(d, Len(d), t)
  <2>1. n + 1 \in 1 .. Len(d)
    BY ONLY <1>1
  <2> QED
    BY ONLY <1>1, <2>1, Catches(r, t) DEF InCatch
<1>4. ASSUME NEW i \in 1 .. n + 1, InCatch(c, i - 1, t)
      PROVE  InCatch(d, i - 1, t)
  <2>1. PICK k \in 1 .. i - 1 : Catches(c[k], t)
    BY ONLY <1>4 DEF InCatch
  <2>2. k \in 1 .. n
    BY ONLY <1>1, <1>4
  <2>3. Catches(d[k], t)
    BY ONLY <1>1, <2>1, <2>2
  <2> QED
    BY ONLY <2>3 DEF InCatch
<1>5. ASSUME NEW i \in 1 .. Len(d), Catches(d[i], t), d[i].errfunc # 0
      PROVE  "handler" \in Uses /\ (InPcall(FR, Len(FR)) \/ InCatch(d, i - 1, t))
  <2>1. CASE i \in 1 .. n
    <3>1. Catches(c[i], t) /\ c[i].errfunc # 0
      BY ONLY <1>1, <1>5, <2>1
    <3>2. "handler" \in Uses /\ (InPcall(FR, Len(FR)) \/ InCatch(c, i - 1, t))
      BY ONLY <1>1, <2>1, <3>1, Pledged(c, FR, e, t) DEF Pledged
    <3>3. i \in 1 .. n + 1
      BY ONLY <1>1, <2>1
    <3> QED
      BY ONLY <1>4, <3>2, <3>3
  <2>2. CASE i = n + 1
    <3>1. e # 0
      BY ONLY <1>1, <1>5, <2>2, r.errfunc = e
    <3>2. "handler" \in Uses /\ (InPcall(FR, Len(FR)) \/ InCatch(c, n, t))
      BY ONLY <1>1, <3>1, Pledged(c, FR, e, t) DEF Pledged
    <3>3. i - 1 = n /\ i \in 1 .. n + 1
      BY ONLY <1>1, <2>2
    <3>4. InCatch(c, n, t) => InCatch(d, i - 1, t)
      BY ONLY <1>4, <3>3
    <3> QED
      BY ONLY <3>2, <3>4
  <2> QED
    BY ONLY <1>2, <2>1, <2>2
<1>6. Pledged(d, FR, e2, t)
  BY ONLY <1>3, <1>5, Pledged(c, FR, e, t), e2 # 0 => "handler" \in Uses DEF Pledged
<1> QED
  BY ONLY <1>6 DEF d

(* luaD_pcall calls a function.                                            *)
LEMMA TryCallHandled ==
  ASSUME Inv3, Inv1', NEW isLua \in BOOLEAN, NEW p \in Acts, Catches(p, L), p.errfunc = errfunc[L],
         CCall(2, isLua, TopOf(L), ci[L], Append(cs, p)),
         errfunc'[L] # 0 => "handler" \in Uses,
         \A u \in Thread : u # L => errfunc'[u] = errfunc[u]
  PROVE  HandledNext
<1>1. /\ L \in Thread /\ cs \in Seq(Acts) /\ ci[L] \in Seq(FrameSet)
      /\ TopOf(L) \in Nat /\ TopOf(L) > 0
      /\ Pledged(cs, ci[L], errfunc[L], L)
  BY PledgedNow, InvFacts DEF Inv3
<1>2. Append(cs, p) \in Seq(Acts) /\ 2 \in 1 .. 2
  BY ONLY <1>1, p \in Acts
<1>3. Pledged(Append(cs, p), ci[L], errfunc'[L], L)
  BY ONLY <1>1, p \in Acts, Catches(p, L), p.errfunc = errfunc[L],
          errfunc'[L] # 0 => "handler" \in Uses, PledgedTry
<1>4. ASSUME NEW u \in Thread, u # L
      PROVE  SameCatches(cs, Append(cs, p), u) /\ errfunc'[u] = errfunc[u]
  <2>1. ~Catches(p, u)
    BY ONLY <1>4, Catches(p, L) DEF Catches
  <2> QED
    BY ONLY <1>1, <1>4, <2>1, p \in Acts, CatchesSame, CatchesPush,
            \A v \in Thread : v # L => errfunc'[v] = errfunc[v]
<1> QED
  BY ONLY <1>1, <1>2, <1>3, <1>4, Inv3, Inv1', isLua \in BOOLEAN,
          CCall(2, isLua, TopOf(L), ci[L], Append(cs, p)), CallHandled

(* lua_pcall of the main chunk.                                            *)
LEMMA StartMainHandled ==
  ASSUME Inv3, Inv1', StartMain
  PROVE  HandledNext
<1> DEFINE p == Try(L, "pcall", 0, <<nC[L], nny[L]>>, TopOf(L), errfunc[L])
           z == TRUE
<1>1. CCall(2, z, TopOf(L), ci[L], Append(cs, p)) /\ errfunc' = errfunc
  BY DEF StartMain
<1>2. /\ L \in Thread /\ nC[L] \in Nat /\ nny[L] \in Nat /\ errfunc[L] \in Nat /\ TopOf(L) \in Nat
      /\ Pledged(cs, ci[L], errfunc[L], L)
  BY InvFacts, PledgedNow DEF Inv3
<1>3. /\ p \in Acts /\ p.kind = "try" /\ p.thread = L /\ p.of = "pcall" /\ p.errfunc = errfunc[L]
  BY <1>2 DEF Try, Acts
<1>4. z \in BOOLEAN
  OBVIOUS
<1> HIDE DEF p, z
<1>5. Catches(p, L)
  BY ONLY <1>3 DEF Catches
<1>6. errfunc'[L] # 0 => "handler" \in Uses
  BY ONLY <1>1, <1>2 DEF Pledged
<1>7. \A u \in Thread : u # L => errfunc'[u] = errfunc[u]
  BY ONLY <1>1
<1> QED
  BY ONLY <1>1, <1>3, <1>4, <1>5, <1>6, <1>7, Inv3, Inv1', TryCallHandled

(* A metamethod is called by luaD_call or luaD_callnoyield.                *)
LEMMA CallMetaHandled ==
  ASSUME Inv3, Inv1', CallMeta
  PROVE  HandledNext
<1> DEFINE z == TRUE
<1>1. CCall(1, z, TopOf(L), ci[L], cs) /\ errfunc' = errfunc
  BY DEF CallMeta
<1>2. /\ cs \in Seq(Acts) /\ ci[L] \in Seq(FrameSet) /\ TopOf(L) \in Nat /\ TopOf(L) > 0
      /\ AllCatches(cs, cs) /\ SamePcalls(ci[L], ci[L])
  BY InvFacts, AllSame, PcallsSame DEF Inv3
<1>3. z \in BOOLEAN /\ 1 \in 1 .. 2
  OBVIOUS
<1> HIDE DEF z
<1> QED
  BY ONLY Inv3, Inv1', <1>1, <1>2, <1>3, PlainCallHandled

(* A frame is put on those of the running thread, and maybe an activation. *)
LEMMA FrameHandled ==
  ASSUME Inv3, Inv1', NEW f \in FrameSet, ~f.ypcall,
         ci' = [ci EXCEPT ![L] = Append(@, f)], AllCatches(cs, cs'), errfunc' = errfunc
  PROVE  HandledNext
<1>1. L \in Thread /\ ci \in [Thread -> Seq(FrameSet)] /\ ci[L] \in Seq(FrameSet)
  BY InvFacts DEF Inv3
<1>2. ci'[L] = Append(ci[L], f) /\ \A u \in Thread : u # L => ci'[u] = ci[u]
  BY ONLY <1>1, ci' = [ci EXCEPT ![L] = Append(@, f)]
<1>3. SamePcalls(ci[L], ci'[L])
  BY ONLY <1>1, <1>2, f \in FrameSet, ~f.ypcall, PcallsSame, PcallsPush
<1> QED
  BY ONLY <1>2, <1>3, Inv3, Inv1', AllCatches(cs, cs'), errfunc' = errfunc, HandledRun

(* luaV_execute calls a Lua function.                                      *)
LEMMA CallLuaHandled ==
  ASSUME Inv3, Inv1', CallLua
  PROVE  HandledNext
<1> DEFINE f == Frame(TRUE, FALSE, TopOf(L))
<1>1. ci' = [ci EXCEPT ![L] = Append(@, f)] /\ errfunc' = errfunc /\ cs' = cs
  BY DEF CallLua
<1>2. TopOf(L) \in Nat
  BY InvFacts DEF Inv3
<1>3. f \in FrameSet /\ ~f.ypcall
  BY <1>2 DEF Frame, FrameSet
<1> HIDE DEF f
<1>4. AllCatches(cs, cs')
  BY ONLY <1>1, AllSame
<1> QED
  BY ONLY <1>1, <1>3, <1>4, Inv3, Inv1', FrameHandled

(* luaV_execute calls a C function.                                        *)
LEMMA CallCHandled ==
  ASSUME Inv3, Inv1', CallC
  PROVE  HandledNext
<1> DEFINE f == Frame(FALSE, FALSE, TopOf(L))
           r == Activation(FALSE, 0)
<1>1. ci' = [ci EXCEPT ![L] = Append(@, f)] /\ errfunc' = errfunc /\ cs' = Append(cs, r)
  BY DEF CallC
<1>2. TopOf(L) \in Nat /\ cs \in Seq(Acts) /\ L \in Thread
  BY InvFacts DEF Inv3
<1>3. f \in FrameSet /\ ~f.ypcall
  BY <1>2 DEF Frame, FrameSet
<1>4. r \in Acts /\ Bare(r)
  BY <1>2 DEF Activation, Acts, Bare
<1> HIDE DEF f, r
<1>5. AllCatches(cs, cs')
  BY ONLY <1>1, <1>2, <1>4, AllSame, AllPush
<1> QED
  BY ONLY <1>1, <1>3, <1>5, Inv3, Inv1', FrameHandled

(* lua_callk.                                                              *)
LEMMA CallFromCHandled ==
  ASSUME Inv3, Inv1', NEW k \in BOOLEAN, NEW isLua \in BOOLEAN, CallFromC(k, isLua)
  PROVE  HandledNext
<1> DEFINE f == [top EXCEPT !.k = TRUE]
           FR == ci[L]
           n == Len(FR)
<1>1. /\ exc = "none" /\ Call(cur) /\ errfunc' = errfunc
      /\ IF k /\ yieldable
           THEN CCall(1, isLua, TopOf(L), WithTop(L, f), cs)
           ELSE CCall(2, isLua, TopOf(L), FR, cs)
  BY DEF CallFromC, InC, Running, Call
<1>2. ci[L] # <<>> /\ top \in FrameSet
  BY <1>1, RunFacts DEF Inv3
<1>3. /\ cs \in Seq(Acts) /\ FR \in Seq(FrameSet) /\ TopOf(L) \in Nat /\ TopOf(L) > 0
      /\ n \in 1 .. Len(FR) /\ FR[n] = top /\ WithTop(L, f) = Retop(FR, n, f) /\ n \in Nat
      /\ AllCatches(cs, cs) /\ SamePcalls(FR, FR) /\ 1 \in 1 .. 2 /\ 2 \in 1 .. 2
  BY <1>2, InvFacts, AllSame, PcallsSame DEF Inv3
<1>4. f \in FrameSet /\ f.ypcall = FR[n].ypcall /\ f.olderr = FR[n].olderr
  BY <1>2, <1>3 DEF FrameSet
<1>5. \A q \in n + 1 .. Len(FR) : ~FR[q].ypcall
  <2>1. \A q \in n + 1 .. n : FALSE
    BY ONLY <1>3
  <2> QED
    BY ONLY <2>1 DEF n
<1> DEFINE GR == WithTop(L, f)
<1>6. IF k /\ yieldable THEN CCall(1, isLua, TopOf(L), GR, cs)
                        ELSE CCall(2, isLua, TopOf(L), ci[L], cs)
  BY ONLY <1>1 DEF FR
<1> HIDE DEF f, n
<1>7. SamePcalls(ci[L], GR) /\ GR \in Seq(FrameSet)
  <2>1. SamePcalls(FR, Retop(FR, n, f))
    BY ONLY <1>3, <1>4, <1>5, PcallsRetop
  <2>2. Retop(FR, n, f) \in Seq(FrameSet)
    BY ONLY <1>2, <1>3, <1>4, RetopFacts DEF FR, n
  <2> QED
    BY ONLY <1>3, <2>1, <2>2 DEF FR
<1> HIDE DEF GR
<1>8. CASE k /\ yieldable
  BY ONLY <1>1, <1>3, <1>6, <1>7, <1>8, Inv3, Inv1', isLua \in BOOLEAN, PlainCallHandled
<1>9. CASE ~(k /\ yieldable)
  BY ONLY <1>1, <1>3, <1>6, <1>9, Inv3, Inv1', isLua \in BOOLEAN, PlainCallHandled DEF FR
<1> QED
  BY ONLY <1>8, <1>9
(* A variable is declared to be closed.                                    *)
LEMMA DeclareTbcHandled ==
  ASSUME Inv3, Inv1', DeclareTbc
  PROVE  HandledNext
<1>1. cs' = cs /\ ci' = ci /\ errfunc' = errfunc
  BY DEF DeclareTbc
<1>2. AllCatches(cs, cs')
  BY ONLY <1>1, AllSame
<1> QED
  BY ONLY <1>1, <1>2, Inv3, Inv1', HandledIdle

(* lua_toclose.                                                            *)
LEMMA ToCloseHandled ==
  ASSUME Inv3, Inv1', ToClose
  PROVE  HandledNext
<1> DEFINE f == [top EXCEPT !.clsret = TRUE]
<1>1. /\ exc = "none" /\ Call(cur) /\ cs' = cs /\ errfunc' = errfunc
      /\ ci' = [ci EXCEPT ![L] = WithTop(L, f)]
  BY DEF ToClose, InC, Running, Call
<1>2. ci[L] # <<>> /\ top \in FrameSet
  BY <1>1, RunFacts DEF Inv3
<1>3. f \in FrameSet /\ f.ypcall = top.ypcall /\ f.olderr = top.olderr
  BY <1>2 DEF FrameSet
<1> HIDE DEF f
<1>4. AllCatches(cs, cs')
  BY ONLY <1>1, AllSame
<1> QED
  BY ONLY <1>1, <1>2, <1>3, <1>4, Inv3, Inv1', TopHandled

(* What luaF_close is called for begins or ends no protected call.         *)
LEMMA ClosingIsBare ==
  ASSUME NEW t \in Thread, NEW level \in Nat, NEW yy \in BOOLEAN,
         NEW for \in {"block", "return", "poscall", "finishpcallk", "protected"}
  PROVE  Closing(t, level, yy, for) \in Acts /\ Bare(Closing(t, level, yy, for))
BY DEF Closing, Acts, Bare

(* A block ends, with variables to close.                                  *)
LEMMA CloseBlockHandled ==
  ASSUME Inv3, Inv1', CloseBlock
  PROVE  HandledNext
<1>1. exc = "none" /\ Call(cur) /\ errfunc' = errfunc
  BY DEF CloseBlock, InLua, Running, Call
<1>2. /\ ci[L] # <<>> /\ top \in FrameSet /\ L \in Thread /\ cs \in Seq(Acts)
      /\ tbc[L] \in Seq(VarSet)
  BY <1>1, RunFacts, InvFacts DEF Inv3
<1>3. PICK i \in OwnTbc(L) :
        /\ ci' = [ci EXCEPT ![L] =
                    WithTop(L, [top EXCEPT !.doing = "close", !.idx = tbc[L][i].level])]
        /\ cs' = Append(cs, Closing(L, tbc[L][i].level, TRUE, "block"))
  BY DEF CloseBlock
<1> DEFINE level == tbc[L][i].level
           f == [top EXCEPT !.doing = "close", !.idx = level]
           r == Closing(L, level, TRUE, "block")
<1>4. level \in Nat
  <2>1. i \in 1 .. Len(tbc[L])
    BY DEF OwnTbc
  <2>2. tbc[L][i] \in VarSet
    BY ONLY <1>2, <2>1
  <2> QED
    BY ONLY <2>2 DEF VarSet
<1>5. ci' = [ci EXCEPT ![L] = WithTop(L, f)] /\ cs' = Append(cs, r)
  BY <1>3
<1> HIDE DEF level
<1>6. r \in Acts /\ Bare(r)
  BY <1>2, <1>4, ClosingIsBare
<1>7. f \in FrameSet /\ f.ypcall = top.ypcall /\ f.olderr = top.olderr
  BY <1>2, <1>4 DEF FrameSet
<1> HIDE DEF f, r
<1>8. AllCatches(cs, cs')
  BY ONLY <1>2, <1>5, <1>6, AllSame, AllPush
<1> QED
  BY ONLY <1>1, <1>2, <1>5, <1>7, <1>8, Inv3, Inv1', TopHandled

(* A Lua function returns.                                                 *)
LEMMA ReturnLuaHandled ==
  ASSUME Inv3, Inv1', ReturnLua
  PROVE  HandledNext
<1>1. exc = "none" /\ cur.kind = "exec" /\ errfunc' = errfunc
  BY DEF ReturnLua, InLua, Running
<1>2. Call(cur)
  BY <1>1 DEF Call
<1>3. ci[L] # <<>> /\ top \in FrameSet /\ FrameOK(top) /\ top.lua /\ top.func \in Nat
  BY <1>1, <1>2, RunFacts DEF Inv3
<1>4. L \in Thread /\ cs[Len(cs)] = cur /\ cs \in Seq(Acts) /\ Len(cs) > 0
  BY InvFacts DEF Inv3
<1>5. CASE OwnTbc(L) = {}
  <2>1. PopLua
    BY <1>5 DEF ReturnLua
  <2>2. ci' = [ci EXCEPT ![L] = Front(@)] /\ (cs' = cs \/ cs' = Popped(cs))
    BY <2>1 DEF PopLua, Front, Popped
  <2>3. Bare(cs[Len(cs)])
    BY <1>1, <1>4 DEF Bare
  <2>4. AllCatches(cs, cs')
    BY ONLY <1>4, <2>2, <2>3, AllSame, AllPop
  <2>5. ~top.ypcall
    BY <1>3 DEF FrameOK
  <2> QED
    BY ONLY <1>1, <1>3, <2>2, <2>4, <2>5, Inv3, Inv1', TopEndHandled
<1>6. CASE OwnTbc(L) # {}
  <2> DEFINE f == [top EXCEPT !.doing = "return"]
             n == top.func + 1
             z == TRUE
             r == Closing(L, n, z, "return")
  <2>1. ci' = [ci EXCEPT ![L] = WithTop(L, f)] /\ cs' = Append(cs, r)
    BY <1>6 DEF ReturnLua
  <2>2. n \in Nat /\ z \in BOOLEAN
    BY <1>3
  <2> HIDE DEF n, z
  <2>3. r \in Acts /\ Bare(r)
    BY <1>4, <2>2, ClosingIsBare
  <2>4. f \in FrameSet /\ f.ypcall = top.ypcall /\ f.olderr = top.olderr
    BY <1>3 DEF FrameSet
  <2> HIDE DEF f, r
  <2>5. AllCatches(cs, cs')
    BY ONLY <1>4, <2>1, <2>3, AllSame, AllPush
  <2> QED
    BY ONLY <1>1, <1>3, <2>1, <2>4, <2>5, Inv3, Inv1', TopHandled
<1> QED
  BY ONLY <1>5, <1>6

(* The instruction that was closing variables when the coroutine yielded   *)
(* is repeated.                                                            *)
LEMMA RepeatCloseHandled ==
  ASSUME Inv3, Inv1', RepeatClose
  PROVE  HandledNext
<1>1. exc = "none" /\ cur.kind = "exec" /\ ci' = ci /\ errfunc' = errfunc
  BY DEF RepeatClose, Running, thread
<1>2. Call(cur)
  BY <1>1 DEF Call
<1>3. top \in FrameSet /\ L \in Thread
  BY <1>1, <1>2, RunFacts, InvFacts DEF Inv3
<1> DEFINE r == IF top.doing = "close" THEN Closing(L, top.idx, TRUE, "block")
                                       ELSE Closing(L, top.func + 1, TRUE, "return")
<1>4. r \in Acts /\ Bare(r)
  <2>1. top.func \in Nat /\ top.idx \in Nat
    BY <1>3 DEF FrameSet
  <2> QED
    BY <1>3, <2>1 DEF Closing, Acts, Bare
<1>5. cs' = Append(cs, r)
  BY DEF RepeatClose
<1> HIDE DEF r
<1> QED
  BY ONLY <1>1, <1>4, <1>5, Inv3, Inv1', HandledPush

(* luaD_poscall of a C function, which may have variables to close.        *)
LEMMA CloseAndReturnHandled ==
  ASSUME Inv3, Inv1', ci[L] # <<>>, CloseAndReturn(cs), errfunc' = errfunc
  PROVE  HandledNext
<1> DEFINE f == [top EXCEPT !.doing = "return"]
           r == Closing(L, top.func, TRUE, "poscall")
<1>1. ci' = [ci EXCEPT ![L] = WithTop(L, f)] /\ cs' = Append(cs, r)
  BY DEF CloseAndReturn
<1>2. top \in FrameSet /\ L \in Thread /\ cs \in Seq(Acts)
  BY InvFacts DEF Inv3
<1>3. r \in Acts /\ Bare(r)
  <2>1. top.func \in Nat
    BY <1>2 DEF FrameSet
  <2> QED
    BY <1>2, <2>1 DEF Closing, Acts, Bare
<1>4. f \in FrameSet /\ f.ypcall = top.ypcall /\ f.olderr = top.olderr
  BY <1>2 DEF FrameSet
<1> HIDE DEF f, r
<1>5. AllCatches(cs, cs')
  BY ONLY <1>1, <1>2, <1>3, AllSame, AllPush
<1> QED
  BY ONLY <1>1, <1>4, <1>5, Inv3, Inv1', ci[L] # <<>>, errfunc' = errfunc, TopHandled

(* A C function returns.                                                   *)
LEMMA ReturnCHandled ==
  ASSUME Inv3, Inv1', ReturnC
  PROVE  HandledNext
<1>1. /\ exc = "none" /\ Call(cur) /\ cur.kind = "cfun" /\ ~top.ypcall /\ errfunc' = errfunc
      /\ IF top.clsret THEN CloseAndReturn(cs) ELSE PopC
  BY DEF ReturnC, InC, Running, Call
<1>2. ci[L] # <<>>
  BY <1>1, RunFacts DEF Inv3
<1>3. CASE top.clsret
  BY ONLY <1>1, <1>2, <1>3, Inv3, Inv1', CloseAndReturnHandled
<1>4. CASE ~top.clsret
  <2>1. ci' = [ci EXCEPT ![L] = Front(@)] /\ cs' = Popped(cs)
    BY <1>1, <1>4 DEF PopC, Popped, Front
  <2>2. cs \in Seq(Acts) /\ Len(cs) > 0 /\ cs[Len(cs)] = cur
    BY <1>2, InvFacts DEF Inv3
  <2>3. Bare(cs[Len(cs)])
    BY <1>1, <2>2 DEF Bare
  <2>4. AllCatches(cs, cs')
    BY ONLY <2>1, <2>2, <2>3, AllPop
  <2> QED
    BY ONLY <1>1, <1>2, <2>1, <2>4, Inv3, Inv1', TopEndHandled
<1> QED
  BY ONLY <1>3, <1>4

(* Steps that leave the frames, the C stack and the handlers alone.        *)
LEMMA IdleHandled ==
  ASSUME Inv3, Inv1', Error \/ Exception \/ HandlerReturns \/ UNCHANGED vars
  PROVE  HandledNext
<1>1. cs' = cs /\ ci' = ci /\ errfunc' = errfunc
  BY DEF Error, Exception, HandlerReturns, thread, vars
<1>2. AllCatches(cs, cs')
  BY ONLY <1>1, AllSame
<1> QED
  BY ONLY <1>1, <1>2, Inv3, Inv1', HandledIdle

(* lua_yieldk.                                                             *)
LEMMA YieldHandled ==
  ASSUME Inv3, Inv1', NEW k \in BOOLEAN, Yield(k)
  PROVE  HandledNext
<1> DEFINE f == [top EXCEPT !.k = k]
<1>1. /\ exc = "none" /\ Call(cur) /\ cs' = cs /\ errfunc' = errfunc
      /\ ci' = [ci EXCEPT ![L] = WithTop(L, f)] \/ ci' = ci
  BY DEF Yield, InC, Running, Call
<1>2. ci[L] # <<>> /\ top \in FrameSet
  BY <1>1, RunFacts DEF Inv3
<1>3. f \in FrameSet /\ f.ypcall = top.ypcall /\ f.olderr = top.olderr
  BY <1>2 DEF FrameSet
<1> HIDE DEF f
<1>4. AllCatches(cs, cs')
  BY ONLY <1>1, AllSame
<1>5. CASE ci' = ci
  BY ONLY <1>1, <1>4, <1>5, Inv3, Inv1', HandledIdle
<1>6. CASE ci' = [ci EXCEPT ![L] = WithTop(L, f)]
  BY ONLY <1>1, <1>2, <1>3, <1>4, <1>6, Inv3, Inv1', TopHandled
<1> QED
  BY ONLY <1>1, <1>5, <1>6
(* luaF_close calls a __close metamethod.                                  *)
LEMMA CloseNextHandled ==
  ASSUME Inv3, Inv1', CloseNext
  PROVE  HandledNext
<1> DEFINE W == tbc[L]
           z == TRUE
           inc == IF cur.yy THEN 1 ELSE 2
           func == Last(W).level + 1
<1>1. W # <<>> /\ CCall(inc, z, func, ci[L], cs) /\ errfunc' = errfunc
  BY DEF CloseNext
<1>2. /\ cs \in Seq(Acts) /\ ci[L] \in Seq(FrameSet) /\ W \in Seq(VarSet)
      /\ AllCatches(cs, cs) /\ SamePcalls(ci[L], ci[L])
  BY InvFacts, AllSame, PcallsSame DEF Inv3
<1>3. z \in BOOLEAN /\ inc \in 1 .. 2
  OBVIOUS
<1>4. func \in Nat /\ func > 0
  <2>1. Last(W) \in VarSet
    BY <1>1, <1>2 DEF Last
  <2> QED
    BY <2>1 DEF VarSet
<1> HIDE DEF W, z, inc, func
<1> QED
  BY ONLY <1>1, <1>2, <1>3, <1>4, Inv3, Inv1', PlainCallHandled

(* luaF_close is done: the frame at the top, by what it was called for.    *)
LEMMA ClosedTop ==
  ASSUME Inv3, NothingToClose
  PROVE  /\ exc = "none" /\ cur.kind = "close" /\ Len(cs) - 1 > 0 /\ L \in Thread
         /\ cs \in Seq(Acts) /\ Len(cs) \in Nat /\ cs[Len(cs)] = cur /\ cs[Len(cs)].thread = L
         /\ cs[Len(cs) - 1] \in Acts /\ Kinds(cs[Len(cs) - 1], cur)
         /\ Ready(cs, ci, status, nC, nny, "none")
         /\ cur.for # "protected" => ci[L] # <<>> /\ top \in FrameSet /\ FrameOK(top)
         /\ cur.for = "return" => top.lua
         /\ cur.for = "poscall" => top.clsret
         /\ cur.for = "finishpcallk" => top.ypcall /\ ~top.clsret
<1>1. exc = "none" /\ cur.kind = "close"
  BY DEF NothingToClose, Running
<1>2. /\ Ready(cs, ci, status, nC, nny, "none") /\ cs \in Seq(Acts) /\ Len(cs) \in Nat
      /\ cs[Len(cs)] = cur /\ cs[Len(cs)].thread = L /\ L \in Thread
      /\ ci[L] # <<>> => ci[L][Len(ci[L])] = top /\ top \in FrameSet /\ FrameOK(top)
  BY <1>1, InvFacts DEF Inv3
<1>3. cs[Len(cs)].kind = "close"
  BY ONLY <1>1, <1>2
<1>4. Len(cs) - 1 > 0 /\ cs[Len(cs) - 1] \in Acts /\ Kinds(cs[Len(cs) - 1], cs[Len(cs)])
  <2>1. ~First(cs[Len(cs)])
    BY ONLY <1>3 DEF First
  <2> QED
    BY ONLY <1>2, <2>1, BelowTop
<1>5. /\ cur.for # "protected" => ci[L] # <<>>
      /\ cur.for = "return" => ci[L][Len(ci[L])].lua
      /\ cur.for = "poscall" => ci[L][Len(ci[L])].clsret
      /\ cur.for = "finishpcallk" => ci[L][Len(ci[L])].ypcall /\ ~ci[L][Len(ci[L])].clsret
  BY ONLY <1>2, <1>3, ClosingTop
<1> QED
  BY ONLY <1>1, <1>2, <1>4, <1>5

(* The variables of a block are closed.                                    *)
LEMMA BlockClosedHandled ==
  ASSUME Inv3, Inv1', BlockClosed
  PROVE  HandledNext
<1> DEFINE f == [top EXCEPT !.doing = "run"]
<1>1. /\ NothingToClose /\ cur.for = "block" /\ errfunc' = errfunc
      /\ cs' = Popped(cs) /\ ci' = [ci EXCEPT ![L] = WithTop(L, f)]
  BY DEF BlockClosed, Popped, Front
<1>2. /\ ci[L] # <<>> /\ top \in FrameSet /\ cs \in Seq(Acts) /\ Len(cs) > 0
      /\ cs[Len(cs)] = cur /\ cur.kind = "close"
  BY <1>1, ClosedTop, InvFacts DEF Inv3
<1>3. f \in FrameSet /\ f.ypcall = top.ypcall /\ f.olderr = top.olderr
  BY <1>2 DEF FrameSet
<1>4. Bare(cs[Len(cs)])
  BY <1>2 DEF Bare
<1> HIDE DEF f
<1>5. AllCatches(cs, cs')
  BY ONLY <1>1, <1>2, <1>4, AllPop
<1> QED
  BY ONLY <1>1, <1>2, <1>3, <1>5, Inv3, Inv1', TopHandled

(* What the theorem assumes of the program: if it calls lua_pcallk and it  *)
(* sets message handlers, it uses neither lua_toclose nor coroutine.close, *)
(* both of which end a lua_pcallk and leave its handler behind.            *)
HandlersAlone ==
  "handler" \in Uses /\ "pcallk" \in Uses => "close" \notin Uses /\ "toclose" \notin Uses

(* Without message handlers there is none to put back.                     *)
LEMMA PledgedNone ==
  ASSUME NEW c, NEW FR, NEW e, NEW t, Pledged(c, FR, e, t), "handler" \notin Uses,
         NEW d, SameCatches(c, d, t),
         NEW GR, \A q \in 1 .. Len(GR) : q \in 1 .. Len(FR) /\ GR[q] = FR[q]
  PROVE  Pledged(d, GR, e, t)
<1>1. e = 0
  BY DEF Pledged
<1>2. \A p \in 1 .. Len(GR) : ~(GR[p].ypcall /\ GR[p].olderr # 0)
  BY DEF Pledged
<1>3. \A i \in 1 .. Len(d) : ~(Catches(d[i], t) /\ d[i].errfunc # 0)
  BY DEF Pledged, SameCatches
<1> QED
  BY <1>1, <1>2, <1>3 DEF Pledged

(* Two activations that are no protected calls end.                        *)
LEMMA AllPopTwice ==
  ASSUME NEW c \in Seq(Acts), Len(c) - 1 > 0, Bare(c[Len(c)]), Bare(c[Len(c) - 1])
  PROVE  AllCatches(c, SubSeq(c, 1, Len(c) - 2))
<1> DEFINE n == Len(c) - 2
<1>1. Len(c) \in Nat
  OBVIOUS
<1>2. n \in 0 .. Len(c) /\ \A i \in n + 1 .. Len(c) : i = Len(c) - 1 \/ i = Len(c)
  BY ONLY <1>1, Len(c) - 1 > 0
<1> HIDE DEF n
<1>3. \A i \in n + 1 .. Len(c) : Bare(c[i])
  BY ONLY <1>2, Bare(c[Len(c)]), Bare(c[Len(c) - 1])
<1>4. AllCatches(c, SubSeq(c, 1, n))
  BY ONLY <1>2, <1>3, c \in Seq(Acts), AllCut
<1> QED
  BY ONLY <1>4 DEF n

(* The variables of a function that returns are closed. Its frame may be   *)
(* that of a lua_pcallk only if the function has called lua_toclose; then  *)
(* there are no handlers.                                                  *)
LEMMA FunctionClosedHandled ==
  ASSUME Inv3, Inv1', HandlersAlone, FunctionClosed
  PROVE  HandledNext
<1>1. /\ NothingToClose /\ cur.for \in {"return", "poscall"} /\ errfunc' = errfunc
      /\ ci' = [ci EXCEPT ![L] = Front(@)]
      /\ \/ cs' = Front(Front(cs)) /\ below.kind \in {"exec", "cfun"}
         \/ cs' = Front(cs)
  BY DEF FunctionClosed
<1>2. /\ ci[L] # <<>> /\ FrameOK(top) /\ L \in Thread
      /\ cs \in Seq(Acts) /\ Len(cs) \in Nat /\ Len(cs) - 1 > 0 /\ cs[Len(cs)] = cur
      /\ cur.kind = "close"
      /\ cur.for = "return" => top.lua
      /\ cur.for = "poscall" => top.clsret
  BY <1>1, ClosedTop
<1>3. Bare(cs[Len(cs)])
  BY ONLY <1>2 DEF Bare
<1>4. AllCatches(cs, cs')
  <2>1. CASE cs' = Front(cs)
    <3>1. cs' = Popped(cs) /\ Len(cs) > 0
      BY ONLY <1>2, <2>1 DEF Popped, Front
    <3> QED
      BY ONLY <1>2, <1>3, <3>1, AllPop
  <2>2. CASE cs' = Front(Front(cs)) /\ below.kind \in {"exec", "cfun"}
    <3>1. cs' = SubSeq(cs, 1, Len(cs) - 2)
      <4>1. Front(cs) = SubSeq(cs, 1, Len(cs) - 1) /\ Len(SubSeq(cs, 1, Len(cs) - 1)) = Len(cs) - 1
        BY ONLY <1>2 DEF Front
      <4>2. cs' = SubSeq(SubSeq(cs, 1, Len(cs) - 1), 1, Len(cs) - 1 - 1)
        BY ONLY <2>2, <4>1 DEF Front
      <4>3. SubSeq(SubSeq(cs, 1, Len(cs) - 1), 1, Len(cs) - 1 - 1) = SubSeq(cs, 1, Len(cs) - 2)
        BY ONLY <1>2
      <4> QED
        BY ONLY <4>2, <4>3
    <3>2. Bare(cs[Len(cs) - 1])
      BY ONLY <2>2 DEF Bare, below
    <3> QED
      BY ONLY <1>2, <1>3, <3>1, <3>2, AllPopTwice
  <2> QED
    BY ONLY <1>1, <2>1, <2>2
<1>5. CASE ~top.ypcall
  BY ONLY <1>1, <1>2, <1>4, <1>5, Inv3, Inv1', TopEndHandled
<1>6. CASE top.ypcall
  <2>1. "handler" \notin Uses
    BY ONLY <1>1, <1>2, <1>6, HandlersAlone DEF FrameOK, HandlersAlone
  <2> DEFINE t == L
             FR == ci[t]
             n == Len(FR) - 1
             GR == SubSeq(FR, 1, n)
             e == errfunc[t]
  <2>2. /\ FR \in Seq(FrameSet) /\ Pledged(cs, FR, e, t) /\ ci \in [Thread -> Seq(FrameSet)]
        /\ t \in Thread /\ FR # <<>> /\ Len(FR) \in Nat /\ Front(FR) = SubSeq(FR, 1, Len(FR) - 1)
    BY <1>2, InvFacts, PledgedNow DEF Inv3
  <2>3. ci'[t] = GR /\ \A u \in Thread : u # t => ci'[u] = ci[u]
    BY ONLY <1>1, <2>2
  <2>4. \A u \in Thread : SameCatches(cs, cs', u)
    BY ONLY <1>4 DEF AllCatches
  <2> HIDE DEF t, FR, e
  <2>5. n \in Nat /\ n <= Len(FR)
    BY ONLY <2>2
  <2> HIDE DEF n
  <2>6. \A q \in 1 .. Len(GR) : q \in 1 .. Len(FR) /\ GR[q] = FR[q]
    BY ONLY <2>2, <2>5
  <2> HIDE DEF GR
  <2>7. Pledged(cs', GR, e, t)
    BY ONLY <2>1, <2>2, <2>4, <2>6, PledgedNone
  <2>8. Pledged(cs', ci'[t], errfunc'[t], t)
    BY ONLY <1>1, <2>3, <2>7 DEF e
  <2>9. \A u \in Thread : u # t => SameCatches(cs, cs', u) /\ ci'[u] = ci[u] /\ errfunc'[u] = errfunc[u]
    BY ONLY <1>1, <2>3, <2>4
  <2> QED
    BY ONLY <2>2, <2>8, <2>9, Inv3, Inv1', HandledStep
<1> QED
  BY ONLY <1>5, <1>6

(* unroll goes on with a Lua function.                                     *)
LEMMA FinishLuaHandled ==
  ASSUME Inv3, Inv1', FinishLua
  PROVE  HandledNext
<1> DEFINE r == [kind |-> "exec", thread |-> L, inc |-> 0]
<1>1. cs' = Append(cs, r) /\ ci' = ci /\ errfunc' = errfunc
  BY DEF FinishLua, thread
<1>2. L \in Thread
  BY InvFacts DEF Inv3
<1>3. r \in Acts /\ Bare(r)
  BY <1>2 DEF Acts, Bare
<1> HIDE DEF r
<1> QED
  BY ONLY <1>1, <1>3, Inv3, Inv1', HandledPush

(* unroll has no more to do: the coroutine ends.                           *)
LEMMA FinishHandled ==
  ASSUME Inv3, Inv1', Finish
  PROVE  HandledNext
<1>1. /\ cur.kind = "unroll" /\ ci' = ci /\ errfunc' = errfunc
      /\ cs' = SubSeq(cs, 1, Len(cs) - 2)
  BY DEF Finish, Unrolling, thread
<1>2. /\ cs \in Seq(Acts) /\ Len(cs) \in Nat /\ cs[Len(cs)] = cur
      /\ Ready(cs, ci, status, nC, nny, exc)
  BY InvFacts DEF Inv3
<1>3. Len(cs) - 1 > 0 /\ cs[Len(cs) - 1].kind = "try" /\ cs[Len(cs) - 1].of = "resume"
  <2>1. ~First(cs[Len(cs)])
    BY ONLY <1>1, <1>2 DEF First
  <2>2. Len(cs) - 1 > 0 /\ Kinds(cs[Len(cs) - 1], cs[Len(cs)])
    BY ONLY <1>2, <2>1, BelowTop
  <2> QED
    BY ONLY <1>1, <1>2, <2>2 DEF Kinds
<1>4. Bare(cs[Len(cs)]) /\ Bare(cs[Len(cs) - 1])
  BY ONLY <1>1, <1>2, <1>3 DEF Bare
<1>5. AllCatches(cs, cs')
  BY ONLY <1>1, <1>2, <1>3, <1>4, AllPopTwice
<1> QED
  BY ONLY <1>1, <1>5, Inv3, Inv1', HandledIdle

(* luaG_errormsg calls the message handler, or the error goes on without   *)
(* one.                                                                    *)
LEMMA RaiseHandled ==
  ASSUME Inv3, Inv1', Raise
  PROVE  HandledNext
<1>1. exc = "error" /\ errfunc' = errfunc
  BY DEF Raise
<1>2. /\ Whole(cs, ci, tbc, status, body, nC, nny, errfunc, "error")
      /\ cs[Len(cs)] = cur /\ cs[Len(cs)].thread = L /\ L \in Thread
      /\ ci[L] \in Seq(FrameSet) /\ tbc[L] \in Seq(VarSet) /\ cs \in Seq(Acts)
      /\ TopOf(L) = TopAt(ci[L], tbc[L])
      /\ AllCatches(cs, cs) /\ SamePcalls(ci[L], ci[L])
  BY <1>1, InvFacts, AllSame, PcallsSame DEF Inv1, Inv3
<1>3. /\ Ready(cs, ci, status, nC, nny, "error")
      /\ cs[Len(cs)].kind \in {"exec", "cfun", "unroll"}
  <2>1. Raising(cs, ci, nny, "error")
    BY ONLY <1>2, WholeFacts
  <2>2. cs[Len(cs)].kind \in {"exec", "cfun", "unroll"}
    BY ONLY <2>1 DEF Raising
  <2> QED
    BY ONLY <1>2, <2>2, WholeFacts
<1>4. CASE errfunc[L] = 0
  <2>1. ci' = ci /\ cs' = cs
    BY <1>4 DEF Raise
  <2> QED
    BY ONLY <1>1, <1>2, <2>1, Inv3, Inv1', HandledIdle
<1>5. CASE errfunc[L] # 0
  <2> DEFINE p == [kind |-> "handler", thread |-> L]
             d == Append(cs, p)
             x == FaultAt(cs, ci[L], tbc[L])
             z == TRUE
             inc == 2
  <2>1. CCall(inc, z, ErrorTop, ci[L], d)
    BY <1>5 DEF Raise
  <2>2. ErrorTop = x
    BY <1>2 DEF ErrorTop, FaultAt, below
  <2>3. p \in Acts /\ Bare(p)
    BY <1>2 DEF Acts, Bare
  <2>4. inc \in 1 .. 2 /\ z \in BOOLEAN
    OBVIOUS
  <2> HIDE DEF p, z, inc
  <2>5. x \in Nat /\ x > 0
    <3>1. ~First(cs[Len(cs)])
      BY ONLY <1>3 DEF First
    <3>2. cs[Len(cs) - 1] \in Acts
      BY ONLY <1>3, <3>1, BelowTop
    <3>3. TopAt(ci[L], tbc[L]) \in Nat /\ TopAt(ci[L], tbc[L]) > 0
      BY ONLY <1>2, TopAtFacts
    <3>4. x \in Nat /\ TopAt(ci[L], tbc[L]) <= x
      BY ONLY <1>2, <3>2, FaultAtFacts
    <3> HIDE DEF x
    <3> QED
      BY ONLY <3>3, <3>4
  <2> HIDE DEF x
  <2>6. CCall(inc, z, x, ci[L], d)
    BY ONLY <2>1, <2>2
  <2>7. d \in Seq(Acts) /\ AllCatches(cs, d)
    BY ONLY <1>2, <2>3, AllPush
  <2> HIDE DEF d
  <2> QED
    BY ONLY <1>1, <1>2, <2>4, <2>5, <2>6, <2>7, Inv3, Inv1', PlainCallHandled
<1> QED
  BY ONLY <1>4, <1>5
(* The frames of FR that are of a lua_pcallk are in GR too.                *)
LEMMA InPcallToo ==
  ASSUME NEW FR, NEW n, InPcall(FR, n), NEW GR, NEW m,
         \A q \in 1 .. n : FR[q].ypcall => q \in 1 .. m /\ GR[q].ypcall
  PROVE  InPcall(GR, m)
BY DEF InPcall

(* A lua_pcallk ends, and its thread has no call of luaD_pcall under way.  *)
LEMMA PledgedRestored ==
  ASSUME NEW c, NEW FR \in Seq(FrameSet), FR # <<>>, NEW e, NEW t, Pledged(c, FR, e, t),
         FR[Len(FR)].ypcall, NEW d, \A i \in 1 .. Len(d) : ~Catches(d[i], t),
         NEW f \in FrameSet, ~f.ypcall
  PROVE  Pledged(d, Retop(FR, Len(FR), f), FR[Len(FR)].olderr, t)
<1> DEFINE n == Len(FR)
           GR == Retop(FR, n, f)
<1>1. n \in Nat /\ n > 0 /\ n \in 1 .. n
  OBVIOUS
<1>2. Len(GR) = n /\ GR[n] = f /\ \A q \in 1 .. n - 1 : GR[q] = FR[q]
  <2>1. /\ Len(GR) = n /\ GR[Len(GR)] = f
        /\ \A q \in 1 .. n - 1 : GR[q] = FR[q]
    BY RetopFacts
  <2> HIDE DEF GR, n
  <2> QED
    BY ONLY <2>1
<1>3. FR[n].ypcall /\ \A p \in 1 .. n : FR[p].ypcall /\ FR[p].olderr # 0 =>
        "handler" \in Uses /\ InPcall(FR, p - 1)
  BY DEF Pledged
<1> HIDE DEF n, GR
<1>4. \A p \in 1 .. n : (p \in 1 .. n - 1 \/ p = n) /\ \A q \in 1 .. p - 1 : q \in 1 .. n - 1
  BY ONLY <1>1
<1>5. \A q \in 1 .. n - 1 : q \in 1 .. n
  BY ONLY <1>1
<1>6. FR[n].olderr # 0 => "handler" \in Uses /\ InPcall(GR, Len(GR))
  <2> SUFFICES ASSUME FR[n].olderr # 0 PROVE "handler" \in Uses /\ InPcall(GR, Len(GR))
    OBVIOUS
  <2>1. "handler" \in Uses /\ InPcall(FR, n - 1)
    BY ONLY <1>1, <1>3, FR[n].olderr # 0
  <2>2. \A q \in 1 .. n - 1 : FR[q].ypcall => q \in 1 .. Len(GR) /\ GR[q].ypcall
    BY ONLY <1>2, <1>5
  <2> QED
    BY ONLY <2>1, <2>2, InPcallToo
<1>7. ASSUME NEW p \in 1 .. Len(GR), GR[p].ypcall, GR[p].olderr # 0
      PROVE  "handler" \in Uses /\ InPcall(GR, p - 1)
  <2>1. p \in 1 .. n - 1 /\ p \in 1 .. n
    BY ONLY <1>2, <1>4, <1>7, ~f.ypcall
  <2>2. "handler" \in Uses /\ InPcall(FR, p - 1)
    BY ONLY <1>2, <1>3, <1>7, <2>1
  <2>3. \A q \in 1 .. p - 1 : FR[q].ypcall => q \in 1 .. p - 1 /\ GR[q].ypcall
    BY ONLY <1>2, <1>4, <2>1
  <2> QED
    BY ONLY <2>2, <2>3, InPcallToo
<1>8. Pledged(d, GR, FR[n].olderr, t)
  BY ONLY <1>6, <1>7, \A i \in 1 .. Len(d) : ~Catches(d[i], t) DEF Pledged
<1> QED
  BY ONLY <1>8 DEF GR, n

(* A lua_pcallk ends and puts errfunc back, or has already done so, when   *)
(* no other protected call of the thread is on the C stack.                *)
LEMMA HandledPcallk ==
  ASSUME Inv3, Inv1', ci[L] # <<>>, top.ypcall, \A i \in 1 .. Len(cs) : ~Catches(cs[i], L),
         AllCatches(cs, cs'), NEW f \in FrameSet, ~f.ypcall,
         ci' = [ci EXCEPT ![L] = WithTop(L, f)],
         errfunc' = [errfunc EXCEPT ![L] = top.olderr]
  PROVE  HandledNext
<1> DEFINE t == L
           FR == ci[t]
           e == errfunc[t]
<1>1. /\ t \in Thread /\ FR \in Seq(FrameSet) /\ FR # <<>> /\ Pledged(cs, FR, e, t)
      /\ FR[Len(FR)] = top /\ FR[Len(FR)].ypcall /\ WithTop(t, f) = Retop(FR, Len(FR), f)
      /\ ci \in [Thread -> Seq(FrameSet)] /\ errfunc \in [Thread -> Nat]
  BY PledgedNow, InvFacts DEF Inv3
<1>2. /\ \A i \in 1 .. Len(cs) : ~Catches(cs[i], t)
      /\ ci' = [ci EXCEPT ![t] = WithTop(t, f)]
      /\ errfunc' = [errfunc EXCEPT ![t] = top.olderr]
  OBVIOUS
<1> HIDE DEF t
<1>3. ci'[t] = Retop(FR, Len(FR), f) /\ \A u \in Thread : u # t => ci'[u] = ci[u]
  BY ONLY <1>1, <1>2
<1>4. errfunc'[t] = FR[Len(FR)].olderr /\ \A u \in Thread : u # t => errfunc'[u] = errfunc[u]
  BY ONLY <1>1, <1>2
<1>5. \A i \in 1 .. Len(cs') : ~Catches(cs'[i], t)
  BY ONLY <1>1, <1>2, AllCatches(cs, cs') DEF AllCatches, SameCatches
<1> HIDE DEF FR, e
<1>6. Pledged(cs', Retop(FR, Len(FR), f), FR[Len(FR)].olderr, t)
  BY ONLY <1>1, <1>5, f \in FrameSet, ~f.ypcall, PledgedRestored
<1>7. Pledged(cs', ci'[t], errfunc'[t], t)
  BY ONLY <1>3, <1>4, <1>6
<1>8. \A u \in Thread : u # t => SameCatches(cs, cs', u) /\ ci'[u] = ci[u] /\ errfunc'[u] = errfunc[u]
  BY ONLY <1>3, <1>4, AllCatches(cs, cs') DEF AllCatches
<1> QED
  BY ONLY <1>1, <1>7, <1>8, Inv3, Inv1', HandledStep

(* A C function that called lua_pcallk runs inside no luaD_pcall.          *)
LEMMA PcallkIsBare ==
  ASSUME Inv3, exc = "none", Call(cur), ci[L] # <<>>, top.ypcall
  PROVE  \A i \in 1 .. Len(cs) : ~Catches(cs[i], L)
<1> SUFFICES ASSUME NEW i \in 1 .. Len(cs), Catches(cs[i], L) PROVE FALSE
  OBVIOUS
<1>1. Inv1
  BY DEF Inv3
<1>2. /\ Len(cs) \in Nat /\ ci[L][Len(ci[L])] = top /\ Len(ci[L]) \in 1 .. Len(ci[L])
      /\ Len(ci[L]) \in Nat
  BY <1>1, InvFacts
<1>3. PICK j \in i .. Len(cs) : Guard(cs[j]) /\ cs[j].thread = L
  BY ONLY <1>1, i \in 1 .. Len(cs), Catches(cs[i], L), CatchIsGuarded
<1>4. j \in 1 .. Len(cs)
  BY ONLY <1>2, i \in 1 .. Len(cs), j \in i .. Len(cs)
<1>5. cs[j].depth < Len(ci[L]) /\ cs[j].depth \in Nat
  BY ONLY <1>1, <1>3, <1>4, exc = "none", Call(cur), GuardIsLower
<1>6. InnermostCatches
  BY ONLY <1>1, InnermostHolds
<1>7. \A q \in 1 .. Len(ci[L]) : q > cs[j].depth => ~ci[L][q].ypcall
  BY ONLY <1>3, <1>4, <1>6 DEF InnermostCatches, Guard
<1>8. Len(ci[L]) > cs[j].depth
  BY ONLY <1>2, <1>5
<1>9. ~ci[L][Len(ci[L])].ypcall
  BY ONLY <1>2, <1>7, <1>8
<1> QED
  BY ONLY <1>2, <1>9, top.ypcall

(* lua_pcallk returns without having yielded.                              *)
LEMMA PcallkReturnsHandled ==
  ASSUME Inv3, Inv1', PcallkReturns
  PROVE  HandledNext
<1> DEFINE f == [top EXCEPT !.ypcall = FALSE]
<1>1. /\ exc = "none" /\ Call(cur) /\ cs' = cs /\ top.ypcall
      /\ ci' = [ci EXCEPT ![L] = WithTop(L, f)] /\ errfunc' = [errfunc EXCEPT ![L] = top.olderr]
  BY DEF PcallkReturns, Running, Call
<1>2. ci[L] # <<>> /\ top \in FrameSet
  BY <1>1, RunFacts DEF Inv3
<1>3. f \in FrameSet /\ ~f.ypcall
  BY <1>2 DEF FrameSet
<1> HIDE DEF f
<1>4. AllCatches(cs, cs')
  BY ONLY <1>1, AllSame
<1>5. \A i \in 1 .. Len(cs) : ~Catches(cs[i], L)
  BY ONLY <1>1, <1>2, Inv3, PcallkIsBare
<1> QED
  BY ONLY <1>1, <1>2, <1>3, <1>4, <1>5, Inv3, Inv1', HandledPcallk

(* unroll calls the continuation of a function.                            *)
LEMMA ContinuationIsBare ==
  ASSUME NEW t \in Thread
  PROVE  Continuation(t) \in Acts /\ Bare(Continuation(t))
BY DEF Continuation, Acts, Bare

(* finishpcallk has closed the variables of the call that failed.          *)
LEMMA PcallkClosedHandled ==
  ASSUME Inv3, Inv1', PcallkClosed
  PROVE  HandledNext
<1> DEFINE f == [top EXCEPT !.recst = "ok", !.ypcall = FALSE]
           r == Continuation(L)
<1>1. /\ NothingToClose /\ cur.for = "finishpcallk"
      /\ cs' = Append(Popped(cs), r) /\ ci' = [ci EXCEPT ![L] = WithTop(L, f)]
      /\ errfunc' = [errfunc EXCEPT ![L] = top.olderr]
  BY DEF PcallkClosed, PcallkFinished, Popped, Front
<1>2. /\ ci[L] # <<>> /\ top \in FrameSet /\ top.ypcall /\ L \in Thread
      /\ cs \in Seq(Acts) /\ Len(cs) \in Nat /\ Len(cs) - 1 > 0
      /\ cs[Len(cs)] = cur /\ cs[Len(cs)].thread = L /\ cur.kind = "close"
      /\ Kinds(cs[Len(cs) - 1], cur)
      /\ Ready(cs, ci, status, nC, nny, "none")
  BY <1>1, ClosedTop
<1>3. f \in FrameSet /\ ~f.ypcall
  BY <1>2 DEF FrameSet
<1>4. r \in Acts /\ Bare(r)
  BY <1>2, ContinuationIsBare
<1> HIDE DEF f, r
<1>5. Bare(cs[Len(cs)])
  BY ONLY <1>2 DEF Bare
<1>6. AllCatches(cs, cs')
  <2>1. AllCatches(cs, Popped(cs)) /\ Popped(cs) \in Seq(Acts)
    <3>1. ~First(cs[Len(cs)]) /\ \A u \in Thread : u # cs[Len(cs)].thread => ci[u] = ci[u]
      BY ONLY <1>2 DEF First
    <3>2. Popped(cs) \in Seq(Acts)
      BY ONLY <1>2, <3>1, PoppedFacts
    <3>3. Len(cs) > 0
      BY ONLY <1>2
    <3> QED
      BY ONLY <1>2, <1>5, <3>2, <3>3, AllPop
  <2> QED
    BY ONLY <1>1, <1>4, <2>1, AllPush
<1>7. ASSUME NEW i \in 1 .. Len(cs) PROVE ~Catches(cs[i], L)
  <2> DEFINE n == Len(cs) - 1
  <2>1. n \in 1 .. Len(cs) /\ (i \in 1 .. n \/ i = Len(cs))
    BY ONLY <1>2, <1>7
  <2>2. cs[n].kind = "unroll" /\ cs[n].thread = L
    <3>1. ~First(cur)
      BY ONLY <1>2 DEF First
    <3> QED
      BY ONLY <1>1, <1>2, <3>1 DEF Kinds
  <2> HIDE DEF n
  <2>3. \A q \in 1 .. n : ~Catches(cs[q], L)
    BY ONLY <1>2, <2>1, <2>2, UnrollIsBare
  <2>4. ~Catches(cs[Len(cs)], L)
    BY ONLY <1>5, BareCatchesNot
  <2> QED
    BY ONLY <2>1, <2>3, <2>4
<1> QED
  BY ONLY <1>1, <1>2, <1>3, <1>6, <1>7, Inv3, Inv1', HandledPcallk

(* finishCcall.                                                            *)
LEMMA FinishCcallHandled ==
  ASSUME Inv3, Inv1', FinishCcall
  PROVE  HandledNext
<1>1. ci[L] # <<>> /\ cur.kind = "unroll"
  BY DEF FinishCcall, Unrolling
<1>2. /\ top \in FrameSet /\ L \in Thread /\ cs \in Seq(Acts) /\ Len(cs) \in 1 .. Len(cs)
      /\ cs[Len(cs)] = cur /\ cs[Len(cs)].thread = L /\ Ready(cs, ci, status, nC, nny, exc)
  BY <1>1, InvFacts DEF Inv3
<1> DEFINE q == Continuation(L)
<1>3. q \in Acts /\ Bare(q)
  BY <1>2, ContinuationIsBare
<1>4. CASE top.clsret /\ CloseAndReturn(cs) /\ errfunc' = errfunc
  BY ONLY <1>1, <1>4, Inv3, Inv1', CloseAndReturnHandled
<1>5. CASE ~top.clsret /\ top.ypcall /\ UnrollPcallk
  <2>1. CASE top.recst = "ok"
    <3> DEFINE f == [top EXCEPT !.recst = "ok", !.ypcall = FALSE]
    <3>1. /\ cs' = Append(cs, q) /\ ci' = [ci EXCEPT ![L] = WithTop(L, f)]
          /\ errfunc' = [errfunc EXCEPT ![L] = top.olderr]
      BY <1>5, <2>1 DEF UnrollPcallk, PcallkFinished
    <3>2. f \in FrameSet /\ ~f.ypcall
      BY <1>2 DEF FrameSet
    <3> HIDE DEF f, q
    <3>3. AllCatches(cs, cs')
      BY ONLY <1>2, <1>3, <3>1, AllSame, AllPush
    <3>4. \A i \in 1 .. Len(cs) : ~Catches(cs[i], L)
      BY ONLY <1>1, <1>2, UnrollIsBare
    <3> QED
      BY ONLY <1>1, <1>5, <3>1, <3>2, <3>3, <3>4, Inv3, Inv1', HandledPcallk
  <2>2. CASE top.recst # "ok"
    <3> DEFINE z == TRUE
               r == Closing(L, top.idx, z, "finishpcallk")
    <3>1. cs' = Append(cs, r) /\ ci' = ci /\ errfunc' = errfunc
      BY <1>5, <2>2 DEF UnrollPcallk
    <3>2. top.idx \in Nat
      BY ONLY <1>2, FrameFacts
    <3>3. z \in BOOLEAN
      OBVIOUS
    <3> HIDE DEF z
    <3>4. r \in Acts /\ Bare(r)
      BY <1>2, <3>2, <3>3, ClosingIsBare
    <3> HIDE DEF r
    <3> QED
      BY ONLY <3>1, <3>4, Inv3, Inv1', HandledPush
  <2> QED
    BY ONLY <2>1, <2>2
<1>6. CASE cs' = Append(cs, q) /\ ci' = ci /\ errfunc' = errfunc
  <2> HIDE DEF q
  <2> QED
    BY ONLY <1>3, <1>6, Inv3, Inv1', HandledPush
<1> QED
  BY <1>4, <1>5, <1>6 DEF FinishCcall
(* The last protected call of the thread t on the C stack ends.            *)
LEMMA PledgedPop ==
  ASSUME NEW c \in Seq(Acts), NEW FR, NEW e, NEW t, Pledged(c, FR, e, t),
         NEW n \in 1 .. Len(c), Catches(c[n], t)
  PROVE  Pledged(SubSeq(c, 1, n - 1), FR, c[n].errfunc, t)
<1> DEFINE m == n - 1
           d == SubSeq(c, 1, m)
<1>1. Len(c) \in Nat /\ n \in Nat /\ m \in Nat /\ m <= Len(c)
  OBVIOUS
<1>2. \A i \in 1 .. m : i \in 1 .. Len(c) /\ \A q \in 1 .. i - 1 : q \in 1 .. m
  BY ONLY <1>1
<1>3. c[n].errfunc # 0 => "handler" \in Uses /\ (InPcall(FR, Len(FR)) \/ InCatch(c, m, t))
  BY DEF Pledged
<1> HIDE DEF m
<1>4. Len(d) = m /\ \A i \in 1 .. m : d[i] = c[i]
  BY ONLY <1>1, c \in Seq(Acts)
<1> HIDE DEF d
<1>5. InCatch(c, m, t) => InCatch(d, Len(d), t)
  BY ONLY <1>4 DEF InCatch
<1>6. \A i \in 1 .. m : InCatch(c, i - 1, t) => InCatch(d, i - 1, t)
  BY ONLY <1>2, <1>4 DEF InCatch
<1>7. \A i \in 1 .. Len(d) : Catches(d[i], t) /\ d[i].errfunc # 0 =>
        "handler" \in Uses /\ (InPcall(FR, Len(FR)) \/ InCatch(d, i - 1, t))
  BY ONLY <1>2, <1>4, <1>6, Pledged(c, FR, e, t) DEF Pledged
<1>8. Pledged(d, FR, c[n].errfunc, t)
  BY ONLY <1>3, <1>5, <1>7, Pledged(c, FR, e, t) DEF Pledged
<1> QED
  BY ONLY <1>8 DEF d, m

(* The end of luaD_pcall: the C stack is cut below it.                     *)
LEMMA HandledCut ==
  ASSUME Inv3, Inv1', NEW n \in 1 .. Len(cs), Catches(cs[n], L),
         \A i \in n .. Len(cs) : cs[i].thread = L,
         cs' = SubSeq(cs, 1, n - 1), ci' = ci,
         errfunc' = [errfunc EXCEPT ![L] = cs[n].errfunc]
  PROVE  HandledNext
<1> DEFINE t == L
<1>1. /\ t \in Thread /\ Pledged(cs, ci[t], errfunc[t], t)
      /\ cs \in Seq(Acts) /\ Len(cs) \in Nat /\ errfunc \in [Thread -> Nat]
  BY PledgedNow, InvFacts DEF Inv3
<1>2. /\ Catches(cs[n], t) /\ \A i \in n .. Len(cs) : cs[i].thread = t
      /\ errfunc' = [errfunc EXCEPT ![t] = cs[n].errfunc]
  OBVIOUS
<1> HIDE DEF t
<1>3. Pledged(cs', ci'[t], errfunc'[t], t)
  <2>1. Pledged(SubSeq(cs, 1, n - 1), ci[t], cs[n].errfunc, t)
    BY ONLY <1>1, <1>2, n \in 1 .. Len(cs), PledgedPop
  <2>2. errfunc'[t] = cs[n].errfunc
    BY ONLY <1>1, <1>2
  <2> QED
    BY ONLY <2>1, <2>2, cs' = SubSeq(cs, 1, n - 1), ci' = ci
<1>4. ASSUME NEW u \in Thread, u # t
      PROVE  SameCatches(cs, cs', u) /\ ci'[u] = ci[u] /\ errfunc'[u] = errfunc[u]
  <2> DEFINE m == n - 1
  <2>1. m \in 0 .. Len(cs) /\ \A i \in m + 1 .. Len(cs) : i \in n .. Len(cs)
    BY ONLY <1>1, n \in 1 .. Len(cs)
  <2>2. cs' = SubSeq(cs, 1, m)
    BY ONLY cs' = SubSeq(cs, 1, n - 1)
  <2> HIDE DEF m
  <2>3. \A i \in m + 1 .. Len(cs) : ~Catches(cs[i], u)
    BY ONLY <1>2, <1>4, <2>1 DEF Catches
  <2>4. SameCatches(cs, cs', u)
    BY ONLY <1>1, <2>1, <2>2, <2>3, CatchesCut
  <2>5. errfunc'[u] = errfunc[u]
    BY ONLY <1>1, <1>2, <1>4
  <2> QED
    BY ONLY <2>4, <2>5, ci' = ci
<1> QED
  BY ONLY <1>1, <1>3, <1>4, Inv3, Inv1', HandledStep

(* luaD_pcall returns.                                                     *)
LEMMA PcallReturnsHandled ==
  ASSUME Inv3, Inv1', PcallReturns
  PROVE  HandledNext
<1> DEFINE n == Len(cs)
<1>1. /\ cur.kind = "try" /\ cur.of = "pcall" /\ ci' = ci /\ cs' = SubSeq(cs, 1, n - 1)
      /\ errfunc' = [errfunc EXCEPT ![L] = cur.errfunc]
  BY DEF PcallReturns, Front
<1>2. n \in 1 .. Len(cs) /\ cs[n] = cur /\ cs[n].thread = L /\ n \in Nat
  BY InvFacts DEF Inv3
<1>3. \A i \in n .. Len(cs) : i = n
  <2>1. \A i \in n .. n : i = n
    BY ONLY <1>2
  <2> QED
    BY ONLY <2>1
<1> HIDE DEF n
<1>4. \A i \in n .. Len(cs) : cs[i].thread = L
  BY ONLY <1>2, <1>3
<1>5. Catches(cs[n], L)
  BY ONLY <1>1, <1>2 DEF Catches
<1>6. errfunc' = [errfunc EXCEPT ![L] = cs[n].errfunc]
  BY ONLY <1>1, <1>2
<1> QED
  BY ONLY <1>1, <1>2, <1>4, <1>5, <1>6, Inv3, Inv1', HandledCut

(* luaD_closeprotected is done, and luaD_pcall puts errfunc back.          *)
LEMMA ProtectedClosedHandled ==
  ASSUME Inv3, Inv1', ProtectedClosed
  PROVE  HandledNext
<1>1. /\ NothingToClose /\ cur.for = "protected" /\ cs' = SubSeq(cs, 1, Len(cs) - 3) /\ ci' = ci
      /\ errfunc' = IF cs[Len(cs) - 2].kind = "caught"
                      THEN [errfunc EXCEPT ![L] = cs[Len(cs) - 2].errfunc] ELSE errfunc
  BY DEF ProtectedClosed
<1>2. /\ cs \in Seq(Acts) /\ Len(cs) \in Nat /\ cs[Len(cs)] = cur /\ cur.kind = "close"
      /\ cs[Len(cs)].thread = L /\ Ready(cs, ci, status, nC, nny, "none")
  BY <1>1, ClosedTop
<1>3. /\ Len(cs) - 3 \in Nat /\ Len(cs) - 3 > 0
      /\ cs[Len(cs) - 1].thread = L /\ cs[Len(cs) - 2].thread = L
      /\ cs[Len(cs) - 1].kind = "try" /\ cs[Len(cs) - 1].of = "close"
      /\ cs[Len(cs) - 2].kind \in {"caught", "reset"}
  <2>1. cs[Len(cs)].kind = "close" /\ cs[Len(cs)].for = "protected"
    BY ONLY <1>1, <1>2
  <2> QED
    BY ONLY <1>2, <2>1, ProtectedTop
<1> DEFINE n == Len(cs) - 2
<1>4. /\ n \in 1 .. Len(cs) /\ n - 1 = Len(cs) - 3 /\ n - 1 \in 0 .. Len(cs)
      /\ \A i \in n .. Len(cs) : i = n \/ i = Len(cs) - 1 \/ i = Len(cs)
      /\ \A i \in (n - 1) + 1 .. Len(cs) : i \in n .. Len(cs)
  <2> DEFINE k == Len(cs)
  <2>1. k \in Nat /\ k - 3 \in Nat /\ k - 3 > 0
    BY ONLY <1>2, <1>3
  <2> HIDE DEF k
  <2>2. /\ k - 2 \in 1 .. k /\ (k - 2) - 1 = k - 3 /\ (k - 2) - 1 \in 0 .. k
        /\ \A i \in k - 2 .. k : i = k - 2 \/ i = k - 1 \/ i = k
    BY ONLY <2>1
  <2>3. \A i \in ((k - 2) - 1) + 1 .. k : i \in k - 2 .. k
    BY ONLY <2>1
  <2> QED
    BY ONLY <2>2, <2>3 DEF k
<1>5. cs' = SubSeq(cs, 1, n - 1) /\ cs[n].thread = L
  <2>1. n - 1 = Len(cs) - 3
    BY ONLY <1>4
  <2> QED
    BY ONLY <1>1, <1>3, <2>1, ZenonT(60)
<1>6. CASE cs[n].kind = "caught"
  <2>1. errfunc' = [errfunc EXCEPT ![L] = cs[n].errfunc]
    BY ONLY <1>1, <1>6
  <2> HIDE DEF n
  <2>2. \A i \in n .. Len(cs) : cs[i].thread = L
    BY ONLY <1>2, <1>3, <1>4, <1>5
  <2>3. Catches(cs[n], L)
    BY ONLY <1>5, <1>6 DEF Catches
  <2> QED
    BY ONLY <1>1, <1>4, <1>5, <2>1, <2>2, <2>3, Inv3, Inv1', HandledCut
<1>7. CASE cs[n].kind = "reset"
  <2>1. errfunc' = errfunc
    BY ONLY <1>1, <1>7
  <2>2. Bare(cs[Len(cs)]) /\ Bare(cs[Len(cs) - 1]) /\ Bare(cs[n])
    BY ONLY <1>2, <1>3, <1>7 DEF Bare
  <2> HIDE DEF n
  <2>3. \A i \in (n - 1) + 1 .. Len(cs) : Bare(cs[i])
    BY ONLY <1>4, <2>2
  <2>4. AllCatches(cs, cs')
    BY ONLY <1>2, <1>4, <1>5, <2>3, AllCut
  <2> QED
    BY ONLY <1>1, <2>1, <2>4, Inv3, Inv1', HandledIdle
<1> QED
  BY ONLY <1>3, <1>6, <1>7

-----------------------------------------------------------------------------
(* lua_pcallk where the thread can yield: its frame f remembers the        *)
(* handler.                                                                *)
LEMMA PledgedPcallk ==
  ASSUME NEW c, NEW FR \in Seq(FrameSet), FR # <<>>, NEW e, NEW t, Pledged(c, FR, e, t),
         ~FR[Len(FR)].ypcall, \A i \in 1 .. Len(c) : ~Catches(c[i], t),
         NEW f \in FrameSet, f.ypcall, f.olderr = e, NEW e2, e2 # 0 => "handler" \in Uses
  PROVE  Pledged(c, Retop(FR, Len(FR), f), e2, t)
<1> DEFINE n == Len(FR)
           GR == Retop(FR, n, f)
<1>1. n \in Nat /\ n > 0 /\ n \in 1 .. n
  OBVIOUS
<1>2. Len(GR) = n /\ GR[n] = f /\ \A q \in 1 .. n - 1 : GR[q] = FR[q]
  <2>1. /\ Len(GR) = n /\ GR[Len(GR)] = f
        /\ \A q \in 1 .. n - 1 : GR[q] = FR[q]
    BY RetopFacts
  <2> HIDE DEF GR, n
  <2> QED
    BY ONLY <2>1
<1>3. /\ ~FR[n].ypcall
      /\ e # 0 => "handler" \in Uses /\ (InPcall(FR, n) \/ InCatch(c, Len(c), t))
      /\ \A p \in 1 .. n : FR[p].ypcall /\ FR[p].olderr # 0 =>
           "handler" \in Uses /\ InPcall(FR, p - 1)
  BY DEF Pledged
<1> HIDE DEF n, GR
<1>4. /\ \A p \in 1 .. n : p \in 1 .. n - 1 \/ p = n
      /\ \A p \in 1 .. n : \A q \in 1 .. p - 1 : q \in 1 .. n - 1
  BY ONLY <1>1
<1>5. InPcall(GR, Len(GR))
  BY ONLY <1>1, <1>2, f.ypcall DEF InPcall
<1>6. ~InCatch(c, Len(c), t)
  BY ONLY \A i \in 1 .. Len(c) : ~Catches(c[i], t) DEF InCatch
<1>7. ASSUME NEW p \in 1 .. n, GR[p].ypcall, GR[p].olderr # 0
      PROVE  "handler" \in Uses /\ InPcall(GR, p - 1)
  <2>1. CASE p \in 1 .. n - 1
    <3>1. "handler" \in Uses /\ InPcall(FR, p - 1)
      BY ONLY <1>2, <1>3, <1>7, <2>1
    <3>2. \A q \in 1 .. p - 1 : FR[q].ypcall => q \in 1 .. p - 1 /\ GR[q].ypcall
      BY ONLY <1>2, <1>4, <1>7
    <3> QED
      BY ONLY <3>1, <3>2, InPcallToo
  <2>2. CASE p = n
    <3>1. "handler" \in Uses /\ InPcall(FR, n)
      BY ONLY <1>2, <1>3, <1>6, <1>7, <2>2, f.olderr = e
    <3>2. \A q \in 1 .. n : FR[q].ypcall => q \in 1 .. p - 1 /\ GR[q].ypcall
      BY ONLY <1>2, <1>3, <1>4, <2>2
    <3> QED
      BY ONLY <3>1, <3>2, InPcallToo
  <2> QED
    BY ONLY <1>4, <1>7, <2>1, <2>2
<1>8. Pledged(c, GR, e2, t)
  BY ONLY <1>2, <1>5, <1>7, e2 # 0 => "handler" \in Uses,
          \A i \in 1 .. Len(c) : ~Catches(c[i], t) DEF Pledged
<1> QED
  BY ONLY <1>8 DEF GR, n

(* The C function that calls lua_pcallk runs inside no luaD_pcall.         *)
LEMMA PcallkStartsBare ==
  ASSUME Inv3, Inv1', exc = "none", Call(cur), ci[L] # <<>>,
         NEW isLua \in BOOLEAN, NEW f \in FrameSet, f.ypcall,
         CCall(1, isLua, TopOf(L), WithTop(L, f), cs)
  PROVE  \A i \in 1 .. Len(cs) : ~Catches(cs[i], L)
<1> SUFFICES ASSUME NEW i \in 1 .. Len(cs), Catches(cs[i], L) PROVE FALSE
  OBVIOUS
<1> DEFINE t == L
           n == Len(ci[t])
           GR == WithTop(t, f)
<1>1. Inv1 /\ t \in Thread /\ cs \in Seq(Acts) /\ Len(cs) \in Nat
      /\ ci \in [Thread -> Seq(FrameSet)] /\ n \in Nat /\ n > 0
  BY InvFacts DEF Inv3
<1>2. GR \in Seq(FrameSet) /\ Len(GR) = n /\ GR[n] = f
  <2>1. GR = Retop(ci[t], n, f)
    BY InvFacts DEF Inv3
  <2>2. ci[t] \in Seq(FrameSet) /\ ci[t] # <<>>
    BY ONLY <1>1, ci[L] # <<>>
  <2>3. /\ Retop(ci[t], n, f) \in Seq(FrameSet) /\ Len(Retop(ci[t], n, f)) = n
        /\ Retop(ci[t], n, f)[Len(Retop(ci[t], n, f))] = f
    <3> HIDE DEF t
    <3> QED
      BY ONLY <2>2, f \in FrameSet, RetopFacts DEF n
  <2> HIDE DEF GR, n, t
  <2> QED
    BY ONLY <2>1, <2>3
<1>3. PICK j \in i .. Len(cs) : Guard(cs[j]) /\ cs[j].thread = t
  BY ONLY <1>1, i \in 1 .. Len(cs), Catches(cs[i], L), CatchIsGuarded
<1>4. j \in 1 .. Len(cs)
  BY ONLY <1>1, i \in 1 .. Len(cs), j \in i .. Len(cs)
<1>5. cs[j].depth < n /\ cs[j].depth \in Nat
  BY ONLY <1>1, <1>3, <1>4, exc = "none", Call(cur), GuardIsLower
<1> DEFINE r == Activation(isLua, 1)
           g == Frame(isLua, TRUE, TopOf(L))
<1>6. /\ cs' = Append(cs, r)
      /\ ci' = [ci EXCEPT ![t] = IF Overflow(nC[L] + 1) = "none" THEN Append(GR, g) ELSE GR]
  BY DEF CCall
<1> HIDE DEF r, g, t, GR, n
<1>7. ci'[t] = Append(GR, g) \/ ci'[t] = GR
  BY ONLY <1>1, <1>6
<1>8. n \in 1 .. Len(ci'[t]) /\ ci'[t][n] = f
  <2>1. CASE ci'[t] = GR
    BY ONLY <1>1, <1>2, <2>1
  <2>2. CASE ci'[t] = Append(GR, g)
    BY ONLY <1>1, <1>2, <2>2
  <2> QED
    BY ONLY <1>7, <2>1, <2>2
<1>9. j \in 1 .. Len(cs') /\ cs'[j] = cs[j]
  BY ONLY <1>1, <1>4, <1>6
<1>10. \A k \in 1 .. Len(cs') : cs'[k].kind = "try" /\ cs'[k].of # "resume" =>
         \A q \in 1 .. Len(ci'[cs'[k].thread]) :
           q > cs'[k].depth => ~ci'[cs'[k].thread][q].ypcall
  <2>1. InnermostCatches'
    BY ONLY Inv1', InnermostNext
  <2> QED
    BY ONLY <2>1 DEF InnermostCatches
<1>11. \A q \in 1 .. Len(ci'[t]) : q > cs[j].depth => ~ci'[t][q].ypcall
  BY ONLY <1>3, <1>9, <1>10 DEF Guard
<1>12. n > cs[j].depth
  BY ONLY <1>1, <1>5
<1> QED
  BY ONLY <1>8, <1>11, <1>12, f.ypcall

(* lua_pcallk, by luaD_pcall or, in a coroutine that may yield and with a  *)
(* continuation, by a plain call.                                          *)
LEMMA PcallFromCHandled ==
  ASSUME Inv3, Inv1', NEW k \in BOOLEAN, NEW handler \in BOOLEAN, NEW isLua \in BOOLEAN,
         PcallFromC(k, handler, isLua)
  PROVE  HandledNext
<1> DEFINE f == [top EXCEPT !.k = TRUE, !.ypcall = TRUE,
                            !.olderr = errfunc[L], !.idx = TopOf(L)]
           p == Try(L, "pcall", Len(ci[L]), <<nC[L], nny[L]>>, TopOf(L), errfunc[L])
           x == IF handler THEN top.func ELSE 0
<1>1. /\ exc = "none" /\ Call(cur) /\ ~top.ypcall /\ (handler => "handler" \in Uses)
      /\ errfunc' = [errfunc EXCEPT ![L] = x]
      /\ IF k /\ yieldable
           THEN CCall(1, isLua, TopOf(L), WithTop(L, f), cs)
           ELSE CCall(2, isLua, TopOf(L), ci[L], Append(cs, p))
  BY DEF PcallFromC, InC, Running, Call
<1>2. ci[L] # <<>> /\ top \in FrameSet /\ 1 \in 1 .. 2
  BY <1>1, RunFacts DEF Inv3
<1>3. /\ cs \in Seq(Acts) /\ ci[L] \in Seq(FrameSet) /\ L \in Thread /\ Len(ci[L]) \in Nat
      /\ nC[L] \in Nat /\ nny[L] \in Nat /\ errfunc[L] \in Nat
      /\ TopOf(L) \in Nat /\ TopOf(L) > 0 /\ errfunc \in [Thread -> Nat]
      /\ Pledged(cs, ci[L], errfunc[L], L) /\ ci[L][Len(ci[L])] = top
      /\ WithTop(L, f) = Retop(ci[L], Len(ci[L]), f)
  BY <1>2, InvFacts, PledgedNow DEF Inv3
<1>4. f \in FrameSet /\ f.ypcall /\ f.olderr = errfunc[L]
  BY <1>2, <1>3 DEF FrameSet
<1>5. p \in Acts /\ p.kind = "try" /\ p.thread = L /\ p.of = "pcall" /\ p.errfunc = errfunc[L]
  <2>1. p \in Acts
    BY <1>3, TryFacts, ZenonT(60)
  <2> QED
    BY <2>1 DEF Try
<1>6. x # 0 => "handler" \in Uses
  BY <1>1
<1> HIDE DEF f, p, x
<1>7. errfunc'[L] = x /\ \A u \in Thread : u # L => errfunc'[u] = errfunc[u]
  BY ONLY <1>1, <1>3
<1>8. CASE k /\ yieldable
  <2>1. CCall(1, isLua, TopOf(L), WithTop(L, f), cs)
    BY <1>1, <1>8
  <2>2. \A i \in 1 .. Len(cs) : ~Catches(cs[i], L)
    BY ONLY <1>1, <1>2, <1>4, <2>1, Inv3, Inv1', isLua \in BOOLEAN, PcallkStartsBare
  <2> DEFINE GR == WithTop(L, f)
  <2>3. GR \in Seq(FrameSet) /\ Pledged(cs, GR, errfunc'[L], L)
    <3> DEFINE t == L
               FR == ci[t]
               e == errfunc[t]
    <3>1. /\ FR \in Seq(FrameSet) /\ FR # <<>> /\ Pledged(cs, FR, e, t)
          /\ ~FR[Len(FR)].ypcall /\ (\A i \in 1 .. Len(cs) : ~Catches(cs[i], t))
          /\ f \in FrameSet /\ f.ypcall /\ f.olderr = e /\ (x # 0 => "handler" \in Uses)
          /\ GR = Retop(FR, Len(FR), f)
      BY ONLY <1>1, <1>2, <1>3, <1>4, <1>6, <2>2
    <3> HIDE DEF t, FR, e, GR
    <3>2. Pledged(cs, Retop(FR, Len(FR), f), x, t)
      BY ONLY <3>1, PledgedPcallk
    <3>3. Retop(FR, Len(FR), f) \in Seq(FrameSet)
      BY ONLY <3>1, RetopFacts
    <3> QED
      BY ONLY <1>7, <3>1, <3>2, <3>3 DEF t
  <2> HIDE DEF GR
  <2>4. CCall(1, isLua, TopOf(L), GR, cs)
    BY ONLY <2>1 DEF GR
  <2>5. \A u \in Thread : u # L => SameCatches(cs, cs, u) /\ errfunc'[u] = errfunc[u]
    BY ONLY <1>7, CatchesSame
  <2> QED
    BY ONLY <1>2, <1>3, <2>3, <2>4, <2>5, Inv3, Inv1', isLua \in BOOLEAN, CallHandled
<1>9. CASE ~(k /\ yieldable)
  <2>1. CCall(2, isLua, TopOf(L), ci[L], Append(cs, p))
    BY <1>1, <1>9
  <2>2. Catches(p, L)
    BY ONLY <1>5 DEF Catches
  <2> QED
    BY ONLY <1>5, <1>6, <1>7, <2>1, <2>2, Inv3, Inv1', isLua \in BOOLEAN, TryCallHandled
<1> QED
  BY ONLY <1>8, <1>9
-----------------------------------------------------------------------------
(* Errors *)

(* An error gets past no protected call of luaD_pcall.                     *)
LEMMA AboveTarget ==
  ASSUME Inv3, exc \in {"err", "yield", "exception"}
  PROVE  /\ Target \in 1 .. Len(cs) /\ Target \in Nat /\ Len(cs) \in Nat /\ cs \in Seq(Acts)
         /\ Catcher = cs[Target] /\ cs[Target].kind = "try" /\ cs[Target].thread = L
         /\ cs[Target] \in Acts
         /\ \A i \in Target + 1 .. Len(cs) : Bare(cs[i])
<1>1. Inv1
  BY DEF Inv3
<1>2. /\ Target \in 1 .. Len(cs) - 1 /\ Catcher = cs[Target]
      /\ cs[Target].kind = "try" /\ cs[Target].thread = L /\ cs[Target] \in Acts
      /\ \A i \in Target + 1 .. Len(cs) : cs[i].kind # "try"
  BY ONLY <1>1, exc \in {"err", "yield", "exception"}, TargetFacts
<1>3. Len(cs) \in Nat /\ cs \in Seq(Acts)
  BY ONLY <1>1, InvFacts
<1>4. ASSUME NEW i \in Target + 1 .. Len(cs), cs[i].kind = "caught" PROVE FALSE
  <2>1. i \in 1 .. Len(cs)
    BY ONLY <1>2, <1>3, <1>4
  <2>2. i + 1 \in 1 .. Len(cs) /\ Guard(cs[i + 1])
    BY ONLY <1>1, <1>4, <2>1, CaughtIsGuarded
  <2>3. i + 1 \in Target + 1 .. Len(cs)
    BY ONLY <1>2, <1>3, <1>4, <2>2
  <2> QED
    BY ONLY <1>2, <2>2, <2>3 DEF Guard
<1>5. \A i \in Target + 1 .. Len(cs) : Bare(cs[i])
  BY ONLY <1>2, <1>4 DEF Bare
<1>6. Target \in 1 .. Len(cs) /\ Target \in Nat
  BY ONLY <1>2, <1>3
<1> QED
  BY ONLY <1>2, <1>3, <1>5, <1>6

(* The C stack is cut below a protected call that is not one of luaD_pcall.*)
LEMMA CutBelowTarget ==
  ASSUME Inv3, exc \in {"err", "yield", "exception"}, Catcher.of # "pcall"
  PROVE  /\ AllCatches(cs, SubSeq(cs, 1, Target - 1)) /\ SubSeq(cs, 1, Target - 1) \in Seq(Acts)
         /\ AllCatches(cs, SubSeq(cs, 1, Target)) /\ SubSeq(cs, 1, Target) \in Seq(Acts)
<1>1. /\ Target \in 1 .. Len(cs) /\ Target \in Nat /\ Len(cs) \in Nat /\ cs \in Seq(Acts)
      /\ Catcher = cs[Target] /\ cs[Target].kind = "try"
      /\ \A i \in Target + 1 .. Len(cs) : Bare(cs[i])
  BY AboveTarget
<1> DEFINE n == Target - 1
           m == Target
<1>2. /\ n \in 0 .. Len(cs) /\ m \in 0 .. Len(cs)
      /\ \A i \in n + 1 .. Len(cs) : i = Target \/ i \in Target + 1 .. Len(cs)
  BY ONLY <1>1
<1>3. Bare(cs[Target])
  BY ONLY <1>1, Catcher.of # "pcall" DEF Bare
<1>4. \A i \in m + 1 .. Len(cs) : Bare(cs[i])
  BY ONLY <1>1
<1>5. \A i \in n + 1 .. Len(cs) : Bare(cs[i])
  BY ONLY <1>1, <1>2, <1>3
<1> HIDE DEF n, m
<1>6. AllCatches(cs, SubSeq(cs, 1, n)) /\ AllCatches(cs, SubSeq(cs, 1, m))
  BY ONLY <1>1, <1>2, <1>4, <1>5, AllCut
<1>7. SubSeq(cs, 1, n) \in Seq(Acts) /\ SubSeq(cs, 1, m) \in Seq(Acts)
  BY ONLY <1>1, <1>2
<1> QED
  BY ONLY <1>6, <1>7 DEF n, m

(* A protected call catches an error, and d is the C stack up to           *)
(* luaD_closeprotected.                                                    *)
LEMMA GuardCaughtHandled ==
  ASSUME Inv3, Inv1', exc \in {"err", "yield", "exception"}, Catcher.of # "resume",
         ci' = [ci EXCEPT ![L] = SubSeq(@, 1, Catcher.depth)], errfunc' = errfunc,
         NEW d \in Seq(Acts), AllCatches(cs, d), cs' = d \o Protect(Catcher)
  PROVE  HandledNext
<1> DEFINE r == Try(L, "close", Catcher.depth, <<Catcher.nC, Catcher.nny>>, Catcher.level, 0)
           p == Closing(L, Catcher.level, FALSE, "protected")
<1>1. /\ Inv1 /\ L \in Thread /\ ci \in [Thread -> Seq(FrameSet)] /\ ci[L] \in Seq(FrameSet)
      /\ Len(ci[L]) \in Nat
  BY InvFacts DEF Inv3
<1>2. Catcher \in Acts /\ Catcher.kind = "try"
  BY AboveTarget
<1>3. /\ Catcher.level \in Nat /\ Catcher.depth \in Nat /\ Catcher.nC \in Nat
      /\ Catcher.nny \in Nat
  BY ONLY <1>2, ActFacts
<1>4. /\ Catcher.depth \in 0 .. Len(ci[L])
      /\ \A q \in Catcher.depth + 1 .. Len(ci[L]) : ~ci[L][q].ypcall
  BY ONLY <1>1, exc \in {"err", "yield", "exception"}, Catcher.of # "resume", FramesCut
<1>5. r \in Acts /\ Bare(r)
  <2>1. \A a, b, i, j \in Nat : Try(L, "close", a, <<b, i>>, j, 0) \in Acts
    BY ONLY <1>1 DEF Try, Acts
  <2>2. r \in Acts
    BY ONLY <1>3, <2>1
  <2> QED
    BY <2>2 DEF Try, Bare
<1>6. p \in Acts /\ Bare(p)
  BY <1>1, <1>3 DEF Closing, Acts, Bare
<1>7. cs' = d \o <<r, p>>
  BY DEF Protect
<1> HIDE DEF r, p
<1>8. cs' = Append(Append(d, r), p) /\ Append(d, r) \in Seq(Acts)
  BY ONLY <1>5, <1>6, <1>7, d \in Seq(Acts)
<1>9. AllCatches(cs, cs')
  <2>1. AllCatches(cs, Append(d, r))
    BY ONLY <1>5, d \in Seq(Acts), AllCatches(cs, d), AllPush
  <2> QED
    BY ONLY <1>6, <1>8, <2>1, AllPush
<1> DEFINE m == Catcher.depth
           FR == ci[L]
           GR == SubSeq(FR, 1, m)
<1>10. ci'[L] = GR /\ \A u \in Thread : u # L => ci'[u] = ci[u]
  BY ONLY <1>1, ci' = [ci EXCEPT ![L] = SubSeq(@, 1, Catcher.depth)]
<1>11. /\ m \in 0 .. Len(FR) /\ FR \in Seq(FrameSet)
       /\ \A q \in m + 1 .. Len(FR) : ~FR[q].ypcall
  BY ONLY <1>1, <1>4
<1> HIDE DEF m
<1>12. Len(GR) = m /\ \A q \in 1 .. m : GR[q] = FR[q]
  <2> HIDE DEF FR
  <2> QED
    BY ONLY <1>11
<1> HIDE DEF GR
<1>13. SamePcalls(FR, GR)
  <2> HIDE DEF FR
  <2> QED
    BY ONLY <1>11, <1>12, PcallsCut
<1>14. SamePcalls(ci[L], ci'[L])
  BY ONLY <1>10, <1>13
<1> QED
  BY ONLY <1>9, <1>10, <1>14, Inv3, Inv1', errfunc' = errfunc, HandledRun

(* luaD_closeprotected catches an error of a __close metamethod.           *)
LEMMA CaughtWhileClosingHandled ==
  ASSUME Inv3, Inv1', CaughtWhileClosing
  PROVE  HandledNext
<1> DEFINE d == SubSeq(cs, 1, Target - 1)
<1>1. /\ exc \in {"err", "yield", "exception"} /\ Catcher.of = "close"
      /\ ci' = [ci EXCEPT ![L] = SubSeq(@, 1, Catcher.depth)] /\ errfunc' = errfunc
      /\ cs' = d \o Protect(Catcher)
  BY DEF CaughtWhileClosing, Catch
<1>2. Catcher.of # "resume" /\ Catcher.of # "pcall"
  BY ONLY <1>1
<1>3. AllCatches(cs, d) /\ d \in Seq(Acts)
  BY ONLY <1>1, <1>2, Inv3, CutBelowTarget
<1> HIDE DEF d
<1> QED
  BY ONLY <1>1, <1>2, <1>3, Inv3, Inv1', GuardCaughtHandled

(* luaD_pcall has still to put its handler back.                           *)
LEMMA CaughtByPcallHandled ==
  ASSUME Inv3, Inv1', CaughtByPcall
  PROVE  HandledNext
<1> DEFINE n == Target - 1
           k == [kind |-> "caught", thread |-> L, errfunc |-> Catcher.errfunc]
           d == SubSeq(cs, 1, n) \o <<k>>
<1>1. /\ exc \in {"err", "yield", "exception"} /\ Catcher.of = "pcall"
      /\ ci' = [ci EXCEPT ![L] = SubSeq(@, 1, Catcher.depth)] /\ errfunc' = errfunc
      /\ cs' = d \o Protect(Catcher)
  BY DEF CaughtByPcall, Catch
<1>2. /\ Target \in 1 .. Len(cs) /\ Target \in Nat /\ Len(cs) \in Nat /\ cs \in Seq(Acts)
      /\ Catcher = cs[Target] /\ cs[Target].kind = "try" /\ cs[Target].thread = L
      /\ cs[Target] \in Acts
      /\ \A i \in Target + 1 .. Len(cs) : Bare(cs[i])
  BY ONLY <1>1, Inv3, AboveTarget
<1>3. L \in Thread /\ Catcher.errfunc \in Nat
  <2>1. L \in Thread
    BY InvFacts DEF Inv3
  <2> QED
    BY ONLY <1>2, <2>1, ActFacts
<1>4. /\ k \in Acts /\ k.kind = "caught" /\ k.thread = L /\ k.errfunc = Catcher.errfunc
  BY ONLY <1>3 DEF Acts
<1>5. /\ n \in Nat /\ n <= Len(cs) /\ n + 1 = Target
      /\ \A i \in 1 .. n : i \in 1 .. Len(cs)
      /\ \A i \in 1 .. Len(cs) : i \in 1 .. n \/ i = Target \/ i \in Target + 1 .. Len(cs)
  BY ONLY <1>2
<1> HIDE DEF k, n
<1>6. /\ d \in Seq(Acts) /\ Len(d) = Target /\ d[Target] = k
      /\ \A i \in 1 .. n : d[i] = cs[i] /\ i \in 1 .. Len(d)
      /\ \A i \in 1 .. Len(d) : i \in 1 .. n \/ i = Target
  <2>1. /\ d \in Seq(Acts) /\ Len(d) = n + 1 /\ d[n + 1] = k
        /\ \A i \in 1 .. n : d[i] = cs[i] /\ i \in 1 .. n + 1
        /\ \A i \in 1 .. n + 1 : i \in 1 .. n \/ i = n + 1
    <3> DEFINE x == SubSeq(cs, 1, n)
    <3>1. x \in Seq(Acts) /\ Len(x) = n /\ \A i \in 1 .. n : x[i] = cs[i]
      BY ONLY <1>2, <1>5
    <3>2. d = x \o <<k>>
      OBVIOUS
    <3> HIDE DEF x, d
    <3> QED
      BY ONLY <1>4, <1>5, <3>1, <3>2
  <2> HIDE DEF d
  <2> QED
    BY ONLY <1>5, <2>1
<1> HIDE DEF d
<1>7. ASSUME NEW u \in Thread PROVE SameCatches(cs, d, u)
  <2>1. /\ Catches(cs[Target], u) <=> u = L
        /\ Catches(k, u) <=> u = L
        /\ k.errfunc = cs[Target].errfunc
    BY ONLY <1>1, <1>2, <1>4 DEF Catches
  <2>2. \A i \in Target + 1 .. Len(cs) : ~Catches(cs[i], u)
    BY ONLY <1>2, BareCatchesNot
  <2>3. Target \in 1 .. Len(d)
    BY ONLY <1>2, <1>6
  <2>4. \A i \in 1 .. Len(cs) : Catches(cs[i], u) =>
          i \in 1 .. Len(d) /\ Catches(d[i], u) /\ d[i].errfunc = cs[i].errfunc
    BY ONLY <1>5, <1>6, <2>1, <2>2, <2>3
  <2>5. \A i \in 1 .. Len(d) : Catches(d[i], u) =>
          i \in 1 .. Len(cs) /\ Catches(cs[i], u) /\ d[i].errfunc = cs[i].errfunc
    BY ONLY <1>2, <1>5, <1>6, <2>1
  <2> QED
    BY ONLY <2>4, <2>5 DEF SameCatches
<1>8. AllCatches(cs, d)
  BY ONLY <1>7 DEF AllCatches
<1>9. Catcher.of # "resume"
  BY ONLY <1>1
<1> QED
  BY ONLY <1>1, <1>6, <1>8, <1>9, Inv3, Inv1', GuardCaughtHandled

(* lua_resume catches an error that no other call caught, or a yield.      *)
LEMMA LeaveHandled ==
  ASSUME Inv3, Inv1', Die \/ Yielded
  PROVE  HandledNext
<1>1. /\ exc \in {"err", "yield", "exception"} /\ Catcher.of = "resume"
      /\ cs' = SubSeq(cs, 1, Target - 1) /\ ci' = ci /\ errfunc' = errfunc
  BY DEF Die, Yielded, Catch
<1>2. Catcher.of # "pcall"
  BY ONLY <1>1
<1>3. AllCatches(cs, cs')
  BY ONLY <1>1, <1>2, Inv3, CutBelowTarget
<1> QED
  BY ONLY <1>1, <1>3, Inv3, Inv1', HandledIdle

(* recover: an error goes to a lua_pcallk whose C activation is gone.      *)
LEMMA RecoverHandled ==
  ASSUME Inv3, Inv1', Recover
  PROVE  HandledNext
<1> DEFINE S == RecoverPoints
           FR == ci[L]
           j == CHOOSE j \in S : \A i \in S : i <= j
           f == [FR[j] EXCEPT !.recst = "err"]
           u == [kind |-> "unroll", thread |-> L]
           x == SubSeq(cs, 1, Target)
<1>1. /\ exc \in {"err", "yield", "exception"} /\ Catcher.of = "resume" /\ S # {}
      /\ ci' = [ci EXCEPT ![L] = Append(SubSeq(@, 1, j - 1), [@[j] EXCEPT !.recst = "err"])]
      /\ cs' = Append(x, u) /\ errfunc' = errfunc
  BY DEF Recover, Catch
<1>2. /\ L \in Thread /\ ci \in [Thread -> Seq(FrameSet)] /\ FR \in Seq(FrameSet)
      /\ Len(FR) \in Nat
  BY InvFacts DEF Inv3
<1>3. x \in Seq(Acts) /\ AllCatches(cs, x)
  <2>1. Catcher.of # "pcall"
    BY ONLY <1>1
  <2> QED
    BY ONLY <1>1, <2>1, Inv3, CutBelowTarget
<1>4. j \in 1 .. Len(FR) /\ FR[j].ypcall /\ \A q \in j + 1 .. Len(FR) : ~FR[q].ypcall
  <2>1. /\ S \in SUBSET (0 .. Len(FR)) /\ \A i \in S : i \in 1 .. Len(FR) /\ FR[i].ypcall
        /\ \A q \in 1 .. Len(FR) : FR[q].ypcall => q \in S
    BY <1>2 DEF RecoverPoints
  <2> HIDE DEF S, FR
  <2>2. \E y \in S : \A z \in S : z <= y
    BY ONLY <1>1, <1>2, <2>1, GreatestNumber
  <2>3. j \in S /\ \A i \in S : i <= j
    BY ONLY <2>2
  <2> HIDE DEF j
  <2>4. \A q \in j + 1 .. Len(FR) : q \in 1 .. Len(FR) /\ ~(q <= j)
    BY ONLY <1>2, <2>1, <2>3
  <2> QED
    BY ONLY <2>1, <2>3, <2>4
<1>5. ci' = [ci EXCEPT ![L] = Retop(FR, j, f)]
  <2> HIDE DEF j
  <2> QED
    BY ONLY <1>1, <1>2 DEF Retop
<1> HIDE DEF S, j
<1>6. FR[j] \in FrameSet
  BY ONLY <1>2, <1>4
<1>7. f \in FrameSet /\ f.ypcall = FR[j].ypcall /\ f.olderr = FR[j].olderr
  BY ONLY <1>6 DEF FrameSet
<1>8. u \in Acts /\ Bare(u)
  BY <1>2 DEF Acts, Bare
<1>9. ci'[L] = Retop(FR, j, f) /\ \A t \in Thread : t # L => ci'[t] = ci[t]
  BY ONLY <1>2, <1>5
<1> HIDE DEF f, u, x
<1>10. AllCatches(cs, cs')
  BY ONLY <1>1, <1>3, <1>8, AllPush
<1>11. SamePcalls(FR, Retop(FR, j, f))
  <2> HIDE DEF FR
  <2> QED
    BY ONLY <1>2, <1>4, <1>7, PcallsRetop
<1>12. SamePcalls(ci[L], ci'[L])
  BY ONLY <1>9, <1>11
<1> QED
  BY ONLY <1>1, <1>9, <1>10, <1>12, Inv3, Inv1', HandledRun
-----------------------------------------------------------------------------
(* Coroutines again *)

(* A step that concerns the handlers of a coroutine that was not on the C  *)
(* stack.                                                                  *)
LEMMA HandledElsewhere ==
  ASSUME Inv3, Inv1', NEW co \in Thread, AllCatches(cs, cs'), SamePcalls(ci[co], ci'[co]),
         \A u \in Thread : u # co => ci'[u] = ci[u], errfunc' = errfunc
  PROVE  HandledNext
<1>1. /\ cs \in Seq(Acts) /\ ci[co] \in Seq(FrameSet)
      /\ Pledged(cs, ci[co], errfunc[co], co)
  BY InvFacts DEF Inv3, Handled
<1>2. cs' \in Seq(Acts) /\ ci'[co] \in Seq(FrameSet)
  BY TypesNext
<1>3. Pledged(cs', ci'[co], errfunc[co], co)
  BY ONLY <1>1, <1>2, co \in Thread, AllCatches(cs, cs'), SamePcalls(ci[co], ci'[co]),
          PledgedStill DEF AllCatches
<1>4. Pledged(cs', ci'[co], errfunc'[co], co)
  BY ONLY <1>3, errfunc' = errfunc
<1>5. \A u \in Thread : u # co => /\ SameCatches(cs, cs', u)
                                  /\ ci'[u] = ci[u] /\ errfunc'[u] = errfunc[u]
  BY ONLY AllCatches(cs, cs'), errfunc' = errfunc,
          \A u \in Thread : u # co => ci'[u] = ci[u] DEF AllCatches
<1> QED
  BY ONLY <1>4, <1>5, co \in Thread, Inv3, Inv1', HandledStep

(* A thread without handler, frames and activations.                       *)
LEMMA PledgedEmpty ==
  ASSUME NEW c, NEW t, \A i \in 1 .. Len(c) : ~Catches(c[i], t)
  PROVE  Pledged(c, <<>>, 0, t)
BY DEF Pledged

(* lua_newthread, in place of a coroutine that is dead.                    *)
LEMMA CreateHandled ==
  ASSUME Inv3, Inv1', NEW co \in Thread, Create(co)
  PROVE  HandledNext
<1>1. /\ exc = "none" /\ co # L /\ DeadThread(co) /\ cs' = cs
      /\ ci' = [ci EXCEPT ![co] = <<>>] /\ errfunc' = [errfunc EXCEPT ![co] = 0]
  BY DEF Create, InC, Running
<1>2. /\ ci \in [Thread -> Seq(FrameSet)] /\ Typed(tbc, status, body, errfunc, exc) /\ Inv1
  BY InvFacts DEF Inv3
<1>3. errfunc \in [Thread -> Nat]
  BY ONLY <1>2 DEF Typed
<1>4. ~On(cs, co)
  BY ONLY <1>1, <1>2, co \in Thread, OffTheStack
<1>5. \A i \in 1 .. Len(cs) : ~Catches(cs[i], co)
  BY ONLY <1>4 DEF On, Catches
<1>6. Pledged(cs, <<>>, 0, co)
  BY ONLY <1>5, PledgedEmpty
<1>7. /\ ci'[co] = <<>> /\ errfunc'[co] = 0
      /\ \A u \in Thread : u # co => ci'[u] = ci[u] /\ errfunc'[u] = errfunc[u]
  BY ONLY <1>1, <1>2, <1>3, co \in Thread
<1>8. Pledged(cs', ci'[co], errfunc'[co], co)
  BY ONLY <1>1, <1>6, <1>7
<1>9. \A u \in Thread : u # co => /\ SameCatches(cs, cs', u)
                                  /\ ci'[u] = ci[u] /\ errfunc'[u] = errfunc[u]
  BY ONLY <1>1, <1>7, CatchesSame
<1> QED
  BY ONLY <1>8, <1>9, co \in Thread, Inv3, Inv1', HandledStep

(* luaE_resetthread: the coroutine had no handler.                         *)
LEMMA ResetHasNone ==
  ASSUME Inv3, HandlersAlone, "close" \in Uses, NEW co \in Thread, ~On(cs, co)
  PROVE  errfunc[co] = 0
<1>1. /\ Pledged(cs, ci[co], errfunc[co], co) /\ Chain(ci[co])
  <2>1. Ready(cs, ci, status, nC, nny, exc) /\ Handled(cs, ci, errfunc)
    BY InvFacts DEF Inv3
  <2>2. Chain(ci[co])
    BY ONLY <2>1, co \in Thread DEF Ready
  <2> QED
    BY ONLY <2>1, <2>2, co \in Thread DEF Handled
<1>2. ~InCatch(cs, Len(cs), co)
  BY ONLY ~On(cs, co) DEF On, InCatch, Catches
<1>3. "handler" \notin Uses \/ ~InPcall(ci[co], Len(ci[co]))
  <2>1. "handler" \notin Uses \/ "pcallk" \notin Uses
    BY ONLY HandlersAlone, "close" \in Uses DEF HandlersAlone
  <2>2. InPcall(ci[co], Len(ci[co])) => "pcallk" \in Uses
    BY ONLY <1>1 DEF InPcall, Chain, FrameOK
  <2> QED
    BY ONLY <2>1, <2>2
<1> QED
  BY ONLY <1>1, <1>2, <1>3 DEF Pledged

(* Two or three of them may be pushed.                                     *)
LEMMA AllPushThree ==
  ASSUME NEW c \in Seq(Acts), NEW r \in Acts, NEW q \in Acts, NEW x \in Acts,
         Bare(r), Bare(q), Bare(x)
  PROVE  /\ AllCatches(c, Append(Append(c, r), q))
         /\ AllCatches(c, Append(Append(Append(c, r), q), x))
<1>1. Append(c, r) \in Seq(Acts) /\ Append(Append(c, r), q) \in Seq(Acts)
  OBVIOUS
<1>2. AllCatches(c, c)
  BY AllSame
<1>3. AllCatches(c, Append(c, r))
  BY ONLY <1>2, c \in Seq(Acts), r \in Acts, Bare(r), AllPush
<1>4. AllCatches(c, Append(Append(c, r), q))
  BY ONLY <1>1, <1>3, q \in Acts, Bare(q), AllPush
<1> QED
  BY ONLY <1>1, <1>4, x \in Acts, Bare(x), AllPush

(* coroutine.close.                                                        *)
LEMMA CloseCoroutineHandled ==
  ASSUME Inv3, Inv1', HandlersAlone, NEW co \in Coroutine, CloseCoroutine(co)
  PROVE  HandledNext
<1>1. /\ exc = "none" /\ co \in Thread /\ "close" \in Uses /\ errfunc' = errfunc
      /\ \/ co # L /\ (Suspended(co) \/ DeadThread(co))
            /\ ci' = [ci EXCEPT ![co] = <<>>]
            /\ cs' = cs \o << [kind |-> "reset", thread |-> co],
                              Try(co, "close", 0, <<nC[L], 0>>, 1, 0),
                              Closing(co, 1, FALSE, "protected") >>
         \/ ci' = ci /\ cs' = cs
  BY DEF CloseCoroutine, InC, Running, Coroutine
<1>2. CASE ci' = ci /\ cs' = cs
  <2>1. AllCatches(cs, cs')
    BY ONLY <1>2, AllSame
  <2> QED
    BY ONLY <1>1, <1>2, <2>1, Inv3, Inv1', HandledIdle
<1>3. CASE /\ co # L /\ (Suspended(co) \/ DeadThread(co))
           /\ ci' = [ci EXCEPT ![co] = <<>>]
           /\ cs' = cs \o << [kind |-> "reset", thread |-> co],
                             Try(co, "close", 0, <<nC[L], 0>>, 1, 0),
                             Closing(co, 1, FALSE, "protected") >>
  <2> DEFINE r == [kind |-> "reset", thread |-> co]
             p == Try(co, "close", 0, <<nC[L], 0>>, 1, 0)
             q == Closing(co, 1, FALSE, "protected")
  <2>1. /\ ci \in [Thread -> Seq(FrameSet)] /\ cs \in Seq(Acts) /\ L \in Thread
        /\ nC \in [Thread -> Nat] /\ Inv1
    BY <1>1, InvFacts DEF Inv3
  <2>2. nC[L] \in Nat
    BY ONLY <2>1
  <2>3. r \in Acts /\ Bare(r) /\ q \in Acts /\ Bare(q)
    BY <1>1 DEF Acts, Bare, Closing
  <2>4. p \in Acts /\ Bare(p)
    BY <1>1, <2>2 DEF Acts, Bare, Try
  <2> HIDE DEF r, p, q
  <2>5. AllCatches(cs, cs')
    <3>1. cs' = cs \o <<r, p, q>>
      BY ONLY <1>3 DEF r, p, q
    <3>2. cs' = Append(Append(Append(cs, r), p), q)
      BY ONLY <3>1, <2>1, <2>3, <2>4, ConcatThree
    <3> QED
      BY ONLY <3>2, <2>1, <2>3, <2>4, AllPushThree
  <2>6. ~On(cs, co)
    BY ONLY <1>1, <1>3, <2>1, OffTheStack
  <2>7. errfunc[co] = 0
    BY ONLY <1>1, <2>6, Inv3, HandlersAlone, ResetHasNone
  <2>8. \A i \in 1 .. Len(cs) : ~Catches(cs[i], co)
    BY ONLY <2>6 DEF On, Catches
  <2>9. \A i \in 1 .. Len(cs') : ~Catches(cs'[i], co)
    BY ONLY <1>1, <2>5, <2>8 DEF AllCatches, SameCatches
  <2>10. Pledged(cs', <<>>, 0, co)
    BY ONLY <2>9, PledgedEmpty
  <2>11. ci'[co] = <<>> /\ \A u \in Thread : u # co => ci'[u] = ci[u]
    BY ONLY <1>1, <1>3, <2>1
  <2>12. Pledged(cs', ci'[co], errfunc'[co], co)
    BY ONLY <1>1, <2>7, <2>10, <2>11
  <2>13. \A u \in Thread : u # co => /\ SameCatches(cs, cs', u)
                                     /\ ci'[u] = ci[u] /\ errfunc'[u] = errfunc[u]
    BY ONLY <1>1, <2>5, <2>11 DEF AllCatches
  <2> QED
    BY ONLY <1>1, <2>12, <2>13, Inv3, Inv1', HandledStep
<1> QED
  BY ONLY <1>1, <1>2, <1>3

-----------------------------------------------------------------------------
(* lua_resume: what it leaves on the C stack is no protected call.         *)
LEMMA ResumeBare ==
  ASSUME Inv3, NEW co, NEW r, NEW u, Resuming(co, r, u)
  PROVE  /\ AllCatches(cs, Append(Append(cs, r), u))
         /\ \A x \in Acts : Bare(x) => AllCatches(cs, Append(Append(Append(cs, r), u), x))
<1>1. cs \in Seq(Acts)
  BY InvFacts DEF Inv3
<1>2. /\ r \in Acts /\ r.kind = "try" /\ r.of = "resume" /\ u \in Acts /\ u.kind = "unroll"
  BY DEF Resuming, Resumes
<1>3. Bare(r) /\ Bare(u)
  BY ONLY <1>2 DEF Bare
<1>4. Bare(u) /\ u \in Acts
  BY ONLY <1>2, <1>3
<1> QED
  BY ONLY <1>1, <1>2, <1>3, <1>4, AllPushThree

(* A step of lua_resume that neither starts nor ends a protected call.     *)
LEMMA ResumedHandled ==
  ASSUME Inv3, Inv1', NEW co, NEW r, NEW u, Resuming(co, r, u), AllCatches(cs, cs'),
         SamePcalls(ci[co], ci'[co]), \A t \in Thread : t # co => ci'[t] = ci[t]
  PROVE  HandledNext
<1>1. co \in Thread /\ errfunc' = errfunc
  BY DEF Resuming
<1> QED
  BY ONLY <1>1, Inv3, Inv1', AllCatches(cs, cs'), SamePcalls(ci[co], ci'[co]),
          \A t \in Thread : t # co => ci'[t] = ci[t], HandledElsewhere
(* The body of a coroutine starts.                                         *)
LEMMA ResumeBodyHandled ==
  ASSUME Inv3, Inv1', NEW co, NEW r, NEW u, Resuming(co, r, u), status[co] = "ok",
         NEW over \in BOOLEAN,
         ci' = [ci EXCEPT ![co] = IF over THEN <<>> ELSE << Frame(TRUE, TRUE, 1) >>],
         AllCatches(cs, cs')
  PROVE  HandledNext
<1> DEFINE f == Frame(TRUE, TRUE, 1)
<1>1. ci \in [Thread -> Seq(FrameSet)] /\ co \in Thread
  BY ResumedFacts DEF Inv3
<1>2. Suspended(co)
  BY DEF Resuming
<1>3. ci[co] = <<>>
  BY ONLY <1>2, status[co] = "ok" DEF Suspended, NotStarted
<1>4. f \in FrameSet /\ ~f.ypcall
  BY DEF Frame, FrameSet
<1>5. ci' = [ci EXCEPT ![co] = IF over THEN <<>> ELSE <<f>>]
  OBVIOUS
<1> HIDE DEF f
<1>6. /\ ci'[co] = <<>> \/ ci'[co] = <<f>>
      /\ \A t \in Thread : t # co => ci'[t] = ci[t]
  BY ONLY <1>1, <1>5
<1>7. SamePcalls(ci[co], ci'[co])
  <2>1. SamePcalls(<<>>, <<>>)
    BY PcallsSame
  <2>2. <<>> \in Seq(FrameSet) /\ Append(<<>>, f) = <<f>>
    OBVIOUS
  <2>3. SamePcalls(<<>>, Append(<<>>, f))
    BY ONLY <1>4, <2>1, <2>2, PcallsPush
  <2> QED
    BY ONLY <1>3, <1>6, <2>1, <2>2, <2>3
<1> QED
  BY ONLY <1>6, <1>7, Inv3, Inv1', Resuming(co, r, u), AllCatches(cs, cs'), ResumedHandled

(* The function that yielded has a continuation.                           *)
LEMMA ResumeContinuationHandled ==
  ASSUME Inv3, Inv1', NEW co, NEW r, NEW u, Resuming(co, r, u), ci' = ci,
         cs' = Append(Append(Append(cs, r), u), Continuation(co))
  PROVE  HandledNext
<1> DEFINE x == Continuation(co)
<1>1. co \in Thread
  BY DEF Resuming
<1>2. x \in Acts /\ Bare(x)
  BY <1>1 DEF Continuation, Acts, Bare
<1>3. cs' = Append(Append(Append(cs, r), u), x)
  OBVIOUS
<1> HIDE DEF x
<1>4. AllCatches(cs, cs')
  BY ONLY <1>2, <1>3, Inv3, Resuming(co, r, u), ResumeBare
<1>5. SamePcalls(ci[co], ci'[co])
  BY ONLY ci' = ci, PcallsSame
<1>6. \A t \in Thread : t # co => ci'[t] = ci[t]
  BY ONLY ci' = ci
<1> QED
  BY ONLY <1>4, <1>5, <1>6, Inv3, Inv1', Resuming(co, r, u), ResumedHandled

(* The function that yielded has variables to close.                       *)
LEMMA ResumeClosingHandled ==
  ASSUME Inv3, Inv1', NEW co, NEW r, NEW u, Resuming(co, r, u), status[co] = "yield",
         ci' = [ci EXCEPT ![co] = WithTop(co, [Last(ci[co]) EXCEPT !.doing = "return"])],
         cs' = Append(Append(Append(cs, r), u), Closing(co, Last(ci[co]).func, TRUE, "poscall"))
  PROVE  HandledNext
<1> DEFINE g == Last(ci[co])
           f == [g EXCEPT !.doing = "return"]
           x == Closing(co, g.func, TRUE, "poscall")
           n == Len(ci[co])
<1>1. /\ ci \in [Thread -> Seq(FrameSet)] /\ ci[co] \in Seq(FrameSet) /\ co \in Thread
  BY ResumedFacts DEF Inv3
<1>2. /\ ci[co] # <<>> /\ ci[co][n] = g /\ g \in FrameSet /\ n \in Nat
      /\ n \in 1 .. Len(ci[co]) /\ WithTop(co, f) = Retop(ci[co], n, f)
  BY YieldedFacts DEF Inv3
<1>3. g.func \in Nat
  BY ONLY <1>2, FrameFacts
<1>4. x \in Acts /\ Bare(x)
  BY ONLY <1>1, <1>3 DEF Closing, Acts, Bare
<1>5. f \in FrameSet /\ f.ypcall = g.ypcall /\ f.olderr = g.olderr
  BY ONLY <1>2 DEF FrameSet
<1>6. \A q \in n + 1 .. Len(ci[co]) : ~ci[co][q].ypcall
  <2>1. \A q \in n + 1 .. n : FALSE
    BY ONLY <1>2
  <2> QED
    BY ONLY <2>1 DEF n
<1>7. /\ cs' = Append(Append(Append(cs, r), u), x)
      /\ ci' = [ci EXCEPT ![co] = WithTop(co, f)]
  OBVIOUS
<1> HIDE DEF f, g, x, n
<1>8. AllCatches(cs, cs')
  BY ONLY <1>4, <1>7, Inv3, Resuming(co, r, u), ResumeBare
<1>9. ci'[co] = Retop(ci[co], n, f) /\ \A t \in Thread : t # co => ci'[t] = ci[t]
  BY ONLY <1>1, <1>2, <1>7
<1>10. f.ypcall = ci[co][n].ypcall /\ f.olderr = ci[co][n].olderr
  BY ONLY <1>2, <1>5
<1>11. SamePcalls(ci[co], Retop(ci[co], n, f))
  BY ONLY <1>1, <1>2, <1>5, <1>6, <1>10, PcallsRetop
<1>12. SamePcalls(ci[co], ci'[co])
  BY ONLY <1>9, <1>11
<1> QED
  BY ONLY <1>8, <1>9, <1>12, Inv3, Inv1', Resuming(co, r, u), ResumedHandled

(* The function that yielded returns.                                      *)
LEMMA ResumeEndHandled ==
  ASSUME Inv3, Inv1', NEW co, NEW r, NEW u, Resuming(co, r, u), status[co] = "yield",
         ci' = [ci EXCEPT ![co] = Front(@)], cs' = Append(Append(cs, r), u)
  PROVE  HandledNext
<1>1. ci \in [Thread -> Seq(FrameSet)] /\ ci[co] \in Seq(FrameSet) /\ co \in Thread
  BY ResumedFacts DEF Inv3
<1>2. /\ ci[co] # <<>> /\ ~ci[co][Len(ci[co])].ypcall
      /\ Front(ci[co]) = SubSeq(ci[co], 1, Len(ci[co]) - 1)
  BY YieldedFacts DEF Inv3
<1>3. AllCatches(cs, cs')
  BY ResumeBare
<1>4. ci'[co] = SubSeq(ci[co], 1, Len(ci[co]) - 1) /\ \A t \in Thread : t # co => ci'[t] = ci[t]
  BY ONLY <1>1, <1>2, ci' = [ci EXCEPT ![co] = Front(@)]
<1>5. SamePcalls(ci[co], SubSeq(ci[co], 1, Len(ci[co]) - 1))
  BY ONLY <1>1, <1>2, PcallsPop
<1>6. SamePcalls(ci[co], ci'[co])
  BY ONLY <1>4, <1>5
<1> QED
  BY ONLY <1>3, <1>4, <1>6, Inv3, Inv1', Resuming(co, r, u), ResumedHandled

(* lua_resume.                                                             *)
LEMMA ResumeHandled ==
  ASSUME Inv3, Inv1', NEW co \in Coroutine, Resume(co)
  PROVE  HandledNext
<1> DEFINE z == [kind |-> "exec", thread |-> co, inc |-> 0]
<1>1. PICK r, u :
        /\ Resuming(co, r, u)
        /\ LET base == Append(Append(cs, r), u)
               over == nC[L] + 1 = LUAI_MAXCCALLS
           IN  \/ /\ status[co] = "ok"
                  /\ ci' = [ci EXCEPT ![co] =
                              IF over THEN <<>> ELSE << Frame(TRUE, TRUE, 1) >>]
                  /\ cs' = IF over THEN base ELSE Append(base, z)
               \/ /\ status[co] = "yield"
                  /\ \/ /\ Last(ci[co]).k /\ ci' = ci
                        /\ cs' = Append(base, Continuation(co))
                     \/ /\ ~Last(ci[co]).k /\ Last(ci[co]).clsret
                        /\ ci' = [ci EXCEPT ![co] =
                             WithTop(co, [Last(ci[co]) EXCEPT !.doing = "return"])]
                        /\ cs' = Append(base, Closing(co, Last(ci[co]).func, TRUE, "poscall"))
                     \/ /\ ~Last(ci[co]).k /\ ~Last(ci[co]).clsret
                        /\ ci' = [ci EXCEPT ![co] = Front(@)]
                        /\ cs' = base
  <2>1. Inv1
    BY DEF Inv3
  <2> QED
    BY ONLY <2>1, co \in Coroutine, Resume(co), ResumeBegins
<1>2. z \in Acts /\ Bare(z)
  BY DEF Coroutine, Acts, Bare
<1>3. /\ AllCatches(cs, Append(Append(cs, r), u))
      /\ AllCatches(cs, Append(Append(Append(cs, r), u), z))
  <2> HIDE DEF z
  <2> QED
    BY ONLY <1>1, <1>2, Inv3, ResumeBare
<1> HIDE DEF z
<1>4. CASE status[co] = "ok" /\ \E over \in BOOLEAN :
             /\ ci' = [ci EXCEPT ![co] = IF over THEN <<>> ELSE << Frame(TRUE, TRUE, 1) >>]
             /\ cs' = IF over THEN Append(Append(cs, r), u)
                      ELSE Append(Append(Append(cs, r), u), z)
  <2>1. AllCatches(cs, cs')
    BY ONLY <1>3, <1>4
  <2> QED
    BY ONLY <1>1, <1>4, <2>1, Inv3, Inv1', ResumeBodyHandled
<1>5. CASE ci' = ci /\ cs' = Append(Append(Append(cs, r), u), Continuation(co))
  BY ONLY <1>1, <1>5, Inv3, Inv1', ResumeContinuationHandled
<1>6. CASE /\ status[co] = "yield"
           /\ ci' = [ci EXCEPT ![co] = WithTop(co, [Last(ci[co]) EXCEPT !.doing = "return"])]
           /\ cs' = Append(Append(Append(cs, r), u),
                           Closing(co, Last(ci[co]).func, TRUE, "poscall"))
  BY ONLY <1>1, <1>6, Inv3, Inv1', ResumeClosingHandled
<1>7. CASE /\ status[co] = "yield"
           /\ ci' = [ci EXCEPT ![co] = Front(@)] /\ cs' = Append(Append(cs, r), u)
  BY ONLY <1>1, <1>7, Inv3, Inv1', ResumeEndHandled
<1>8. (nC[L] + 1 = LUAI_MAXCCALLS) \in BOOLEAN
  OBVIOUS
<1> QED
  BY ONLY <1>1, <1>4, <1>5, <1>6, <1>7, <1>8
-----------------------------------------------------------------------------
(* What every step does: the handlers are still of protected calls.        *)
LEMMA StepHandled ==
  ASSUME Inv3, Inv1', HandlersAlone, [Next]_vars
  PROVE  HandledNext
<1>1. CASE Program
  <2>1. CASE StartMain \/ CallLua \/ CallC \/ CallMeta
    BY ONLY <2>1, Inv3, Inv1', StartMainHandled, CallLuaHandled, CallCHandled, CallMetaHandled
  <2>2. CASE DeclareTbc \/ CloseBlock \/ ReturnLua
    BY ONLY <2>2, Inv3, Inv1', DeclareTbcHandled, CloseBlockHandled, ReturnLuaHandled
  <2>3. CASE \E k, isLua \in BOOLEAN : CallFromC(k, isLua)
    BY ONLY <2>3, Inv3, Inv1', CallFromCHandled
  <2>4. CASE \E k, handler, isLua \in BOOLEAN : PcallFromC(k, handler, isLua)
    BY ONLY <2>4, Inv3, Inv1', PcallFromCHandled
  <2>5. CASE ToClose \/ ReturnC
    BY ONLY <2>5, Inv3, Inv1', ToCloseHandled, ReturnCHandled
  <2>6. CASE Error \/ Exception
    BY ONLY <2>6, Inv3, Inv1', IdleHandled
  <2>7. CASE \E k \in BOOLEAN : Yield(k)
    BY ONLY <2>7, Inv3, Inv1', YieldHandled
  <2>8. ASSUME NEW co \in Coroutine, Create(co) \/ Resume(co) \/ CloseCoroutine(co)
        PROVE  HandledNext
    <3>1. co \in Thread
      BY DEF Coroutine
    <3> QED
      BY ONLY <2>8, <3>1, Inv3, Inv1', HandlersAlone, CreateHandled, ResumeHandled,
              CloseCoroutineHandled
  <2> QED
    BY ONLY <1>1, <2>1, <2>2, <2>3, <2>4, <2>5, <2>6, <2>7, <2>8 DEF Program
<1>2. CASE Machine
  <2>1. CASE RepeatClose \/ PcallkReturns \/ PcallReturns \/ CloseNext \/ BlockClosed
    BY ONLY <2>1, Inv3, Inv1', RepeatCloseHandled, PcallkReturnsHandled, PcallReturnsHandled,
            CloseNextHandled, BlockClosedHandled
  <2>2. CASE FunctionClosed \/ PcallkClosed \/ ProtectedClosed
    BY ONLY <2>2, Inv3, Inv1', HandlersAlone, FunctionClosedHandled, PcallkClosedHandled,
            ProtectedClosedHandled
  <2>3. CASE FinishCcall \/ FinishLua \/ Finish \/ Raise \/ HandlerReturns
    BY ONLY <2>3, Inv3, Inv1', FinishCcallHandled, FinishLuaHandled, FinishHandled,
            RaiseHandled, IdleHandled
  <2>4. CASE CaughtByPcall \/ CaughtWhileClosing \/ Recover \/ Die \/ Yielded
    BY ONLY <2>4, Inv3, Inv1', CaughtByPcallHandled, CaughtWhileClosingHandled,
            RecoverHandled, LeaveHandled
  <2> QED
    BY ONLY <1>2, <2>1, <2>2, <2>3, <2>4 DEF Machine
<1>3. CASE UNCHANGED vars
  BY ONLY <1>3, Inv3, Inv1', IdleHandled
<1> QED
  BY ONLY <1>1, <1>2, <1>3, [Next]_vars DEF Next

(* The inductive invariant of the theorem below, of a program that obeys   *)
(* its hypothesis.                                                         *)
Inv4 == Inv3 /\ HandlersAlone

(* At the start there is no handler and no frame.                          *)
LEMMA InitHandled ==
  ASSUME Init, HandlersAlone
  PROVE  Inv4
<1>1. Inv1
  BY InitWhole
<1>2. /\ ci = [t \in Thread |-> <<>>] /\ errfunc = [t \in Thread |-> 0]
      /\ \A i \in 1 .. Len(cs) : cs[i].kind = "main"
  BY DEF Init
<1>3. \A t \in Thread : Pledged(cs, <<>>, 0, t)
  <2>1. \A t \in Thread : \A i \in 1 .. Len(cs) : ~Catches(cs[i], t)
    BY ONLY <1>2 DEF Catches
  <2> QED
    BY ONLY <2>1, PledgedEmpty
<1>4. Handled(cs, ci, errfunc)
  BY ONLY <1>2, <1>3 DEF Handled
<1> QED
  BY ONLY <1>1, <1>4, HandlersAlone DEF Inv3, Inv4

(* It is kept by every step.                                               *)
LEMMA NextHandled ==
  ASSUME Inv4, [Next]_vars
  PROVE  Inv4'
<1>1. Inv1 /\ Inv3 /\ HandlersAlone
  BY DEF Inv4, Inv3
<1>2. Inv1'
  BY ONLY <1>1, [Next]_vars, NextKeeps
<1>3. HandledNext
  BY ONLY <1>1, <1>2, [Next]_vars, StepHandled
<1>4. HandlersAlone'
  BY ONLY <1>1 DEF HandlersAlone
<1> QED
  BY ONLY <1>2, <1>3, <1>4 DEF Inv4, Inv3, HandledNext

(* It says that an error goes to the innermost protected call, with its    *)
(* own handler.                                                            *)
LEMMA HandledIsRestored ==
  ASSUME Inv4
  PROVE  ErrorsAreCaught
<1>1. InnermostCatches
  BY InnermostHolds DEF Inv4, Inv3
<1>2. ASSUME NEW t \in Thread, errfunc[t] # 0
      PROVE  \/ \E f \in Frames(t) : f.ypcall
             \/ \E i \in Activations(t) :
                  cs[i].kind = "caught" \/ (cs[i].kind = "try" /\ cs[i].of = "pcall")
  <2>1. InPcall(ci[t], Len(ci[t])) \/ InCatch(cs, Len(cs), t)
    BY <1>2 DEF Inv4, Inv3, Handled, Pledged
  <2>2. CASE InPcall(ci[t], Len(ci[t]))
    BY ONLY <2>2 DEF InPcall, Frames
  <2>3. CASE InCatch(cs, Len(cs), t)
    BY ONLY <2>3 DEF InCatch, Catches, Activations
  <2> QED
    BY ONLY <2>1, <2>2, <2>3
<1>3. HandlerIsRestored
  BY ONLY <1>2 DEF HandlerIsRestored
<1> QED
  BY ONLY <1>1, <1>3 DEF ErrorsAreCaught

(* An error goes to the innermost protected call, with its own handler:    *)
(* none of lua_pcallk is inside one of luaD_pcall, and the message handler *)
(* of a thread is that of a protected call that is not over, whatever      *)
(* errors, yields and resumes it has been through (luaD_pcall, lua_pcallk, *)
(* finishpcallk, luaD_throw, recover).                                     *)
THEOREM ErrorsReachTheirHandler == HandlersAlone => (Spec => []ErrorsAreCaught)
<1>1. HandlersAlone /\ Init => Inv4
  BY InitHandled
<1>2. Inv4 => ErrorsAreCaught
  BY HandledIsRestored
<1> QED
  BY <1>1, <1>2, NextHandled, PTL DEF Spec
=============================================================================
