-------------------------- MODULE CoroutinesStacks --------------------------
(***************************************************************************)
(* What the C stack and the frames of the threads of module Coroutines     *)
(* look like at every moment, and what each way to change them does: the   *)
(* lemmas that module CoroutinesProofs takes its steps from.               *)
(*                                                                         *)
(* The activations of a thread are together on the C stack, each owns the  *)
(* frames of the thread between two heights, and only certain kinds of     *)
(* activations and of frames may be on others.  The counts of calls are    *)
(* those of the activations.  An operation of the runtime pushes an        *)
(* activation, pops the one at the top, cuts the C stack down to an older  *)
(* one, or changes the frames that the one at the top owns.                *)
(*                                                                         *)
(* The inductive invariant Inv1 is that, and what it leaves open about     *)
(* the moments between two steps: which threads are on the C stack, what   *)
(* is at its top, and where errors and yields come from.  There is one     *)
(* lemma for each action, and before it those about the operations of the  *)
(* runtime that the action is made of; here those of the actions that      *)
(* call functions, return, yield, and start to close variables.            *)
(***************************************************************************)
EXTENDS Coroutines, FiniteSetTheorems, WellFoundedInduction, TLAPS

(* A set of numbers has a least one, and a bounded one a greatest.         *)
LEMMA LeastNumber ==
  ASSUME NEW S \in SUBSET Nat, S # {}
  PROVE  \E x \in S : \A y \in S : x <= y
<1> DEFINE less == {e \in Nat \X Nat : e[1] < e[2]}
<1>1. IsWellFoundedOn(less, Nat)
  BY NatLessThanWellFounded DEF OpToRel
<1>2. PICK x \in S : \A y \in S : <<y, x>> \notin less
  <2> HIDE DEF less
  <2> QED
    BY <1>1, WFMin
<1>3. \A y \in S : ~(y < x)
  BY <1>2
<1> QED
  BY <1>3

(* A bounded set of numbers has a greatest one.                            *)
LEMMA GreatestNumber ==
  ASSUME NEW n \in Nat, NEW S \in SUBSET (0 .. n), S # {}
  PROVE  \E x \in S : \A y \in S : y <= x
<1> DEFINE T == {n - x : x \in S}
<1>1. T \in SUBSET Nat /\ T # {}
  <2>1. \A x \in S : n - x \in Nat
    OBVIOUS
  <2>2. PICK x \in S : TRUE
    OBVIOUS
  <2> QED
    BY <2>1, <2>2
<1>2. PICK m \in T : \A y \in T : m <= y
  <2> HIDE DEF T
  <2> QED
    BY <1>1, LeastNumber
<1>3. PICK x \in S : m = n - x
  BY <1>2
<1>4. ASSUME NEW y \in S PROVE y <= x
  <2>1. n - y \in T
    OBVIOUS
  <2>2. n - x <= n - y
    BY <1>2, <1>3, <2>1
  <2> QED
    BY <2>2
<1> QED
  BY <1>4

(* An activation that starts the part of the C stack of its thread.        *)
First(r) == r.kind \in {"main", "reset"} \/ (r.kind = "try" /\ r.of = "resume")
Call(r) == r.kind \in {"exec", "cfun"}
NonYieldable(r) == Call(r) /\ r.inc = 2
(* Protected calls of luaD_pcall and luaD_closeprotected.                  *)
Guard(r) == r.kind = "try" /\ r.of # "resume"
(* A frame that can be interrupted by a yield.                             *)
Held(f) == f.lua \/ f.k \/ f.clsret

Acts ==
  [kind : {"exec"}, thread : Thread, inc : 0 .. 2]
    \union [kind : {"cfun"}, thread : Thread, inc : 0 .. 2, cont : BOOLEAN]
    \union [kind : {"close"}, thread : Thread, level : Nat, yy : BOOLEAN,
            for : {"block", "return", "poscall", "finishpcallk", "protected"}]
    \union [kind : {"try"}, thread : Thread, of : {"pcall", "close", "resume"}, depth : Nat,
            nC : Nat, nny : Nat, level : Nat, errfunc : Nat]
    \union [kind : {"caught"}, thread : Thread, errfunc : Nat]
    \union [kind : {"main", "reset", "handler", "unroll"}, thread : Thread]

FrameSet ==
  [func : Nat, lua : BOOLEAN, fresh : BOOLEAN, k : BOOLEAN, ypcall : BOOLEAN,
   recst : {"ok", "err"}, clsret : BOOLEAN, olderr : Nat, idx : Nat,
   doing : {"run", "close", "return"}]

VarSet == [level : Nat, owner : Nat]

-----------------------------------------------------------------------------
(* What may be on top of what: the activation r on the activation p.       *)

Kinds(p, r) ==
  /\ r.kind # "main"
  /\ IF First(r) THEN p.kind = "cfun" /\ r.thread # MainThread ELSE r.thread = p.thread
  /\ Call(r) =>
       /\ p.kind \in {"exec", "cfun", "try", "close", "handler", "unroll"}
       /\ p.kind = "exec" => r.inc = IF r.kind = "exec" THEN 1 ELSE 0
       /\ p.kind = "cfun" => r.inc \in {1, 2}
       /\ p.kind = "try" => p.of = "pcall" /\ r.inc = 2
       /\ p.kind = "close" => r.kind = "exec" /\ r.inc = IF p.yy THEN 1 ELSE 2
       /\ p.kind = "handler" => r.kind = "exec" /\ r.inc = 2
       /\ p.kind = "unroll" => r.inc = 0
       /\ r.kind = "cfun" => (r.cont <=> p.kind = "unroll")
  /\ r.kind = "close" =>
       /\ r.yy <=> r.for # "protected"
       /\ r.for \in {"block", "return"} => p.kind = "exec"
       /\ r.for = "poscall" => p.kind \in {"cfun", "unroll"}
       /\ r.for = "finishpcallk" => p.kind = "unroll"
       /\ r.for = "protected" => p.kind = "try" /\ p.of = "close" /\ r.level = p.level
  /\ Guard(r) =>
       /\ r.level > 0
       /\ r.of = "pcall" => p.kind \in {"main", "cfun"}
       /\ r.of = "close" => p.kind \in {"caught", "reset"}
  /\ First(r) /\ r.kind = "try" => r.nC < ErrorCCalls
  /\ r.kind = "caught" => p.kind \in {"main", "cfun"}
  /\ r.kind = "handler" => p.kind \in {"exec", "cfun", "unroll"}
  /\ r.kind = "unroll" => p.kind = "try" /\ p.of = "resume"
  /\ p.kind \in {"caught", "reset"} => r.kind = "try" /\ r.of = "close"
  /\ p.kind = "try" /\ p.of = "close" => r.kind = "close"
  /\ p.kind = "try" /\ p.of = "resume" => r.kind = "unroll"

(* And the frames FR of the thread of r, of which n belong to r and to     *)
(* what is below it, and m to what is below it.                            *)
Fit(FR, p, r, m, n) ==
  /\ n <= Len(FR)
  /\ IF First(r) THEN n = 0 ELSE m <= n
  /\ r.kind = "exec" => \A q \in m + 1 .. n : FR[q].lua /\ (FR[q].fresh <=> q = m + 1)
  /\ r.kind = "cfun" => n <= m + 1 /\ (n = m + 1 => ~FR[n].lua /\ FR[n].recst = "ok")
  /\ r.kind = "close" =>
       /\ n = IF p.kind = "unroll" THEN m + 1 ELSE m
       /\ r.for # "protected" => n > 0
       /\ r.for = "block" => FR[n].lua /\ FR[n].doing = "close" /\ FR[n].idx = r.level
       /\ r.for = "return" => FR[n].lua /\ FR[n].doing = "return" /\ FR[n].func + 1 = r.level
       /\ r.for = "poscall" =>
            ~FR[n].lua /\ FR[n].clsret /\ FR[n].doing = "return" /\ FR[n].func = r.level
       /\ r.for = "finishpcallk" =>
            FR[n].ypcall /\ ~FR[n].clsret /\ FR[n].recst # "ok" /\ FR[n].idx = r.level
  /\ Guard(r) =>
       n = m /\ r.depth = n /\ (n > 0 => FR[n].func < r.level /\ ~FR[n].ypcall)
  /\ r.kind = "caught" => n = m /\ (n > 0 => ~FR[n].ypcall)
  /\ r.kind = "handler" => n = m

(* The frame f may be above the activations up to n.                       *)
Above(c, n, t, f) ==
  \A i \in 2 .. n : c[i].thread = t =>
    /\ Guard(c[i]) => c[i].level <= f.func /\ ~f.ypcall
    /\ NonYieldable(c[i]) => ~f.ypcall

-----------------------------------------------------------------------------
(* A C stack c, the frames F of the threads, and the heights h: how many   *)
(* frames of the thread of c[i] belong to c[i] and what is below it.       *)

Shapes(c, F, h) ==
  /\ c \in Seq(Acts) /\ Len(c) > 0 /\ F \in [Thread -> Seq(FrameSet)]
  /\ h \in [Nat -> Nat]
  /\ c[1].kind = "main" /\ c[1].thread = MainThread /\ h[1] = 0

Piled(c) == \A i \in 2 .. Len(c) : Kinds(c[i - 1], c[i])

Fits(c, F, h) ==
  \A i \in 2 .. Len(c) : Fit(F[c[i].thread], c[i - 1], c[i], h[i - 1], h[i])

(* A thread that starts another has given all its frames to activations,   *)
(* and the other one was not on the C stack.                               *)
Starts(c, F, h) ==
  \A i \in 2 .. Len(c) : First(c[i]) =>
    /\ \A j \in 1 .. i - 1 : c[j].thread # c[i].thread
    /\ h[i - 1] = Len(F[c[i - 1].thread])

(* A call has a frame, unless it raised an error when it overflowed.       *)
Framed(c, h) ==
  \A i \in 2 .. Len(c) : Call(c[i - 1]) /\ c[i].kind # "handler" => h[i - 2] < h[i - 1]

(* A thread's activations are together, and their heights grow.            *)
Segments(c, h) ==
  \A i, j \in 1 .. Len(c) : i <= j /\ c[i].thread = c[j].thread =>
    /\ h[i] <= h[j]
    /\ \A k \in i .. j : c[k].thread = c[i].thread

(* Something catches the errors of every activation.                       *)
Caught(c) ==
  \A i \in 2 .. Len(c) : c[i].kind \notin {"reset", "caught"} =>
    \E j \in 1 .. i : c[j].kind = "try" /\ c[j].thread = c[i].thread

(* The frames above a protected call or a non-yieldable call come after    *)
(* it, and hold no lua_pcallk.                                             *)
Inside(c, F, h) ==
  \A i \in 2 .. Len(c) :
    /\ Guard(c[i]) => \A q \in h[i] + 1 .. Len(F[c[i].thread]) :
         c[i].level <= F[c[i].thread][q].func /\ ~F[c[i].thread][q].ypcall
    /\ NonYieldable(c[i]) => \A q \in h[i - 1] + 1 .. Len(F[c[i].thread]) :
         ~F[c[i].thread][q].ypcall

Stack(c, F, h) ==
  /\ Shapes(c, F, h) /\ Piled(c) /\ Fits(c, F, h) /\ Starts(c, F, h) /\ Framed(c, h)
  /\ Segments(c, h) /\ Caught(c) /\ Inside(c, F, h)

-----------------------------------------------------------------------------
(* The fields of an activation have their types.                           *)
LEMMA ActFacts ==
  ASSUME NEW r \in Acts
  PROVE  /\ r.thread \in Thread
         /\ Call(r) => r.inc \in 0 .. 2
         /\ r.kind = "cfun" => r.cont \in BOOLEAN
         /\ r.kind = "close" =>
              r.level \in Nat /\ r.yy \in BOOLEAN
              /\ r.for \in {"block", "return", "poscall", "finishpcallk", "protected"}
         /\ r.kind = "try" =>
              r.level \in Nat /\ r.depth \in Nat /\ r.nC \in Nat /\ r.nny \in Nat
              /\ r.errfunc \in Nat /\ r.of \in {"pcall", "close", "resume"}
         /\ r.kind = "caught" => r.errfunc \in Nat
         /\ r.kind \in {"exec", "cfun", "close", "try", "caught", "main", "reset",
                        "handler", "unroll"}
BY DEF Acts, Call

(* The fields of a frame have their types.                                 *)
LEMMA FrameFacts ==
  ASSUME NEW f \in FrameSet
  PROVE  /\ f.func \in Nat /\ f.lua \in BOOLEAN /\ f.fresh \in BOOLEAN /\ f.k \in BOOLEAN
         /\ f.ypcall \in BOOLEAN /\ f.recst \in {"ok", "err"} /\ f.clsret \in BOOLEAN
         /\ f.olderr \in Nat /\ f.idx \in Nat /\ f.doing \in {"run", "close", "return"}
BY DEF FrameSet

(* The C stack d is the n lowest activations of c.                         *)
Lowest(n, c, d) == d \in Seq(Acts) /\ Len(d) = n /\ \A i \in 1 .. n : d[i] = c[i]

(* In G only frames that belong to none of the n lowest activations differ *)
(* from those in F, and they may be above these activations.               *)
Regrown(c, F, h, n, t, G) ==
  /\ G \in [Thread -> Seq(FrameSet)]
  /\ \A u \in Thread : u # t => G[u] = F[u]
  /\ h[n] <= Len(G[t])
  /\ \A q \in 1 .. h[n] : G[t][q] = F[t][q]
  /\ \A q \in h[n] + 1 .. Len(G[t]) : Above(c, n, t, G[t][q])

(* The activations up to n make a C stack, and the frames that belong to   *)
(* none of them are free to change, as long as they may be above them.     *)
LEMMA CutStack ==
  ASSUME NEW c, NEW F, NEW h, Stack(c, F, h), NEW n \in 1 .. Len(c),
         NEW d, Lowest(n, c, d), NEW G, Regrown(c, F, h, n, c[n].thread, G)
  PROVE  Stack(d, G, h)
<1> DEFINE t == c[n].thread
<1>1. /\ c \in Seq(Acts) /\ Len(c) \in Nat /\ F \in [Thread -> Seq(FrameSet)]
      /\ h \in [Nat -> Nat] /\ c[1].kind = "main" /\ c[1].thread = MainThread /\ h[1] = 0
      /\ n \in Nat
  <2>1. Shapes(c, F, h)
    BY DEF Stack
  <2> QED
    BY <2>1, SMTT(30) DEF Shapes
<1>0. Len(c) \in Nat /\ n \in Nat /\ n > 0 /\ n <= Len(c)
  <2>1. Len(c) \in Nat
    BY <1>1
  <2> QED
    BY <2>1
<1>2. /\ Piled(c) /\ Fits(c, F, h) /\ Starts(c, F, h) /\ Framed(c, h)
      /\ Segments(c, h) /\ Caught(c) /\ Inside(c, F, h)
  BY DEF Stack
<1>3. \A i \in 1 .. n : c[i] \in Acts /\ c[i].thread \in Thread /\ i \in 1 .. Len(c)
                        /\ h[i] \in Nat /\ h[i - 1] \in Nat /\ d[i] = c[i]
  <2> SUFFICES ASSUME NEW i \in 1 .. n
               PROVE  c[i] \in Acts /\ c[i].thread \in Thread /\ i \in 1 .. Len(c)
                      /\ h[i] \in Nat /\ h[i - 1] \in Nat /\ d[i] = c[i]
    OBVIOUS
  <2>1. i \in 1 .. Len(c) /\ i \in Nat /\ i - 1 \in Nat
    BY <1>1
  <2>2. d[i] = c[i]
    BY DEF Lowest
  <2>3. c[i] \in Acts
    BY <1>1, <2>1
  <2> QED
    BY <1>1, <2>1, <2>2, <2>3, ActFacts
<1>d. d \in Seq(Acts) /\ Len(d) = n
  BY DEF Lowest
<1>g. /\ G \in [Thread -> Seq(FrameSet)]
      /\ \A u \in Thread : u # t => G[u] = F[u]
      /\ h[n] <= Len(G[t])
      /\ \A q \in 1 .. h[n] : G[t][q] = F[t][q]
      /\ \A q \in h[n] + 1 .. Len(G[t]) : Above(c, n, t, G[t][q])
  BY DEF Regrown
<1>4. \A i \in 2 .. n : i - 1 \in 1 .. n /\ i \in 1 .. n /\ i \in 2 .. Len(c)
  BY <1>0
<1>5. t \in Thread
  BY <1>3
<1>6. \A i \in 1 .. n : c[i].thread = t => h[i] <= h[n]
  BY <1>1, <1>2, <1>3 DEF Segments
<1>7. \A i \in 1 .. n : /\ h[i] <= Len(F[c[i].thread]) => h[i] <= Len(G[c[i].thread])
                        /\ \A q \in 1 .. h[i] : G[c[i].thread][q] = F[c[i].thread][q]
  <2> SUFFICES ASSUME NEW i \in 1 .. n
               PROVE  /\ h[i] <= Len(F[c[i].thread]) => h[i] <= Len(G[c[i].thread])
                      /\ \A q \in 1 .. h[i] : G[c[i].thread][q] = F[c[i].thread][q]
    OBVIOUS
  <2>1. CASE c[i].thread = t
    <3>1. h[i] <= h[n] /\ h[i] \in Nat /\ h[n] \in Nat
      BY <2>1, <1>6, <1>3
    <3>2. Len(G[t]) \in Nat
      BY <1>5, <1>g
    <3> QED
      BY <2>1, <3>1, <3>2, <1>g
  <2>2. CASE c[i].thread # t
    BY <2>2, <1>3, <1>g
  <2> QED
    BY <2>1, <2>2
<1> HIDE DEF t
<1>8. Shapes(d, G, h)
  <2>1. d[1] = c[1]
    BY <1>0, <1>3
  <2> QED
    BY <1>0, <1>1, <1>d, <1>g, <2>1 DEF Shapes
<1>9. Piled(d)
  BY <1>2, <1>d, <1>3, <1>4 DEF Piled
<1>10. Fits(d, G, h)
  <2> SUFFICES ASSUME NEW i \in 2 .. n
               PROVE  Fit(G[c[i].thread], c[i - 1], c[i], h[i - 1], h[i])
    BY <1>d, <1>3, <1>4 DEF Fits
  <2>1. Fit(F[c[i].thread], c[i - 1], c[i], h[i - 1], h[i])
    BY <1>2, <1>4 DEF Fits
  <2>2. h[i] <= Len(G[c[i].thread]) /\ \A q \in 1 .. h[i] : G[c[i].thread][q] = F[c[i].thread][q]
    BY <2>1, <1>7, <1>4 DEF Fit
  <2>3. h[i] \in Nat /\ h[i - 1] \in Nat
    BY <1>3, <1>4
  <2>4. \A q \in h[i - 1] + 1 .. h[i] : q \in 1 .. h[i]
    BY <2>3
  <2> DEFINE GR == G[c[i].thread]
             FR == F[c[i].thread]
             a == h[i - 1]
             b == h[i]
             p == c[i - 1]
             r == c[i]
  <2>5. Fit(FR, p, r, a, b) /\ b <= Len(GR) /\ a \in Nat /\ b \in Nat
    BY <2>1, <2>2, <2>3
  <2>6. b > 0 => GR[b] = FR[b]
    BY <2>2, <2>3
  <2>7. \A q \in a + 1 .. b : GR[q] = FR[q]
    BY <2>2, <2>4
  <2> HIDE DEF GR, FR, a, b, p, r
  <2>8. Fit(GR, p, r, a, b)
    <3>1. r.kind = "cfun" => b <= a + 1 /\ (b = a + 1 => ~GR[b].lua /\ GR[b].recst = "ok")
      BY <2>5, <2>6 DEF Fit
    <3>2. r.kind = "exec" => \A q \in a + 1 .. b : GR[q].lua /\ (GR[q].fresh <=> q = a + 1)
      BY <2>5, <2>7 DEF Fit
    <3>3. r.kind = "close" =>
             /\ b = IF p.kind = "unroll" THEN a + 1 ELSE a
             /\ r.for # "protected" => b > 0
             /\ r.for = "block" => GR[b].lua /\ GR[b].doing = "close" /\ GR[b].idx = r.level
             /\ r.for = "return" => GR[b].lua /\ GR[b].doing = "return" /\ GR[b].func + 1 = r.level
             /\ r.for = "poscall" =>
                  ~GR[b].lua /\ GR[b].clsret /\ GR[b].doing = "return" /\ GR[b].func = r.level
             /\ r.for = "finishpcallk" =>
                  GR[b].ypcall /\ ~GR[b].clsret /\ GR[b].recst # "ok" /\ GR[b].idx = r.level
      BY <2>5, <2>6 DEF Fit
    <3>4. /\ Guard(r) => b = a /\ r.depth = b /\ (b > 0 => GR[b].func < r.level /\ ~GR[b].ypcall)
          /\ r.kind = "caught" => b = a /\ (b > 0 => ~GR[b].ypcall)
      BY <2>5, <2>6 DEF Fit
    <3> QED
      BY <2>5, <3>1, <3>2, <3>3, <3>4 DEF Fit
  <2> QED
    BY <2>8 DEF GR, FR, a, b, p, r
<1>11. Starts(d, G, h)
  <2> SUFFICES ASSUME NEW i \in 2 .. n, First(c[i])
               PROVE  /\ \A j \in 1 .. i - 1 : c[j].thread # c[i].thread
                      /\ h[i - 1] = Len(G[c[i - 1].thread])
    <3>1. \A i1 \in 2 .. n : \A j \in 1 .. i1 - 1 : j \in 1 .. n
      OBVIOUS
    <3> QED
      BY <1>d, <1>3, <1>4, <3>1 DEF Starts
  <2>1. (\A j \in 1 .. i - 1 : c[j].thread # c[i].thread) /\ h[i - 1] = Len(F[c[i - 1].thread])
    BY <1>2, <1>4 DEF Starts
  <2>2. c[i - 1].thread # t
    <3> SUFFICES ASSUME c[i - 1].thread = t PROVE FALSE
      OBVIOUS
    <3>1. i - 1 \in 1 .. Len(c) /\ n \in 1 .. Len(c) /\ i - 1 <= n /\ i \in i - 1 .. n
      BY <1>1, <1>4
    <3>2. c[i].thread = c[i - 1].thread
      BY <3>1, <1>2 DEF Segments, t
    <3> QED
      BY <2>1, <3>2
  <2>3. c[i - 1].thread \in Thread
    BY <1>3, <1>4
  <2> QED
    BY <2>1, <2>2, <2>3, <1>g
<1>12. Framed(d, h)
  BY <1>2, <1>d, <1>3, <1>4 DEF Framed
<1>13. Segments(d, h)
  <2> SUFFICES ASSUME NEW i \in 1 .. n, NEW j \in 1 .. n, i <= j, c[i].thread = c[j].thread
               PROVE  h[i] <= h[j] /\ \A k \in i .. j : d[k].thread = d[i].thread
    BY <1>d, <1>3 DEF Segments
  <2>1. h[i] <= h[j] /\ \A k \in i .. j : c[k].thread = c[i].thread
    BY <1>2, <1>3 DEF Segments
  <2>2. \A k \in i .. j : k \in 1 .. n
    OBVIOUS
  <2> QED
    BY <2>1, <2>2, <1>3
<1>14. Caught(d)
  <2> SUFFICES ASSUME NEW i \in 2 .. n, c[i].kind \notin {"reset", "caught"}
               PROVE  \E j \in 1 .. i : d[j].kind = "try" /\ d[j].thread = d[i].thread
    BY <1>d, <1>3, <1>4 DEF Caught
  <2>1. PICK j \in 1 .. i : c[j].kind = "try" /\ c[j].thread = c[i].thread
    BY <1>2, <1>4 DEF Caught
  <2>2. j \in 1 .. n /\ i \in 1 .. n
    OBVIOUS
  <2> QED
    BY <2>1, <2>2, <1>3
<1>15. Inside(d, G, h)
  <2> SUFFICES ASSUME NEW i \in 2 .. n
               PROVE  /\ Guard(c[i]) => \A q \in h[i] + 1 .. Len(G[c[i].thread]) :
                           c[i].level <= G[c[i].thread][q].func /\ ~G[c[i].thread][q].ypcall
                      /\ NonYieldable(c[i]) => \A q \in h[i - 1] + 1 .. Len(G[c[i].thread]) :
                           ~G[c[i].thread][q].ypcall
    BY <1>d, <1>3, <1>4 DEF Inside
  <2>1. /\ Guard(c[i]) => \A q \in h[i] + 1 .. Len(F[c[i].thread]) :
             c[i].level <= F[c[i].thread][q].func /\ ~F[c[i].thread][q].ypcall
        /\ NonYieldable(c[i]) => \A q \in h[i - 1] + 1 .. Len(F[c[i].thread]) :
             ~F[c[i].thread][q].ypcall
    BY <1>2, <1>4 DEF Inside
  <2>2. CASE c[i].thread # t
    <3>1. G[c[i].thread] = F[c[i].thread]
      BY <2>2, <1>3, <1>4, <1>g
    <3> QED
      BY <2>1, <3>1
  <2>3. CASE c[i].thread = t
    <3>1. Len(G[t]) \in Nat /\ Len(F[t]) \in Nat /\ h[n] \in Nat /\ h[i] \in Nat /\ h[i - 1] \in Nat
      <4>1. Len(G[t]) \in Nat /\ Len(F[t]) \in Nat
        <5>1. G[t] \in Seq(FrameSet) /\ F[t] \in Seq(FrameSet)
          BY <1>1, <1>5, <1>g
        <5> QED
          BY <5>1
      <4>2. n \in 1 .. n /\ i \in 1 .. n
        BY <1>0
      <4> QED
        BY <4>1, <4>2, <1>3
    <3>2. h[n] <= Len(F[t])
      <4>1. CASE n = 1
        BY <4>1, <1>1, <3>1
      <4>2. CASE n # 1
        BY <4>2, <1>2, <1>4 DEF Fits, Fit, t
      <4> QED
        BY <4>1, <4>2
    <3>3. \A q \in h[n] + 1 .. Len(G[t]) :
             /\ Guard(c[i]) => c[i].level <= G[t][q].func /\ ~G[t][q].ypcall
             /\ NonYieldable(c[i]) => ~G[t][q].ypcall
      BY <2>3, <1>g DEF Above
    <3>4. \A q \in 1 .. h[n] : G[t][q] = F[t][q]
      BY <1>g
    <3>5. \A q \in 1 .. h[n] : q \in 1 .. Len(F[t])
      BY <3>1, <3>2
    <3>6. \A q \in h[i] + 1 .. Len(G[t]) :
            \/ q \in h[n] + 1 .. Len(G[t])
            \/ q \in 1 .. h[n] /\ q \in h[i] + 1 .. Len(F[t])
      BY <3>1, <3>5
    <3>7. \A q \in h[i - 1] + 1 .. Len(G[t]) :
            \/ q \in h[n] + 1 .. Len(G[t])
            \/ q \in 1 .. h[n] /\ q \in h[i - 1] + 1 .. Len(F[t])
      BY <3>1, <3>5
    <3>8. ASSUME Guard(c[i]), NEW q \in h[i] + 1 .. Len(G[t])
          PROVE  c[i].level <= G[t][q].func /\ ~G[t][q].ypcall
      BY <3>8, <3>6, <3>3, <3>4, <2>1, <2>3
    <3>9. ASSUME NonYieldable(c[i]), NEW q \in h[i - 1] + 1 .. Len(G[t])
          PROVE  ~G[t][q].ypcall
      BY <3>9, <3>7, <3>3, <3>4, <2>1, <2>3
    <3> QED
      BY <3>8, <3>9, <2>3
  <2> QED
    BY <2>2, <2>3
<1> QED
  BY <1>8, <1>9, <1>10, <1>11, <1>12, <1>13, <1>14, <1>15 DEF Stack

(* The activation r with height m can be put on the C stack c.             *)
MayPush(c, F, h, r, m) ==
  /\ Kinds(c[Len(c)], r)
  /\ Fit(F[r.thread], c[Len(c)], r, h[Len(c)], m)
  /\ First(r) => /\ \A j \in 1 .. Len(c) : c[j].thread # r.thread
                 /\ h[Len(c)] = Len(F[c[Len(c)].thread])
  /\ Call(c[Len(c)]) /\ r.kind # "handler" => h[Len(c) - 1] < h[Len(c)]
  /\ Guard(r) => \A q \in m + 1 .. Len(F[r.thread]) :
       r.level <= F[r.thread][q].func /\ ~F[r.thread][q].ypcall
  /\ NonYieldable(r) => \A q \in h[Len(c)] + 1 .. Len(F[r.thread]) : ~F[r.thread][q].ypcall

(* Such an activation makes another C stack.                               *)
LEMMA PushStack ==
  ASSUME NEW c, NEW F, NEW h, Stack(c, F, h), NEW r \in Acts, NEW m \in Nat,
         MayPush(c, F, h, r, m)
  PROVE  Stack(Append(c, r), F, [h EXCEPT ![Len(c) + 1] = m])
<1> DEFINE n == Len(c)
           d == Append(c, r)
           g == [h EXCEPT ![n + 1] = m]
<1>1. Shapes(c, F, h)
  BY DEF Stack
<1>2. /\ Piled(c) /\ Fits(c, F, h) /\ Starts(c, F, h) /\ Framed(c, h)
      /\ Segments(c, h) /\ Caught(c) /\ Inside(c, F, h)
  BY DEF Stack
<1>3. c \in Seq(Acts) /\ n \in Nat /\ n > 0
  BY <1>1 DEF Shapes
<1>4. d \in Seq(Acts) /\ Len(d) = n + 1 /\ d[n + 1] = r
      /\ \A i \in 1 .. n : d[i] = c[i]
  BY <1>3
<1>5. /\ g \in [Nat -> Nat] /\ g[n + 1] = m
      /\ \A i \in 0 .. n : g[i] = h[i] /\ h[i] \in Nat
  BY <1>1, <1>3 DEF Shapes
<1>6. /\ Kinds(c[n], r)
      /\ Fit(F[r.thread], c[n], r, h[n], m)
      /\ First(r) => /\ \A j \in 1 .. n : c[j].thread # r.thread
                     /\ h[n] = Len(F[c[n].thread])
      /\ Call(c[n]) /\ r.kind # "handler" => h[n - 1] < h[n]
      /\ Guard(r) => \A q \in m + 1 .. Len(F[r.thread]) :
           r.level <= F[r.thread][q].func /\ ~F[r.thread][q].ypcall
      /\ NonYieldable(r) => \A q \in h[n] + 1 .. Len(F[r.thread]) : ~F[r.thread][q].ypcall
  BY DEF MayPush
<1> HIDE DEF n, d, g
<1>7. \A i \in 2 .. n + 1 : i \in 2 .. n \/ i = n + 1
  BY <1>3
<1>8. \A i \in 2 .. n : /\ i \in 1 .. n /\ i - 1 \in 1 .. n /\ d[i] = c[i] /\ d[i - 1] = c[i - 1]
                       /\ g[i] = h[i] /\ g[i - 1] = h[i - 1] /\ g[i - 2] = h[i - 2]
  <2>1. \A i \in 2 .. n : /\ i \in 1 .. n /\ i - 1 \in 1 .. n /\ i \in 0 .. n
                         /\ i - 1 \in 0 .. n /\ i - 2 \in 0 .. n
    BY <1>3
  <2> QED
    BY <2>1, <1>4, <1>5
<1>a. \A i \in 2 .. n + 1 : i = n + 1 =>
        d[i] = r /\ d[i - 1] = c[n] /\ g[i] = m /\ g[i - 1] = h[n] /\ g[i - 2] = h[n - 1]
  <2>1. d[n + 1] = r /\ g[n + 1] = m /\ d[n] = c[n] /\ g[n] = h[n] /\ g[n - 1] = h[n - 1]
    <3>1. n \in 1 .. n /\ n \in 0 .. n /\ n - 1 \in 0 .. n
      BY <1>3
    <3> QED
      BY <3>1, <1>4, <1>5
  <2>2. \A i \in 2 .. n + 1 : i = n + 1 => i - 1 = n /\ i - 2 = n - 1
    BY <1>3
  <2> QED
    BY <2>1, <2>2
<1>b. h[n] \in Nat /\ h[n - 1] \in Nat
  BY <1>1, <1>3, SMTT(30) DEF Shapes
<1>10. Shapes(d, F, g)
  <2>1. d[1] = c[1] /\ g[1] = h[1]
    BY <1>3, <1>4, <1>5
  <2>2. F \in [Thread -> Seq(FrameSet)] /\ c[1].kind = "main" /\ c[1].thread = MainThread /\ h[1] = 0
    BY <1>1 DEF Shapes
  <2>3. Len(d) > 0
    BY <1>3, <1>4
  <2> QED
    BY <2>1, <2>2, <2>3, <1>4, <1>5 DEF Shapes
<1>11. Piled(d)
  <2> SUFFICES ASSUME NEW i \in 2 .. n + 1 PROVE Kinds(d[i - 1], d[i])
    BY <1>4 DEF Piled
  <2>1. CASE i \in 2 .. n
    BY <2>1, <1>2, <1>8 DEF Piled, n
  <2>2. CASE i = n + 1
    BY <2>2, <1>6, <1>a
  <2> QED
    BY <2>1, <2>2, <1>7
<1>12. Fits(d, F, g)
  <2> SUFFICES ASSUME NEW i \in 2 .. n + 1
               PROVE  Fit(F[d[i].thread], d[i - 1], d[i], g[i - 1], g[i])
    BY <1>4 DEF Fits
  <2>1. CASE i \in 2 .. n
    BY <2>1, <1>2, <1>8 DEF Fits, n
  <2>2. CASE i = n + 1
    BY <2>2, <1>6, <1>a
  <2> QED
    BY <2>1, <2>2, <1>7
<1>13. Starts(d, F, g)
  <2> SUFFICES ASSUME NEW i \in 2 .. n + 1, First(d[i])
               PROVE  /\ \A j \in 1 .. i - 1 : d[j].thread # d[i].thread
                      /\ g[i - 1] = Len(F[d[i - 1].thread])
    BY <1>4 DEF Starts
  <2>0. \A j \in 1 .. i - 1 : d[j] = c[j]
    BY <1>4, <1>3
  <2>1. CASE i \in 2 .. n
    BY <2>0, <2>1, <1>2, <1>8, ZenonT(60) DEF Starts, n
  <2>2. CASE i = n + 1
    <3>1. i - 1 = n
      BY <2>2, <1>3
    <3> QED
      BY <2>0, <2>2, <3>1, <1>6, <1>a
  <2> QED
    BY <2>1, <2>2, <1>7
<1>14. Framed(d, g)
  <2> SUFFICES ASSUME NEW i \in 2 .. n + 1, Call(d[i - 1]), d[i].kind # "handler"
               PROVE  g[i - 2] < g[i - 1]
    BY <1>4 DEF Framed
  <2>1. CASE i \in 2 .. n
    BY <2>1, <1>2, <1>8 DEF Framed, n
  <2>2. CASE i = n + 1
    BY <2>2, <1>6, <1>a
  <2> QED
    BY <2>1, <2>2, <1>7
<1>15. Segments(d, g)
  <2> SUFFICES ASSUME NEW i \in 1 .. n + 1, NEW j \in 1 .. n + 1, i <= j,
                      d[i].thread = d[j].thread
               PROVE  g[i] <= g[j] /\ \A k \in i .. j : d[k].thread = d[i].thread
    BY <1>4 DEF Segments
  <2>1. CASE j \in 1 .. n
    <3>1. i \in 1 .. n /\ \A k \in i .. j : k \in 1 .. n
      BY <2>1, <1>3
    <3>2. c[i].thread = c[j].thread
      BY <2>1, <3>1, <1>4
    <3>3. h[i] <= h[j] /\ \A k \in i .. j : c[k].thread = c[i].thread
      BY <2>1, <3>1, <3>2, <1>2 DEF Segments, n
    <3>4. g[i] = h[i] /\ g[j] = h[j]
      <4>1. i \in 0 .. n /\ j \in 0 .. n
        BY <2>1, <3>1, <1>3
      <4> QED
        BY <4>1, <1>5
    <3> QED
      BY <3>1, <3>3, <3>4, <1>4
  <2>2. CASE j = n + 1 /\ i = n + 1
    BY <2>2, <1>3, <1>5
  <2>3. CASE j = n + 1 /\ i \in 1 .. n
    <3>1. c[i].thread = r.thread
      BY <2>3, <1>4
    <3>2. ~First(r)
      BY <2>3, <3>1, <1>6
    <3>3. r.thread = c[n].thread /\ h[n] <= m
      BY <3>2, <1>6 DEF Kinds, Fit
    <3>4. n \in 1 .. n /\ i <= n
      BY <2>3, <1>3
    <3>5. h[i] <= h[n] /\ \A k \in i .. n : c[k].thread = c[i].thread
      BY <2>3, <3>1, <3>3, <3>4, <1>2 DEF Segments, n
    <3>6. h[i] \in Nat /\ h[n] \in Nat /\ g[i] = h[i] /\ g[j] = m
      <4>1. h[i] \in Nat /\ g[i] = h[i]
        BY <2>3, <1>3, <1>5, SMTT(30)
      <4> QED
        BY <4>1, <1>b, <1>5, <2>3
    <3>7. \A k \in i .. j : k \in i .. n \/ k = n + 1
      BY <2>3, <1>3
    <3>8. \A k \in i .. n : d[k] = c[k]
      BY <2>3, <1>4, <1>3
    <3> QED
      BY <2>3, <3>1, <3>3, <3>5, <3>6, <3>7, <3>8, <1>4
  <2> QED
    BY <2>1, <2>2, <2>3, <1>3
<1>16. Caught(d)
  <2> SUFFICES ASSUME NEW i \in 2 .. n + 1, d[i].kind \notin {"reset", "caught"}
               PROVE  \E j \in 1 .. i : d[j].kind = "try" /\ d[j].thread = d[i].thread
    BY <1>4 DEF Caught
  <2>1. CASE i \in 2 .. n
    <3>1. PICK j \in 1 .. i : c[j].kind = "try" /\ c[j].thread = c[i].thread
      BY <2>1, <1>2, <1>8 DEF Caught, n
    <3>2. d[j] = c[j] /\ d[i] = c[i]
      BY <2>1, <1>8, <1>4, <1>3
    <3> QED
      BY <3>1, <3>2
  <2>2. CASE i = n + 1
    <3>1. CASE r.kind = "try"
      <4>1. n + 1 \in 1 .. n + 1
        BY <1>3
      <4> QED
        BY <2>2, <3>1, <4>1, <1>4
    <3>2. CASE r.kind # "try"
      <4>1. c[n].kind \notin {"main", "reset", "caught"} /\ r.thread = c[n].thread
        BY <2>2, <3>2, <1>4, <1>6, <1>3, ActFacts DEF Kinds, First, Call
      <4>2. n # 1
        BY <4>1, <1>1 DEF Shapes
      <4>3. n \in 2 .. n
        BY <4>2, <1>3
      <4>4. PICK j \in 1 .. n : c[j].kind = "try" /\ c[j].thread = c[n].thread
        BY <4>1, <4>3, <1>2 DEF Caught, n
      <4>5. j \in 1 .. n + 1 /\ d[j] = c[j]
        BY <1>3, <1>4
      <4> QED
        BY <2>2, <4>1, <4>4, <4>5, <1>4
    <3> QED
      BY <3>1, <3>2
  <2> QED
    BY <2>1, <2>2, <1>7
<1>17. Inside(d, F, g)
  <2> SUFFICES ASSUME NEW i \in 2 .. n + 1
               PROVE  /\ Guard(d[i]) => \A q \in g[i] + 1 .. Len(F[d[i].thread]) :
                           d[i].level <= F[d[i].thread][q].func /\ ~F[d[i].thread][q].ypcall
                      /\ NonYieldable(d[i]) => \A q \in g[i - 1] + 1 .. Len(F[d[i].thread]) :
                           ~F[d[i].thread][q].ypcall
    BY <1>4 DEF Inside
  <2>1. CASE i \in 2 .. n
    BY <2>1, <1>2, <1>8 DEF Inside, n
  <2>2. CASE i = n + 1
    BY <2>2, <1>6, <1>a
  <2> QED
    BY <2>1, <2>2, <1>7
<1> QED
  BY <1>10, <1>11, <1>12, <1>13, <1>14, <1>15, <1>16, <1>17 DEF Stack, d, g, n
-----------------------------------------------------------------------------
(* What follows from it *)

(* The parts of a C stack, and the types of what is in it.                 *)
LEMMA StackShape ==
  ASSUME NEW c, NEW F, NEW h, Stack(c, F, h)
  PROVE  /\ c \in Seq(Acts) /\ Len(c) \in Nat /\ Len(c) > 0
         /\ \A i \in 1 .. Len(c) : c[i] \in Acts /\ c[i].thread \in Thread
         /\ F \in [Thread -> Seq(FrameSet)]
         /\ \A t \in Thread : F[t] \in Seq(FrameSet) /\ Len(F[t]) \in Nat
         /\ h \in [Nat -> Nat] /\ \A i \in 0 .. Len(c) : h[i] \in Nat
         /\ c[1].kind = "main" /\ c[1].thread = MainThread /\ h[1] = 0
         /\ Piled(c) /\ Fits(c, F, h) /\ Starts(c, F, h) /\ Framed(c, h)
         /\ Segments(c, h) /\ Caught(c) /\ Inside(c, F, h)
<1>1. Shapes(c, F, h)
  BY DEF Stack
<1>2. /\ c \in Seq(Acts) /\ Len(c) > 0 /\ F \in [Thread -> Seq(FrameSet)] /\ h \in [Nat -> Nat]
      /\ c[1].kind = "main" /\ c[1].thread = MainThread /\ h[1] = 0
  BY <1>1 DEF Shapes
<1>3. \A i \in 1 .. Len(c) : c[i] \in Acts
  BY <1>2
<1>4. \A i \in 1 .. Len(c) : c[i].thread \in Thread
  BY <1>3, ActFacts
<1>5. \A t \in Thread : F[t] \in Seq(FrameSet)
  BY <1>2
<1>6. Len(c) \in Nat
  BY <1>2
<1>7. \A i \in 0 .. Len(c) : h[i] \in Nat
  BY <1>2, <1>6
<1>8. \A t \in Thread : Len(F[t]) \in Nat
  BY <1>5
<1> QED
  BY <1>2, <1>3, <1>4, <1>5, <1>6, <1>7, <1>8 DEF Stack

(* The heights are within the frames.                                      *)
LEMMA HeightsFit ==
  ASSUME NEW c, NEW F, NEW h, Stack(c, F, h), NEW n \in 1 .. Len(c)
  PROVE  h[n] \in Nat /\ h[n] <= Len(F[c[n].thread])
<1>1. CASE n = 1
  BY <1>1, StackShape
<1>2. CASE n # 1
  <2>1. n \in 2 .. Len(c)
    BY <1>2, StackShape
  <2>2. Fits(c, F, h) /\ h[n] \in Nat
    BY StackShape
  <2> QED
    BY <2>1, <2>2 DEF Fits, Fit
<1> QED
  BY <1>1, <1>2

(* The frames of a thread above an activation may be above it.             *)
LEMMA FramesAbove ==
  ASSUME NEW c, NEW F, NEW h, Stack(c, F, h), NEW n \in 1 .. Len(c),
         NEW q \in h[n] + 1 .. Len(F[c[n].thread])
  PROVE  Above(c, n, c[n].thread, F[c[n].thread][q])
<1> DEFINE t == c[n].thread
<1>1. Len(c) \in Nat /\ Segments(c, h) /\ Inside(c, F, h) /\ t \in Thread /\ Len(F[t]) \in Nat
  BY StackShape
<1>2. Len(c) \in Nat /\ \A i \in 0 .. Len(c) : h[i] \in Nat
  BY StackShape
<1> SUFFICES ASSUME NEW i \in 2 .. n, c[i].thread = t
             PROVE  /\ Guard(c[i]) => c[i].level <= F[t][q].func /\ ~F[t][q].ypcall
                    /\ NonYieldable(c[i]) => ~F[t][q].ypcall
  BY DEF Above
<1>3. /\ i \in 2 .. Len(c) /\ i - 1 \in 1 .. Len(c) /\ i \in 1 .. Len(c) /\ n \in 0 .. Len(c)
      /\ i - 1 \in 0 .. Len(c) /\ i \in 0 .. Len(c) /\ i <= n
  BY <1>2
<1>4. h[i] <= h[n]
  BY <1>1, <1>3 DEF Segments
<1>5. h[i] \in Nat /\ h[i - 1] \in Nat /\ h[n] \in Nat
  BY <1>2, <1>3
<1>6. NonYieldable(c[i]) => h[i - 1] <= h[i]
  <2>1. Fit(F[c[i].thread], c[i - 1], c[i], h[i - 1], h[i])
    BY <1>3, StackShape DEF Fits
  <2> QED
    BY <2>1 DEF Fit, NonYieldable, Call, First
<1>7. q \in h[i] + 1 .. Len(F[t])
  BY <1>1, <1>4, <1>5
<1>8. NonYieldable(c[i]) => q \in h[i - 1] + 1 .. Len(F[t])
  BY <1>1, <1>4, <1>5, <1>6
<1>9. /\ Guard(c[i]) => \A q1 \in h[i] + 1 .. Len(F[t]) :
         c[i].level <= F[t][q1].func /\ ~F[t][q1].ypcall
      /\ NonYieldable(c[i]) => \A q1 \in h[i - 1] + 1 .. Len(F[t]) : ~F[t][q1].ypcall
  BY <1>1, <1>3 DEF Inside
<1> QED
  BY <1>7, <1>8, <1>9

(* Above depends on two fields, and only on the lower activations.         *)
LEMMA AboveToo ==
  ASSUME NEW c \in Seq(Acts), NEW n \in 1 .. Len(c), NEW t, NEW f \in FrameSet, NEW g \in FrameSet,
         Above(c, n, t, f), f.func <= g.func, g.ypcall => f.ypcall
  PROVE  Above(c, n, t, g)
<1> SUFFICES ASSUME NEW i \in 2 .. n, c[i].thread = t
             PROVE  /\ Guard(c[i]) => c[i].level <= g.func /\ ~g.ypcall
                    /\ NonYieldable(c[i]) => ~g.ypcall
  BY DEF Above
<1>1. /\ Guard(c[i]) => c[i].level <= f.func /\ ~f.ypcall
      /\ NonYieldable(c[i]) => ~f.ypcall
  BY DEF Above
<1>2. c[i] \in Acts
  <2>1. i \in 1 .. Len(c)
    OBVIOUS
  <2> QED
    BY <2>1
<1>3. Guard(c[i]) => c[i].level \in Nat
  BY <1>2, ActFacts DEF Guard
<1>4. f.func \in Nat /\ g.func \in Nat
  BY FrameFacts
<1> QED
  BY <1>1, <1>3, <1>4

(* A thread that is not the running one was in a function.                 *)
LEMMA OthersHaveFrames ==
  ASSUME NEW c, NEW F, NEW h, Stack(c, F, h), NEW j \in 1 .. Len(c),
         c[j].thread # c[Len(c)].thread
  PROVE  F[c[j].thread] # <<>>
<1> DEFINE t == c[j].thread
           I == {i \in 1 .. Len(c) : i > j /\ c[i].thread # t}
<1>0. Len(c) \in Nat /\ Len(c) > 0
  BY StackShape
<1>1. Len(c) \in I
  BY <1>0
<1>2. PICK i \in I : \A x \in I : i <= x
  <2>1. I \in SUBSET Nat
    BY <1>0
  <2> HIDE DEF I
  <2> QED
    BY <1>1, <2>1, LeastNumber
<1>3. i \in 2 .. Len(c) /\ i - 1 \in 1 .. Len(c) /\ i - 1 >= j
  BY <1>0
<1>4. c[i - 1].thread = t
  BY <1>2, <1>3
<1>5. Kinds(c[i - 1], c[i])
  BY <1>3, StackShape DEF Piled
<1>6. First(c[i]) /\ c[i - 1].kind = "cfun"
  BY <1>4, <1>5 DEF Kinds
<1>7. c[i].kind # "handler"
  BY <1>6 DEF First
<1>8. h[i - 1] = Len(F[t]) /\ h[i - 2] < h[i - 1]
  <2>1. Starts(c, F, h) /\ Framed(c, h)
    BY StackShape
  <2>2. h[i - 1] = Len(F[t])
    BY <2>1, <1>3, <1>4, <1>6 DEF Starts
  <2>3. h[i - 2] < h[i - 1]
    BY <2>1, <1>3, <1>6, <1>7 DEF Framed, Call
  <2> QED
    BY <2>2, <2>3
<1>9. h[i - 1] \in Nat /\ h[i - 2] \in Nat
  <2>1. i - 1 \in 0 .. Len(c) /\ i - 2 \in 0 .. Len(c)
    BY <1>0, <1>3
  <2> QED
    BY <2>1, StackShape
<1> QED
  BY <1>8, <1>9
-----------------------------------------------------------------------------
(* The frames of a thread *)

FrameOK(f) ==
  /\ f.func > 0
  /\ f.lua => ~f.k /\ ~f.ypcall /\ ~f.clsret
  /\ f.ypcall => f.k /\ f.func < f.idx
  /\ f.recst # "ok" => f.ypcall
  /\ f.doing = "close" => f.lua /\ f.func < f.idx
  /\ f.doing = "return" /\ ~f.lua => f.clsret
  /\ f.ypcall => "pcallk" \in Uses
  /\ f.clsret => "toclose" \in Uses

(* The frame g may be put on the frame f.                                  *)
Follows(f, g) ==
  /\ g.lua /\ ~g.fresh => f.lua
  /\ f.func < g.func
  /\ f.ypcall => f.clsret \/ f.idx <= g.func

Chain(FR) ==
  /\ \A p \in 1 .. Len(FR) : FrameOK(FR[p])
  /\ FR # <<>> => FR[1].lua /\ FR[1].fresh
  /\ \A p \in 2 .. Len(FR) : Follows(FR[p - 1], FR[p])

(* The lower frames of a thread are frames of a thread.                    *)
LEMMA ChainCut ==
  ASSUME NEW FR \in Seq(FrameSet), Chain(FR), NEW n \in 0 .. Len(FR)
  PROVE  /\ SubSeq(FR, 1, n) \in Seq(FrameSet) /\ Len(SubSeq(FR, 1, n)) = n
         /\ \A q \in 1 .. n : SubSeq(FR, 1, n)[q] = FR[q]
         /\ Chain(SubSeq(FR, 1, n))
<1> DEFINE G == SubSeq(FR, 1, n)
<1>1. G \in Seq(FrameSet) /\ Len(G) = n /\ \A q \in 1 .. n : G[q] = FR[q]
  OBVIOUS
<1>2. Len(FR) \in Nat
  OBVIOUS
<1> HIDE DEF G
<1>3. \A p \in 2 .. n : p \in 1 .. n /\ p - 1 \in 1 .. n /\ p \in 2 .. Len(FR)
  BY <1>2
<1>4. \A p \in 1 .. n : p \in 1 .. Len(FR)
  BY <1>2
<1>5. G # <<>> => FR # <<>> /\ G[1] = FR[1]
  <2>1. G # <<>> => 1 \in 1 .. n
    BY <1>1
  <2> QED
    BY <2>1, <1>1, <1>2
<1>6. Chain(G)
  <2>1. \A p \in 1 .. n : FrameOK(G[p])
    BY <1>1, <1>4 DEF Chain
  <2>2. \A p \in 2 .. n : Follows(G[p - 1], G[p])
    BY <1>1, <1>3 DEF Chain
  <2> QED
    BY <1>1, <1>5, <2>1, <2>2 DEF Chain
<1> QED
  BY <1>1, <1>6 DEF G

(* A frame that may be on top makes more frames of a thread.               *)
LEMMA ChainPush ==
  ASSUME NEW FR \in Seq(FrameSet), Chain(FR), NEW f \in FrameSet, FrameOK(f),
         IF FR = <<>> THEN f.lua /\ f.fresh ELSE Follows(FR[Len(FR)], f)
  PROVE  /\ Append(FR, f) \in Seq(FrameSet) /\ Len(Append(FR, f)) = Len(FR) + 1
         /\ \A q \in 1 .. Len(FR) : Append(FR, f)[q] = FR[q]
         /\ Append(FR, f)[Len(FR) + 1] = f
         /\ Chain(Append(FR, f))
<1> DEFINE G == Append(FR, f)
           n == Len(FR)
<1>1. /\ G \in Seq(FrameSet) /\ Len(G) = n + 1 /\ \A q \in 1 .. n : G[q] = FR[q]
      /\ G[n + 1] = f /\ n \in Nat
  OBVIOUS
<1>2. FR = <<>> <=> n = 0
  OBVIOUS
<1> HIDE DEF G, n
<1>3. ASSUME NEW p \in 1 .. n + 1 PROVE FrameOK(G[p])
  <2>1. CASE p = n + 1
    BY <2>1, <1>1
  <2>2. CASE p # n + 1
    <3>1. p \in 1 .. n
      BY <2>2, <1>1
    <3> QED
      BY <3>1, <1>1 DEF Chain, n
  <2> QED
    BY <2>1, <2>2
<1>4. ASSUME NEW p \in 2 .. n + 1 PROVE Follows(G[p - 1], G[p])
  <2>1. CASE p = n + 1
    <3>1. p - 1 = n /\ n \in 1 .. n /\ FR # <<>>
      BY <2>1, <1>1, <1>2
    <3> QED
      BY <2>1, <3>1, <1>1 DEF n
  <2>2. CASE p # n + 1
    <3>1. p \in 1 .. n /\ p - 1 \in 1 .. n /\ p \in 2 .. n
      BY <2>2, <1>1
    <3> QED
      BY <3>1, <1>1 DEF Chain, n
  <2> QED
    BY <2>1, <2>2
<1>5. G[1].lua /\ G[1].fresh
  <2>1. CASE FR = <<>>
    BY <2>1, <1>1, <1>2
  <2>2. CASE FR # <<>>
    <3>1. 1 \in 1 .. n
      BY <2>2, <1>1, <1>2
    <3> QED
      BY <2>2, <3>1, <1>1 DEF Chain
  <2> QED
    BY <2>1, <2>2
<1>6. Chain(G)
  BY <1>1, <1>3, <1>4, <1>5 DEF Chain
<1> QED
  BY <1>1, <1>6 DEF G, n

(* The frame n becomes g, and those above it go away.                      *)
Retop(FR, n, g) == Append(SubSeq(FR, 1, n - 1), g)

(* They still are the frames of a thread when it is the same function.     *)
LEMMA ChainChange ==
  ASSUME NEW FR \in Seq(FrameSet), Chain(FR), NEW n \in 1 .. Len(FR),
         NEW g \in FrameSet, FrameOK(g),
         g.func = FR[n].func, g.lua = FR[n].lua, g.fresh = FR[n].fresh
  PROVE  /\ Retop(FR, n, g) \in Seq(FrameSet) /\ Len(Retop(FR, n, g)) = n
         /\ \A q \in 1 .. n - 1 : Retop(FR, n, g)[q] = FR[q]
         /\ Retop(FR, n, g)[n] = g
         /\ Chain(Retop(FR, n, g))
<1> DEFINE C == SubSeq(FR, 1, n - 1)
           G == Retop(FR, n, g)
<1>0. Len(FR) \in Nat /\ n \in Nat /\ n - 1 \in 0 .. Len(FR) /\ n - 1 + 1 = n
  OBVIOUS
<1>1. /\ C \in Seq(FrameSet) /\ Len(C) = n - 1 /\ Chain(C)
      /\ \A q \in 1 .. n - 1 : C[q] = FR[q]
  BY <1>0, ChainCut
<1>2. G = Append(C, g)
  BY DEF Retop
<1> HIDE DEF C, G
<1>3. CASE n = 1
  <2>1. C = <<>>
    BY <1>1, <1>3
  <2>2. FR # <<>>
    BY <1>0
  <2>3. g.lua /\ g.fresh
    BY <1>3, <2>2 DEF Chain
  <2>5. /\ Append(C, g) \in Seq(FrameSet) /\ Len(Append(C, g)) = Len(C) + 1
        /\ \A q \in 1 .. Len(C) : Append(C, g)[q] = C[q]
        /\ Append(C, g)[Len(C) + 1] = g
        /\ Chain(Append(C, g))
    BY <1>1, <2>1, <2>3, ChainPush
  <2>6. /\ G \in Seq(FrameSet) /\ Len(G) = Len(C) + 1
        /\ \A q \in 1 .. Len(C) : G[q] = C[q]
        /\ G[Len(C) + 1] = g
        /\ Chain(G)
    BY ONLY <1>2, <2>5, Zenon
  <2>7. Len(C) = n - 1 /\ Len(C) + 1 = n
    BY ONLY <1>0, <1>1
  <2>8. \A q \in 1 .. n - 1 : G[q] = FR[q]
    BY ONLY <1>1, <2>6, <2>7
  <2>9. Len(G) = n /\ G[n] = g
    BY ONLY <2>6, <2>7
  <2> QED
    BY ONLY <2>6, <2>8, <2>9 DEF G
<1>4. CASE n # 1
  <2>1. C # <<>> /\ Len(C) \in 1 .. n - 1 /\ n \in 2 .. Len(FR)
    BY <1>0, <1>1, <1>4
  <2>2. C[Len(C)] = FR[n - 1]
    BY <2>1, <1>1
  <2>3. Follows(FR[n - 1], FR[n])
    BY <2>1 DEF Chain
  <2>4. Follows(C[Len(C)], g)
    BY <2>2, <2>3 DEF Follows
  <2>5. /\ Append(C, g) \in Seq(FrameSet) /\ Len(Append(C, g)) = Len(C) + 1
        /\ \A q \in 1 .. Len(C) : Append(C, g)[q] = C[q]
        /\ Append(C, g)[Len(C) + 1] = g
        /\ Chain(Append(C, g))
    BY <1>1, <2>1, <2>4, ChainPush
  <2>6. /\ G \in Seq(FrameSet) /\ Len(G) = Len(C) + 1
        /\ \A q \in 1 .. Len(C) : G[q] = C[q]
        /\ G[Len(C) + 1] = g
        /\ Chain(G)
    BY ONLY <1>2, <2>5, Zenon
  <2>7. Len(C) = n - 1 /\ Len(C) + 1 = n
    BY ONLY <1>0, <1>1
  <2>8. \A q \in 1 .. n - 1 : G[q] = FR[q]
    BY ONLY <1>1, <2>6, <2>7
  <2>9. Len(G) = n /\ G[n] = g
    BY ONLY <2>6, <2>7
  <2> QED
    BY ONLY <2>6, <2>8, <2>9 DEF G
<1> QED
  BY <1>3, <1>4 DEF G

(* The functions of the frames are in order.                               *)
LEMMA ChainOrder ==
  ASSUME NEW FR \in Seq(FrameSet), Chain(FR), NEW q \in 1 .. Len(FR), NEW p \in 1 .. q - 1
  PROVE  FR[p].func < FR[q].func /\ (FR[p].ypcall => FR[p].clsret \/ FR[p].idx <= FR[q].func)
<1> DEFINE Bad == {x \in p + 1 .. Len(FR) :
                     ~(FR[p].func < FR[x].func
                       /\ (FR[p].ypcall => FR[p].clsret \/ FR[p].idx <= FR[x].func))}
<1>0. Len(FR) \in Nat /\ \A x \in 1 .. Len(FR) : FR[x] \in FrameSet
  OBVIOUS
<1>1. Bad = {}
  <2> SUFFICES ASSUME Bad # {} PROVE FALSE
    OBVIOUS
  <2>1. Bad \in SUBSET Nat
    BY <1>0
  <2>2. PICK x \in Bad : \A y \in Bad : x <= y
    <3> HIDE DEF Bad
    <3> QED
      BY <2>1, LeastNumber
  <2>3. x \in 2 .. Len(FR) /\ x - 1 \in 1 .. Len(FR) /\ x \in 1 .. Len(FR) /\ p \in 1 .. Len(FR)
    BY <1>0
  <2>4. Follows(FR[x - 1], FR[x])
    BY <2>3 DEF Chain
  <2>5. FR[x].func \in Nat /\ FR[x - 1].func \in Nat /\ FR[p].func \in Nat /\ FR[p].idx \in Nat
    BY <1>0, <2>3, FrameFacts
  <2>6. CASE x = p + 1
    BY <2>4, <2>6, <2>5 DEF Follows
  <2>7. CASE x # p + 1
    <3>1. x - 1 \in p + 1 .. Len(FR) /\ x - 1 \notin Bad
      BY <2>2, <2>7, <1>0, SMTT(30)
    <3>2. FR[p].func < FR[x - 1].func
          /\ (FR[p].ypcall => FR[p].clsret \/ FR[p].idx <= FR[x - 1].func)
      BY <3>1
    <3> QED
      BY <2>2, <2>4, <2>5, <3>2, SMTT(30) DEF Follows
  <2> QED
    BY <2>6, <2>7
<1>2. q \in p + 1 .. Len(FR)
  BY <1>0
<1> QED
  BY <1>1, <1>2
-----------------------------------------------------------------------------
(* The counts of calls *)

IsCounted(r) == (Call(r) /\ r.inc > 0) \/ r.kind = "unroll"
CCalls(c, n) == Cardinality({i \in 1 .. n : IsCounted(c[i])})
MainsOwn(t) == IF t = MainThread THEN 1 ELSE 0
NonYields(c, t, n) ==
  MainsOwn(t) + Cardinality({i \in 1 .. n : c[i].thread = t /\ NonYieldable(c[i])})

CountOf(r) == IF IsCounted(r) THEN 1 ELSE 0
NonYieldOf(t, r) == IF r.thread = t /\ NonYieldable(r) THEN 1 ELSE 0
ResumeOf(r) == IF r.of = "resume" THEN 1 ELSE 0

(* The counts of a C stack c are right: a is nC, b is nny, e is exc.       *)
Counted(c, a, b, e) ==
  /\ a \in [Thread -> Nat] /\ b \in [Thread -> Nat]
  /\ \A t \in Thread : a[t] <= ErrorCCalls /\ b[t] <= ErrorCCalls + 1
  /\ \A i \in 1 .. Len(c) : b[c[i].thread] = NonYields(c, c[i].thread, Len(c))
  /\ \A i \in 1 .. Len(c) :
       (i = Len(c) \/ First(c[i + 1])) => a[c[i].thread] = CCalls(c, i)
  /\ \A i \in 1 .. Len(c) : c[i].kind = "try" =>
       /\ c[i].nny = NonYields(c, c[i].thread, i)
       /\ c[i].nC = CCalls(c, i) + ResumeOf(c[i])
  /\ \A i \in 1 .. Len(c) : CCalls(c, i) < ErrorCCalls \/ (i = Len(c) /\ e = "err")

(* A set of positions on the C stack is finite.                            *)
LEMMA CountSubset ==
  ASSUME NEW n \in Nat, NEW S \in SUBSET (1 .. n)
  PROVE  IsFiniteSet(S) /\ Cardinality(S) \in Nat
<1>1. IsFiniteSet(1 .. n)
  BY FS_Interval
<1>2. IsFiniteSet(S)
  BY <1>1, FS_Subset
<1> QED
  BY <1>2, FS_CardinalityType

(* The counts are numbers.                                                 *)
LEMMA CountsAreNumbers ==
  ASSUME NEW c, NEW t, NEW n \in Nat
  PROVE  CCalls(c, n) \in Nat /\ NonYields(c, t, n) \in Nat
<1>1. Cardinality({i \in 1 .. n : IsCounted(c[i])}) \in Nat
  BY CountSubset
<1>2. Cardinality({i \in 1 .. n : c[i].thread = t /\ NonYieldable(c[i])}) \in Nat
  BY CountSubset
<1> QED
  BY <1>1, <1>2 DEF CCalls, NonYields, MainsOwn

(* One more activation adds at most one to each count.                     *)
LEMMA CountStep ==
  ASSUME NEW c, NEW t, NEW n \in Nat
  PROVE  /\ CCalls(c, n + 1) = CCalls(c, n) + CountOf(c[n + 1])
         /\ NonYields(c, t, n + 1)
              = NonYields(c, t, n) + NonYieldOf(t, c[n + 1])
<1> DEFINE S == {i \in 1 .. n : IsCounted(c[i])}
           S2 == {i \in 1 .. n + 1 : IsCounted(c[i])}
           T == {i \in 1 .. n : c[i].thread = t /\ NonYieldable(c[i])}
           T2 == {i \in 1 .. n + 1 : c[i].thread = t /\ NonYieldable(c[i])}
<1>1. IsFiniteSet(S) /\ IsFiniteSet(T) /\ n + 1 \notin S /\ n + 1 \notin T
      /\ Cardinality(S) \in Nat /\ Cardinality(T) \in Nat
  <2>1. S \in SUBSET (1 .. n) /\ T \in SUBSET (1 .. n) /\ n + 1 \notin S /\ n + 1 \notin T
    OBVIOUS
  <2> HIDE DEF S, T
  <2> QED
    BY <2>1, CountSubset
<1>2. S2 = IF IsCounted(c[n + 1]) THEN S \union {n + 1} ELSE S
  OBVIOUS
<1>3. T2 = IF c[n + 1].thread = t /\ NonYieldable(c[n + 1]) THEN T \union {n + 1} ELSE T
  OBVIOUS
<1>4. Cardinality(S \union {n + 1}) = Cardinality(S) + 1
      /\ Cardinality(T \union {n + 1}) = Cardinality(T) + 1
  <2> HIDE DEF S, T
  <2> QED
    BY <1>1, FS_AddElement
<1>5. CCalls(c, n) = Cardinality(S) /\ CCalls(c, n + 1) = Cardinality(S2)
  BY DEF CCalls
<1>6. /\ NonYields(c, t, n) = MainsOwn(t) + Cardinality(T)
      /\ NonYields(c, t, n + 1) = MainsOwn(t) + Cardinality(T2)
  BY DEF NonYields
<1>7. MainsOwn(t) \in Nat
  BY DEF MainsOwn
<1> HIDE DEF S, S2, T, T2
<1>8. Cardinality(S2) = Cardinality(S) + CountOf(c[n + 1])
  BY <1>1, <1>2, <1>4 DEF CountOf, NonYieldOf, ResumeOf
<1>9. Cardinality(T2) = Cardinality(T) + NonYieldOf(t, c[n + 1])
  BY <1>1, <1>3, <1>4 DEF CountOf, NonYieldOf, ResumeOf
<1>10. NonYieldOf(t, c[n + 1]) \in Nat
  BY DEF CountOf, NonYieldOf, ResumeOf
<1> QED
  BY <1>1, <1>5, <1>6, <1>7, <1>8, <1>9, <1>10

(* The counts up to n depend on the activations up to n only.              *)
LEMMA CountSame ==
  ASSUME NEW c, NEW d, NEW t, NEW n \in Nat, \A i \in 1 .. n : c[i] = d[i]
  PROVE  CCalls(c, n) = CCalls(d, n) /\ NonYields(c, t, n) = NonYields(d, t, n)
<1>1. {i \in 1 .. n : IsCounted(c[i])} = {i \in 1 .. n : IsCounted(d[i])}
  OBVIOUS
<1>2. {i \in 1 .. n : c[i].thread = t /\ NonYieldable(c[i])}
        = {i \in 1 .. n : d[i].thread = t /\ NonYieldable(d[i])}
  OBVIOUS
<1> QED
  BY <1>1, <1>2 DEF CCalls, NonYields

(* A higher part of the C stack has as many calls as a lower one, or more. *)
LEMMA CountsGrow ==
  ASSUME NEW c, NEW n \in Nat, NEW m \in 0 .. n
  PROVE  CCalls(c, m) <= CCalls(c, n)
<1>1. {i \in 1 .. m : IsCounted(c[i])} \subseteq {i \in 1 .. n : IsCounted(c[i])}
  OBVIOUS
<1>2. IsFiniteSet({i \in 1 .. n : IsCounted(c[i])})
  BY CountSubset
<1> QED
  BY <1>1, <1>2, FS_Subset DEF CCalls

(* Every non-yieldable call is counted as a call.                          *)
LEMMA NonYieldsAreCalls ==
  ASSUME NEW c, NEW t, NEW n \in Nat
  PROVE  NonYields(c, t, n) <= CCalls(c, n) + 1
<1> DEFINE S == {i \in 1 .. n : IsCounted(c[i])}
           T == {i \in 1 .. n : c[i].thread = t /\ NonYieldable(c[i])}
<1>1. T \subseteq S
  BY DEF NonYieldable, IsCounted
<1>2. IsFiniteSet(S) /\ Cardinality(S) \in Nat /\ Cardinality(T) \in Nat
  BY CountSubset
<1>3. Cardinality(T) <= Cardinality(S)
  <2> HIDE DEF S, T
  <2> QED
    BY <1>1, <1>2, FS_Subset
<1>4. MainsOwn(t) <= 1 /\ MainsOwn(t) \in Nat
  BY DEF MainsOwn
<1>5. NonYields(c, t, n) = MainsOwn(t) + Cardinality(T) /\ CCalls(c, n) = Cardinality(S)
  BY DEF NonYields, CCalls
<1> HIDE DEF S, T
<1> QED
  BY <1>2, <1>3, <1>4, <1>5

(* What is no non-yieldable call of the thread does not change its count.  *)
LEMMA NoNewNonYields ==
  ASSUME NEW c, NEW t, NEW n \in Nat, NEW m \in 0 .. n,
         \A i \in m + 1 .. n : ~(c[i].thread = t /\ NonYieldable(c[i]))
  PROVE  NonYields(c, t, m) = NonYields(c, t, n)
<1>1. {i \in 1 .. m : c[i].thread = t /\ NonYieldable(c[i])}
        = {i \in 1 .. n : c[i].thread = t /\ NonYieldable(c[i])}
  OBVIOUS
<1> QED
  BY <1>1 DEF NonYields
(* No activation of a thread comes after those of one that it started.     *)
LEMMA StartsElsewhere ==
  ASSUME NEW c, NEW F, NEW h, Stack(c, F, h), NEW n \in 1 .. Len(c), NEW i \in 1 .. n - 1,
         First(c[i + 1])
  PROVE  c[i].thread # c[n].thread
<1>1. Len(c) \in Nat /\ Starts(c, F, h) /\ Segments(c, h)
  BY StackShape
<1>2. i + 1 \in 2 .. Len(c) /\ i + 1 - 1 = i /\ i \in 1 .. Len(c) /\ i <= n /\ i + 1 \in i .. n
      /\ i \in 1 .. i
  BY <1>1
<1>3. c[i].thread # c[i + 1].thread
  BY <1>1, <1>2 DEF Starts
<1> QED
  BY <1>1, <1>2, <1>3 DEF Segments

(* The counts after the thread t has called r.                             *)
Recounted(a, b, t, r, a2, b2, e) ==
  /\ a2 \in [Thread -> Nat] /\ b2 \in [Thread -> Nat]
  /\ \A u \in Thread : u # t => a2[u] = a[u] /\ b2[u] = b[u]
  /\ a2[t] = a[t] + CountOf(r)
  /\ b2[t] = b[t] + NonYieldOf(t, r)
  /\ a2[t] < ErrorCCalls \/ e = "err"

(* The C stack has one more activation, of the same thread.                *)
LEMMA CountedPush ==
  ASSUME NEW c, NEW F, NEW h, Stack(c, F, h), NEW a, NEW b, NEW e, Counted(c, a, b, e),
         NEW r \in Acts, r.thread = c[Len(c)].thread, ~First(r),
         NEW a2, NEW b2, NEW e2, Recounted(a, b, r.thread, r, a2, b2, e2),
         r.kind = "try" => r.nC = a[r.thread] /\ r.nny = b[r.thread],
         CCalls(c, Len(c)) < ErrorCCalls
  PROVE  Counted(Append(c, r), a2, b2, e2)
<1> DEFINE n == Len(c)
           d == Append(c, r)
           t == r.thread
<1>0. c \in Seq(Acts)
  BY StackShape
<1>1. n \in Nat /\ n > 0 /\ n \in 1 .. n /\ \A i \in 1 .. n : c[i].thread \in Thread
  <2>1. n \in Nat /\ n > 0 /\ \A i \in 1 .. n : c[i].thread \in Thread
    BY StackShape
  <2> QED
    BY <2>1
<1>2. Len(d) = n + 1 /\ d[n + 1] = r /\ \A i \in 1 .. n : d[i] = c[i]
  BY <1>0
<1>3. t \in Thread
  BY ActFacts
<1>4. /\ a \in [Thread -> Nat] /\ b \in [Thread -> Nat]
      /\ \A u \in Thread : a[u] <= ErrorCCalls /\ b[u] <= ErrorCCalls + 1
      /\ \A i \in 1 .. n : b[c[i].thread] = NonYields(c, c[i].thread, n)
      /\ \A i \in 1 .. n :
           (i = n \/ First(c[i + 1])) => a[c[i].thread] = CCalls(c, i)
      /\ \A i \in 1 .. n : c[i].kind = "try" =>
           /\ c[i].nny = NonYields(c, c[i].thread, i)
           /\ c[i].nC = CCalls(c, i) + ResumeOf(c[i])
      /\ \A i \in 1 .. n : CCalls(c, i) < ErrorCCalls \/ (i = n /\ e = "err")
  BY DEF Counted
<1>5. CCalls(c, n) < ErrorCCalls
  OBVIOUS
<1>a. /\ a2 \in [Thread -> Nat] /\ b2 \in [Thread -> Nat]
      /\ \A u \in Thread : u # t => a2[u] = a[u] /\ b2[u] = b[u]
      /\ a2[t] = a[t] + CountOf(r)
      /\ b2[t] = b[t] + NonYieldOf(t, r)
      /\ a2[t] < ErrorCCalls \/ e2 = "err"
  BY DEF Recounted
<1> HIDE DEF n, t, d
<1>6. a[t] = CCalls(c, n) /\ b[t] = NonYields(c, t, n)
  BY <1>1, <1>4 DEF n, t
<1>7. \A i \in 1 .. n : \A u : CCalls(d, i) = CCalls(c, i) /\ NonYields(d, u, i) = NonYields(c, u, i)
  <2> SUFFICES ASSUME NEW i \in 1 .. n, NEW u
               PROVE  CCalls(d, i) = CCalls(c, i) /\ NonYields(d, u, i) = NonYields(c, u, i)
    OBVIOUS
  <2>1. i \in Nat /\ \A j \in 1 .. i : c[j] = d[j]
    BY <1>1, <1>2
  <2> QED
    BY <2>1, CountSame
<1>8. /\ CCalls(d, n + 1) = CCalls(c, n) + CountOf(r)
      /\ \A u : NonYields(d, u, n + 1) = NonYields(c, u, n) + NonYieldOf(u, r)
  <2>0. n \in Nat
    BY <1>1
  <2>1. CCalls(d, n + 1) = CCalls(d, n) + CountOf(d[n + 1])
    BY ONLY <2>0, CountStep
  <2>2. ASSUME NEW u
        PROVE  NonYields(d, u, n + 1) = NonYields(d, u, n) + NonYieldOf(u, d[n + 1])
    BY ONLY <2>0, CountStep
  <2>3. CCalls(d, n) = CCalls(c, n) /\ \A u : NonYields(d, u, n) = NonYields(c, u, n)
    BY <1>1, <1>7
  <2> QED
    BY <2>1, <2>2, <2>3, <1>2
<1>9. CCalls(d, n + 1) = a2[t]
  BY <1>6, <1>8, <1>a DEF t
<1>10. \A u \in Thread : a2[u] <= ErrorCCalls /\ b2[u] <= ErrorCCalls + 1
  <2>1. CCalls(d, n + 1) <= ErrorCCalls
    <3>1. CCalls(c, n) \in Nat /\ CountOf(r) \in {0, 1}
      BY <1>1, CountsAreNumbers DEF CountOf, NonYieldOf, ResumeOf
    <3> QED
      BY <3>1, <1>5, <1>8, CoroutineConstants
  <2>2. b2[t] = NonYields(d, t, n + 1)
    BY <1>6, <1>8, <1>a DEF t
  <2>0. n + 1 \in Nat
    BY <1>1
  <2>3. NonYields(d, t, n + 1) <= CCalls(d, n + 1) + 1
    BY ONLY <2>0, NonYieldsAreCalls
  <2>4. NonYields(d, t, n + 1) \in Nat /\ CCalls(d, n + 1) \in Nat
    BY ONLY <2>0, CountsAreNumbers
  <2>5. a2[t] <= ErrorCCalls /\ b2[t] <= ErrorCCalls + 1
    BY <2>1, <2>2, <2>3, <2>4, <1>9, CoroutineConstants
  <2> QED
    BY <2>5, <1>4, <1>a DEF t
<1>11. ASSUME NEW i \in 1 .. n + 1 PROVE b2[d[i].thread] = NonYields(d, d[i].thread, n + 1)
  <2>1. d[i].thread \in Thread /\ \E j \in 1 .. n : d[i].thread = c[j].thread
    BY <1>1, <1>2 DEF n
  <2>2. b[d[i].thread] = NonYields(c, d[i].thread, n)
    BY <2>1, <1>4
  <2>3. NonYields(c, d[i].thread, n) \in Nat
    BY <1>1, CountsAreNumbers
  <2> QED
    BY <2>1, <2>2, <2>3, <1>8, <1>a DEF NonYieldOf, t
<1>12. ASSUME NEW i \in 1 .. n + 1, i = n + 1 \/ First(d[i + 1])
       PROVE  a2[d[i].thread] = CCalls(d, i)
  <2>1. CASE i = n + 1
    BY <2>1, <1>2, <1>9 DEF t
  <2>2. CASE i \in 1 .. n
    <3>1. i # n
      BY <2>2, <1>1, <1>2, <1>12
    <3>2. i + 1 \in 1 .. n
      BY <2>2, <3>1, <1>1
    <3>3. First(c[i + 1])
      BY <2>2, <3>2, <1>1, <1>2, <1>12
    <3>4. a[c[i].thread] = CCalls(c, i)
      BY <2>2, <3>3, <1>4
    <3>5. n \in 1 .. Len(c) /\ i \in 1 .. n - 1
      BY <2>2, <3>2, <1>1 DEF n
    <3>6. c[i].thread # t
      BY <3>3, <3>5, StartsElsewhere DEF n, t
    <3>7. a2[c[i].thread] = a[c[i].thread]
      BY <2>2, <3>6, <1>1, <1>a DEF t
    <3>8. d[i] = c[i] /\ CCalls(d, i) = CCalls(c, i)
      BY <2>2, <1>2, <1>7
    <3> QED
      BY <3>4, <3>7, <3>8, <1>12
  <2> QED
    BY <2>1, <2>2, <1>1
<1>13. ASSUME NEW i \in 1 .. n + 1, d[i].kind = "try"
       PROVE  /\ d[i].nny = NonYields(d, d[i].thread, i)
              /\ d[i].nC = CCalls(d, i) + ResumeOf(d[i])
  <2>1. CASE i = n + 1
    <3>1. r.kind = "try" /\ d[i] = r
      BY <2>1, <1>2, <1>13
    <3>2. r.of # "resume" /\ ~IsCounted(r) /\ ~NonYieldable(r)
      BY <3>1 DEF First, IsCounted, Call, NonYieldable
    <3>3. r.nC = CCalls(c, n) /\ r.nny = NonYields(c, t, n)
      BY <3>1, <1>6 DEF t
    <3>4. CCalls(c, n) \in Nat /\ NonYields(c, t, n) \in Nat
      BY <1>1, CountsAreNumbers
    <3>5. CCalls(d, n + 1) = CCalls(c, n) /\ NonYields(d, t, n + 1) = NonYields(c, t, n)
      BY <3>2, <3>4, <1>8 DEF CountOf, NonYieldOf, ResumeOf
    <3> QED
      BY <2>1, <3>1, <3>2, <3>3, <3>4, <3>5 DEF CountOf, NonYieldOf, ResumeOf, t
  <2>2. CASE i \in 1 .. n
    <3>1. d[i] = c[i] /\ CCalls(d, i) = CCalls(c, i)
          /\ NonYields(d, c[i].thread, i) = NonYields(c, c[i].thread, i)
      BY <2>2, <1>2, <1>7
    <3> QED
      BY <2>2, <3>1, <1>4, <1>13
  <2> QED
    BY <2>1, <2>2, <1>1
<1>14. ASSUME NEW i \in 1 .. n + 1
       PROVE  CCalls(d, i) < ErrorCCalls \/ (i = n + 1 /\ e2 = "err")
  <2>1. CASE i = n + 1
    BY <2>1, <1>9, <1>a DEF t
  <2>2. CASE i \in 1 .. n
    <3>1. CCalls(c, i) < ErrorCCalls
      BY <2>2, <1>4, <1>5
    <3> QED
      BY <2>2, <3>1, <1>7
  <2> QED
    BY <2>1, <2>2, <1>1
<1> QED
  BY <1>2, <1>10, <1>11, <1>12, <1>13, <1>14, <1>a DEF Counted, d
(* The counts of the thread t become x and y.                              *)
Restored(a, b, t, x, y, a2, b2) ==
  /\ a2 \in [Thread -> Nat] /\ b2 \in [Thread -> Nat]
  /\ \A u \in Thread : u # t => a2[u] = a[u] /\ b2[u] = b[u]
  /\ a2[t] = x /\ b2[t] = y

(* The C stack has the first activation of another thread.                 *)
LEMMA CountedStart ==
  ASSUME NEW c, NEW F, NEW h, Stack(c, F, h), NEW a, NEW b, NEW e, Counted(c, a, b, e),
         NEW r \in Acts, First(r), r.thread # MainThread,
         \A i \in 1 .. Len(c) : c[i].thread # r.thread,
         NEW a2, NEW b2, NEW e2, Restored(a, b, r.thread, a[c[Len(c)].thread], 0, a2, b2),
         r.kind = "try" => r.nC = a[c[Len(c)].thread] + 1 /\ r.nny = 0,
         CCalls(c, Len(c)) < ErrorCCalls
  PROVE  Counted(Append(c, r), a2, b2, e2)
<1> DEFINE n == Len(c)
           t == r.thread
           d == Append(c, r)
<1>c. /\ a2 \in [Thread -> Nat] /\ b2 \in [Thread -> Nat]
      /\ \A u \in Thread : u # t => a2[u] = a[u] /\ b2[u] = b[u]
      /\ a2[t] = a[c[n].thread] /\ b2[t] = 0
  BY DEF Restored
<1>d. r.kind = "try" => r.nC = a[c[n].thread] + 1 /\ r.nny = 0
  OBVIOUS
<1>0. c \in Seq(Acts)
  BY StackShape
<1>1. n \in Nat /\ n > 0 /\ n \in 1 .. n /\ \A i \in 1 .. n : c[i].thread \in Thread
  <2>1. n \in Nat /\ n > 0 /\ \A i \in 1 .. n : c[i].thread \in Thread
    BY StackShape
  <2> QED
    BY <2>1
<1>2. Len(d) = n + 1 /\ d[n + 1] = r /\ \A i \in 1 .. n : d[i] = c[i]
  BY <1>0
<1>3. t \in Thread
  BY ActFacts
<1>4. /\ a \in [Thread -> Nat] /\ b \in [Thread -> Nat]
      /\ \A u \in Thread : a[u] <= ErrorCCalls /\ b[u] <= ErrorCCalls + 1
      /\ \A i \in 1 .. n : b[c[i].thread] = NonYields(c, c[i].thread, n)
      /\ \A i \in 1 .. n :
           (i = n \/ First(c[i + 1])) => a[c[i].thread] = CCalls(c, i)
      /\ \A i \in 1 .. n : c[i].kind = "try" =>
           /\ c[i].nny = NonYields(c, c[i].thread, i)
           /\ c[i].nC = CCalls(c, i) + ResumeOf(c[i])
      /\ \A i \in 1 .. n : CCalls(c, i) < ErrorCCalls \/ (i = n /\ e = "err")
  BY DEF Counted
<1>5. CCalls(c, n) < ErrorCCalls
  OBVIOUS
<1>r. ~IsCounted(r) /\ ~NonYieldable(r) /\ (r.kind = "try" => r.of = "resume")
  BY DEF First, IsCounted, NonYieldable, Call
<1>o. \A i \in 1 .. n : c[i].thread # t
  OBVIOUS
<1> HIDE DEF n, t, d
<1>6. a2[t] = CCalls(c, n)
  BY <1>1, <1>4, <1>c
<1>7. \A i \in 1 .. n : \A u : CCalls(d, i) = CCalls(c, i) /\ NonYields(d, u, i) = NonYields(c, u, i)
  <2> SUFFICES ASSUME NEW i \in 1 .. n, NEW u
               PROVE  CCalls(d, i) = CCalls(c, i) /\ NonYields(d, u, i) = NonYields(c, u, i)
    OBVIOUS
  <2>1. i \in Nat /\ \A j \in 1 .. i : c[j] = d[j]
    BY <1>1, <1>2
  <2> QED
    BY <2>1, CountSame
<1>8. /\ CCalls(d, n + 1) = CCalls(c, n)
      /\ \A u : NonYields(d, u, n + 1) = NonYields(c, u, n)
  <2>0. n \in Nat
    BY <1>1
  <2>1. CCalls(d, n + 1) = CCalls(d, n) + CountOf(d[n + 1])
    BY ONLY <2>0, CountStep
  <2>2. ASSUME NEW u
        PROVE  NonYields(d, u, n + 1) = NonYields(d, u, n) + NonYieldOf(u, d[n + 1])
    BY ONLY <2>0, CountStep
  <2>3. CCalls(d, n) = CCalls(c, n) /\ \A u : NonYields(d, u, n) = NonYields(c, u, n)
    BY <1>1, <1>7
  <2>4. CountOf(r) = 0 /\ \A u : NonYieldOf(u, r) = 0
    BY <1>r DEF CountOf, NonYieldOf
  <2>5. CCalls(d, n) \in Nat /\ \A u : NonYields(d, u, n) \in Nat
    BY ONLY <2>0, CountsAreNumbers
  <2> QED
    BY <2>1, <2>2, <2>3, <2>4, <2>5, <1>2
<1>9. NonYields(c, t, n) = 0 /\ NonYields(d, t, n + 1) = 0
  <2>1. NonYields(c, t, 0) = NonYields(c, t, n)
    <3>1. \A i \in 0 + 1 .. n : ~(c[i].thread = t /\ NonYieldable(c[i]))
      BY <1>o
    <3>2. 0 \in 0 .. n
      BY <1>1
    <3> QED
      BY <1>1, <3>1, <3>2, NoNewNonYields
  <2>2. {i \in 1 .. 0 : c[i].thread = t /\ NonYieldable(c[i])} = {}
    OBVIOUS
  <2>3. NonYields(c, t, 0) = 0
    BY <2>2, FS_EmptySet DEF NonYields, MainsOwn, t
  <2> QED
    BY <2>1, <2>3, <1>8
<1>10. \A u \in Thread : a2[u] <= ErrorCCalls /\ b2[u] <= ErrorCCalls + 1
  <2>1. a2[t] <= ErrorCCalls
    <3>1. CCalls(c, n) \in Nat
      BY <1>1, CountsAreNumbers
    <3> QED
      BY <3>1, <1>5, <1>6, CoroutineConstants
  <2>2. b2[t] <= ErrorCCalls + 1
    BY <1>c, CoroutineConstants
  <2> QED
    BY <2>1, <2>2, <1>4, <1>c
<1>11. ASSUME NEW i \in 1 .. n + 1 PROVE b2[d[i].thread] = NonYields(d, d[i].thread, n + 1)
  <2>1. CASE i = n + 1
    BY <2>1, <1>2, <1>9, <1>c DEF t
  <2>2. CASE i \in 1 .. n
    <3>1. d[i] = c[i] /\ c[i].thread \in Thread /\ c[i].thread # t
      BY <2>2, <1>1, <1>2, <1>o
    <3>2. b2[c[i].thread] = b[c[i].thread]
      BY <3>1, <1>c
    <3>3. b[c[i].thread] = NonYields(c, c[i].thread, n)
      BY <2>2, <1>4
    <3> QED
      BY <3>1, <3>2, <3>3, <1>8
  <2> QED
    BY <2>1, <2>2, <1>1
<1>12. ASSUME NEW i \in 1 .. n + 1, i = n + 1 \/ First(d[i + 1])
       PROVE  a2[d[i].thread] = CCalls(d, i)
  <2>1. CASE i = n + 1
    BY <2>1, <1>2, <1>6, <1>8, <1>c DEF t
  <2>2. CASE i \in 1 .. n
    <3>1. i = n \/ First(c[i + 1])
      <4>1. i # n => i + 1 \in 1 .. n /\ i # n + 1
        BY <2>2, <1>1
      <4> QED
        BY <2>2, <4>1, <1>1, <1>2, <1>12
    <3>2. a[c[i].thread] = CCalls(c, i)
      BY <2>2, <3>1, <1>4
    <3> QED
      BY <2>2, <3>2, <1>1, <1>2, <1>7, <1>o, <1>c
  <2> QED
    BY <2>1, <2>2, <1>1
<1>13. ASSUME NEW i \in 1 .. n + 1, d[i].kind = "try"
       PROVE  /\ d[i].nny = NonYields(d, d[i].thread, i)
              /\ d[i].nC = CCalls(d, i) + ResumeOf(d[i])
  <2>1. CASE i = n + 1
    <3>1. r.kind = "try" /\ d[i] = r
      BY <2>1, <1>2, <1>13
    <3>2. ResumeOf(r) = 1
      BY <3>1, <1>r DEF ResumeOf
    <3>3. r.nC = CCalls(c, n) + 1 /\ r.nny = 0
      BY <3>1, <1>6, <1>c, <1>d
    <3> QED
      BY <2>1, <3>1, <3>2, <3>3, <1>8, <1>9 DEF t
  <2>2. CASE i \in 1 .. n
    <3>1. d[i] = c[i] /\ CCalls(d, i) = CCalls(c, i)
          /\ NonYields(d, c[i].thread, i) = NonYields(c, c[i].thread, i)
      BY <2>2, <1>2, <1>7
    <3> QED
      BY <2>2, <3>1, <1>4, <1>13
  <2> QED
    BY <2>1, <2>2, <1>1
<1>14. ASSUME NEW i \in 1 .. n + 1
       PROVE  CCalls(d, i) < ErrorCCalls \/ (i = n + 1 /\ e2 = "err")
  <2>1. CASE i = n + 1
    BY <2>1, <1>5, <1>8
  <2>2. CASE i \in 1 .. n
    <3>1. CCalls(c, i) < ErrorCCalls
      BY <2>2, <1>4, <1>5
    <3> QED
      BY <2>2, <3>1, <1>7
  <2> QED
    BY <2>1, <2>2, <1>1
<1> QED
  BY <1>2, <1>10, <1>11, <1>12, <1>13, <1>14, <1>c DEF Counted, d

(* The C stack is cut above n, where the counts are restored.              *)
LEMMA CountedCut ==
  ASSUME NEW c, NEW F, NEW h, Stack(c, F, h), NEW a, NEW b, NEW e, Counted(c, a, b, e),
         NEW n \in 1 .. Len(c), NEW d, Lowest(n, c, d), NEW t, t = c[Len(c)].thread,
         \A i \in n + 1 .. Len(c) : c[i].thread = t,
         NEW a2, NEW b2, NEW e2, a2 \in [Thread -> Nat], b2 \in [Thread -> Nat],
         \A u \in Thread : u # t => a2[u] = a[u] /\ b2[u] = b[u],
         CCalls(c, n) < ErrorCCalls,
         IF c[n].thread = t THEN a2[t] = CCalls(c, n) /\ b2[t] = NonYields(c, t, n)
         ELSE First(c[n + 1]) /\ a2[t] <= ErrorCCalls /\ b2[t] <= ErrorCCalls + 1
  PROVE  Counted(d, a2, b2, e2)
<1>1. /\ Len(c) \in Nat /\ n \in Nat /\ n \in 1 .. n /\ Len(c) \in 1 .. Len(c)
      /\ \A i \in 1 .. n : i \in 1 .. Len(c) /\ c[i].thread \in Thread
  <2>1. Len(c) \in Nat /\ Len(c) > 0 /\ \A i \in 1 .. Len(c) : c[i].thread \in Thread
    BY StackShape
  <2> QED
    BY <2>1
<1>2. Len(d) = n /\ \A i \in 1 .. n : d[i] = c[i]
  BY DEF Lowest
<1>3. Segments(c, h) /\ t \in Thread
  BY <1>1, StackShape
<1>4. /\ a \in [Thread -> Nat] /\ b \in [Thread -> Nat]
      /\ \A u \in Thread : a[u] <= ErrorCCalls /\ b[u] <= ErrorCCalls + 1
      /\ \A i \in 1 .. Len(c) : b[c[i].thread] = NonYields(c, c[i].thread, Len(c))
      /\ \A i \in 1 .. Len(c) :
           (i = Len(c) \/ First(c[i + 1])) => a[c[i].thread] = CCalls(c, i)
      /\ \A i \in 1 .. Len(c) : c[i].kind = "try" =>
           /\ c[i].nny = NonYields(c, c[i].thread, i)
           /\ c[i].nC = CCalls(c, i) + ResumeOf(c[i])
      /\ \A i \in 1 .. Len(c) : CCalls(c, i) < ErrorCCalls \/ (i = Len(c) /\ e = "err")
  BY DEF Counted
<1>5. \A i \in 1 .. n : \A u : CCalls(d, i) = CCalls(c, i) /\ NonYields(d, u, i) = NonYields(c, u, i)
  <2> SUFFICES ASSUME NEW i \in 1 .. n, NEW u
               PROVE  CCalls(d, i) = CCalls(c, i) /\ NonYields(d, u, i) = NonYields(c, u, i)
    OBVIOUS
  <2>1. i \in Nat /\ \A j \in 1 .. i : c[j] = d[j]
    BY <1>1, <1>2
  <2> QED
    BY <2>1, CountSame
(* No activation left is of the thread t, unless the last one is.          *)
<1>6. ASSUME NEW i \in 1 .. n, c[i].thread = t PROVE c[n].thread = t
  <2>1. n \in i .. Len(c) /\ i <= Len(c)
    BY <1>1
  <2> QED
    BY <2>1, <1>1, <1>3, <1>6 DEF Segments
<1>7. \A u \in Thread : a2[u] <= ErrorCCalls /\ b2[u] <= ErrorCCalls + 1
  <2>1. CCalls(c, n) \in Nat /\ NonYields(c, t, n) \in Nat /\ NonYields(c, t, n) <= CCalls(c, n) + 1
    BY <1>1, CountsAreNumbers, NonYieldsAreCalls
  <2>2. a2[t] <= ErrorCCalls /\ b2[t] <= ErrorCCalls + 1
    BY <2>1, CoroutineConstants
  <2> QED
    BY <2>2, <1>4
<1>8. ASSUME NEW i \in 1 .. n PROVE b2[d[i].thread] = NonYields(d, d[i].thread, n)
  <2>1. CASE c[i].thread = t
    BY <2>1, <1>1, <1>2, <1>5, <1>6
  <2>2. CASE c[i].thread # t
    <3>1. NonYields(c, c[i].thread, n) = NonYields(c, c[i].thread, Len(c))
      <4>1. \A j \in n + 1 .. Len(c) : ~(c[j].thread = c[i].thread /\ NonYieldable(c[j]))
        BY <2>2
      <4>2. n \in 0 .. Len(c)
        BY <1>1
      <4> QED
        BY <1>1, <4>1, <4>2, NoNewNonYields
    <3>2. b2[c[i].thread] = b[c[i].thread] /\ b[c[i].thread] = NonYields(c, c[i].thread, Len(c))
      BY <2>2, <1>1, <1>4
    <3> QED
      BY <3>1, <3>2, <1>1, <1>2, <1>5
  <2> QED
    BY <2>1, <2>2
<1>9. ASSUME NEW i \in 1 .. n, i = n \/ First(d[i + 1])
      PROVE  a2[d[i].thread] = CCalls(d, i)
  <2>1. CASE i = n
    <3>1. CASE c[n].thread = t
      BY <2>1, <3>1, <1>1, <1>2, <1>5
    <3>2. CASE c[n].thread # t
      <4>1. First(c[n + 1]) /\ a2[c[n].thread] = a[c[n].thread]
        BY <3>2, <1>1
      <4>2. a[c[n].thread] = CCalls(c, n)
        BY <4>1, <1>1, <1>4
      <4> QED
        BY <2>1, <4>1, <4>2, <1>1, <1>2, <1>5
    <3> QED
      BY <3>1, <3>2
  <2>2. CASE i # n
    <3>1. i + 1 \in 1 .. n /\ i \in 1 .. n - 1
      BY <2>2, <1>1
    <3>2. First(c[i + 1])
      BY <2>2, <3>1, <1>2, <1>9
    <3>3. i \in 1 .. Len(c) - 1
      BY <3>1, <1>1
    <3>4. c[i].thread # t
      BY <3>2, <3>3, <1>1, StartsElsewhere
    <3>5. a2[c[i].thread] = a[c[i].thread] /\ a[c[i].thread] = CCalls(c, i)
      BY <3>2, <3>4, <1>1, <1>4
    <3> QED
      BY <3>5, <1>2, <1>5
  <2> QED
    BY <2>1, <2>2
<1>10. ASSUME NEW i \in 1 .. n, d[i].kind = "try"
       PROVE  /\ d[i].nny = NonYields(d, d[i].thread, i)
              /\ d[i].nC = CCalls(d, i) + ResumeOf(d[i])
  <2>1. d[i] = c[i] /\ CCalls(d, i) = CCalls(c, i) /\ i \in 1 .. Len(c)
        /\ NonYields(d, c[i].thread, i) = NonYields(c, c[i].thread, i)
    BY <1>1, <1>2, <1>5
  <2> QED
    BY <2>1, <1>4, <1>10
<1>11. ASSUME NEW i \in 1 .. n PROVE CCalls(d, i) < ErrorCCalls
  <2>1. i \in 0 .. n
    BY <1>1
  <2>2. CCalls(c, i) <= CCalls(c, n) /\ CCalls(c, i) \in Nat /\ CCalls(c, n) \in Nat
    <3>1. n \in Nat /\ i \in Nat
      BY <1>1
    <3> QED
      BY ONLY <2>1, <3>1, CountsGrow, CountsAreNumbers
  <2>3. CCalls(d, i) = CCalls(c, i) /\ CCalls(c, n) < ErrorCCalls
    BY <1>5
  <2>4. ErrorCCalls \in Nat
    BY CoroutineConstants
  <2> QED
    BY ONLY <2>2, <2>3, <2>4
<1> QED
  BY <1>2, <1>7, <1>8, <1>9, <1>10, <1>11 DEF Counted
-----------------------------------------------------------------------------
(* Calls, and changes of the frames of the running function *)

(* The part of the C stack up to n has its n lowest activations.           *)
LEMMA SameStack ==
  ASSUME NEW c, NEW F, NEW h, Stack(c, F, h), NEW n \in 1 .. Len(c)
  PROVE  Lowest(n, c, SubSeq(c, 1, n))
BY StackShape DEF Lowest

(* The C stack has all of its activations.                                 *)
LEMMA WholeIsLowest ==
  ASSUME NEW c, NEW F, NEW h, Stack(c, F, h)
  PROVE  Lowest(Len(c), c, c)
BY StackShape DEF Lowest

(* A call that overflowed has no frame.                                    *)
LEMMA CallStack ==
  ASSUME NEW c, NEW F, NEW h, Stack(c, F, h), NEW r \in Acts, Call(r), Kinds(c[Len(c)], r),
         h[Len(c)] = Len(F[r.thread]),
         Call(c[Len(c)]) => h[Len(c) - 1] < h[Len(c)]
  PROVE  Stack(Append(c, r), F, [h EXCEPT ![Len(c) + 1] = Len(F[r.thread])])
<1> DEFINE m == Len(F[r.thread])
<1>1. m \in Nat /\ h[Len(c)] = m
  BY StackShape, ActFacts
<1>2. ~First(r) /\ ~Guard(r) /\ r.kind \in {"exec", "cfun"}
  BY DEF First, Guard, Call
<1>3. Fit(F[r.thread], c[Len(c)], r, h[Len(c)], m)
  BY <1>1, <1>2 DEF Fit
<1>4. MayPush(c, F, h, r, m)
  BY <1>1, <1>2, <1>3 DEF MayPush
<1> QED
  BY <1>1, <1>4, PushStack

(* The frames of the running thread may grow above those of the stack.     *)
LEMMA GrowFrames ==
  ASSUME NEW c, NEW F, NEW h, Stack(c, F, h), NEW n \in 1 .. Len(c), NEW t, t = c[n].thread,
         NEW G \in [Thread -> Seq(FrameSet)], \A u \in Thread : u # t => G[u] = F[u],
         NEW f \in FrameSet, h[n] = Len(F[t]), G[t] = Append(F[t], f), Above(c, n, t, f)
  PROVE  Regrown(c, F, h, n, t, G)
<1>1. F[t] \in Seq(FrameSet) /\ Len(F[t]) \in Nat
  BY StackShape
<1>2. /\ Len(G[t]) = Len(F[t]) + 1
      /\ \A q \in 1 .. Len(F[t]) : G[t][q] = F[t][q]
      /\ G[t][Len(F[t]) + 1] = f
  BY <1>1
<1>3. \A q \in h[n] + 1 .. Len(G[t]) : G[t][q] = f
  BY <1>1, <1>2
<1> QED
  BY <1>1, <1>2, <1>3 DEF Regrown

(* A call that does not overflow puts a frame on those of its thread.      *)
LEMMA CallFrame ==
  ASSUME NEW c, NEW F, NEW h, Stack(c, F, h), NEW r \in Acts, Call(r), Kinds(c[Len(c)], r),
         h[Len(c)] = Len(F[r.thread]),
         Call(c[Len(c)]) => h[Len(c) - 1] < h[Len(c)],
         NEW G \in [Thread -> Seq(FrameSet)], \A u \in Thread : u # r.thread => G[u] = F[u],
         NEW f \in FrameSet, G[r.thread] = Append(F[r.thread], f),
         f.lua <=> r.kind = "exec", f.lua => f.fresh, ~f.ypcall, f.recst = "ok",
         Above(c, Len(c), r.thread, f)
  PROVE  Stack(Append(c, r), G, [h EXCEPT ![Len(c) + 1] = Len(F[r.thread]) + 1])
<1> DEFINE m == Len(F[r.thread])
           t == r.thread
           n == Len(c)
<1>0. n \in Nat /\ n > 0 /\ n \in 1 .. n /\ F[t] \in Seq(FrameSet) /\ m \in Nat /\ h[n] = m
  <2>1. n \in Nat /\ n > 0 /\ F[t] \in Seq(FrameSet) /\ m \in Nat
    BY StackShape, ActFacts
  <2> QED
    BY <2>1
<1>1. ~First(r) /\ ~Guard(r) /\ r.kind \in {"exec", "cfun"} /\ t = c[n].thread
  BY DEF First, Guard, Call, Kinds
<1>2. Regrown(c, F, h, n, t, G)
  BY <1>0, <1>1, GrowFrames
<1>3. Stack(c, G, h)
  BY <1>0, <1>1, <1>2, WholeIsLowest, CutStack
<1>4. Len(G[t]) = m + 1 /\ G[t][m + 1] = f /\ \A q \in m + 1 .. Len(G[t]) : G[t][q] = f
  BY <1>0
<1>5. Fit(G[t], c[n], r, m, m + 1)
  <2>1. \A q \in m + 1 .. m + 1 : G[t][q] = f /\ q = m + 1
    BY <1>0, <1>4
  <2> QED
    BY <1>0, <1>1, <1>4, <2>1 DEF Fit
<1>6. MayPush(c, G, h, r, m + 1)
  BY <1>0, <1>1, <1>4, <1>5 DEF MayPush
<1>7. m + 1 \in Nat
  BY <1>0
<1> QED
  BY <1>3, <1>6, <1>7, PushStack

(* The frames that belong to the last activation change.                   *)
LEMMA ChangeTop ==
  ASSUME NEW c, NEW F, NEW h, Stack(c, F, h), NEW n, n = Len(c) - 1, n > 0,
         NEW r, r = c[n + 1], ~First(r), ~Guard(r),
         NEW G, Regrown(c, F, h, n, r.thread, G), NEW m \in Nat,
         Fit(G[r.thread], c[n], r, h[n], m),
         NonYieldable(r) => \A q \in h[n] + 1 .. Len(G[r.thread]) : ~G[r.thread][q].ypcall
  PROVE  Stack(c, G, [h EXCEPT ![n + 1] = m])
<1> DEFINE t == r.thread
           d == SubSeq(c, 1, n)
<1>0. c \in Seq(Acts) /\ n \in Nat /\ n > 0 /\ n \in 1 .. Len(c) /\ Len(c) = n + 1
      /\ Piled(c) /\ Framed(c, h) /\ c[n + 1] \in Acts
  <2>1. c \in Seq(Acts) /\ Len(c) \in Nat /\ Piled(c) /\ Framed(c, h)
    BY StackShape
  <2> QED
    BY <2>1
<1>1. r \in Acts /\ n + 1 \in 2 .. Len(c) /\ n + 1 - 1 = n /\ n + 1 - 2 = n - 1
  BY <1>0
<1>2. Kinds(c[n], r)
  BY <1>0, <1>1 DEF Piled
<1>3. t = c[n].thread
  BY <1>2 DEF Kinds
<1>4. Lowest(n, c, d) /\ Len(d) = n /\ d[n] = c[n] /\ d \in Seq(Acts)
  <2>1. Lowest(n, c, d)
    BY <1>0, SameStack
  <2> QED
    BY <2>1, <1>0 DEF Lowest
<1>5. Stack(d, G, h)
  BY <1>0, <1>3, <1>4, CutStack
<1>6. Call(c[n]) /\ r.kind # "handler" => h[n - 1] < h[n]
  BY <1>0, <1>1 DEF Framed
<1>7. Append(d, r) = c
  BY <1>0
<1> HIDE DEF d, t
<1>8. MayPush(d, G, h, r, m)
  BY <1>0, <1>2, <1>4, <1>6 DEF MayPush, t
<1>9. Stack(Append(d, r), G, [h EXCEPT ![Len(d) + 1] = m])
  BY <1>1, <1>5, <1>8, PushStack
<1> QED
  BY <1>4, <1>7, <1>9

-----------------------------------------------------------------------------
(* A function that is interrupted can be finished later, or its call was   *)
(* not yieldable.                                                          *)
Finishable(c, F, h, st) ==
  \A t \in Thread : st[t] # "err" => \A p \in 1 .. Len(F[t]) - 1 :
    \/ Held(F[t][p])
    \/ \E i \in 2 .. Len(c) : c[i].thread = t /\ NonYieldable(c[i]) /\ h[i - 1] = p

(* A new activation changes nothing.                                       *)
LEMMA FinishablePush ==
  ASSUME NEW c, NEW F, NEW h, NEW st, Stack(c, F, h), Finishable(c, F, h, st), NEW r, NEW m
  PROVE  Finishable(Append(c, r), F, [h EXCEPT ![Len(c) + 1] = m], st)
<1> DEFINE d == Append(c, r)
           g == [h EXCEPT ![Len(c) + 1] = m]
<1>0. c \in Seq(Acts) /\ Len(c) \in Nat /\ h \in [Nat -> Nat]
  BY StackShape
<1>1. Len(d) = Len(c) + 1 /\ \A i \in 2 .. Len(c) : d[i] = c[i]
  BY <1>0
<1>2. \A i \in 2 .. Len(c) : g[i - 1] = h[i - 1]
  BY <1>0
<1> HIDE DEF d, g
<1>3. \A i \in 2 .. Len(c) : i \in 2 .. Len(d)
  BY <1>0, <1>1
<1>4. Finishable(d, F, g, st)
  <2> SUFFICES ASSUME NEW t \in Thread, st[t] # "err", NEW p \in 1 .. Len(F[t]) - 1, ~Held(F[t][p])
               PROVE  \E i \in 2 .. Len(d) :
                        d[i].thread = t /\ NonYieldable(d[i]) /\ g[i - 1] = p
    BY DEF Finishable
  <2>1. PICK i \in 2 .. Len(c) : c[i].thread = t /\ NonYieldable(c[i]) /\ h[i - 1] = p
    BY DEF Finishable
  <2> QED
    BY <2>1, <1>1, <1>2, <1>3
<1> QED
  BY <1>4 DEF d, g

(* In G the thread t has one more frame, f.                                *)
Extended(F, t, f, G) ==
  /\ G \in [Thread -> Seq(FrameSet)]
  /\ \A u \in Thread : u # t => G[u] = F[u]
  /\ G[t] = Append(F[t], f)

(* A call interrupts the calling function.                                 *)
LEMMA FinishableCall ==
  ASSUME NEW c, NEW F, NEW h, NEW st, Stack(c, F, h), Finishable(c, F, h, st),
         NEW r, NEW t \in Thread, r.thread = t, h[Len(c)] = Len(F[t]), NEW m,
         NEW G, NEW f, Extended(F, t, f, G),
         F[t] # <<>> => Held(F[t][Len(F[t])]) \/ NonYieldable(r)
  PROVE  Finishable(Append(c, r), G, [h EXCEPT ![Len(c) + 1] = m], st)
<1> DEFINE d == Append(c, r)
           g == [h EXCEPT ![Len(c) + 1] = m]
<1>1. c \in Seq(Acts) /\ Len(c) \in Nat /\ h \in [Nat -> Nat] /\ Len(c) > 0
      /\ F[t] \in Seq(FrameSet) /\ Len(F[t]) \in Nat
  BY StackShape
<1>2. /\ Len(G[t]) = Len(F[t]) + 1 /\ \A p \in 1 .. Len(F[t]) : G[t][p] = F[t][p]
      /\ \A u \in Thread : u # t => G[u] = F[u]
  BY <1>1, SMTT(30) DEF Extended
<1>3. Len(d) = Len(c) + 1 /\ d[Len(c) + 1] = r /\ \A i \in 2 .. Len(c) : d[i] = c[i]
  BY <1>1, SMTT(30)
<1>4. (\A i \in 2 .. Len(c) : g[i - 1] = h[i - 1]) /\ g[Len(c)] = h[Len(c)]
  BY <1>1, SMTT(30)
<1> HIDE DEF d, g
<1>5. \A i \in 2 .. Len(c) : i \in 2 .. Len(d)
  BY <1>1, <1>3
<1>6. Len(c) + 1 \in 2 .. Len(d) /\ Len(c) + 1 - 1 = Len(c)
  BY <1>1, <1>3
<1>7. ASSUME NEW u \in Thread, st[u] # "err", NEW p \in 1 .. Len(F[u]) - 1, ~Held(F[u][p])
      PROVE  \E i \in 2 .. Len(d) : d[i].thread = u /\ NonYieldable(d[i]) /\ g[i - 1] = p
  <2>1. PICK i \in 2 .. Len(c) : c[i].thread = u /\ NonYieldable(c[i]) /\ h[i - 1] = p
    BY <1>7 DEF Finishable
  <2> QED
    BY <2>1, <1>3, <1>4, <1>5
<1>8. ASSUME F[t] # <<>>, ~Held(F[t][Len(F[t])])
      PROVE  \E i \in 2 .. Len(d) : d[i].thread = t /\ NonYieldable(d[i]) /\ g[i - 1] = Len(F[t])
  BY <1>3, <1>4, <1>6, <1>8
<1>9. ASSUME NEW u \in Thread, st[u] # "err", NEW p \in 1 .. Len(G[u]) - 1, ~Held(G[u][p])
      PROVE  \E i \in 2 .. Len(d) : d[i].thread = u /\ NonYieldable(d[i]) /\ g[i - 1] = p
  <2>1. CASE u # t
    <3>1. G[u] = F[u]
      BY <2>1, <1>2
    <3>2. p \in 1 .. Len(F[u]) - 1 /\ ~Held(F[u][p])
      BY <3>1, <1>9
    <3> QED
      BY <3>2, <1>7, <1>9
  <2>2. CASE u = t /\ p = Len(F[t])
    <3>0. p > 0 /\ Len(F[t]) \in Nat /\ p = Len(F[t])
      BY <2>2, <1>1, <1>9
    <3>1. F[t] # <<>> /\ G[t][p] = F[t][p]
      BY <3>0, <1>2
    <3>2. ~Held(F[t][Len(F[t])])
      BY <2>2, <3>1, <1>9
    <3>3. \E i \in 2 .. Len(d) : d[i].thread = t /\ NonYieldable(d[i]) /\ g[i - 1] = Len(F[t])
      BY ONLY <3>1, <3>2, <1>8
    <3> QED
      BY ONLY <2>2, <3>3
  <2>3. CASE u = t /\ p # Len(F[t])
    <3>1. p \in 1 .. Len(G[t]) - 1 /\ p # Len(F[t]) /\ ~Held(G[t][p])
      BY <2>3, <1>9
    <3>2. p \in 1 .. Len(F[t]) - 1 /\ p \in 1 .. Len(F[t])
      <4>1. Len(G[t]) = Len(F[t]) + 1 /\ Len(F[t]) \in Nat
        BY <1>1, <1>2
      <4> QED
        BY ONLY <3>1, <4>1
    <3>3. ~Held(F[t][p])
      BY <3>1, <3>2, <1>2
    <3>4. st[t] # "err" /\ t \in Thread
      BY <2>3, <1>9
    <3> QED
      BY ONLY <2>3, <3>2, <3>3, <3>4, <1>7
  <2> QED
    BY <2>1, <2>2, <2>3
<1>10. Finishable(d, G, g, st)
  BY ONLY <1>9 DEF Finishable
<1> QED
  BY <1>10 DEF d, g
-----------------------------------------------------------------------------
(* The whole of a state *)

(* The last activation has all the frames of its thread, and one of its    *)
(* own when it is a call that goes on.                                     *)
Tip(c, F, h, e) ==
  /\ h[Len(c)] = Len(F[c[Len(c)].thread])
  /\ e = "none" /\ Call(c[Len(c)]) => h[Len(c) - 1] < h[Len(c)]

Ready(c, F, s, a, b, e) ==
  /\ Counted(c, a, b, e)
  /\ \A t \in Thread : Chain(F[t])
  /\ \E h \in [Nat -> Nat] : Stack(c, F, h) /\ Tip(c, F, h, e) /\ Finishable(c, F, h, s)

(* The types of what is in such a state, and the counts of the running     *)
(* thread.                                                                 *)
LEMMA ReadyTypes ==
  ASSUME NEW c, NEW F, NEW s, NEW a, NEW b, NEW e, Ready(c, F, s, a, b, e)
  PROVE  /\ c \in Seq(Acts) /\ Len(c) \in Nat /\ Len(c) > 0
         /\ \A i \in 1 .. Len(c) : c[i] \in Acts /\ c[i].thread \in Thread
         /\ c[Len(c)] \in Acts /\ c[Len(c)].thread \in Thread
         /\ F \in [Thread -> Seq(FrameSet)]
         /\ \A t \in Thread : F[t] \in Seq(FrameSet) /\ Len(F[t]) \in Nat /\ Chain(F[t])
         /\ c[1].kind = "main" /\ c[1].thread = MainThread
         /\ Piled(c) /\ Caught(c)
         /\ a \in [Thread -> Nat] /\ b \in [Thread -> Nat]
         /\ a[c[Len(c)].thread] = CCalls(c, Len(c))
         /\ b[c[Len(c)].thread] = NonYields(c, c[Len(c)].thread, Len(c))
         /\ e # "err" => CCalls(c, Len(c)) < ErrorCCalls
<1>1. PICK h \in [Nat -> Nat] : Stack(c, F, h)
  BY DEF Ready
<1>2. /\ c \in Seq(Acts) /\ Len(c) \in Nat /\ Len(c) > 0
      /\ \A i \in 1 .. Len(c) : c[i] \in Acts /\ c[i].thread \in Thread
      /\ F \in [Thread -> Seq(FrameSet)]
      /\ \A t \in Thread : F[t] \in Seq(FrameSet) /\ Len(F[t]) \in Nat
      /\ c[1].kind = "main" /\ c[1].thread = MainThread
      /\ Piled(c) /\ Caught(c)
  BY <1>1, StackShape
<1>3. Len(c) \in 1 .. Len(c)
  BY <1>2
<1>4. c[Len(c)] \in Acts /\ c[Len(c)].thread \in Thread
  BY <1>2, <1>3
<1>5. Counted(c, a, b, e) /\ \A t \in Thread : Chain(F[t])
  BY DEF Ready
<1>6. /\ a \in [Thread -> Nat] /\ b \in [Thread -> Nat]
      /\ a[c[Len(c)].thread] = CCalls(c, Len(c))
      /\ b[c[Len(c)].thread] = NonYields(c, c[Len(c)].thread, Len(c))
      /\ e # "err" => CCalls(c, Len(c)) < ErrorCCalls
  BY <1>3, <1>5 DEF Counted
<1> QED
  BY <1>2, <1>4, <1>5, <1>6

(* A running Lua or C function has a frame of its kind.                    *)
LEMMA RunningCall ==
  ASSUME NEW c, NEW F, NEW s, NEW a, NEW b, Ready(c, F, s, a, b, "none"), Call(c[Len(c)]),
         NEW t, t = c[Len(c)].thread
  PROVE  /\ Len(c) > 1 /\ F[t] # <<>> /\ Len(F[t]) \in 1 .. Len(F[t])
         /\ F[t][Len(F[t])] \in FrameSet /\ FrameOK(F[t][Len(F[t])])
         /\ c[Len(c)].kind = "exec" => F[t][Len(F[t])].lua
         /\ c[Len(c)].kind = "cfun" => ~F[t][Len(F[t])].lua /\ F[t][Len(F[t])].recst = "ok"
         /\ \A f \in FrameSet :
              F[t][Len(F[t])].func <= f.func /\ ~f.ypcall => Above(c, Len(c), t, f)
<1> DEFINE n == Len(c)
           l == Len(F[t])
<1>1. PICK h \in [Nat -> Nat] : Stack(c, F, h) /\ Tip(c, F, h, "none")
  BY DEF Ready
<1>2. /\ c \in Seq(Acts) /\ n \in Nat /\ n > 0 /\ t \in Thread /\ F[t] \in Seq(FrameSet)
      /\ l \in Nat /\ Chain(F[t]) /\ c[1].kind = "main" /\ c[n] \in Acts
  BY ReadyTypes
<1>c. Call(c[n])
  OBVIOUS
<1>4. h[n] = l /\ h[n - 1] < l /\ h[n - 1] \in Nat
  <2>1. n - 1 \in Nat
    BY <1>2
  <2> QED
    BY <2>1, <1>1 DEF Tip
<1>n. n = Len(c) /\ t = c[n].thread
  OBVIOUS
<1> HIDE DEF n, l
<1>3. n > 1
  <2>1. n # 1
    BY <1>2, <1>c DEF Call
  <2> QED
    BY <2>1, <1>2
<1>5. l \in 1 .. l /\ l > 0 /\ l \in h[n - 1] + 1 .. l
  <2>1. l \in Nat /\ h[n - 1] < l /\ h[n - 1] \in Nat
    BY <1>2, <1>4
  <2> QED
    BY ONLY <2>1
<1>6. F[t] # <<>> /\ F[t][l] \in FrameSet /\ FrameOK(F[t][l])
  <2>1. F[t] \in Seq(FrameSet) /\ l = Len(F[t]) /\ Chain(F[t])
    BY <1>2 DEF l
  <2>4. l \in 1 .. Len(F[t])
    BY ONLY <2>1, <1>5
  <2>5. F[t][l] \in FrameSet
    BY ONLY <2>1, <2>4
  <2>6. FrameOK(F[t][l])
    BY ONLY <2>1, <2>4 DEF Chain
  <2>3. F[t][l] \in FrameSet /\ FrameOK(F[t][l])
    BY <2>5, <2>6
  <2>2. F[t] # <<>>
    BY ONLY <2>1, <2>4
  <2> QED
    BY <2>3, <2>2
<1>7. Fit(F[t], c[n - 1], c[n], h[n - 1], l) /\ t = c[n - 1].thread
  <2>1. Fits(c, F, h) /\ Piled(c) /\ n \in 2 .. Len(c)
    BY <1>1, <1>2, <1>3, <1>n, StackShape
  <2>2. Kinds(c[n - 1], c[n])
    BY <2>1 DEF Piled
  <2>3. Fit(F[c[n].thread], c[n - 1], c[n], h[n - 1], h[n])
    BY <2>1 DEF Fits
  <2>4. ~First(c[n])
    BY <1>c DEF First, Call
  <2> QED
    BY <2>2, <2>3, <2>4, <1>4, <1>n DEF Kinds
<1>8. /\ c[n].kind = "exec" => F[t][l].lua
      /\ c[n].kind = "cfun" => ~F[t][l].lua /\ F[t][l].recst = "ok"
  <2>1. c[n].kind = "exec" => F[t][l].lua
    BY <1>5, <1>7 DEF Fit
  <2>2. c[n].kind = "cfun" => l = h[n - 1] + 1
    BY <1>7, <1>2, <1>4 DEF Fit
  <2>3. c[n].kind = "cfun" => ~F[t][l].lua /\ F[t][l].recst = "ok"
    BY <2>2, <1>7 DEF Fit
  <2> QED
    BY <2>1, <2>3
<1>9. ASSUME NEW f \in FrameSet, F[t][l].func <= f.func, ~f.ypcall PROVE Above(c, n, t, f)
  <2>1. n - 1 \in 1 .. Len(c)
    BY <1>2, <1>3, <1>n
  <2>2. Above(c, n - 1, t, F[t][l])
    BY <2>1, <1>1, <1>5, <1>7, FramesAbove DEF l
  <2>3. Above(c, n - 1, t, f)
    BY <2>1, <2>2, <1>2, <1>6, <1>9, AboveToo
  <2>4. \A i \in 2 .. n : i \in 2 .. n - 1 \/ i = n
    BY <1>2
  <2>5. ~Guard(c[n])
    BY <1>c DEF Guard, Call
  <2> QED
    BY <2>3, <2>4, <2>5, <1>9 DEF Above
<1> QED
  BY <1>3, <1>5, <1>6, <1>8, <1>9 DEF n, l

(* An activation that is neither a call nor an unroll, nor the first.      *)
LEMMA PushPlain ==
  ASSUME NEW c, NEW F, NEW s, NEW a, NEW b, NEW e, Ready(c, F, s, a, b, e),
         NEW r \in Acts, ~First(r), ~Call(r), r.kind # "unroll", Kinds(c[Len(c)], r),
         Fit(F[r.thread], c[Len(c)], r, Len(F[r.thread]), Len(F[r.thread])),
         r.kind = "try" => r.nC = a[r.thread] /\ r.nny = b[r.thread],
         IF r.kind = "handler" THEN e # "err" ELSE e = "none"
  PROVE  Ready(Append(c, r), F, s, a, b, "none")
<1> DEFINE n == Len(c)
           t == r.thread
           m == Len(F[t])
<1>1. PICK h \in [Nat -> Nat] : Stack(c, F, h) /\ Tip(c, F, h, e) /\ Finishable(c, F, h, s)
  BY DEF Ready
<1>2. t = c[n].thread /\ r.kind # "main"
  BY DEF Kinds
<1>3. /\ m \in Nat /\ h[n] = m /\ a \in [Thread -> Nat] /\ b \in [Thread -> Nat] /\ t \in Thread
      /\ CCalls(c, n) < ErrorCCalls /\ c \in Seq(Acts) /\ n \in Nat /\ h \in [Nat -> Nat]
      /\ a[t] = CCalls(c, n)
  <2>1. e # "err"
    OBVIOUS
  <2>2. /\ m \in Nat /\ a \in [Thread -> Nat] /\ b \in [Thread -> Nat] /\ t \in Thread
        /\ CCalls(c, n) < ErrorCCalls /\ c \in Seq(Acts) /\ n \in Nat /\ a[t] = CCalls(c, n)
    BY <2>1, <1>2, ReadyTypes
  <2> QED
    BY <2>2, <1>1, <1>2 DEF Tip
<1>4. MayPush(c, F, h, r, m)
  <2>1. ~NonYieldable(r)
    BY DEF NonYieldable
  <2>2. Call(c[n]) /\ r.kind # "handler" => h[n - 1] < h[n]
    <3>1. r.kind # "handler" => e = "none"
      OBVIOUS
    <3> QED
      BY <3>1, <1>1 DEF Tip
  <2>0. m \in Nat
    BY <1>3
  <2>3. \A q \in m + 1 .. m : FALSE
    BY ONLY <2>0
  <2> QED
    BY <1>3, <2>1, <2>2, <2>3 DEF MayPush
<1>5. Stack(Append(c, r), F, [h EXCEPT ![n + 1] = m])
  BY <1>1, <1>3, <1>4, PushStack
<1>6. Counted(Append(c, r), a, b, "none")
  <2>1. CountOf(r) = 0 /\ NonYieldOf(t, r) = 0
    <3>1. ~IsCounted(r) /\ ~NonYieldable(r)
      BY DEF IsCounted, NonYieldable
    <3> QED
      BY <3>1 DEF CountOf, NonYieldOf
  <2>2. a[t] = a[t] + CountOf(r) /\ b[t] = b[t] + NonYieldOf(t, r)
    <3>1. a[t] \in Nat /\ b[t] \in Nat
      BY <1>3
    <3> QED
      BY ONLY <3>1, <2>1
  <2>3. Recounted(a, b, t, r, a, b, "none")
    BY <1>3, <2>2 DEF Recounted
  <2>4. Counted(c, a, b, e)
    BY DEF Ready
  <2>5. Stack(c, F, h)
    BY <1>1
  <2> HIDE DEF t, n, m
  <2> QED
    BY <1>2, <1>3, <2>2, <2>3, <2>4, <2>5, CountedPush DEF t, n
<1>7. Finishable(Append(c, r), F, [h EXCEPT ![n + 1] = m], s)
  BY <1>1, FinishablePush
<1>8. Tip(Append(c, r), F, [h EXCEPT ![n + 1] = m], "none")
  <2>1. Len(Append(c, r)) = n + 1 /\ Append(c, r)[n + 1] = r
    BY <1>3
  <2>2. [h EXCEPT ![n + 1] = m][n + 1] = m
    BY <1>3
  <2> QED
    BY <2>1, <2>2 DEF Tip
<1>9. [h EXCEPT ![n + 1] = m] \in [Nat -> Nat]
  BY <1>3
<1> QED
  BY <1>5, <1>6, <1>7, <1>8, <1>9 DEF Ready
(* The frame f may be the first of a call of the activation r, on top of   *)
(* the frames FR.                                                          *)
MayCall(c, FR, r, f) ==
  /\ f \in FrameSet /\ FrameOK(f) /\ ~f.ypcall /\ f.recst = "ok"
  /\ f.lua <=> r.kind = "exec"
  /\ f.lua => f.fresh
  /\ Above(c, Len(c), r.thread, f)
  /\ IF FR = <<>> THEN f.lua ELSE Follows(FR[Len(FR)], f)
  /\ FR # <<>> => Held(FR[Len(FR)]) \/ NonYieldable(r)

(* The counts after a call.                                                *)
LEMMA PushCounts ==
  ASSUME NEW c, NEW F, NEW s, NEW a, NEW b, NEW e, Ready(c, F, s, a, b, e), e # "err",
         NEW r \in Acts, ~First(r), r.kind # "try", r.thread = c[Len(c)].thread,
         NEW a2, NEW b2, NEW e2, Recounted(a, b, r.thread, r, a2, b2, e2)
  PROVE  Counted(Append(c, r), a2, b2, e2)
<1>1. PICK h \in [Nat -> Nat] : Stack(c, F, h)
  BY DEF Ready
<1>2. Counted(c, a, b, e) /\ CCalls(c, Len(c)) < ErrorCCalls
  BY ReadyTypes DEF Ready
<1>4. r.kind = "try" => r.nC = a[r.thread] /\ r.nny = b[r.thread]
  OBVIOUS
<1>5. Stack(c, F, h) /\ Counted(c, a, b, e) /\ CCalls(c, Len(c)) < ErrorCCalls
  BY <1>1, <1>2
<1>6. r \in Acts /\ ~First(r) /\ r.thread = c[Len(c)].thread
  OBVIOUS
<1> QED
  BY <1>4, <1>5, <1>6, CountedPush

(* A call with a frame.                                                    *)
LEMMA PushCall ==
  ASSUME NEW c, NEW F, NEW s, NEW a, NEW b, Ready(c, F, s, a, b, "none"),
         NEW r \in Acts, Call(r), Kinds(c[Len(c)], r),
         NEW a2, NEW b2, Recounted(a, b, r.thread, r, a2, b2, "none"),
         NEW f, MayCall(c, F[r.thread], r, f),
         NEW G, Extended(F, r.thread, f, G)
  PROVE  Ready(Append(c, r), G, s, a2, b2, "none")
<1> DEFINE n == Len(c)
           t == r.thread
           m == Len(F[t])
           d == Append(c, r)
<1>1. PICK h \in [Nat -> Nat] :
        Stack(c, F, h) /\ Tip(c, F, h, "none") /\ Finishable(c, F, h, s)
  BY DEF Ready
<1>2. ~First(r) /\ r.kind # "try" /\ t = c[n].thread /\ r.kind \in {"exec", "cfun"}
  BY DEF First, Call, Kinds
<1>3. /\ m \in Nat /\ t \in Thread /\ c \in Seq(Acts) /\ n \in Nat /\ F \in [Thread -> Seq(FrameSet)]
      /\ F[t] \in Seq(FrameSet) /\ \A u \in Thread : Chain(F[u])
  BY <1>2, ReadyTypes
<1>4. h[n] = m /\ (Call(c[n]) => h[n - 1] < h[n])
  BY <1>1, <1>2 DEF Tip
<1>5. /\ f \in FrameSet /\ FrameOK(f) /\ ~f.ypcall /\ f.recst = "ok"
      /\ f.lua <=> r.kind = "exec"
      /\ f.lua => f.fresh
      /\ Above(c, n, t, f)
      /\ IF F[t] = <<>> THEN f.lua ELSE Follows(F[t][m], f)
      /\ F[t] # <<>> => Held(F[t][m]) \/ NonYieldable(r)
  BY DEF MayCall
<1>6. /\ G \in [Thread -> Seq(FrameSet)] /\ G[t] = Append(F[t], f)
      /\ \A u \in Thread : u # t => G[u] = F[u]
  BY DEF Extended
<1>7. \A u \in Thread : Chain(G[u])
  <2>1. Chain(Append(F[t], f))
    BY <1>3, <1>5, ChainPush
  <2> QED
    BY <2>1, <1>3, <1>6
<1>8. Counted(d, a2, b2, "none")
  <2>1. r.thread = c[Len(c)].thread
    BY <1>2
  <2> QED
    BY <1>2, <2>1, PushCounts
<1>9. Stack(d, G, [h EXCEPT ![n + 1] = m + 1])
  <2>1. /\ Stack(c, F, h) /\ h[Len(c)] = Len(F[r.thread])
        /\ (Call(c[Len(c)]) => h[Len(c) - 1] < h[Len(c)])
    BY <1>1, <1>4
  <2>2. \A u \in Thread : u # r.thread => G[u] = F[u]
    BY <1>6
  <2>3. G[r.thread] = Append(F[r.thread], f)
    BY <1>6
  <2> QED
    BY <1>5, <1>6, <2>1, <2>2, <2>3, CallFrame
<1>10. Finishable(d, G, [h EXCEPT ![n + 1] = m + 1], s)
  <2>1. h[Len(c)] = Len(F[t])
    BY <1>4
  <2>2. F[t] # <<>> => Held(F[t][Len(F[t])]) \/ NonYieldable(r)
    BY <1>5
  <2>3. Extended(F, t, f, G)
    OBVIOUS
  <2>5. Stack(c, F, h) /\ Finishable(c, F, h, s) /\ t \in Thread /\ r.thread = t
    BY <1>1, <1>3
  <2> HIDE DEF t, n
  <2>6. Finishable(Append(c, r), G, [h EXCEPT ![Len(c) + 1] = m + 1], s)
    <3> HIDE DEF m
    <3> QED
      BY ONLY <2>1, <2>2, <2>3, <2>5, FinishableCall
  <2> QED
    BY <2>6 DEF n
<1>11. Tip(d, G, [h EXCEPT ![n + 1] = m + 1], "none")
  <2>1. Len(d) = n + 1 /\ d[n + 1] = r /\ n + 1 - 1 = n /\ n # n + 1
    BY <1>3, SMTT(30)
  <2>0. n \in Nat /\ h \in [Nat -> Nat] /\ h[n] = m
    BY <1>3, <1>4
  <2>3. Len(G[t]) = m + 1 /\ m < m + 1
    BY <1>3, <1>6
  <2> DEFINE g == [h EXCEPT ![n + 1] = m + 1]
  <2> HIDE DEF n, m, t, d
  <2>2. g[n + 1] = m + 1 /\ g[n] = m /\ n + 1 - 1 = n
    BY ONLY <2>0
  <2> HIDE DEF g
  <2>6. d[Len(d)] = r /\ Len(d) = n + 1 /\ Len(d) - 1 = n
    BY ONLY <2>0, <2>1
  <2>7. d[Len(d)].thread = t
    BY ONLY <2>6 DEF t
  <2>5. g[Len(d)] = Len(G[d[Len(d)].thread]) /\ g[Len(d) - 1] < g[Len(d)]
    BY ONLY <2>6, <2>7, <2>2, <2>3
  <2>4. Tip(d, G, g, "none")
    BY ONLY <2>5 DEF Tip
  <2> QED
    BY <2>4 DEF g
<1>12. [h EXCEPT ![n + 1] = m + 1] \in [Nat -> Nat]
  BY <1>3, SMTT(30)
<1> QED
  BY <1>7, <1>8, <1>9, <1>10, <1>11, <1>12 DEF Ready

(* A call that overflows has no frame.                                     *)
LEMMA PushOverflow ==
  ASSUME NEW c, NEW F, NEW s, NEW a, NEW b, Ready(c, F, s, a, b, "none"),
         NEW r \in Acts, Call(r), Kinds(c[Len(c)], r),
         NEW a2, NEW b2, NEW e, Recounted(a, b, r.thread, r, a2, b2, e), e # "none"
  PROVE  Ready(Append(c, r), F, s, a2, b2, e)
<1> DEFINE n == Len(c)
           t == r.thread
           m == Len(F[t])
           d == Append(c, r)
<1>1. PICK h \in [Nat -> Nat] :
        Stack(c, F, h) /\ Tip(c, F, h, "none") /\ Finishable(c, F, h, s)
  BY DEF Ready
<1>2. ~First(r) /\ r.kind # "try" /\ t = c[n].thread /\ r.kind \in {"exec", "cfun"}
  BY DEF First, Call, Kinds
<1>3. /\ m \in Nat /\ t \in Thread /\ c \in Seq(Acts) /\ n \in Nat /\ \A u \in Thread : Chain(F[u])
  BY <1>2, ReadyTypes
<1>4. h[n] = m /\ (Call(c[n]) => h[n - 1] < h[n])
  BY <1>1, <1>2 DEF Tip
<1>8. Counted(d, a2, b2, e)
  <2>1. r.thread = c[Len(c)].thread
    BY <1>2
  <2> QED
    BY <1>2, <2>1, PushCounts
<1>9. Stack(d, F, [h EXCEPT ![n + 1] = m])
  <2>1. /\ Stack(c, F, h) /\ h[Len(c)] = Len(F[r.thread])
        /\ (Call(c[Len(c)]) => h[Len(c) - 1] < h[Len(c)])
    BY <1>1, <1>4
  <2> QED
    BY <2>1, CallStack
<1>10. Finishable(d, F, [h EXCEPT ![n + 1] = m], s)
  BY <1>1, FinishablePush
<1>11. Tip(d, F, [h EXCEPT ![n + 1] = m], e)
  <2>1. Len(d) = n + 1 /\ d[n + 1] = r
    BY <1>3
  <2>2. [h EXCEPT ![n + 1] = m][n + 1] = m
    BY <1>3
  <2> QED
    BY <2>1, <2>2 DEF Tip
<1>12. [h EXCEPT ![n + 1] = m] \in [Nat -> Nat]
  BY <1>3
<1> QED
  BY <1>3, <1>8, <1>9, <1>10, <1>11, <1>12 DEF Ready
(* A function that may yield is in no protected and no non-yieldable call. *)
LEMMA NothingToCatch ==
  ASSUME NEW c, NEW F, NEW h, Stack(c, F, h), Call(c[Len(c)]),
         NEW t, t = c[Len(c)].thread, NonYields(c, t, Len(c)) = 0
  PROVE  \A i \in 2 .. Len(c) : c[i].thread = t => ~Guard(c[i]) /\ ~NonYieldable(c[i])
<1>1. Len(c) \in Nat /\ Len(c) > 0 /\ Segments(c, h) /\ Piled(c)
  BY StackShape
<1>2. \A i \in 1 .. Len(c) : c[i].thread = t => ~NonYieldable(c[i])
  <2> DEFINE T == {i \in 1 .. Len(c) : c[i].thread = t /\ NonYieldable(c[i])}
  <2>1. MainsOwn(t) + Cardinality(T) = 0
    BY DEF NonYields
  <2>2. MainsOwn(t) \in Nat
    BY DEF MainsOwn
  <2>3. IsFiniteSet(T) /\ Cardinality(T) \in Nat
    BY <1>1, CountSubset
  <2>4. Cardinality(T) = 0
    BY ONLY <2>1, <2>2, <2>3
  <2>5. T = {}
    BY ONLY <2>3, <2>4, FS_EmptySet
  <2> QED
    BY <2>5
<1>3. ASSUME NEW i \in 2 .. Len(c), c[i].thread = t, Guard(c[i]) PROVE FALSE
  <2>1. \A j \in i .. Len(c) : c[j].thread = t
    <3>1. i \in 1 .. Len(c) /\ Len(c) \in 1 .. Len(c) /\ i <= Len(c)
      BY <1>1
    <3> QED
      BY <1>1, <1>3, <3>1 DEF Segments
  <2>2. \A j \in i .. Len(c) : ~NonYieldable(c[j])
    BY <1>1, <1>2, <2>1
  <2>3. i # Len(c)
    BY <1>3 DEF Guard, Call
  <2>4. /\ i + 1 \in i .. Len(c) /\ i + 1 \in 2 .. Len(c) /\ i + 1 - 1 = i
        /\ i + 2 - 1 = i + 1
        /\ i + 1 # Len(c) => i + 2 \in i .. Len(c) /\ i + 2 \in 2 .. Len(c)
    BY <1>1, <2>3
  <2>5. Kinds(c[i], c[i + 1]) /\ ~NonYieldable(c[i + 1])
    BY <1>1, <2>2, <2>4 DEF Piled
  <2>6. c[i + 1].kind = "close" /\ ~c[i + 1].yy
    <3>1. ~Call(c[i + 1])
      BY <2>5, <1>3 DEF Kinds, Guard, Call, NonYieldable
    <3>2. i + 1 \in 1 .. Len(c)
      BY <2>4, <1>1
    <3>3. c[i + 1] \in Acts
      BY <3>2, StackShape
    <3> QED
      BY <2>5, <1>3, <3>1, <3>3, ActFacts DEF Kinds, Guard, Call, First
  <2>7. i + 1 # Len(c)
    BY <2>6 DEF Call
  <2>8. Kinds(c[i + 1], c[i + 2]) /\ ~NonYieldable(c[i + 2])
    BY <1>1, <2>2, <2>4, <2>7 DEF Piled
  <2>9. c[i + 2] \in Acts
    <3>1. i + 2 \in 1 .. Len(c)
      BY <2>4, <2>7, <1>1
    <3> QED
      BY <3>1, StackShape
  <2>10. ~Call(c[i + 2])
    BY <2>6, <2>8 DEF Kinds, Call, NonYieldable
  <2> QED
    BY <2>6, <2>8, <2>9, <2>10, ActFacts DEF Kinds, Guard, Call, First
<1> QED
  BY <1>2, <1>3, <1>1

(* What is below an activation that is not the first of its thread.        *)
LEMMA UnderNext ==
  ASSUME NEW c, NEW F, NEW h, Stack(c, F, h), NEW e, Tip(c, F, h, e),
         ~First(c[Len(c)])
  PROVE  /\ Len(c) \in Nat /\ Len(c) - 1 \in Nat /\ Len(c) - 1 > 0
         /\ Len(c) - 1 \in 1 .. Len(c) /\ Len(c) \in 2 .. Len(c)
         /\ c[Len(c) - 1].thread = c[Len(c)].thread /\ Kinds(c[Len(c) - 1], c[Len(c)])
         /\ Fit(F[c[Len(c)].thread], c[Len(c) - 1], c[Len(c)], h[Len(c) - 1],
                Len(F[c[Len(c)].thread]))
         /\ h[Len(c) - 1] \in Nat /\ h[Len(c) - 1] <= Len(F[c[Len(c)].thread])
         /\ h[Len(c)] = Len(F[c[Len(c)].thread])
         /\ c[Len(c) - 1] \in Acts
<1> DEFINE n == Len(c)
           t == c[n].thread
<1>1. n \in Nat /\ n > 0 /\ c[1].kind = "main" /\ Piled(c) /\ Fits(c, F, h)
      /\ \A i \in 1 .. n : c[i] \in Acts
  BY StackShape
<1>k. ~First(c[n])
  OBVIOUS
<1>6. h[n] = Len(F[t])
  BY DEF Tip
<1> HIDE DEF n, t
<1>2. n # 1
  BY <1>1, <1>k DEF First
<1>3. n - 1 \in Nat /\ n - 1 > 0 /\ n - 1 \in 1 .. n /\ n \in 2 .. n
  BY <1>1, <1>2
<1>4. Kinds(c[n - 1], c[n])
  BY <1>1, <1>3 DEF Piled, n
<1>5. c[n - 1].thread = t
  BY <1>4, <1>k DEF Kinds, First, t
<1>7. Fit(F[t], c[n - 1], c[n], h[n - 1], Len(F[t]))
  BY <1>1, <1>3, <1>6 DEF Fits, n, t
<1>9. n - 1 \in 1 .. Len(c)
  BY <1>3 DEF n
<1>8. h[n - 1] \in Nat /\ h[n - 1] <= Len(F[t])
  BY <1>5, <1>9, HeightsFit
<1>10. c[n - 1] \in Acts
  BY <1>1, <1>3
<1> QED
  BY <1>1, <1>3, <1>4, <1>5, <1>6, <1>7, <1>8, <1>10 DEF n, t

(* The same for the kinds that are never the first of a thread.            *)
LEMMA UnderTop ==
  ASSUME NEW c, NEW F, NEW h, Stack(c, F, h), NEW e, Tip(c, F, h, e),
         c[Len(c)].kind \notin {"main", "reset", "try"}
  PROVE  /\ Len(c) \in Nat /\ Len(c) - 1 \in Nat /\ Len(c) - 1 > 0
         /\ Len(c) - 1 \in 1 .. Len(c) /\ Len(c) \in 2 .. Len(c)
         /\ c[Len(c) - 1].thread = c[Len(c)].thread /\ Kinds(c[Len(c) - 1], c[Len(c)])
         /\ Fit(F[c[Len(c)].thread], c[Len(c) - 1], c[Len(c)], h[Len(c) - 1],
                Len(F[c[Len(c)].thread]))
         /\ h[Len(c) - 1] \in Nat /\ h[Len(c) - 1] <= Len(F[c[Len(c)].thread])
         /\ h[Len(c)] = Len(F[c[Len(c)].thread])
         /\ c[Len(c) - 1] \in Acts
BY UnderNext DEF First

(* All frames of an unroll come after it.                                  *)
LEMMA UnderUnroll ==
  ASSUME NEW c, NEW F, NEW h, Stack(c, F, h), NEW n \in 2 .. Len(c), c[n].kind = "unroll"
  PROVE  /\ n - 1 \in 2 .. Len(c) /\ n - 2 \in 1 .. Len(c)
         /\ c[n - 1].kind = "try" /\ c[n - 1].of = "resume"
         /\ h[n - 1] = 0 /\ First(c[n - 1])
         /\ c[n].thread = c[n - 1].thread /\ c[n].thread # MainThread
         /\ \A j \in 1 .. n - 2 : c[j].thread # c[n].thread
<1>1. /\ Len(c) \in Nat /\ c[1].kind = "main" /\ Piled(c) /\ Fits(c, F, h) /\ Starts(c, F, h)
      /\ n - 1 \in Nat /\ n - 1 > 0
  BY StackShape
<1>2. Kinds(c[n - 1], c[n])
  BY <1>1 DEF Piled
<1>3. c[n - 1].kind = "try" /\ c[n - 1].of = "resume" /\ c[n].thread = c[n - 1].thread
  BY <1>2 DEF Kinds, First
<1>4. n - 1 # 1
  BY <1>1, <1>3
<1>5. n - 1 \in 2 .. Len(c) /\ n - 2 \in 1 .. Len(c) /\ n - 1 - 1 = n - 2
  BY <1>1, <1>4
<1>6. First(c[n - 1])
  BY <1>3 DEF First
<1>7. h[n - 1] = 0
  BY <1>1, <1>5, <1>6 DEF Fits, Fit
<1>8. Kinds(c[n - 2], c[n - 1])
  BY <1>1, <1>5 DEF Piled
<1>9. c[n - 1].thread # MainThread
  BY <1>6, <1>8 DEF Kinds
<1>10. \A j \in 1 .. n - 2 : c[j].thread # c[n - 1].thread
  BY <1>1, <1>5, <1>6 DEF Starts
<1> QED
  BY <1>3, <1>5, <1>6, <1>7, <1>9, <1>10
(* The frames of a coroutine all belong to its unroll and what is above.   *)
LEMMA HeightUnderUnroll ==
  ASSUME NEW c, NEW F, NEW h, Stack(c, F, h), NEW n \in 2 .. Len(c), c[n].kind = "unroll"
  PROVE  h[n - 1] = 0
BY UnderUnroll
(* In G the top frame of the thread t is f.                                *)
Replaced(F, t, f, G) ==
  /\ G \in [Thread -> Seq(FrameSet)]
  /\ \A u \in Thread : u # t => G[u] = F[u]
  /\ G[t] = Retop(F[t], Len(F[t]), f)

(* A sequence without its last element.                                    *)
LEMMA FrontFacts ==
  ASSUME NEW S, NEW q \in Seq(S), q # <<>>
  PROVE  /\ Len(q) \in Nat /\ Len(q) > 0 /\ Len(q) - 1 \in Nat /\ Len(q) \in 1 .. Len(q)
         /\ Front(q) \in Seq(S) /\ Len(Front(q)) = Len(q) - 1
         /\ \A i \in 1 .. Len(q) - 1 : Front(q)[i] = q[i]
<1>1. Len(q) \in Nat /\ Len(q) > 0
  OBVIOUS
<1> DEFINE n == Len(q) - 1
<1>2. n \in 0 .. Len(q)
  BY <1>1
<1> HIDE DEF n
<1>3. /\ SubSeq(q, 1, n) \in Seq(S) /\ Len(SubSeq(q, 1, n)) = n
      /\ \A i \in 1 .. n : SubSeq(q, 1, n)[i] = q[i]
  BY <1>2
<1> QED
  BY <1>1, <1>3 DEF Front, n

(* The running function may change its top frame to f.                     *)
MayChange(c, F, t, b, f) ==
  /\ c[Len(c)].thread = t /\ c[Len(c)].kind \in {"exec", "cfun", "unroll"} /\ F[t] # <<>>
  /\ f \in FrameSet /\ FrameOK(f)
  /\ f.func = F[t][Len(F[t])].func
  /\ f.lua = F[t][Len(F[t])].lua
  /\ f.fresh = F[t][Len(F[t])].fresh
  /\ c[Len(c)].kind = "cfun" => f.recst = "ok"
  /\ f.ypcall => F[t][Len(F[t])].ypcall \/ (c[Len(c)].kind = "cfun" /\ b[t] = 0)

(* Changing the frame at the top keeps the C stack right.                  *)
LEMMA ChangeFrame ==
  ASSUME NEW c, NEW F, NEW s, NEW a, NEW b, Ready(c, F, s, a, b, "none"),
         NEW t, NEW f, MayChange(c, F, t, b, f), NEW G, Replaced(F, t, f, G)
  PROVE  Ready(c, G, s, a, b, "none")
<1> DEFINE n == Len(c)
           k == n - 1
           m == Len(F[t])
           p == F[t][m]
<1>1. PICK h :
        /\ h \in [Nat -> Nat]
        /\ Stack(c, F, h) /\ Tip(c, F, h, "none") /\ Finishable(c, F, h, s)
  BY DEF Ready
<1> DEFINE x == h[k]
<1>2. /\ c[n].thread = t /\ c[n].kind \in {"exec", "cfun", "unroll"} /\ F[t] # <<>>
      /\ f \in FrameSet /\ FrameOK(f)
      /\ f.func = p.func /\ f.lua = p.lua /\ f.fresh = p.fresh
      /\ c[n].kind = "cfun" => f.recst = "ok"
      /\ f.ypcall => p.ypcall \/ (c[n].kind = "cfun" /\ b[t] = 0)
  BY DEF MayChange
<1>3. /\ n \in Nat /\ t \in Thread /\ F[t] \in Seq(FrameSet) /\ m \in Nat
      /\ \A u \in Thread : Chain(F[u])
      /\ F \in [Thread -> Seq(FrameSet)] /\ b[t] = NonYields(c, t, n)
      /\ c \in Seq(Acts)
  BY <1>2, ReadyTypes
<1>m. m # 0
  BY ONLY <1>2, <1>3
<1>4. /\ k \in Nat /\ k > 0 /\ k \in 1 .. n /\ n \in 2 .. n
      /\ c[k].thread = t /\ Fit(F[t], c[k], c[n], x, m)
      /\ x \in Nat /\ x <= m /\ h[n] = m /\ c[k] \in Acts
  <2>1. c[Len(c)].kind \notin {"main", "reset", "try"}
    BY <1>2
  <2> QED
    BY <1>1, <1>2, <2>1, UnderTop
<1>d. f.func = F[t][m].func /\ f.lua = F[t][m].lua /\ f.fresh = F[t][m].fresh
  BY <1>2
<1> HIDE DEF p
<1>p. p = F[t][m]
  BY DEF p
<1>e. Retop(F[t], m, f) = G[t] /\ G \in [Thread -> Seq(FrameSet)]
      /\ \A u \in Thread : u # t => G[u] = F[u]
  BY DEF Replaced
<1>6. Call(c[n]) => x < m
  <2>1. Call(c[n]) => h[k] < h[n]
    BY <1>1 DEF Tip
  <2>2. h[n] = m /\ h[k] = x /\ m \in Nat /\ x \in Nat
    BY <1>3, <1>4
  <2> HIDE DEF n, m, k, x
  <2> QED
    BY ONLY <2>1, <2>2
<1>8. n = Len(c) /\ k + 1 = n /\ k = Len(c) - 1 /\ k \in 1 .. Len(c) /\ m = Len(F[t])
      /\ n \in 2 .. Len(c)
  BY <1>3, <1>4
<1>9. Counted(c, a, b, "none") /\ Inside(c, F, h)
  BY <1>1, StackShape DEF Ready
<1>10. x = h[k]
  OBVIOUS
<1>11. \A i \in 2 .. n : i - 1 \in Nat /\ i - 1 <= k
  BY <1>3
<1> HIDE DEF n, m, k, x
<1>7. c[n].kind = "unroll" => x = 0
  <2>1. ASSUME c[n].kind = "unroll" PROVE h[n - 1] = 0
    <3>1. n \in 2 .. Len(c) /\ Stack(c, F, h)
      BY <1>1, <1>8
    <3> QED
      BY ONLY <2>1, <3>1, HeightUnderUnroll
  <2>2. h[n - 1] = x
    BY <1>10 DEF k
  <2> QED
    BY ONLY <2>1, <2>2
<1>13. x < m
  <2>1. m > 0
    BY ONLY <1>3, <1>m
  <2>2. Call(c[n]) \/ c[n].kind = "unroll"
    BY ONLY <1>2 DEF Call
  <2> QED
    BY ONLY <2>1, <2>2, <1>6, <1>7
<1>14. m \in 1 .. m /\ m \in x + 1 .. m /\ (\A q \in x + 1 .. m : q = m \/ q \in 1 .. m - 1)
       /\ \A q \in 1 .. x : q \in 1 .. m - 1
  <2>1. m \in Nat /\ x \in Nat /\ x < m
    BY <1>3, <1>4, <1>13
  <2>2. m \in 1 .. m /\ m \in x + 1 .. m
    BY ONLY <2>1
  <2>3. \A q \in x + 1 .. m : q = m \/ q \in 1 .. m - 1
    BY ONLY <2>1
  <2>4. \A q \in 1 .. x : q \in 1 .. m - 1
    BY ONLY <2>1
  <2> QED
    BY <2>2, <2>3, <2>4
<1>5. /\ G \in [Thread -> Seq(FrameSet)] /\ (\A u \in Thread : u # t => G[u] = F[u])
      /\ Len(G[t]) = m /\ G[t][m] = f /\ (\A q \in 1 .. m - 1 : G[t][q] = F[t][q])
      /\ Chain(G[t])
  <2>1. F[t] \in Seq(FrameSet) /\ Chain(F[t]) /\ m \in 1 .. Len(F[t]) /\ f \in FrameSet /\ FrameOK(f)
    BY <1>2, <1>3, <1>8, <1>14
  <2>2. /\ Len(Retop(F[t], m, f)) = m
        /\ \A q \in 1 .. m - 1 : Retop(F[t], m, f)[q] = F[t][q]
        /\ Retop(F[t], m, f)[m] = f
        /\ Chain(Retop(F[t], m, f))
    BY ONLY <2>1, <1>d, ChainChange
  <2> QED
    BY ONLY <2>2, <1>e
<1>15. F[t][m] \in FrameSet
  BY <1>3, <1>8, <1>14, <1>p
<1>16. \A q \in x + 1 .. m : Above(c, k, t, F[t][q])
  BY <1>1, <1>4, <1>8, <1>10, FramesAbove
<1>17. c[n].kind = "cfun" /\ b[t] = 0 =>
        \A i \in 2 .. n : c[i].thread = t => ~Guard(c[i]) /\ ~NonYieldable(c[i])
  <2> SUFFICES ASSUME c[n].kind = "cfun", b[t] = 0
               PROVE  \A i \in 2 .. n : c[i].thread = t => ~Guard(c[i]) /\ ~NonYieldable(c[i])
    OBVIOUS
  <2>1. Call(c[Len(c)]) /\ c[Len(c)].thread = t /\ NonYields(c, t, Len(c)) = 0
    BY <1>2, <1>3, <1>8 DEF Call
  <2> QED
    BY <1>1, <1>8, <2>1, NothingToCatch
<1>18. Above(c, k, t, f)
  <2>1. CASE f.ypcall => p.ypcall
    <3>1. Above(c, k, t, p)
      BY <1>14, <1>16, <1>p
    <3>2. p.func <= f.func /\ p \in FrameSet
      BY <1>2, <1>15, <1>p, FrameFacts
    <3> QED
      BY <2>1, <1>2, <1>3, <1>8, <1>15, <3>1, <3>2, AboveToo
  <2>2. CASE c[n].kind = "cfun" /\ b[t] = 0
    <3>1. \A i \in 2 .. k : i \in 2 .. n
      BY ONLY <1>3, <1>4
    <3> QED
      BY ONLY <2>2, <3>1, <1>17 DEF Above
  <2> QED
    BY ONLY <2>1, <2>2, <1>2
<1> DEFINE g == [h EXCEPT ![n] = m]
<1>19. g \in [Nat -> Nat] /\ (\A i \in Nat : g[i] = h[i])
  BY <1>1, <1>3, <1>4
<1>20. Regrown(c, F, h, k, t, G)
  <2>1. \A q \in x + 1 .. m : Above(c, k, t, G[t][q])
    BY <1>5, <1>14, <1>16, <1>18
  <2> QED
    BY <1>14, <2>1, <1>4, <1>5, <1>10 DEF Regrown
<1>21. Fit(G[t], c[k], c[n], x, m)
  <2>1. c[n].kind = "exec" => \A q \in x + 1 .. m : G[t][q].lua /\ (G[t][q].fresh <=> q = x + 1)
    <3>1. c[n].kind = "exec" => \A q \in x + 1 .. m : F[t][q].lua /\ (F[t][q].fresh <=> q = x + 1)
      BY <1>4 DEF Fit
    <3>2. \A q \in x + 1 .. m : G[t][q].lua = F[t][q].lua /\ G[t][q].fresh = F[t][q].fresh
      BY ONLY <1>2, <1>p, <1>5, <1>14
    <3> QED
      BY ONLY <3>1, <3>2
  <2>2. c[n].kind = "cfun" => m <= x + 1 /\ (m = x + 1 => ~G[t][m].lua /\ G[t][m].recst = "ok")
    <3>1. c[n].kind = "cfun" => m <= x + 1 /\ (m = x + 1 => ~F[t][m].lua)
      BY <1>4 DEF Fit
    <3> QED
      BY ONLY <3>1, <1>2, <1>p, <1>5
  <2>3. ~First(c[n]) /\ ~Guard(c[n])
    BY <1>2 DEF First, Guard
  <2>4. c[n].kind \notin {"close", "caught", "handler"}
    BY <1>2
  <2>5. m <= Len(G[t]) /\ x <= m
    BY <1>3, <1>4, <1>5
  <2> QED
    BY ONLY <2>1, <2>2, <2>3, <2>4, <2>5 DEF Fit
<1>22. NonYieldable(c[n]) => \A q \in x + 1 .. Len(G[t]) : ~G[t][q].ypcall
  <2> SUFFICES ASSUME NonYieldable(c[n]), NEW q \in x + 1 .. m PROVE ~G[t][q].ypcall
    BY <1>5
  <2>1. \A y \in x + 1 .. m : ~F[t][y].ypcall
    BY <1>2, <1>8, <1>9, <1>10 DEF Inside, k
  <2>2. ~(c[n].kind = "cfun" /\ b[t] = 0)
    BY <1>2, <1>4, <1>17
  <2>3. ~f.ypcall
    BY ONLY <2>1, <2>2, <1>2, <1>p, <1>14
  <2> QED
    BY ONLY <2>1, <2>3, <1>5, <1>14
<1>23. Stack(c, G, g)
  <2>1. c[k + 1].thread = t /\ ~First(c[k + 1]) /\ ~Guard(c[k + 1]) /\ k > 0
    BY <1>2, <1>4, <1>8 DEF First, Guard
  <2>2. Stack(c, G, [h EXCEPT ![k + 1] = m])
    BY <1>1, <1>3, <1>8, <1>10, <1>20, <1>21, <1>22, <2>1, ChangeTop
  <2> QED
    BY <2>2, <1>8
<1> HIDE DEF g
<1>24. Finishable(c, G, g, s)
  <2>1. ASSUME NEW u \in Thread, s[u] # "err", NEW q \in 1 .. Len(G[u]) - 1, ~Held(G[u][q])
        PROVE  \E i \in 2 .. n : c[i].thread = u /\ NonYieldable(c[i]) /\ g[i - 1] = q
    <3>1. q \in 1 .. Len(F[u]) - 1 /\ ~Held(F[u][q])
      <4>1. CASE u = t
        <5>1. q \in 1 .. Len(F[t]) - 1 /\ G[t][q] = F[t][q]
          BY <4>1, <2>1, <1>5, <1>8
        <5> QED
          BY <4>1, <2>1, <5>1
      <4>2. CASE u # t
        BY <4>2, <2>1, <1>5
      <4> QED
        BY <4>1, <4>2
    <3>2. PICK i \in 2 .. n : c[i].thread = u /\ NonYieldable(c[i]) /\ h[i - 1] = q
      BY <1>1, <2>1, <3>1 DEF Finishable, n
    <3>3. g[i - 1] = h[i - 1]
      BY <1>11, <1>19
    <3> QED
      BY <3>2, <3>3
  <2> QED
    BY <2>1 DEF Finishable, n
<1>25. Tip(c, G, g, "none")
  <2>1. g[n] = m /\ g[k] = x
    BY <1>3, <1>4, <1>10, <1>19
  <2> QED
    BY <2>1, <1>2, <1>5, <1>8, <1>13 DEF Tip
<1>26. \A u \in Thread : Chain(G[u])
  BY <1>3, <1>5
<1> QED
  BY <1>9, <1>19, <1>23, <1>24, <1>25, <1>26 DEF Ready
(* The activation at the top may have the frames of its thread become G.   *)
MayReshape(c, F, h, t, G) ==
  /\ c[Len(c)].thread = t /\ c[Len(c)].kind \in {"exec", "cfun", "unroll"}
  /\ G \in [Thread -> Seq(FrameSet)] /\ \A u \in Thread : u # t => G[u] = F[u]
  /\ Chain(G[t])
  /\ h[Len(c) - 1] <= Len(G[t])
  /\ Call(c[Len(c)]) => h[Len(c) - 1] < Len(G[t])
  /\ \A q \in 1 .. h[Len(c) - 1] : G[t][q] = F[t][q]
  /\ \A q \in h[Len(c) - 1] + 1 .. Len(G[t]) :
       Above(c, Len(c) - 1, t, G[t][q]) /\ (NonYieldable(c[Len(c)]) => ~G[t][q].ypcall)
  /\ Fit(G[t], c[Len(c) - 1], c[Len(c)], h[Len(c) - 1], Len(G[t]))
  /\ \A p \in 1 .. Len(G[t]) - 1 :
       Held(G[t][p]) \/ (p < Len(F[t]) /\ (Held(F[t][p]) => Held(G[t][p])))

(* Such a change keeps the C stack right.                                  *)
LEMMA Reshape ==
  ASSUME NEW c, NEW F, NEW s, NEW a, NEW b, NEW h, Ready(c, F, s, a, b, "none"),
         Stack(c, F, h), Tip(c, F, h, "none"), Finishable(c, F, h, s),
         NEW t, NEW G, MayReshape(c, F, h, t, G)
  PROVE  Ready(c, G, s, a, b, "none")
<1> DEFINE n == Len(c)
           k == n - 1
           x == h[k]
           m == Len(G[t])
<1>1. /\ c[n].thread = t /\ c[n].kind \in {"exec", "cfun", "unroll"}
      /\ G \in [Thread -> Seq(FrameSet)] /\ (\A u \in Thread : u # t => G[u] = F[u])
      /\ Chain(G[t])
      /\ x <= m
      /\ Call(c[n]) => x < m
      /\ \A q \in 1 .. x : G[t][q] = F[t][q]
      /\ \A q \in x + 1 .. m : Above(c, k, t, G[t][q]) /\ (NonYieldable(c[n]) => ~G[t][q].ypcall)
      /\ Fit(G[t], c[k], c[n], x, m)
  BY DEF MayReshape
<1>0. \A p \in 1 .. m - 1 :
        Held(G[t][p]) \/ (p < Len(F[t]) /\ (Held(F[t][p]) => Held(G[t][p])))
  BY DEF MayReshape
<1>2. /\ n \in Nat /\ n > 0 /\ t \in Thread
      /\ \A u \in Thread : Chain(F[u])
      /\ \A u \in Thread : Len(F[u]) \in Nat
      /\ F \in [Thread -> Seq(FrameSet)] /\ c \in Seq(Acts)
  BY <1>1, ReadyTypes
<1>3. m \in Nat
  <2>1. G[t] \in Seq(FrameSet)
    BY <1>1, <1>2
  <2> QED
    BY <2>1
<1>4. k \in Nat /\ k > 0 /\ c[k].thread = t /\ x \in Nat
  <2>1. c[Len(c)].kind \notin {"main", "reset", "try"}
    BY <1>1
  <2> QED
    BY <1>1, <2>1, UnderTop
<1>5. k + 1 = n /\ k = Len(c) - 1 /\ n = Len(c) /\ m = Len(G[t])
  BY <1>2
<1>6. Counted(c, a, b, "none") /\ h \in [Nat -> Nat]
  BY StackShape DEF Ready
<1>7. x = h[k] /\ x = h[Len(c) - 1]
  OBVIOUS
<1>8. \A i \in 2 .. n : i - 1 \in Nat /\ i - 1 # n
  BY <1>2
<1> HIDE DEF n, m, k, x
<1> DEFINE g == [h EXCEPT ![n] = m]
<1>9. g \in [Nat -> Nat] /\ g[n] = m /\ (\A i \in Nat : i # n => g[i] = h[i])
  BY <1>6, <1>2, <1>3
<1>10. g[k] = x /\ g[n] = m
  <2>0. k \in Nat /\ k + 1 = n
    BY <1>4, <1>5
  <2>1. k # n
    BY ONLY <2>0
  <2> QED
    BY <2>1, <1>4, <1>7, <1>9
<1>11. Regrown(c, F, h, k, t, G)
  BY <1>1, <1>5, <1>7 DEF Regrown
<1>12. Stack(c, G, g)
  <2>1. c[k + 1].thread = t /\ ~First(c[k + 1]) /\ ~Guard(c[k + 1]) /\ k > 0
    BY <1>1, <1>4, <1>5 DEF First, Guard
  <2>2. NonYieldable(c[k + 1]) => \A q \in h[k] + 1 .. Len(G[t]) : ~G[t][q].ypcall
    BY <1>1, <1>5, <1>7
  <2>3. Fit(G[t], c[k], c[k + 1], h[k], m)
    BY <1>1, <1>5, <1>7
  <2>4. Stack(c, G, [h EXCEPT ![k + 1] = m])
    BY <1>3, <1>5, <1>11, <2>1, <2>2, <2>3, ChangeTop
  <2> QED
    BY <2>4, <1>5
<1> HIDE DEF g
<1>13. Finishable(c, G, g, s)
  <2>1. ASSUME NEW u \in Thread, s[u] # "err", NEW q \in 1 .. Len(G[u]) - 1, ~Held(G[u][q])
        PROVE  \E i \in 2 .. n : c[i].thread = u /\ NonYieldable(c[i]) /\ g[i - 1] = q
    <3>1. q \in 1 .. Len(F[u]) - 1 /\ ~Held(F[u][q])
      <4>1. CASE u = t
        <5>1. q < Len(F[t]) /\ ~Held(F[t][q])
          BY <4>1, <2>1, <1>0, <1>5
        <5>2. q \in Nat /\ q > 0 /\ Len(F[t]) \in Nat
          BY <1>2
        <5>3. q \in 1 .. Len(F[t]) - 1
          BY ONLY <5>1, <5>2
        <5> QED
          BY <4>1, <5>1, <5>3
      <4>2. CASE u # t
        BY <4>2, <2>1, <1>1
      <4> QED
        BY <4>1, <4>2
    <3>2. PICK i \in 2 .. n : c[i].thread = u /\ NonYieldable(c[i]) /\ h[i - 1] = q
      BY <2>1, <3>1 DEF Finishable, n
    <3>3. g[i - 1] = h[i - 1]
      BY <1>8, <1>9
    <3> QED
      BY <3>2, <3>3
  <2> QED
    BY <2>1 DEF Finishable, n
<1>14. Tip(c, G, g, "none")
  BY <1>1, <1>5, <1>10 DEF Tip
<1>15. \A u \in Thread : Chain(G[u])
  BY <1>1, <1>2
<1> QED
  BY <1>6, <1>9, <1>12, <1>13, <1>14, <1>15 DEF Ready
(* In G the thread t has only its m lowest frames.                         *)
Shrunk(F, t, m, G) ==
  /\ G \in [Thread -> Seq(FrameSet)]
  /\ \A u \in Thread : u # t => G[u] = F[u]
  /\ G[t] = SubSeq(F[t], 1, m)

(* The frames that are left.                                               *)
LEMMA ShrunkFrames ==
  ASSUME NEW F \in [Thread -> Seq(FrameSet)], NEW t \in Thread, Chain(F[t]),
         NEW m \in 0 .. Len(F[t]), NEW G, Shrunk(F, t, m, G)
  PROVE  /\ G[t] \in Seq(FrameSet) /\ Len(G[t]) = m /\ Chain(G[t])
         /\ \A q \in 1 .. m : G[t][q] = F[t][q]
<1>1. G[t] = SubSeq(F[t], 1, m)
  BY DEF Shrunk
<1>2. F[t] \in Seq(FrameSet)
  OBVIOUS
<1>3. /\ SubSeq(F[t], 1, m) \in Seq(FrameSet) /\ Len(SubSeq(F[t], 1, m)) = m
      /\ \A q \in 1 .. m : SubSeq(F[t], 1, m)[q] = F[t][q]
      /\ Chain(SubSeq(F[t], 1, m))
  BY <1>2, ChainCut
<1> QED
  BY ONLY <1>1, <1>3

(* Frames of the activation at the top go away.                            *)
LEMMA Shrink ==
  ASSUME NEW c, NEW F, NEW s, NEW a, NEW b, NEW h, Ready(c, F, s, a, b, "none"),
         Stack(c, F, h), Tip(c, F, h, "none"), Finishable(c, F, h, s),
         NEW t, c[Len(c)].thread = t, c[Len(c)].kind \in {"exec", "unroll"},
         NEW m \in 0 .. Len(F[t]), h[Len(c) - 1] <= m,
         Call(c[Len(c)]) => h[Len(c) - 1] < m,
         NEW G, Shrunk(F, t, m, G)
  PROVE  Ready(c, G, s, a, b, "none")
<1> DEFINE n == Len(c)
           k == n - 1
           x == h[k]
           l == Len(F[t])
<1>1. /\ c[n].thread = t /\ c[n].kind \in {"exec", "unroll"} /\ x <= m
      /\ Call(c[n]) => x < m
      /\ m \in 0 .. l
  OBVIOUS
<1>2. /\ n \in Nat /\ n > 0 /\ t \in Thread /\ Chain(F[t])
      /\ F \in [Thread -> Seq(FrameSet)] /\ c \in Seq(Acts) /\ l \in Nat
  BY <1>1, ReadyTypes
<1>3. /\ k \in Nat /\ k > 0 /\ c[k].thread = t /\ x \in Nat /\ Fit(F[t], c[k], c[n], x, l)
      /\ k \in 1 .. n /\ n \in 2 .. n /\ x <= l
  <2>1. c[Len(c)].kind \notin {"main", "reset", "try"}
    BY <1>1
  <2> QED
    BY <1>1, <2>1, UnderTop
<1>4. k + 1 = n /\ k = Len(c) - 1 /\ n = Len(c) /\ l = Len(F[t]) /\ k \in 1 .. Len(c)
      /\ n \in 2 .. Len(c)
  BY <1>2, <1>3
<1>5. G \in [Thread -> Seq(FrameSet)] /\ (\A u \in Thread : u # t => G[u] = F[u])
  BY DEF Shrunk
<1>6. /\ Len(G[t]) = m /\ Chain(G[t])
      /\ \A q \in 1 .. m : G[t][q] = F[t][q]
  <2>1. F \in [Thread -> Seq(FrameSet)] /\ t \in Thread /\ Chain(F[t])
    BY <1>2
  <2> QED
    BY ONLY <2>1, m \in 0 .. Len(F[t]), Shrunk(F, t, m, G), ShrunkFrames
<1>7. x = h[k]
  OBVIOUS
<1>8. Inside(c, F, h)
  BY StackShape
<1> HIDE DEF n, k, x, l
<1>9. m \in Nat /\ (\A q \in x + 1 .. m : q \in 1 .. m /\ q \in x + 1 .. l)
      /\ \A q \in 1 .. x : q \in 1 .. m
  <2>1. m \in Nat /\ x \in Nat /\ l \in Nat /\ m <= l /\ x <= m
    BY ONLY <1>1, <1>2, <1>3
  <2> QED
    BY ONLY <2>1
<1>10. \A q \in x + 1 .. m :
        Above(c, k, t, G[t][q]) /\ (NonYieldable(c[n]) => ~G[t][q].ypcall)
  <2>1. \A q \in x + 1 .. l : Above(c, k, t, F[t][q])
    BY <1>3, <1>4, <1>7, FramesAbove
  <2>2. NonYieldable(c[n]) => \A q \in x + 1 .. l : ~F[t][q].ypcall
    BY <1>1, <1>4, <1>7, <1>8 DEF Inside, k
  <2> QED
    BY ONLY <2>1, <2>2, <1>6, <1>9
<1>11. Fit(G[t], c[k], c[n], x, m)
  <2>1. c[n].kind = "exec" => \A q \in x + 1 .. m : G[t][q].lua /\ (G[t][q].fresh <=> q = x + 1)
    <3>1. c[n].kind = "exec" => \A q \in x + 1 .. l : F[t][q].lua /\ (F[t][q].fresh <=> q = x + 1)
      BY <1>3 DEF Fit
    <3> QED
      BY ONLY <3>1, <1>6, <1>9
  <2>2. ~First(c[n]) /\ ~Guard(c[n])
    BY <1>1 DEF First, Guard
  <2>3. c[n].kind \notin {"cfun", "close", "caught", "handler"}
    BY <1>1
  <2>4. m <= Len(G[t]) /\ x <= m
    BY <1>1, <1>6, <1>9
  <2> QED
    BY ONLY <2>1, <2>2, <2>3, <2>4 DEF Fit
<1>12. \A p \in 1 .. m - 1 :
        Held(G[t][p]) \/ (p < l /\ (Held(F[t][p]) => Held(G[t][p])))
  <2> SUFFICES ASSUME NEW p \in 1 .. m - 1
               PROVE  p < l /\ G[t][p] = F[t][p]
    OBVIOUS
  <2>1. p \in 1 .. m /\ p < l
    BY <1>1, <1>2, <1>9
  <2> QED
    BY <2>1, <1>6
<1>13. \A q \in 1 .. x : G[t][q] = F[t][q]
  BY <1>6, <1>9
<1>14. c[n].kind \in {"exec", "cfun", "unroll"}
  BY <1>1
<1>15. MayReshape(c, F, h, t, G)
  BY ONLY <1>1, <1>4, <1>5, <1>6, <1>7, <1>10, <1>11, <1>12, <1>13, <1>14 DEF MayReshape
<1> QED
  BY ONLY <1>15, Ready(c, F, s, a, b, "none"), Stack(c, F, h), Tip(c, F, h, "none"),
          Finishable(c, F, h, s), Reshape
(* A Lua function returns to the one that called it.                       *)
LEMMA PopLuaFrame ==
  ASSUME NEW c, NEW F, NEW s, NEW a, NEW b, Ready(c, F, s, a, b, "none"),
         NEW t, c[Len(c)].thread = t, c[Len(c)].kind = "exec",
         ~F[t][Len(F[t])].fresh,
         NEW G, Shrunk(F, t, Len(F[t]) - 1, G)
  PROVE  Ready(c, G, s, a, b, "none")
<1>1. PICK h :
        /\ h \in [Nat -> Nat]
        /\ Stack(c, F, h) /\ Tip(c, F, h, "none") /\ Finishable(c, F, h, s)
  BY DEF Ready
<1> DEFINE x == h[Len(c) - 1]
           m == Len(F[t])
<1>2. x \in Nat /\ x <= m /\ Fit(F[t], c[Len(c) - 1], c[Len(c)], x, m) /\ h[Len(c)] = m
  <2>1. c[Len(c)].kind \notin {"main", "reset", "try"}
    OBVIOUS
  <2> QED
    BY <1>1, <2>1, UnderTop
<1>3. h[Len(c) - 1] < h[Len(c)]
  BY <1>1 DEF Tip, Call
<1>4. t \in Thread /\ m \in Nat
  BY ReadyTypes
<1>5. x < m
  BY <1>2, <1>3
<1>6. \A q \in x + 1 .. m : F[t][q].fresh <=> q = x + 1
  BY <1>2 DEF Fit
<1>8. x = h[Len(c) - 1]
  OBVIOUS
<1>9. ~F[t][m].fresh
  OBVIOUS
<1> HIDE DEF x, m
<1>10. m # x + 1
  <2>1. m \in x + 1 .. m
    BY ONLY <1>2, <1>4, <1>5
  <2> QED
    BY ONLY <1>6, <1>9, <2>1
<1>11. m - 1 \in 0 .. m /\ x <= m - 1 /\ x < m - 1
  BY ONLY <1>2, <1>4, <1>5, <1>10
<1>12. m - 1 \in 0 .. Len(F[t]) /\ h[Len(c) - 1] <= m - 1 /\ h[Len(c) - 1] < m - 1
  BY <1>11, <1>8 DEF m
<1>13. Shrunk(F, t, m - 1, G)
  BY DEF m
<1> QED
  BY <1>1, <1>12, <1>13, Shrink

(* unroll leaves frames to what it calls.                                  *)
LEMMA LowerUnroll ==
  ASSUME NEW c, NEW F, NEW s, NEW a, NEW b, Ready(c, F, s, a, b, "none"),
         NEW t, c[Len(c)].thread = t, c[Len(c)].kind = "unroll",
         NEW m \in 0 .. Len(F[t]), NEW G, Shrunk(F, t, m, G)
  PROVE  Ready(c, G, s, a, b, "none")
<1>1. PICK h :
        /\ h \in [Nat -> Nat]
        /\ Stack(c, F, h) /\ Tip(c, F, h, "none") /\ Finishable(c, F, h, s)
  BY DEF Ready
<1>2. Len(c) \in 2 .. Len(c)
  BY <1>1, UnderTop
<1>3. h[Len(c) - 1] = 0
  BY <1>1, <1>2, HeightUnderUnroll
<1>4. Len(F[t]) \in Nat
  BY ReadyTypes
<1>5. h[Len(c) - 1] <= m
  BY <1>3, <1>4
<1> QED
  BY <1>1, <1>5, Shrink DEF Call

(* In G the thread t has more Lua frames, of the same luaV_execute.        *)
Grown(F, t, G) ==
  /\ G \in [Thread -> Seq(FrameSet)]
  /\ \A u \in Thread : u # t => G[u] = F[u]
  /\ Len(F[t]) <= Len(G[t]) /\ Chain(G[t])
  /\ \A q \in 1 .. Len(F[t]) : G[t][q] = F[t][q]
  /\ \A q \in Len(F[t]) + 1 .. Len(G[t]) : G[t][q].lua /\ ~G[t][q].fresh

(* A Lua function is called by one.                                        *)
LEMMA PushLuaFrames ==
  ASSUME NEW c, NEW F, NEW s, NEW a, NEW b, Ready(c, F, s, a, b, "none"),
         NEW t, c[Len(c)].thread = t, c[Len(c)].kind = "exec",
         NEW G, Grown(F, t, G)
  PROVE  Ready(c, G, s, a, b, "none")
<1>1. PICK h :
        /\ h \in [Nat -> Nat]
        /\ Stack(c, F, h) /\ Tip(c, F, h, "none") /\ Finishable(c, F, h, s)
  BY DEF Ready
<1> DEFINE n == Len(c)
           k == n - 1
           x == h[k]
           l == Len(F[t])
           m == Len(G[t])
<1>2. c[n].thread = t /\ c[n].kind = "exec" /\ Call(c[n])
  BY DEF Call
<1>3. /\ G \in [Thread -> Seq(FrameSet)] /\ (\A u \in Thread : u # t => G[u] = F[u])
      /\ l <= m /\ Chain(G[t])
      /\ \A q \in 1 .. l : G[t][q] = F[t][q]
      /\ \A q \in l + 1 .. m : G[t][q].lua /\ ~G[t][q].fresh
  BY DEF Grown
<1>4. /\ n \in Nat /\ n > 0 /\ t \in Thread /\ Chain(F[t])
      /\ F \in [Thread -> Seq(FrameSet)] /\ c \in Seq(Acts) /\ l \in Nat
  BY <1>2, ReadyTypes
<1>5. m \in Nat /\ G[t] \in Seq(FrameSet)
  <2>1. G[t] \in Seq(FrameSet)
    BY <1>3, <1>4
  <2> QED
    BY <2>1
<1>6. /\ k \in Nat /\ k > 0 /\ c[k].thread = t /\ x \in Nat /\ Fit(F[t], c[k], c[n], x, l)
      /\ k \in 1 .. n /\ n \in 2 .. n /\ x <= l /\ h[n] = l
  <2>1. c[Len(c)].kind \notin {"main", "reset", "try"}
    BY <1>2
  <2> QED
    BY <1>1, <1>2, <2>1, UnderTop
<1>7. x < l
  <2>1. h[k] < h[n]
    BY <1>1, <1>2 DEF Tip
  <2> QED
    BY <2>1, <1>6
<1>8. k + 1 = n /\ k = Len(c) - 1 /\ n = Len(c) /\ l = Len(F[t]) /\ k \in 1 .. Len(c)
      /\ n \in 2 .. Len(c) /\ x = h[k] /\ m = Len(G[t])
  BY <1>4, <1>6
<1>9. /\ F[t][l] \in FrameSet /\ F[t][l].lua
      /\ \A f \in FrameSet : F[t][l].func <= f.func /\ ~f.ypcall => Above(c, n, t, f)
  BY <1>2, RunningCall
<1>10. Inside(c, F, h)
  BY <1>1, StackShape
<1> HIDE DEF n, k, x, l, m
<1>11. /\ l \in 1 .. m /\ l \in 1 .. l
       /\ \A q \in l + 1 .. m : q \in 1 .. m /\ l \in 1 .. q - 1 /\ q \in Nat
       /\ \A q \in x + 1 .. m : q \in l + 1 .. m \/ (q \in 1 .. l /\ q \in x + 1 .. l)
       /\ \A q \in 1 .. x : q \in 1 .. l
  <2>1. x \in Nat /\ l \in Nat /\ m \in Nat /\ x < l /\ l <= m
    BY ONLY <1>3, <1>4, <1>5, <1>6, <1>7
  <2> QED
    BY ONLY <2>1
<1>12. \A q \in l + 1 .. m : Above(c, k, t, G[t][q]) /\ ~G[t][q].ypcall
  <2> SUFFICES ASSUME NEW q \in l + 1 .. m
               PROVE  Above(c, k, t, G[t][q]) /\ ~G[t][q].ypcall
    OBVIOUS
  <2>1. q \in 1 .. Len(G[t]) /\ l \in 1 .. q - 1
    BY <1>11, <1>8
  <2>2. G[t][q] \in FrameSet /\ FrameOK(G[t][q])
    BY <2>1, <1>3, <1>5 DEF Chain
  <2>3. ~G[t][q].ypcall
    BY <2>2, <1>3 DEF FrameOK
  <2>4. G[t][l].func < G[t][q].func
    BY <2>1, <1>3, <1>5, ChainOrder
  <2>5. F[t][l].func <= G[t][q].func
    <3>1. G[t][l] = F[t][l]
      BY <1>3, <1>11
    <3>2. F[t][l].func \in Nat /\ G[t][q].func \in Nat
      BY <1>9, <2>2, FrameFacts
    <3> QED
      BY <3>1, <3>2, <2>4
  <2>6. Above(c, n, t, G[t][q])
    BY ONLY <1>9, <2>2, <2>3, <2>5
  <2>7. \A i \in 2 .. k : i \in 2 .. n
    <3>1. k \in Nat /\ k + 1 = n
      BY <1>6, <1>8
    <3> QED
      BY ONLY <3>1
  <2> QED
    BY ONLY <2>3, <2>6, <2>7 DEF Above
<1>13. \A q \in x + 1 .. m :
        Above(c, k, t, G[t][q]) /\ (NonYieldable(c[n]) => ~G[t][q].ypcall)
  <2>1. \A q \in x + 1 .. l : Above(c, k, t, F[t][q])
    BY <1>1, <1>6, <1>8, FramesAbove
  <2>2. NonYieldable(c[n]) => \A q \in x + 1 .. l : ~F[t][q].ypcall
    BY <1>2, <1>8, <1>10 DEF Inside, k
  <2> QED
    BY ONLY <2>1, <2>2, <1>3, <1>11, <1>12
<1>14. Fit(G[t], c[k], c[n], x, m)
  <2>1. \A q \in x + 1 .. m : G[t][q].lua /\ (G[t][q].fresh <=> q = x + 1)
    <3>1. \A q \in x + 1 .. l : F[t][q].lua /\ (F[t][q].fresh <=> q = x + 1)
      BY <1>2, <1>6 DEF Fit
    <3>2. \A q \in l + 1 .. m : q # x + 1
      <4>1. x \in Nat /\ l \in Nat /\ m \in Nat /\ x < l
        BY <1>4, <1>5, <1>6, <1>7
      <4> QED
        BY ONLY <4>1
    <3> QED
      BY ONLY <3>1, <3>2, <1>3, <1>11
  <2>2. ~First(c[n]) /\ ~Guard(c[n])
    BY <1>2 DEF First, Guard
  <2>3. c[n].kind \notin {"cfun", "close", "caught", "handler"}
    BY <1>2
  <2>4. m <= Len(G[t]) /\ x <= m
    BY ONLY <1>3, <1>4, <1>5, <1>6, <1>8
  <2> QED
    BY ONLY <2>1, <2>2, <2>3, <2>4 DEF Fit
<1>15. \A p \in 1 .. m - 1 :
        Held(G[t][p]) \/ (p < l /\ (Held(F[t][p]) => Held(G[t][p])))
  <2> SUFFICES ASSUME NEW p \in 1 .. m - 1
               PROVE  Held(G[t][p]) \/ (p < l /\ G[t][p] = F[t][p])
    OBVIOUS
  <2>1. (p < l /\ p \in 1 .. l) \/ p = l \/ p \in l + 1 .. m
    <3>1. l \in Nat /\ m \in Nat
      BY <1>4, <1>5
    <3> QED
      BY ONLY <3>1, p \in 1 .. m - 1
  <2>2. G[t][l].lua
    BY <1>3, <1>9, <1>11
  <2> QED
    BY ONLY <2>1, <2>2, <1>3 DEF Held
<1>16. \A q \in 1 .. x : G[t][q] = F[t][q]
  BY <1>3, <1>11
<1>17. c[n].kind \in {"exec", "cfun", "unroll"} /\ x <= m /\ x < m
  BY <1>2, <1>3, <1>4, <1>5, <1>6, <1>7
<1>18. MayReshape(c, F, h, t, G)
  BY ONLY <1>2, <1>3, <1>8, <1>13, <1>14, <1>15, <1>16, <1>17 DEF MayReshape
<1> QED
  BY ONLY <1>18, <1>1, Ready(c, F, s, a, b, "none"), Reshape
(* The C stack is cut to n activations, the last one of the same thread    *)
(* as that at the top, which loses the frames that are not theirs.         *)
LEMMA CutBack ==
  ASSUME NEW c, NEW F, NEW s, NEW a, NEW b, NEW e, NEW h,
         Ready(c, F, s, a, b, e), Stack(c, F, h), Finishable(c, F, h, s),
         NEW n \in Nat, n > 0, n < Len(c), NEW t, c[n].thread = t, c[Len(c)].thread = t,
         Call(c[n]) => c[n + 1].kind # "handler",
         NEW G, Shrunk(F, t, h[n], G),
         NEW a2, NEW b2, Restored(a, b, t, CCalls(c, n), NonYields(c, t, n), a2, b2)
  PROVE  Ready(SubSeq(c, 1, n), G, s, a2, b2, "none")
<1> DEFINE d == SubSeq(c, 1, n)
           l == Len(c)
           m == h[n]
<1>1. /\ n > 0 /\ n < l /\ c[n].thread = t /\ c[l].thread = t
      /\ Call(c[n]) => c[n + 1].kind # "handler"
  OBVIOUS
<1>2. /\ l \in Nat /\ c \in Seq(Acts) /\ F \in [Thread -> Seq(FrameSet)] /\ h \in [Nat -> Nat]
      /\ Segments(c, h) /\ Framed(c, h)
  BY StackShape
<1>3. Counted(c, a, b, e) /\ (\A u \in Thread : Chain(F[u])) /\ t \in Thread
  <2>1. t \in Thread
    BY <1>1, ReadyTypes
  <2> QED
    BY <2>1 DEF Ready
<1>4. n \in 1 .. Len(c) /\ l = Len(c) /\ Len(F[t]) \in Nat
  <2>1. F[t] \in Seq(FrameSet)
    BY <1>2, <1>3
  <2>2. Len(F[t]) \in Nat
    BY <2>1
  <2>3. n \in 1 .. Len(c)
    BY <1>2
  <2> QED
    BY <2>2, <2>3
<1>5. Lowest(n, c, d)
  BY <1>4, SameStack
<1>6. m \in Nat /\ m <= Len(F[t])
  BY <1>1, <1>4, HeightsFit
<1>7. m \in 0 .. Len(F[t]) /\ m = h[n]
  BY <1>4, <1>6
<1>8. Shrunk(F, t, m, G)
  OBVIOUS
<1>9. d \in Seq(Acts) /\ Len(d) = n /\ \A i \in 1 .. n : d[i] = c[i]
  BY <1>5 DEF Lowest
<1>10. \A i \in n .. l : c[i].thread = t
  <2>1. n \in 1 .. Len(c) /\ l \in 1 .. Len(c) /\ n <= l
    BY <1>1, <1>2, SMTT(30)
  <2> QED
    BY ONLY <2>1, <1>1, <1>2 DEF Segments
<1> HIDE DEF d, l, m
<1>11. /\ G \in [Thread -> Seq(FrameSet)] /\ (\A u \in Thread : u # t => G[u] = F[u])
       /\ G[t] \in Seq(FrameSet) /\ Len(G[t]) = m /\ Chain(G[t])
       /\ \A q \in 1 .. m : G[t][q] = F[t][q]
  <2>1. G \in [Thread -> Seq(FrameSet)] /\ (\A u \in Thread : u # t => G[u] = F[u])
    BY <1>8 DEF Shrunk
  <2>2. F \in [Thread -> Seq(FrameSet)] /\ t \in Thread /\ Chain(F[t]) /\ m \in 0 .. Len(F[t])
    BY <1>2, <1>3, <1>7
  <2> QED
    BY ONLY <2>1, <2>2, <1>8, ShrunkFrames, SMTT(30)
<1>12. Stack(d, G, h)
  <2>1. \A q \in m + 1 .. Len(G[t]) : Above(c, n, t, G[t][q])
    BY <1>6, <1>11
  <2>2. Regrown(c, F, h, n, t, G)
    BY <1>6, <1>7, <1>11, <2>1 DEF Regrown
  <2>3. Regrown(c, F, h, n, c[n].thread, G)
    BY ONLY <2>2, <1>1
  <2> QED
    BY ONLY <1>4, <1>5, <2>3, Stack(c, F, h), CutStack
<1>13. Counted(d, a2, b2, "none")
  <2>1. /\ a2 \in [Thread -> Nat] /\ b2 \in [Thread -> Nat]
        /\ \A u \in Thread : u # t => a2[u] = a[u] /\ b2[u] = b[u]
        /\ a2[t] = CCalls(c, n) /\ b2[t] = NonYields(c, t, n)
    BY DEF Restored
  <2>2. \A i \in n + 1 .. Len(c) : c[i].thread = t
    <3>1. \A i \in n + 1 .. l : i \in n .. l
      BY <1>2
    <3> QED
      BY <3>1, <1>10, <1>4
  <2>3. CCalls(c, n) < ErrorCCalls
    <3>1. n \in 1 .. Len(c) /\ n # Len(c)
      BY <1>1, <1>2, <1>4
    <3> QED
      BY <1>3, <3>1 DEF Counted
  <2>4. t = c[Len(c)].thread
    BY <1>1, <1>4
  <2>5. IF c[n].thread = t THEN a2[t] = CCalls(c, n) /\ b2[t] = NonYields(c, t, n)
        ELSE First(c[n + 1]) /\ a2[t] <= ErrorCCalls /\ b2[t] <= ErrorCCalls + 1
    BY ONLY <2>1, <1>1
  <2>6. n \in 1 .. Len(c) /\ Counted(c, a, b, e)
    BY <1>3, <1>4
  <2> QED
    BY ONLY <2>1, <2>2, <2>3, <2>4, <2>5, <2>6, <1>5, Stack(c, F, h), CountedCut
<1>14. Finishable(d, G, h, s)
  <2>1. ASSUME NEW i \in 2 .. Len(c), NonYieldable(c[i]), c[i].thread = t => h[i - 1] < m
        PROVE  i \in 2 .. Len(d) /\ d[i] = c[i] /\ h[i - 1] = h[i - 1]
    <3>1. i <= n
      <4> SUFFICES ASSUME n < i PROVE FALSE
        BY <1>2
      <4>1. /\ i \in n .. l /\ i - 1 \in n .. l /\ n <= i - 1
            /\ n \in 1 .. Len(c) /\ i - 1 \in 1 .. Len(c)
        BY <1>2, <1>4
      <4>2. c[i].thread = t /\ c[i - 1].thread = t
        BY <4>1, <1>10
      <4>3. h[n] <= h[i - 1]
        BY <4>1, <4>2, <1>1, <1>2 DEF Segments
      <4>4. h[i - 1] \in Nat /\ h[n] \in Nat
        BY <1>2, <4>1
      <4> QED
        BY <2>1, <4>2, <4>3, <4>4, <1>7
    <3> QED
      BY <3>1, <1>9
  <2>2. \A u \in Thread : u # t => G[u] = F[u] /\ (s[u] # "err" => s[u] # "err")
    BY <1>11
  <2>3. ASSUME NEW p \in 1 .. Len(G[t]) - 1
        PROVE  p \in 1 .. Len(F[t]) - 1 /\ p < m /\ (Held(F[t][p]) => Held(G[t][p]))
    <3>1. p \in 1 .. Len(F[t]) - 1 /\ p < m /\ p \in 1 .. m
      <4>1. Len(G[t]) = m /\ m \in Nat /\ Len(F[t]) \in Nat /\ m <= Len(F[t])
        BY <1>4, <1>6, <1>11
      <4>2. p \in 1 .. m - 1
        BY <4>1
      <4> QED
        BY ONLY <4>1, <4>2
    <3> QED
      BY <3>1, <1>11
  <2>5. \A i \in 2 .. Len(c) : NonYieldable(c[i]) /\ (c[i].thread = t => h[i - 1] < m) =>
           i \in 2 .. Len(d) /\ d[i] = c[i]
    BY ONLY <2>1
  <2>6. ASSUME NEW u \in Thread, s[u] # "err", NEW p \in 1 .. Len(G[u]) - 1, ~Held(G[u][p])
        PROVE  \E i \in 2 .. Len(d) : d[i].thread = u /\ NonYieldable(d[i]) /\ h[i - 1] = p
    <3>1. p \in 1 .. Len(F[u]) - 1 /\ ~Held(F[u][p]) /\ (u = t => p < m)
      <4>1. CASE u = t
        BY <4>1, <2>3, <2>6
      <4>2. CASE u # t
        BY <4>2, <2>2, <2>6
      <4> QED
        BY <4>1, <4>2
    <3>2. PICK i \in 2 .. Len(c) : c[i].thread = u /\ NonYieldable(c[i]) /\ h[i - 1] = p
      BY <2>6, <3>1 DEF Finishable
    <3>3. c[i].thread = t => h[i - 1] < m
      BY <3>1, <3>2
    <3>4. i \in 2 .. Len(d) /\ d[i] = c[i]
      BY ONLY <2>5, <3>2, <3>3
    <3> QED
      BY ONLY <3>2, <3>4
  <2> QED
    BY ONLY <2>6 DEF Finishable
<1>15. Tip(d, G, h, "none")
  <2>1. Call(c[n]) => h[n - 1] < h[n]
    <3> DEFINE i == n + 1
    <3>1. i \in 2 .. Len(c) /\ i - 1 = n /\ i - 2 = n - 1
      BY <1>1, <1>2, <1>4
    <3>2. Call(c[n]) => c[i].kind # "handler"
      BY <1>1
    <3>3. \A j \in 2 .. Len(c) : Call(c[j - 1]) /\ c[j].kind # "handler" => h[j - 2] < h[j - 1]
      BY <1>2 DEF Framed
    <3> HIDE DEF i
    <3>4. Call(c[i - 1]) /\ c[i].kind # "handler" => h[i - 2] < h[i - 1]
      BY ONLY <3>1, <3>3
    <3> QED
      BY ONLY <3>1, <3>2, <3>4
  <2>2. d[n] = c[n] /\ Len(d) = n
    BY <1>4, <1>9
  <2> QED
    BY ONLY <2>1, <2>2, <1>1, <1>7, <1>11 DEF Tip
<1>16. \A u \in Thread : Chain(G[u])
  BY <1>3, <1>11
<1> QED
  BY <1>2, <1>12, <1>13, <1>14, <1>15, <1>16 DEF Ready, d
(* What is at the top has no frames and is not counted.                    *)
Plain(c) ==
  /\ c[Len(c)].kind \in {"close", "caught"} \/ Guard(c[Len(c)])
  /\ c[Len(c)].kind = "close" => c[Len(c) - 1].kind # "unroll"

(* It may go away when nothing but the frames below is left to run.        *)
LEMMA PopPlain ==
  ASSUME NEW c, NEW F, NEW s, NEW a, NEW b, NEW e, Ready(c, F, s, a, b, e), Plain(c)
  PROVE  Ready(SubSeq(c, 1, Len(c) - 1), F, s, a, b, "none")
<1>1. PICK h :
        /\ h \in [Nat -> Nat]
        /\ Stack(c, F, h) /\ Tip(c, F, h, e) /\ Finishable(c, F, h, s)
  BY DEF Ready
<1> DEFINE n == Len(c)
           k == n - 1
           t == c[n].thread
           m == Len(F[t])
<1>2. /\ c[n].kind \in {"close", "caught"} \/ Guard(c[n])
      /\ c[n].kind = "close" => c[k].kind # "unroll"
  BY DEF Plain
<1>3. ~First(c[n]) /\ ~IsCounted(c[n]) /\ c[n].kind # "handler" /\ ~NonYieldable(c[n])
  BY <1>2 DEF First, Guard, IsCounted, Call, NonYieldable
<1>4. /\ n \in Nat /\ k \in Nat /\ k > 0 /\ c[k].thread = t
      /\ Fit(F[t], c[k], c[n], h[k], m) /\ h[k] \in Nat /\ h[n] = m
  BY <1>1, <1>3, UnderNext
<1>5. h[k] = m
  <2> HIDE DEF n, k, t, m
  <2> QED
    BY <1>2, <1>4 DEF Fit
<1>6. /\ F \in [Thread -> Seq(FrameSet)] /\ t \in Thread /\ F[t] \in Seq(FrameSet) /\ m \in Nat
      /\ a \in [Thread -> Nat] /\ b \in [Thread -> Nat]
      /\ a[t] = CCalls(c, n) /\ b[t] = NonYields(c, t, n)
  BY ReadyTypes
<1>7. Shrunk(F, t, m, F)
  <2>1. F[t] = SubSeq(F[t], 1, Len(F[t]))
    BY <1>6
  <2> QED
    BY <1>6, <2>1 DEF Shrunk
<1>8. k + 1 = n /\ k < n
  BY <1>4
<1>9. n = Len(c) /\ t = c[n].thread
  OBVIOUS
<1> HIDE DEF n, k, t, m
<1>10. a[t] = CCalls(c, k) /\ b[t] = NonYields(c, t, k)
  <2>1. CCalls(c, k + 1) = CCalls(c, k) + CountOf(c[k + 1])
        /\ NonYields(c, t, k + 1) = NonYields(c, t, k) + NonYieldOf(t, c[k + 1])
    BY ONLY <1>4, CountStep
  <2>2. CountOf(c[n]) = 0 /\ NonYieldOf(t, c[n]) = 0
    BY <1>3 DEF CountOf, NonYieldOf
  <2>3. CCalls(c, k) \in Nat /\ NonYields(c, t, k) \in Nat
    BY <1>4, CountsAreNumbers
  <2>4. CCalls(c, n) = CCalls(c, k) + 0 /\ NonYields(c, t, n) = NonYields(c, t, k) + 0
    BY ONLY <2>1, <2>2, <1>8
  <2> QED
    BY ONLY <2>3, <2>4, <1>6
<1>11. Restored(a, b, t, CCalls(c, k), NonYields(c, t, k), a, b)
  BY <1>6, <1>10 DEF Restored
<1>12. Shrunk(F, t, h[k], F)
  BY <1>5, <1>7
<1>13. Call(c[k]) => c[k + 1].kind # "handler"
  BY <1>3, <1>8
<1>14. k < Len(c) /\ c[Len(c)].thread = t
  BY <1>8, <1>9
<1>15. Ready(SubSeq(c, 1, k), F, s, a, b, "none")
  BY ONLY <1>1, <1>4, <1>11, <1>12, <1>13, <1>14, Ready(c, F, s, a, b, e), CutBack
<1> QED
  BY <1>15 DEF k, n
(* The counts of the thread t without the activation r.                    *)
Discounted(a, b, t, r, a2, b2) ==
  /\ a2 \in [Thread -> Nat] /\ b2 \in [Thread -> Nat]
  /\ \A u \in Thread : u # t => a2[u] = a[u] /\ b2[u] = b[u]
  /\ a2[t] = a[t] - CountOf(r)
  /\ b2[t] = b[t] - NonYieldOf(t, r)

(* The activation at the top goes away, and its frames with it.            *)
LEMMA PopTop ==
  ASSUME NEW c, NEW F, NEW s, NEW a, NEW b, NEW e, NEW h, Ready(c, F, s, a, b, e),
         Stack(c, F, h), Tip(c, F, h, e), Finishable(c, F, h, s),
         ~First(c[Len(c)]), c[Len(c)].kind # "handler",
         NEW t, c[Len(c)].thread = t, NEW G, Shrunk(F, t, h[Len(c) - 1], G),
         NEW a2, NEW b2, Discounted(a, b, t, c[Len(c)], a2, b2)
  PROVE  Ready(SubSeq(c, 1, Len(c) - 1), G, s, a2, b2, "none")
<1> DEFINE n == Len(c)
           k == n - 1
<1>1. c[n].thread = t /\ c[n].kind # "handler"
  OBVIOUS
<1>4. n \in Nat /\ k \in Nat /\ k > 0 /\ c[k].thread = t
  BY UnderNext
<1>6. /\ t \in Thread
      /\ a[t] = CCalls(c, n) /\ b[t] = NonYields(c, t, n)
  BY <1>1, ReadyTypes
<1>7. /\ a2 \in [Thread -> Nat] /\ b2 \in [Thread -> Nat]
      /\ \A u \in Thread : u # t => a2[u] = a[u] /\ b2[u] = b[u]
      /\ a2[t] = a[t] - CountOf(c[n])
      /\ b2[t] = b[t] - NonYieldOf(t, c[n])
  BY DEF Discounted
<1>8. k + 1 = n /\ k < n
  BY <1>4
<1>9. n = Len(c)
  OBVIOUS
<1>12. Shrunk(F, t, h[k], G)
  OBVIOUS
<1> HIDE DEF n, k
<1>10. a2[t] = CCalls(c, k) /\ b2[t] = NonYields(c, t, k)
  <2>1. CCalls(c, k + 1) = CCalls(c, k) + CountOf(c[k + 1])
        /\ NonYields(c, t, k + 1) = NonYields(c, t, k) + NonYieldOf(t, c[k + 1])
    BY ONLY <1>4, CountStep
  <2>2. CountOf(c[n]) \in Nat /\ NonYieldOf(t, c[n]) \in Nat
    BY DEF CountOf, NonYieldOf
  <2>3. CCalls(c, k) \in Nat /\ NonYields(c, t, k) \in Nat
    BY <1>4, CountsAreNumbers
  <2>4. a[t] = CCalls(c, k) + CountOf(c[n]) /\ b[t] = NonYields(c, t, k) + NonYieldOf(t, c[n])
    BY ONLY <2>1, <1>6, <1>8
  <2> QED
    BY ONLY <2>2, <2>3, <2>4, <1>7
<1>11. Restored(a, b, t, CCalls(c, k), NonYields(c, t, k), a2, b2)
  BY <1>7, <1>10 DEF Restored
<1>13. Call(c[k]) => c[k + 1].kind # "handler"
  BY <1>1, <1>8
<1>14. k < Len(c) /\ c[Len(c)].thread = t
  BY <1>1, <1>8, <1>9
<1>15. Ready(SubSeq(c, 1, k), G, s, a2, b2, "none")
  BY ONLY <1>4, <1>11, <1>12, <1>13, <1>14, Stack(c, F, h), Finishable(c, F, h, s),
          Ready(c, F, s, a, b, e), CutBack
<1> QED
  BY <1>15 DEF k, n

(* A function that C code called returns.                                  *)
LEMMA PopCall ==
  ASSUME NEW c, NEW F, NEW s, NEW a, NEW b, Ready(c, F, s, a, b, "none"),
         NEW t, c[Len(c)].thread = t,
         \/ c[Len(c)].kind = "exec" /\ F[t][Len(F[t])].fresh
         \/ c[Len(c)].kind = "cfun",
         NEW G, Shrunk(F, t, Len(F[t]) - 1, G),
         NEW a2, NEW b2, Discounted(a, b, t, c[Len(c)], a2, b2)
  PROVE  Ready(SubSeq(c, 1, Len(c) - 1), G, s, a2, b2, "none")
<1>1. PICK h :
        /\ h \in [Nat -> Nat]
        /\ Stack(c, F, h) /\ Tip(c, F, h, "none") /\ Finishable(c, F, h, s)
  BY DEF Ready
<1> DEFINE x == h[Len(c) - 1]
           m == Len(F[t])
           r == c[Len(c)]
<1>2. r.thread = t /\ ((r.kind = "exec" /\ F[t][m].fresh) \/ r.kind = "cfun")
  OBVIOUS
<1>3. ~First(r) /\ r.kind # "handler" /\ Call(r)
  BY <1>2 DEF First, Call
<1>4. x \in Nat /\ x <= m /\ Fit(F[t], c[Len(c) - 1], r, x, m) /\ h[Len(c)] = m
  BY <1>1, <1>2, <1>3, UnderNext
<1>5. h[Len(c) - 1] < h[Len(c)]
  BY <1>1, <1>3 DEF Tip
<1>6. t \in Thread /\ m \in Nat
  BY ReadyTypes
<1>7. x < m
  BY <1>4, <1>5
<1>8. x = h[Len(c) - 1]
  OBVIOUS
<1>9. Shrunk(F, t, m - 1, G)
  OBVIOUS
<1>r. r = c[Len(c)]
  OBVIOUS
<1> HIDE DEF x, m, r
<1>10. x = m - 1
  <2>1. CASE r.kind = "cfun"
    <3>1. m <= x + 1
      BY <2>1, <1>4 DEF Fit
    <3> QED
      BY ONLY <3>1, <1>4, <1>6, <1>7
  <2>2. CASE r.kind = "exec" /\ F[t][m].fresh
    <3>1. \A q \in x + 1 .. m : F[t][q].fresh <=> q = x + 1
      BY <2>2, <1>4 DEF Fit
    <3>2. m \in x + 1 .. m
      BY ONLY <1>4, <1>6, <1>7
    <3>3. m = x + 1
      BY ONLY <2>2, <3>1, <3>2
    <3> QED
      BY ONLY <3>3, <1>4, <1>6
  <2> QED
    BY <2>1, <2>2, <1>2
<1>11. Shrunk(F, t, h[Len(c) - 1], G)
  BY ONLY <1>8, <1>9, <1>10
<1>12. ~First(c[Len(c)]) /\ c[Len(c)].kind # "handler" /\ c[Len(c)].thread = t
  BY <1>2, <1>3, <1>r
<1> QED
  BY ONLY <1>1, <1>11, <1>12, Ready(c, F, s, a, b, "none"),
          Discounted(a, b, t, c[Len(c)], a2, b2), PopTop

(* A function interrupted by a yield has closed its variables, and ends.   *)
LEMMA PopInterrupted ==
  ASSUME NEW c, NEW F, NEW s, NEW a, NEW b, Ready(c, F, s, a, b, "none"),
         NEW t, c[Len(c)].thread = t,
         c[Len(c)].kind = "close", c[Len(c) - 1].kind = "unroll",
         NEW G, Shrunk(F, t, Len(F[t]) - 1, G)
  PROVE  Ready(SubSeq(c, 1, Len(c) - 1), G, s, a, b, "none")
<1>1. PICK h :
        /\ h \in [Nat -> Nat]
        /\ Stack(c, F, h) /\ Tip(c, F, h, "none") /\ Finishable(c, F, h, s)
  BY DEF Ready
<1> DEFINE x == h[Len(c) - 1]
           m == Len(F[t])
           r == c[Len(c)]
           p == c[Len(c) - 1]
<1>2. r.thread = t /\ r.kind = "close" /\ p.kind = "unroll"
  OBVIOUS
<1>3. ~First(r) /\ r.kind # "handler"
  BY <1>2 DEF First
<1>4. x \in Nat /\ x <= m /\ Fit(F[t], p, r, x, m)
  BY <1>1, <1>2, <1>3, UnderNext
<1>6. t \in Thread /\ m \in Nat /\ a \in [Thread -> Nat] /\ b \in [Thread -> Nat]
  BY ReadyTypes
<1>8. x = h[Len(c) - 1]
  OBVIOUS
<1>9. Shrunk(F, t, m - 1, G)
  OBVIOUS
<1>r. r = c[Len(c)]
  OBVIOUS
<1> HIDE DEF x, m, r, p
<1>10. x = m - 1
  <2>1. m = x + 1
    BY <1>2, <1>4 DEF Fit
  <2> QED
    BY ONLY <2>1, <1>4, <1>6
<1>11. Shrunk(F, t, h[Len(c) - 1], G)
  BY ONLY <1>8, <1>9, <1>10
<1>12. ~First(c[Len(c)]) /\ c[Len(c)].kind # "handler" /\ c[Len(c)].thread = t
  BY <1>2, <1>3, <1>r
<1>13. Discounted(a, b, t, c[Len(c)], a, b)
  <2>1. CountOf(r) = 0 /\ NonYieldOf(t, r) = 0
    BY <1>2 DEF CountOf, NonYieldOf, IsCounted, NonYieldable, Call
  <2>2. a[t] \in Nat /\ b[t] \in Nat
    BY <1>6
  <2>3. a[t] = a[t] - CountOf(r) /\ b[t] = b[t] - NonYieldOf(t, r)
    BY ONLY <2>1, <2>2
  <2> QED
    BY ONLY <2>3, <1>6, <1>r DEF Discounted
<1> QED
  BY ONLY <1>1, <1>11, <1>12, <1>13, Ready(c, F, s, a, b, "none"), PopTop
(* The frames and the status of a thread t that is not on the C stack c    *)
(* become those in G and s2.                                               *)
Elsewhere(c, F, s, t, G, s2) ==
  /\ \A i \in 1 .. Len(c) : c[i].thread # t
  /\ G \in [Thread -> Seq(FrameSet)] /\ Chain(G[t])
  /\ \A u \in Thread : u # t => G[u] = F[u] /\ s2[u] = s[u]
  /\ s2[t] # "err" => \A p \in 1 .. Len(G[t]) - 1 : Held(G[t][p])

(* What happens to a thread that is not on the C stack leaves it right.    *)
LEMMA OffStack ==
  ASSUME NEW c, NEW F, NEW s, NEW a, NEW b, NEW e, Ready(c, F, s, a, b, e),
         NEW t, NEW G, NEW s2, Elsewhere(c, F, s, t, G, s2)
  PROVE  Ready(c, G, s2, a, b, e)
<1>1. PICK h :
        /\ h \in [Nat -> Nat]
        /\ Stack(c, F, h) /\ Tip(c, F, h, e) /\ Finishable(c, F, h, s)
  BY DEF Ready
<1>2. Counted(c, a, b, e) /\ (\A u \in Thread : Chain(F[u]))
  BY DEF Ready
<1>3. /\ \A i \in 1 .. Len(c) : c[i].thread # t
      /\ G \in [Thread -> Seq(FrameSet)] /\ Chain(G[t])
      /\ \A u \in Thread : u # t => G[u] = F[u] /\ s2[u] = s[u]
      /\ s2[t] # "err" => \A p \in 1 .. Len(G[t]) - 1 : Held(G[t][p])
  BY DEF Elsewhere
<1>4. /\ c \in Seq(Acts) /\ Len(c) \in Nat /\ Len(c) > 0
      /\ \A i \in 1 .. Len(c) : c[i] \in Acts /\ c[i].thread \in Thread
      /\ h \in [Nat -> Nat]
      /\ c[1].kind = "main" /\ c[1].thread = MainThread /\ h[1] = 0
      /\ Piled(c) /\ Fits(c, F, h) /\ Starts(c, F, h) /\ Framed(c, h)
      /\ Segments(c, h) /\ Caught(c) /\ Inside(c, F, h)
  BY <1>1, StackShape
<1>5. \A i \in 1 .. Len(c) : G[c[i].thread] = F[c[i].thread]
  BY <1>3, <1>4
<1>6. \A i \in 2 .. Len(c) : i \in 1 .. Len(c) /\ i - 1 \in 1 .. Len(c)
  BY <1>4
<1>7. Len(c) \in 1 .. Len(c)
  BY <1>4
<1>8. Stack(c, G, h)
  <2>1. Shapes(c, G, h)
    BY <1>3, <1>4 DEF Shapes
  <2>2. Fits(c, G, h)
    BY ONLY <1>4, <1>5, <1>6 DEF Fits
  <2>3. Starts(c, G, h)
    BY ONLY <1>4, <1>5, <1>6 DEF Starts
  <2>4. Inside(c, G, h)
    BY ONLY <1>4, <1>5, <1>6 DEF Inside
  <2> QED
    BY ONLY <2>1, <2>2, <2>3, <2>4, <1>4 DEF Stack
<1>9. Tip(c, G, h, e)
  BY ONLY <1>1, <1>5, <1>7 DEF Tip
<1>10. Finishable(c, G, h, s2)
  <2>1. ASSUME NEW u \in Thread, s2[u] # "err", NEW p \in 1 .. Len(G[u]) - 1, ~Held(G[u][p])
        PROVE  \E i \in 2 .. Len(c) : c[i].thread = u /\ NonYieldable(c[i]) /\ h[i - 1] = p
    <3>1. u # t
      BY <2>1, <1>3
    <3>2. G[u] = F[u] /\ s2[u] = s[u]
      BY <3>1, <1>3
    <3>3. s[u] # "err" /\ p \in 1 .. Len(F[u]) - 1 /\ ~Held(F[u][p])
      BY <3>2, <2>1
    <3> QED
      BY ONLY <3>3, <1>1, u \in Thread DEF Finishable
  <2> QED
    BY ONLY <2>1 DEF Finishable
<1>11. \A u \in Thread : Chain(G[u])
  BY <1>2, <1>3
<1> QED
  BY <1>1, <1>2, <1>8, <1>9, <1>10, <1>11 DEF Ready

(* The frames of a coroutine that does not run can all be continued.       *)
LEMMA OffStackHeld ==
  ASSUME NEW c, NEW F, NEW s, NEW a, NEW b, NEW e, Ready(c, F, s, a, b, e),
         NEW t \in Thread, \A i \in 1 .. Len(c) : c[i].thread # t, s[t] # "err"
  PROVE  \A p \in 1 .. Len(F[t]) - 1 : Held(F[t][p])
<1>1. PICK h :
        /\ h \in [Nat -> Nat]
        /\ Stack(c, F, h) /\ Tip(c, F, h, e) /\ Finishable(c, F, h, s)
  BY DEF Ready
<1>2. Len(c) \in Nat
  BY ReadyTypes
<1>3. \A i \in 2 .. Len(c) : c[i].thread # t
  BY <1>2
<1> QED
  BY <1>1, <1>3 DEF Finishable

(* luaE_resetthread of a thread without frames.                            *)
LEMMA PushReset ==
  ASSUME NEW c, NEW F, NEW s, NEW a, NEW b, Ready(c, F, s, a, b, "none"),
         c[Len(c)].kind = "cfun",
         NEW r \in Acts, r.kind = "reset", r.thread # MainThread, F[r.thread] = <<>>,
         \A i \in 1 .. Len(c) : c[i].thread # r.thread,
         NEW a2, NEW b2, Restored(a, b, r.thread, a[c[Len(c)].thread], 0, a2, b2)
  PROVE  Ready(Append(c, r), F, s, a2, b2, "none")
<1>1. PICK h :
        /\ h \in [Nat -> Nat]
        /\ Stack(c, F, h) /\ Tip(c, F, h, "none") /\ Finishable(c, F, h, s)
  BY DEF Ready
<1>2. Counted(c, a, b, "none") /\ (\A u \in Thread : Chain(F[u]))
  BY DEF Ready
<1>3. c \in Seq(Acts) /\ Len(c) \in Nat /\ Len(c) > 0 /\ CCalls(c, Len(c)) < ErrorCCalls
  BY ReadyTypes
<1>4. First(r) /\ ~Call(r) /\ ~Guard(r) /\ ~NonYieldable(r)
  BY DEF First, Call, Guard, NonYieldable
<1>6. Counted(Append(c, r), a2, b2, "none")
  <2>1. r.kind = "try" => r.nC = a[c[Len(c)].thread] + 1 /\ r.nny = 0
    OBVIOUS
  <2> QED
    BY ONLY <1>1, <1>2, <1>3, <1>4, <2>1, r \in Acts, r.thread # MainThread,
            \A i \in 1 .. Len(c) : c[i].thread # r.thread,
            Restored(a, b, r.thread, a[c[Len(c)].thread], 0, a2, b2), CountedStart
<1>7. Len(F[r.thread]) = 0
  OBVIOUS
<1>8. MayPush(c, F, h, r, 0)
  <2>1. Kinds(c[Len(c)], r)
    BY <1>4 DEF Kinds
  <2>2. Fit(F[r.thread], c[Len(c)], r, h[Len(c)], 0)
    BY <1>4, <1>7 DEF Fit
  <2>3. h[Len(c)] = Len(F[c[Len(c)].thread])
        /\ (Call(c[Len(c)]) => h[Len(c) - 1] < h[Len(c)])
    BY <1>1 DEF Tip
  <2> QED
    BY <2>1, <2>2, <2>3, <1>4 DEF MayPush
<1> DEFINE g == [h EXCEPT ![Len(c) + 1] = 0]
<1>9. Stack(Append(c, r), F, g) /\ Finishable(Append(c, r), F, g, s)
  BY <1>1, <1>8, PushStack, FinishablePush
<1>10. g \in [Nat -> Nat] /\ g[Len(c) + 1] = 0
  BY <1>1, <1>3, SMTT(30)
<1>11. Len(Append(c, r)) = Len(c) + 1 /\ Append(c, r)[Len(c) + 1] = r
  BY <1>3
<1> HIDE DEF g
<1>12. Tip(Append(c, r), F, g, "none")
  BY <1>4, <1>7, <1>10, <1>11 DEF Tip
<1> QED
  BY <1>2, <1>6, <1>9, <1>10, <1>12 DEF Ready
(* resume or unroll starts to run a coroutine.                             *)
LEMMA PushUnroll ==
  ASSUME NEW c, NEW F, NEW s, NEW a, NEW b, NEW h,
         Stack(c, F, h), Finishable(c, F, h, s), Counted(c, a, b, "none"),
         \A u \in Thread : Chain(F[u]),
         c[Len(c)].kind = "try", c[Len(c)].of = "resume",
         NEW r \in Acts, r.kind = "unroll", NEW t, r.thread = t, c[Len(c)].thread = t,
         NEW a2, NEW b2, Recounted(a, b, t, r, a2, b2, "none")
  PROVE  Ready(Append(c, r), F, s, a2, b2, "none")
<1> DEFINE n == Len(c)
           p == c[n]
           m == Len(F[t])
           d == Append(c, r)
           g == [h EXCEPT ![n + 1] = m]
<1>1. /\ c \in Seq(Acts) /\ n \in Nat /\ n > 0 /\ h \in [Nat -> Nat]
      /\ F \in [Thread -> Seq(FrameSet)] /\ \A u \in Thread : F[u] \in Seq(FrameSet)
  BY StackShape
<1>2. r.kind = "unroll" /\ r.thread = t /\ t \in Thread
      /\ p.kind = "try" /\ p.of = "resume" /\ p.thread = t
  BY ActFacts
<1>3. ~First(r) /\ ~Call(r) /\ ~Guard(r) /\ ~NonYieldable(r) /\ r.kind # "try"
      /\ ~Call(p) /\ First(p) /\ ~Guard(p)
  BY <1>2 DEF First, Call, Guard, NonYieldable
<1>4. m \in Nat /\ h[n] \in Nat /\ h[n] <= m
  <2>1. F[t] \in Seq(FrameSet)
    BY <1>1, <1>2
  <2>2. n \in 1 .. Len(c)
    BY <1>1
  <2>3. h[n] \in Nat /\ h[n] <= Len(F[c[n].thread])
    BY <2>2, HeightsFit
  <2> QED
    BY <2>1, <2>3, <1>2
<1>5. /\ n + 1 \in Nat /\ g \in [Nat -> Nat] /\ g[n + 1] = m
      /\ Len(d) = n + 1 /\ d[n + 1] = r /\ d \in Seq(Acts)
  <2>1. Len(d) = n + 1 /\ d[n + 1] = r /\ d \in Seq(Acts)
    BY <1>1
  <2>2. n + 1 \in Nat /\ m \in Nat /\ h \in [Nat -> Nat]
    BY <1>1, <1>4, SMTT(30)
  <2>3. g = [h EXCEPT ![n + 1] = m]
    OBVIOUS
  <2> HIDE DEF n, m, g, d
  <2>4. g \in [Nat -> Nat] /\ g[n + 1] = m
    BY ONLY <2>2, <2>3
  <2> QED
    BY ONLY <2>1, <2>2, <2>4
<1>6. p = c[Len(c)] /\ n = Len(c) /\ m = Len(F[t])
  OBVIOUS
<1>7. CCalls(c, Len(c)) < ErrorCCalls
  <2>1. Len(c) \in 1 .. Len(c)
    BY <1>1
  <2> QED
    BY <2>1 DEF Counted
<1> HIDE DEF n, p, m
<1>8. Counted(d, a2, b2, "none")
  <2>1. r.thread = c[Len(c)].thread
    BY <1>2, <1>6
  <2>2. Recounted(a, b, r.thread, r, a2, b2, "none")
    BY <1>2
  <2>3. r.kind = "try" => r.nC = a[r.thread] /\ r.nny = b[r.thread]
    BY <1>3
  <2> QED
    BY ONLY Stack(c, F, h), Counted(c, a, b, "none"), r \in Acts, <1>3, <1>7, <2>1, <2>2, <2>3,
            CountedPush
<1>9. MayPush(c, F, h, r, m)
  <2>1. Kinds(p, r)
    BY ONLY <1>2, <1>3 DEF Kinds
  <2>2. Fit(F[t], p, r, h[n], m)
    BY ONLY <1>2, <1>3, <1>4, <1>6 DEF Fit
  <2> QED
    BY ONLY <2>1, <2>2, <1>2, <1>3, <1>6 DEF MayPush
<1>10. Stack(d, F, g) /\ Finishable(d, F, g, s)
  BY <1>4, <1>6, <1>9, PushStack, FinishablePush
<1> HIDE DEF d, g
<1>11. Tip(d, F, g, "none")
  BY ONLY <1>2, <1>3, <1>5, <1>6 DEF Tip
<1>12. Ready(d, F, s, a2, b2, "none")
  BY ONLY <1>5, <1>8, <1>10, <1>11, \A u \in Thread : Chain(F[u]) DEF Ready
<1> QED
  BY <1>12 DEF d
(* lua_resume calls resume, in protected mode.                             *)
LEMMA PushResume ==
  ASSUME NEW c, NEW F, NEW s, NEW a, NEW b, Ready(c, F, s, a, b, "none"),
         c[Len(c)].kind = "cfun",
         NEW r \in Acts, r.kind = "try", r.of = "resume", NEW t, r.thread = t, t # MainThread,
         \A i \in 1 .. Len(c) : c[i].thread # t,
         r.nC = a[c[Len(c)].thread] + 1, r.nny = 0, r.nC < ErrorCCalls,
         NEW u \in Acts, u.kind = "unroll", u.thread = t,
         NEW a2, NEW b2, Restored(a, b, t, r.nC, 0, a2, b2)
  PROVE  Ready(Append(Append(c, r), u), F, s, a2, b2, "none")
<1>1. PICK h :
        /\ h \in [Nat -> Nat]
        /\ Stack(c, F, h) /\ Tip(c, F, h, "none") /\ Finishable(c, F, h, s)
  BY DEF Ready
<1> DEFINE n == Len(c)
           x == a[c[n].thread]
           d == Append(c, r)
           g == [h EXCEPT ![n + 1] = 0]
           a1 == [a EXCEPT ![t] = x]
           b1 == [b EXCEPT ![t] = 0]
<1>2. Counted(c, a, b, "none") /\ (\A v \in Thread : Chain(F[v]))
  BY DEF Ready
<1>3. /\ c \in Seq(Acts) /\ n \in Nat /\ n > 0 /\ CCalls(c, n) < ErrorCCalls
      /\ a \in [Thread -> Nat] /\ b \in [Thread -> Nat] /\ x \in Nat
      /\ F \in [Thread -> Seq(FrameSet)]
  BY ReadyTypes
<1>4. /\ r.kind = "try" /\ r.of = "resume" /\ r.thread = t /\ t \in Thread
      /\ t # MainThread
      /\ r.nC = x + 1 /\ r.nny = 0 /\ r.nC < ErrorCCalls
      /\ u.kind = "unroll" /\ u.thread = t
      /\ c[n].kind = "cfun"
  BY ActFacts
<1>5. First(r) /\ ~Call(r) /\ ~Guard(r) /\ ~NonYieldable(r) /\ r.kind # "handler"
  BY <1>4 DEF First, Call, Guard, NonYieldable
<1>6. CountOf(u) = 1 /\ NonYieldOf(t, u) = 0
  BY <1>4 DEF CountOf, NonYieldOf, IsCounted, NonYieldable, Call
<1>7. /\ a1 \in [Thread -> Nat] /\ b1 \in [Thread -> Nat] /\ a1[t] = x /\ b1[t] = 0
      /\ \A v \in Thread : v # t => a1[v] = a[v] /\ b1[v] = b[v]
  <2> HIDE DEF x
  <2> QED
    BY <1>3, <1>4
<1>8. Len(d) = n + 1 /\ d[n + 1] = r
  BY <1>3
<1>9. n = Len(c) /\ x = a[c[Len(c)].thread]
  OBVIOUS
<1> HIDE DEF n, x, a1, b1
<1>10. Counted(d, a1, b1, "none")
  <2>1. Restored(a, b, r.thread, a[c[Len(c)].thread], 0, a1, b1)
    BY ONLY <1>4, <1>7, <1>9 DEF Restored
  <2>2. r.kind = "try" => r.nC = a[c[Len(c)].thread] + 1 /\ r.nny = 0
    BY ONLY <1>4, <1>9
  <2>3. CCalls(c, Len(c)) < ErrorCCalls
    BY ONLY <1>3, <1>9
  <2>4. r.thread # MainThread /\ \A i \in 1 .. Len(c) : c[i].thread # r.thread
    BY <1>4
  <2>5. Counted(Append(c, r), a1, b1, "none")
    BY ONLY <1>1, <1>2, <1>5, <2>1, <2>2, <2>3, <2>4, r \in Acts, CountedStart
  <2> QED
    BY ONLY <2>5
<1>11. Len(F[t]) \in Nat
  <2>1. F[t] \in Seq(FrameSet)
    BY <1>3, <1>4
  <2> QED
    BY <2>1
<1>12. MayPush(c, F, h, r, 0)
  <2>1. Kinds(c[Len(c)], r)
    BY ONLY <1>4, <1>5, <1>9 DEF Kinds
  <2>2. Fit(F[r.thread], c[Len(c)], r, h[Len(c)], 0)
    BY ONLY <1>4, <1>5, <1>11 DEF Fit
  <2>3. h[Len(c)] = Len(F[c[Len(c)].thread])
        /\ (Call(c[Len(c)]) => h[Len(c) - 1] < h[Len(c)])
    BY <1>1 DEF Tip
  <2>4. \A j \in 1 .. Len(c) : c[j].thread # r.thread
    BY <1>4
  <2> QED
    BY ONLY <2>1, <2>2, <2>3, <2>4, <1>5 DEF MayPush
<1>13. Stack(d, F, g) /\ Finishable(d, F, g, s)
  <2>1. 0 \in Nat
    OBVIOUS
  <2>2. Stack(Append(c, r), F, [h EXCEPT ![Len(c) + 1] = 0])
    BY ONLY <1>1, <1>12, <2>1, r \in Acts, PushStack
  <2>3. Finishable(Append(c, r), F, [h EXCEPT ![Len(c) + 1] = 0], s)
    BY ONLY <1>1, FinishablePush
  <2> QED
    BY ONLY <2>2, <2>3 DEF d, g, n
<1>14. Recounted(a1, b1, t, u, a2, b2, "none")
  <2>1. /\ a2 \in [Thread -> Nat] /\ b2 \in [Thread -> Nat]
        /\ \A v \in Thread : v # t => a2[v] = a[v] /\ b2[v] = b[v]
        /\ a2[t] = r.nC /\ b2[t] = 0
    BY DEF Restored
  <2> QED
    BY ONLY <2>1, <1>3, <1>4, <1>6, <1>7 DEF Recounted
<1>15. d[Len(d)].kind = "try" /\ d[Len(d)].of = "resume" /\ d[Len(d)].thread = t
  BY ONLY <1>4, <1>8
<1> HIDE DEF d, g
<1>16. Ready(Append(d, u), F, s, a2, b2, "none")
  BY ONLY <1>2, <1>4, <1>10, <1>13, <1>14, <1>15, u \in Acts, PushUnroll
<1> QED
  BY <1>16 DEF d
(* In G the thread t goes on from its frame j, which becomes f.            *)
Unwound(F, t, j, f, G) ==
  /\ G \in [Thread -> Seq(FrameSet)]
  /\ \A u \in Thread : u # t => G[u] = F[u]
  /\ G[t] = Retop(F[t], j, f)
  /\ j \in 1 .. Len(F[t]) /\ F[t][j].ypcall
  /\ f \in FrameSet /\ FrameOK(f)
  /\ f.func = F[t][j].func /\ f.lua = F[t][j].lua /\ f.fresh = F[t][j].fresh

(* The activation n is the resume of the coroutine t.                      *)
Resumed(c, n, t) ==
  /\ n \in 1 .. Len(c) - 1
  /\ c[n].kind = "try" /\ c[n].of = "resume" /\ c[n].thread = t /\ c[Len(c)].thread = t

(* A coroutine has no activation below its resume, which saved the counts. *)
LEMMA ResumeFacts ==
  ASSUME NEW c, NEW F, NEW s, NEW a, NEW b, NEW e, NEW h,
         Ready(c, F, s, a, b, e), Stack(c, F, h), NEW n, NEW t, Resumed(c, n, t)
  PROVE  /\ n \in Nat /\ n > 0 /\ n < Len(c) /\ n \in 1 .. Len(c) /\ n \in 2 .. Len(c)
         /\ \A i \in n .. Len(c) : c[i].thread = t
         /\ \A i \in 1 .. n - 1 : c[i].thread # t
         /\ h[n] = 0 /\ t # MainThread
         /\ c[n].nC = CCalls(c, n) + 1 /\ c[n].nny = NonYields(c, t, n)
         /\ c[n].nC < ErrorCCalls
         /\ CCalls(c, n) \in Nat
<1>1. /\ Len(c) \in Nat /\ Piled(c) /\ Fits(c, F, h) /\ Starts(c, F, h) /\ Segments(c, h)
      /\ c[1].kind = "main" /\ Counted(c, a, b, e)
  BY StackShape DEF Ready
<1>2. /\ n \in 1 .. Len(c) - 1
      /\ c[n].kind = "try" /\ c[n].of = "resume" /\ c[n].thread = t /\ c[Len(c)].thread = t
  BY DEF Resumed
<1>3. n # 1
  BY <1>1, <1>2
<1>4. n \in Nat /\ n > 0 /\ n < Len(c) /\ n \in 1 .. Len(c) /\ n \in 2 .. Len(c)
      /\ Len(c) \in 1 .. Len(c) /\ n <= Len(c)
  <2>1. Len(c) \in Nat
    BY <1>1
  <2> QED
    BY ONLY <2>1, <1>2, <1>3
<1>5. First(c[n])
  BY <1>2 DEF First
<1>6. \A i \in 1 .. n - 1 : c[i].thread # t
  BY ONLY <1>1, <1>2, <1>4, <1>5 DEF Starts
<1>7. \A i \in n .. Len(c) : c[i].thread = t
  BY ONLY <1>1, <1>2, <1>4 DEF Segments
<1>8. h[n] = 0
  BY ONLY <1>1, <1>4, <1>5 DEF Fits, Fit
<1>9. Kinds(c[n - 1], c[n])
  BY ONLY <1>1, <1>4 DEF Piled
<1>10. t # MainThread /\ c[n].nC < ErrorCCalls
  BY ONLY <1>2, <1>5, <1>9 DEF Kinds
<1>11. c[n].nC = CCalls(c, n) + ResumeOf(c[n]) /\ c[n].nny = NonYields(c, c[n].thread, n)
  BY ONLY <1>1, <1>2, <1>4 DEF Counted
<1>12. ResumeOf(c[n]) = 1
  BY ONLY <1>2 DEF ResumeOf
<1>13. c[n].nC = CCalls(c, n) + 1 /\ c[n].nny = NonYields(c, t, n)
  BY ONLY <1>2, <1>11, <1>12
<1>14. CCalls(c, n) \in Nat
  BY <1>4, CountsAreNumbers
<1> QED
  BY ONLY <1>4, <1>6, <1>7, <1>8, <1>10, <1>13, <1>14

(* recover: an error goes on as that of a lua_pcallk.                      *)
LEMMA Recovered ==
  ASSUME NEW c, NEW F, NEW s, NEW a, NEW b, NEW e, Ready(c, F, s, a, b, e),
         NEW n, NEW t, Resumed(c, n, t),
         NEW u \in Acts, u.kind = "unroll", u.thread = t,
         NEW j, NEW f, NEW G, Unwound(F, t, j, f, G),
         NEW a2, NEW b2, Restored(a, b, t, c[n].nC, c[n].nny, a2, b2)
  PROVE  Ready(Append(SubSeq(c, 1, n), u), G, s, a2, b2, "none")
<1>1. PICK h :
        /\ h \in [Nat -> Nat]
        /\ Stack(c, F, h) /\ Tip(c, F, h, e) /\ Finishable(c, F, h, s)
  BY DEF Ready
<1> DEFINE d == SubSeq(c, 1, n)
           x == CCalls(c, n)
           y == NonYields(c, t, n)
           a1 == [a EXCEPT ![t] = x]
           b1 == [b EXCEPT ![t] = y]
<1>2. /\ Counted(c, a, b, e) /\ (\A v \in Thread : Chain(F[v]))
      /\ Inside(c, F, h) /\ Len(c) \in Nat
  BY <1>1, StackShape DEF Ready
<1>3. /\ n \in Nat /\ n > 0 /\ n < Len(c) /\ n \in 1 .. Len(c) /\ n \in 2 .. Len(c)
      /\ \A i \in n .. Len(c) : c[i].thread = t
      /\ \A i \in 1 .. n - 1 : c[i].thread # t
      /\ h[n] = 0 /\ t # MainThread
      /\ c[n].nC = x + 1 /\ c[n].nny = y
      /\ c[n].nC < ErrorCCalls /\ x \in Nat
  <2>1. Stack(c, F, h)
    BY <1>1
  <2> HIDE DEF d, a1, b1
  <2> QED
    BY ONLY <2>1, Ready(c, F, s, a, b, e), Resumed(c, n, t), ResumeFacts
<1>4. c[n].kind = "try" /\ c[n].of = "resume" /\ c[n].thread = t /\ c[Len(c)].thread = t
  BY DEF Resumed
<1>5. /\ F \in [Thread -> Seq(FrameSet)] /\ t \in Thread
      /\ a \in [Thread -> Nat] /\ b \in [Thread -> Nat] /\ F[t] \in Seq(FrameSet)
      /\ c \in Seq(Acts)
  BY <1>4, ReadyTypes
<1>6. /\ G \in [Thread -> Seq(FrameSet)] /\ (\A v \in Thread : v # t => G[v] = F[v])
      /\ j \in 1 .. Len(F[t]) /\ F[t][j].ypcall
  BY DEF Unwound
<1>7. /\ G[t] \in Seq(FrameSet) /\ Len(G[t]) = j /\ Chain(G[t])
      /\ \A q \in 1 .. j - 1 : G[t][q] = F[t][q]
  <2>1. /\ G[t] = Retop(F[t], j, f) /\ f \in FrameSet /\ FrameOK(f)
        /\ f.func = F[t][j].func /\ f.lua = F[t][j].lua /\ f.fresh = F[t][j].fresh
    BY DEF Unwound
  <2>2. F[t] \in Seq(FrameSet) /\ Chain(F[t]) /\ j \in 1 .. Len(F[t])
    BY <1>2, <1>5, <1>6
  <2>3. /\ Retop(F[t], j, f) \in Seq(FrameSet) /\ Len(Retop(F[t], j, f)) = j
        /\ \A q \in 1 .. j - 1 : Retop(F[t], j, f)[q] = F[t][q]
        /\ Chain(Retop(F[t], j, f))
    BY ONLY <2>1, <2>2, ChainChange
  <2> QED
    BY ONLY <2>1, <2>3
<1>8. Lowest(n, c, d)
  BY <1>1, <1>3, SameStack
<1>9. d \in Seq(Acts) /\ Len(d) = n /\ \A i \in 1 .. n : d[i] = c[i]
  BY <1>8 DEF Lowest
<1> HIDE DEF d, x, y
<1>10. \A i \in 2 .. n : c[i].thread = t => ~Guard(c[i]) /\ ~NonYieldable(c[i])
  <2> SUFFICES ASSUME NEW i \in 2 .. n, c[i].thread = t
               PROVE  ~Guard(c[i]) /\ ~NonYieldable(c[i])
    OBVIOUS
  <2>1. i = n
    BY <1>3
  <2> QED
    BY <2>1, <1>4 DEF Guard, NonYieldable, Call
<1>11. Stack(d, G, h)
  <2>1. \A q \in h[n] + 1 .. Len(G[t]) : Above(c, n, t, G[t][q])
    BY ONLY <1>10 DEF Above
  <2>2. h[n] <= Len(G[t]) /\ \A q \in 1 .. h[n] : G[t][q] = F[t][q]
    BY <1>3, <1>6, <1>7
  <2>3. Regrown(c, F, h, n, c[n].thread, G)
    BY ONLY <1>4, <1>6, <2>1, <2>2 DEF Regrown
  <2> QED
    BY ONLY <1>1, <1>3, <1>8, <2>3, CutStack
<1>12. y \in Nat
  BY <1>3, CountsAreNumbers DEF y
<1>13. /\ a1 \in [Thread -> Nat] /\ b1 \in [Thread -> Nat] /\ a1[t] = x /\ b1[t] = y
       /\ \A v \in Thread : v # t => a1[v] = a[v] /\ b1[v] = b[v]
  BY <1>3, <1>5, <1>12
<1> HIDE DEF a1, b1
<1>14. Counted(d, a1, b1, "none")
  <2>1. \A i \in n + 1 .. Len(c) : c[i].thread = t
    BY <1>3
  <2>2. CCalls(c, n) < ErrorCCalls
    <3>1. x < ErrorCCalls
      <4>1. ErrorCCalls \in Nat
        BY CoroutineConstants
      <4> QED
        BY ONLY <4>1, <1>3
    <3> QED
      BY ONLY <3>1 DEF x
  <2>3. t = c[Len(c)].thread
    BY <1>4
  <2>4. IF c[n].thread = t THEN a1[t] = CCalls(c, n) /\ b1[t] = NonYields(c, t, n)
        ELSE First(c[n + 1]) /\ a1[t] <= ErrorCCalls /\ b1[t] <= ErrorCCalls + 1
    BY ONLY <1>4, <1>13 DEF x, y
  <2> QED
    <3>1. Stack(c, F, h) /\ Counted(c, a, b, e) /\ n \in 1 .. Len(c)
      BY <1>1, <1>2, <1>3
    <3> QED
      BY ONLY <2>1, <2>2, <2>3, <2>4, <3>1, <1>8, <1>13, CountedCut
<1>15. Finishable(d, G, h, s)
  <2>1. ASSUME NEW v \in Thread, s[v] # "err", NEW p \in 1 .. Len(G[v]) - 1, ~Held(G[v][p])
        PROVE  \E i \in 2 .. Len(d) : d[i].thread = v /\ NonYieldable(d[i]) /\ h[i - 1] = p
    <3>1. CASE v # t
      <4>1. p \in 1 .. Len(F[v]) - 1 /\ ~Held(F[v][p])
        BY <3>1, <2>1, <1>6
      <4>2. PICK i \in 2 .. Len(c) : c[i].thread = v /\ NonYieldable(c[i]) /\ h[i - 1] = p
        BY <4>1, <2>1, <1>1 DEF Finishable
      <4>3. i \notin n .. Len(c)
        BY <3>1, <4>2, <1>3
      <4>4. i \in 2 .. n /\ i \in 1 .. n
        BY ONLY <4>3, <1>2, <1>3, i \in 2 .. Len(c)
      <4> QED
        BY ONLY <4>2, <4>4, <1>9
    <3>2. CASE v = t
      <4>1. p \in 1 .. j - 1 /\ p \in 1 .. Len(F[t]) - 1
        <5>1. Len(F[t]) \in Nat /\ p \in 1 .. j - 1
          BY <3>2, <2>1, <1>5, <1>7
        <5> QED
          BY ONLY <5>1, <1>6
      <4>2. ~Held(F[t][p])
        BY <3>2, <4>1, <2>1, <1>7
      <4>3. PICK i \in 2 .. Len(c) : c[i].thread = t /\ NonYieldable(c[i]) /\ h[i - 1] = p
        BY <3>2, <4>1, <4>2, <2>1, <1>1, ZenonT(60) DEF Finishable
      <4>4. \A q \in p + 1 .. Len(F[t]) : ~F[t][q].ypcall
        <5>1. \A q \in h[i - 1] + 1 .. Len(F[c[i].thread]) : ~F[c[i].thread][q].ypcall
          BY ONLY <4>3, <1>2 DEF Inside
        <5> QED
          BY ONLY <5>1, <4>3
      <4>5. j \in p + 1 .. Len(F[t])
        BY <4>1, <1>6
      <4> QED
        BY <4>4, <4>5, <1>6
    <3> QED
      BY <3>1, <3>2
  <2> QED
    BY ONLY <2>1 DEF Finishable
<1>16. Recounted(a1, b1, t, u, a2, b2, "none")
  <2>1. /\ a2 \in [Thread -> Nat] /\ b2 \in [Thread -> Nat]
        /\ \A v \in Thread : v # t => a2[v] = a[v] /\ b2[v] = b[v]
        /\ a2[t] = c[n].nC /\ b2[t] = c[n].nny
    BY DEF Restored
  <2>2. CountOf(u) = 1 /\ NonYieldOf(t, u) = 0
    BY DEF CountOf, NonYieldOf, IsCounted, NonYieldable, Call
  <2>3. a2[t] = a1[t] + CountOf(u)
    BY ONLY <2>1, <2>2, <1>3, <1>13
  <2>4. b2[t] = b1[t] + NonYieldOf(t, u)
    BY ONLY <2>1, <2>2, <1>3, <1>12, <1>13
  <2>5. a2[t] < ErrorCCalls
    BY ONLY <2>1, <1>3
  <2> QED
    BY ONLY <2>1, <2>3, <2>4, <2>5, <1>13 DEF Recounted
<1>17. d[Len(d)].kind = "try" /\ d[Len(d)].of = "resume" /\ d[Len(d)].thread = t
  <2>1. n \in 1 .. n
    BY <1>3
  <2> QED
    BY ONLY <2>1, <1>4, <1>9
<1>18. \A v \in Thread : Chain(G[v])
  BY <1>2, <1>6, <1>7
<1>19. Ready(Append(d, u), G, s, a2, b2, "none")
  BY ONLY <1>11, <1>14, <1>15, <1>16, <1>17, <1>18, u \in Acts, u.kind = "unroll",
          u.thread = t, PushUnroll
<1> QED
  BY <1>19 DEF d
(* The thread t leaves the C stack, with counts that no longer matter.     *)
Left(F, s, a, b, t, s2, a2, b2) ==
  /\ \A u \in Thread : u # t => s2[u] = s[u]
  /\ s2[t] # "err" => \A p \in 1 .. Len(F[t]) - 1 : Held(F[t][p])
  /\ a2 \in [Thread -> Nat] /\ b2 \in [Thread -> Nat]
  /\ \A u \in Thread : u # t => a2[u] = a[u] /\ b2[u] = b[u]
  /\ a2[t] <= ErrorCCalls /\ b2[t] <= ErrorCCalls + 1

(* The activation n started what is above it.                              *)
Starter(c, n, t) ==
  /\ n \in 1 .. Len(c) - 1
  /\ First(c[n + 1]) /\ c[n + 1].thread = t /\ c[Len(c)].thread = t

(* Only a C function starts what runs another thread, and all of that is   *)
(* above.                                                                  *)
LEMMA StarterFacts ==
  ASSUME NEW c, NEW F, NEW h, Stack(c, F, h), NEW n, NEW t, Starter(c, n, t)
  PROVE  /\ n \in Nat /\ n > 0 /\ n < Len(c) /\ n \in 1 .. Len(c) /\ n + 1 \in 2 .. Len(c)
         /\ \A i \in n + 1 .. Len(c) : c[i].thread = t
         /\ \A i \in 1 .. n : c[i].thread # t
         /\ h[n] = Len(F[c[n].thread])
         /\ c[n].kind = "cfun" /\ t # MainThread /\ h[n - 1] < h[n]
<1> DEFINE k == n + 1
<1>1. /\ Len(c) \in Nat /\ Piled(c) /\ Starts(c, F, h) /\ Segments(c, h) /\ Framed(c, h)
  BY StackShape
<1>2. n \in 1 .. Len(c) - 1 /\ First(c[k]) /\ c[k].thread = t /\ c[Len(c)].thread = t
  BY DEF Starter
<1>3. /\ n \in Nat /\ n > 0 /\ n < Len(c) /\ n \in 1 .. Len(c) /\ k \in 2 .. Len(c)
      /\ k \in 1 .. Len(c) /\ Len(c) \in 1 .. Len(c) /\ k <= Len(c)
      /\ k - 1 = n /\ k - 2 = n - 1
  <2>1. Len(c) \in Nat
    BY <1>1
  <2> QED
    BY ONLY <2>1, <1>2
<1> HIDE DEF k
<1>4. \A i \in k .. Len(c) : c[i].thread = t
  BY ONLY <1>1, <1>2, <1>3 DEF Segments
<1>5. (\A i \in 1 .. n : c[i].thread # t) /\ h[n] = Len(F[c[n].thread])
  <2>1. /\ \A j \in 1 .. k - 1 : c[j].thread # c[k].thread
        /\ h[k - 1] = Len(F[c[k - 1].thread])
    BY ONLY <1>1, <1>2, <1>3 DEF Starts
  <2> QED
    BY ONLY <2>1, <1>2, <1>3
<1>6. c[n].kind = "cfun" /\ t # MainThread
  <2>1. Kinds(c[k - 1], c[k])
    BY ONLY <1>1, <1>3 DEF Piled
  <2> QED
    BY ONLY <2>1, <1>2, <1>3 DEF Kinds
<1>7. h[n - 1] < h[n]
  <2>1. Call(c[k - 1]) /\ c[k].kind # "handler"
    BY ONLY <1>2, <1>3, <1>6 DEF Call, First
  <2>2. h[k - 2] < h[k - 1]
    BY ONLY <2>1, <1>1, <1>3 DEF Framed
  <2> QED
    BY ONLY <2>2, <1>3
<1> QED
  BY <1>3, <1>4, <1>5, <1>6, <1>7 DEF k

(* lua_resume or luaE_resetthread returns.                                 *)
LEMMA PopStart ==
  ASSUME NEW c, NEW F, NEW s, NEW a, NEW b, NEW e, Ready(c, F, s, a, b, e),
         NEW n, NEW t, Starter(c, n, t),
         NEW s2, NEW a2, NEW b2, Left(F, s, a, b, t, s2, a2, b2)
  PROVE  Ready(SubSeq(c, 1, n), F, s2, a2, b2, "none")
<1>1. PICK h :
        /\ h \in [Nat -> Nat]
        /\ Stack(c, F, h) /\ Tip(c, F, h, e) /\ Finishable(c, F, h, s)
  BY DEF Ready
<1> DEFINE d == SubSeq(c, 1, n)
<1>2. Counted(c, a, b, e) /\ (\A v \in Thread : Chain(F[v])) /\ Len(c) \in Nat
      /\ F \in [Thread -> Seq(FrameSet)]
  BY <1>1, StackShape DEF Ready
<1>3. /\ n \in Nat /\ n > 0 /\ n < Len(c) /\ n \in 1 .. Len(c) /\ n + 1 \in 2 .. Len(c)
      /\ \A i \in n + 1 .. Len(c) : c[i].thread = t
      /\ \A i \in 1 .. n : c[i].thread # t
      /\ h[n] = Len(F[c[n].thread])
      /\ c[n].kind = "cfun" /\ t # MainThread /\ h[n - 1] < h[n]
  BY <1>1, StarterFacts
<1>4. First(c[n + 1]) /\ c[Len(c)].thread = t
  BY DEF Starter
<1>5. /\ \A u \in Thread : u # t => s2[u] = s[u]
      /\ s2[t] # "err" => \A p \in 1 .. Len(F[t]) - 1 : Held(F[t][p])
      /\ a2 \in [Thread -> Nat] /\ b2 \in [Thread -> Nat]
      /\ \A u \in Thread : u # t => a2[u] = a[u] /\ b2[u] = b[u]
      /\ a2[t] <= ErrorCCalls /\ b2[t] <= ErrorCCalls + 1
  BY DEF Left
<1>6. Lowest(n, c, d)
  BY <1>1, <1>3, SameStack
<1>7. d \in Seq(Acts) /\ Len(d) = n /\ \A i \in 1 .. n : d[i] = c[i]
  BY <1>6 DEF Lowest
<1> HIDE DEF d
<1>8. Stack(d, F, h)
  <2>1. h[n] <= Len(F[c[n].thread])
    BY <1>1, <1>3, HeightsFit
  <2>2. \A q \in h[n] + 1 .. Len(F[c[n].thread]) : FALSE
    <3>1. h[n] \in Nat
      BY <1>1, <1>3, HeightsFit
    <3> QED
      BY <3>1, <1>3
  <2>3. Regrown(c, F, h, n, c[n].thread, F)
    BY ONLY <2>1, <2>2, <1>2 DEF Regrown
  <2> QED
    BY ONLY <1>1, <1>3, <1>6, <2>3, CutStack
<1>9. Counted(d, a2, b2, "none")
  <2>1. CCalls(c, n) < ErrorCCalls
    <3>1. n # Len(c)
      BY <1>2, <1>3
    <3> QED
      BY ONLY <3>1, <1>2, <1>3 DEF Counted
  <2>2. n \in 1 .. n
    BY <1>3
  <2>3. IF c[n].thread = t THEN a2[t] = CCalls(c, n) /\ b2[t] = NonYields(c, t, n)
        ELSE First(c[n + 1]) /\ a2[t] <= ErrorCCalls /\ b2[t] <= ErrorCCalls + 1
    BY ONLY <2>2, <1>3, <1>4, <1>5
  <2>4. t = c[Len(c)].thread
    BY <1>4
  <2>5. Stack(c, F, h) /\ Counted(c, a, b, e) /\ n \in 1 .. Len(c)
    BY <1>1, <1>2, <1>3
  <2>6. \A i \in n + 1 .. Len(c) : c[i].thread = t
    BY <1>3
  <2> QED
    BY ONLY <2>1, <2>3, <2>4, <2>5, <2>6, <1>5, <1>6, CountedCut, SMTT(30)
<1>10. Finishable(d, F, h, s2)
  <2>1. ASSUME NEW v \in Thread, s2[v] # "err", NEW p \in 1 .. Len(F[v]) - 1, ~Held(F[v][p])
        PROVE  \E i \in 2 .. Len(d) : d[i].thread = v /\ NonYieldable(d[i]) /\ h[i - 1] = p
    <3>1. v # t
      BY <2>1, <1>5
    <3>2. s[v] # "err"
      BY <3>1, <2>1, <1>5
    <3>3. PICK i \in 2 .. Len(c) : c[i].thread = v /\ NonYieldable(c[i]) /\ h[i - 1] = p
      BY <3>2, <2>1, <1>1 DEF Finishable
    <3>4. i \notin n + 1 .. Len(c)
      BY <3>1, <3>3, <1>3
    <3>5. i \in 2 .. n /\ i \in 1 .. n
      BY ONLY <3>4, <1>2, <1>3, i \in 2 .. Len(c)
    <3> QED
      BY ONLY <3>3, <3>5, <1>7
  <2> QED
    BY ONLY <2>1 DEF Finishable
<1>11. Tip(d, F, h, "none")
  <2>1. d[n] = c[n]
    BY <1>3, <1>7
  <2> QED
    BY ONLY <2>1, <1>3, <1>7 DEF Tip
<1>12. Ready(d, F, s2, a2, b2, "none")
  BY ONLY <1>1, <1>2, <1>8, <1>9, <1>10, <1>11 DEF Ready
<1> QED
  BY <1>12 DEF d

(* Without non-yieldable calls under way, all frames can be continued.     *)
LEMMA AllHeld ==
  ASSUME NEW c, NEW F, NEW s, NEW a, NEW b, NEW e, Ready(c, F, s, a, b, e),
         NEW t, c[Len(c)].thread = t, b[t] = 0, s[t] # "err"
  PROVE  \A p \in 1 .. Len(F[t]) - 1 : Held(F[t][p])
<1>1. PICK h :
        /\ h \in [Nat -> Nat]
        /\ Stack(c, F, h) /\ Tip(c, F, h, e) /\ Finishable(c, F, h, s)
  BY DEF Ready
<1>2. Len(c) \in Nat /\ t \in Thread /\ NonYields(c, t, Len(c)) = 0
  BY ReadyTypes
<1> DEFINE T == {i \in 1 .. Len(c) : c[i].thread = t /\ NonYieldable(c[i])}
<1>3. MainsOwn(t) + Cardinality(T) = 0
  BY <1>2 DEF NonYields
<1>4. MainsOwn(t) \in Nat
  BY DEF MainsOwn
<1>5. IsFiniteSet(T) /\ Cardinality(T) \in Nat
  BY <1>2, CountSubset
<1>6. T = {}
  <2>1. Cardinality(T) = 0
    <3> HIDE DEF T
    <3> QED
      BY ONLY <1>3, <1>4, <1>5
  <2> HIDE DEF T
  <2> QED
    BY ONLY <2>1, <1>5, FS_EmptySet
<1>7. \A i \in 2 .. Len(c) : ~(c[i].thread = t /\ NonYieldable(c[i]))
  BY <1>2, <1>6
<1> QED
  BY ONLY <1>1, <1>2, <1>7, s[t] # "err" DEF Finishable
(* An error is raised, or goes on.                                         *)
LEMMA Raised ==
  ASSUME NEW c, NEW F, NEW s, NEW a, NEW b, NEW e, Ready(c, F, s, a, b, e),
         NEW e2, e2 # "none", e = "err" => e2 = "err"
  PROVE  Ready(c, F, s, a, b, e2)
<1>1. PICK h :
        /\ h \in [Nat -> Nat]
        /\ Stack(c, F, h) /\ Tip(c, F, h, e) /\ Finishable(c, F, h, s)
  BY DEF Ready
<1>2. Counted(c, a, b, e) /\ \A v \in Thread : Chain(F[v])
  BY DEF Ready
<1>3. Counted(c, a, b, e2)
  BY <1>2 DEF Counted
<1>4. Tip(c, F, h, e2)
  BY <1>1 DEF Tip
<1> QED
  BY <1>1, <1>2, <1>3, <1>4 DEF Ready

(* A thread that is not dead may change its status.                        *)
LEMMA NewStatus ==
  ASSUME NEW c, NEW F, NEW s, NEW a, NEW b, NEW e, Ready(c, F, s, a, b, e),
         NEW s2, \A u \in Thread : s2[u] # "err" => s[u] # "err"
  PROVE  Ready(c, F, s2, a, b, e)
<1>1. PICK h :
        /\ h \in [Nat -> Nat]
        /\ Stack(c, F, h) /\ Tip(c, F, h, e) /\ Finishable(c, F, h, s)
  BY DEF Ready
<1>2. Counted(c, a, b, e) /\ \A v \in Thread : Chain(F[v])
  BY DEF Ready
<1>3. Finishable(c, F, h, s2)
  BY <1>1 DEF Finishable
<1> QED
  BY <1>1, <1>2, <1>3 DEF Ready

(* The activation j is a protected call of the thread t, which runs.       *)
Protecting(c, j, t) ==
  /\ j \in 1 .. Len(c) - 1
  /\ Guard(c[j]) /\ c[j].thread = t /\ c[Len(c)].thread = t

(* A protected call saved the depth and the counts of what is below it.    *)
LEMMA GuardFacts ==
  ASSUME NEW c, NEW F, NEW s, NEW a, NEW b, NEW e, NEW h,
         Ready(c, F, s, a, b, e), Stack(c, F, h), NEW j, NEW t, Protecting(c, j, t)
  PROVE  /\ j - 1 \in Nat /\ j - 1 > 0 /\ j - 1 < Len(c) /\ c[j - 1].thread = t
         /\ c[j].of = "pcall" => c[j - 1].kind \in {"main", "cfun"}
         /\ c[j].of = "close" => c[j - 1].kind \in {"caught", "reset"}
         /\ c[j - 1 + 1] = c[j]
         /\ h[j - 1] = c[j].depth /\ c[j].depth \in 0 .. Len(F[t]) /\ c[j].level > 0
         /\ c[j].depth > 0 => F[t][c[j].depth].func < c[j].level /\ ~F[t][c[j].depth].ypcall
         /\ c[j].nC = CCalls(c, j - 1) /\ c[j].nny = NonYields(c, t, j - 1)
         /\ c[j] \in Acts /\ c[j].kind = "try"
<1>1. /\ Len(c) \in Nat /\ Piled(c) /\ Fits(c, F, h) /\ Counted(c, a, b, e)
      /\ c[1].kind = "main" /\ \A i \in 1 .. Len(c) : c[i] \in Acts
      /\ F \in [Thread -> Seq(FrameSet)]
  BY StackShape DEF Ready
<1>2. j \in 1 .. Len(c) - 1 /\ c[j].kind = "try" /\ c[j].of # "resume" /\ c[j].thread = t
  BY DEF Protecting, Guard
<1>3. j # 1
  BY <1>1, <1>2
<1> DEFINE k == j - 1
           m == c[j].depth
<1>4. /\ k \in Nat /\ k > 0 /\ k < Len(c) /\ k + 1 = j /\ j \in 2 .. Len(c) /\ k \in 1 .. Len(c)
      /\ j \in 1 .. Len(c)
  <2>1. Len(c) \in Nat
    BY <1>1
  <2> QED
    BY ONLY <2>1, <1>2, <1>3
<1>5. Kinds(c[j - 1], c[j])
  BY ONLY <1>1, <1>4 DEF Piled
<1>6. ~First(c[j]) /\ Guard(c[j]) /\ ~IsCounted(c[j]) /\ ~NonYieldable(c[j])
  BY ONLY <1>2 DEF First, Guard, IsCounted, NonYieldable, Call
<1>7. /\ c[j - 1].thread = t /\ c[j].level > 0
      /\ c[j].of = "pcall" => c[j - 1].kind \in {"main", "cfun"}
      /\ c[j].of = "close" => c[j - 1].kind \in {"caught", "reset"}
  BY ONLY <1>2, <1>5, <1>6 DEF Kinds
<1>8. Fit(F[t], c[j - 1], c[j], h[j - 1], h[j])
  BY ONLY <1>1, <1>2, <1>4 DEF Fits
<1>9. /\ h[j] = h[j - 1] /\ c[j].depth = h[j]
      /\ (h[j] > 0 => F[t][h[j]].func < c[j].level /\ ~F[t][h[j]].ypcall)
      /\ h[j] <= Len(F[t])
  BY ONLY <1>6, <1>8 DEF Fit
<1>10. c[j] \in Acts /\ t \in Thread
  BY <1>1, <1>2, <1>4, ActFacts
<1>11. m \in Nat
  BY <1>2, <1>10, ActFacts
<1>12. Len(F[t]) \in Nat
  <2>1. F[t] \in Seq(FrameSet)
    BY <1>1, <1>10
  <2> QED
    BY <2>1
<1>13. m <= Len(F[t]) /\ h[j - 1] = m /\ (m > 0 => F[t][m].func < c[j].level /\ ~F[t][m].ypcall)
  BY ONLY <1>9
<1>14. m \in 0 .. Len(F[t])
  BY ONLY <1>11, <1>12, <1>13
<1>15. c[j].nny = NonYields(c, t, j) /\ c[j].nC = CCalls(c, j) + ResumeOf(c[j])
  BY ONLY <1>1, <1>2, <1>4 DEF Counted
<1>16. ResumeOf(c[j]) = 0 /\ CountOf(c[j]) = 0 /\ NonYieldOf(t, c[j]) = 0
  BY ONLY <1>2, <1>6 DEF ResumeOf, CountOf, NonYieldOf
<1>17. CCalls(c, k + 1) = CCalls(c, k) + CountOf(c[k + 1])
        /\ NonYields(c, t, k + 1) = NonYields(c, t, k) + NonYieldOf(t, c[k + 1])
  BY <1>4, CountStep
<1>18. CCalls(c, k) \in Nat /\ NonYields(c, t, k) \in Nat
  BY <1>4, CountsAreNumbers
<1> HIDE DEF k, m
<1>19. c[j].nC = CCalls(c, k) /\ c[j].nny = NonYields(c, t, k)
  <2>1. CCalls(c, j) = CCalls(c, k) + 0 /\ NonYields(c, t, j) = NonYields(c, t, k) + 0
    BY ONLY <1>4, <1>16, <1>17
  <2>2. c[j].nC = CCalls(c, j) + 0
    BY ONLY <1>15, <1>16
  <2>3. CCalls(c, j) = CCalls(c, k) /\ NonYields(c, t, j) = NonYields(c, t, k)
    BY ONLY <2>1, <1>18
  <2> QED
    BY ONLY <2>2, <2>3, <1>15, <1>18
<1>20. c[k + 1] = c[j]
  BY <1>4
<1> QED
  BY <1>2, <1>4, <1>7, <1>10, <1>13, <1>14, <1>19, <1>20 DEF k, m

(* An error gets to a protected call of luaD_pcall or luaD_closeprotected. *)
LEMMA BackToGuard ==
  ASSUME NEW c, NEW F, NEW s, NEW a, NEW b, NEW e, Ready(c, F, s, a, b, e),
         NEW j, NEW t, Protecting(c, j, t), NEW G, Shrunk(F, t, c[j].depth, G),
         NEW a2, NEW b2, Restored(a, b, t, c[j].nC, c[j].nny, a2, b2)
  PROVE  Ready(SubSeq(c, 1, j - 1), G, s, a2, b2, "none")
<1>1. PICK h :
        /\ h \in [Nat -> Nat]
        /\ Stack(c, F, h) /\ Tip(c, F, h, e) /\ Finishable(c, F, h, s)
  BY DEF Ready
<1>0. Stack(c, F, h)
  BY <1>1
<1> DEFINE k == j - 1
<1>2. /\ k \in Nat /\ k > 0 /\ k < Len(c) /\ c[k].thread = t /\ c[k + 1] = c[j]
      /\ h[k] = c[j].depth
      /\ c[j].nC = CCalls(c, k) /\ c[j].nny = NonYields(c, t, k) /\ c[j].kind = "try"
  BY ONLY <1>0, Ready(c, F, s, a, b, e), Protecting(c, j, t), GuardFacts
<1> HIDE DEF k
<1>3. c[Len(c)].thread = t
  BY DEF Protecting
<1>4. Restored(a, b, t, CCalls(c, k), NonYields(c, t, k), a2, b2) /\ Shrunk(F, t, h[k], G)
  BY ONLY <1>2, Restored(a, b, t, c[j].nC, c[j].nny, a2, b2), Shrunk(F, t, c[j].depth, G)
<1>5. Call(c[k]) => c[k + 1].kind # "handler"
  BY ONLY <1>2
<1>6. Ready(SubSeq(c, 1, k), G, s, a2, b2, "none")
  BY ONLY <1>1, <1>2, <1>3, <1>4, <1>5, Ready(c, F, s, a, b, e), CutBack
<1> QED
  BY <1>6 DEF k
(* The activation r protects the frames of the thread t.                   *)
Protects(r, of, t, FR, a, b) ==
  /\ r \in Acts /\ r.kind = "try" /\ r.of = of /\ r.thread = t
  /\ r.depth = Len(FR) /\ r.nC = a[t] /\ r.nny = b[t] /\ r.level > 0
  /\ Len(FR) > 0 => FR[Len(FR)].func < r.level /\ ~FR[Len(FR)].ypcall

(* luaD_pcall or luaD_closeprotected makes a protected call.               *)
LEMMA PushGuard ==
  ASSUME NEW c, NEW F, NEW s, NEW a, NEW b, Ready(c, F, s, a, b, "none"),
         NEW t, c[Len(c)].thread = t, NEW r, NEW of, Protects(r, of, t, F[t], a, b),
         \/ of = "pcall" /\ c[Len(c)].kind \in {"main", "cfun"}
         \/ of = "close" /\ c[Len(c)].kind \in {"caught", "reset"}
  PROVE  Ready(Append(c, r), F, s, a, b, "none")
<1> DEFINE p == c[Len(c)]
           m == Len(F[t])
<1>1. /\ r \in Acts /\ r.kind = "try" /\ r.of = of /\ r.thread = t
      /\ r.depth = m /\ r.nC = a[t] /\ r.nny = b[t] /\ r.level > 0
      /\ m > 0 => F[t][m].func < r.level /\ ~F[t][m].ypcall
  BY DEF Protects
<1>2. /\ p.thread = t
      /\ (of = "pcall" /\ p.kind \in {"main", "cfun"}) \/ (of = "close" /\ p.kind \in {"caught", "reset"})
  OBVIOUS
<1>3. p = c[Len(c)] /\ m = Len(F[t])
  OBVIOUS
<1>4. m \in Nat
  <2>1. F[t] \in Seq(FrameSet)
    BY ReadyTypes
  <2> QED
    BY <2>1
<1> HIDE DEF p, m
<1>5. ~First(r) /\ ~Call(r) /\ Guard(r) /\ r.kind # "unroll"
  BY ONLY <1>1, <1>2 DEF First, Call, Guard
<1>6. Kinds(p, r)
  BY ONLY <1>1, <1>2, <1>5 DEF Kinds
<1>7. Fit(F[t], p, r, m, m)
  BY ONLY <1>1, <1>3, <1>4, <1>5 DEF Fit
<1>8. /\ Kinds(c[Len(c)], r)
      /\ Fit(F[r.thread], c[Len(c)], r, Len(F[r.thread]), Len(F[r.thread]))
      /\ r.kind = "try" => r.nC = a[r.thread] /\ r.nny = b[r.thread]
      /\ IF r.kind = "handler" THEN "none" # "err" ELSE "none" = "none"
  BY ONLY <1>1, <1>3, <1>6, <1>7
<1> QED
  BY ONLY <1>1, <1>5, <1>8, Ready(c, F, s, a, b, "none"), PushPlain

(* luaD_closeprotected                                                     *)
LEMMA PushProtect ==
  ASSUME NEW c, NEW F, NEW s, NEW a, NEW b, Ready(c, F, s, a, b, "none"),
         NEW t, c[Len(c)].thread = t, c[Len(c)].kind \in {"caught", "reset"},
         NEW r, Protects(r, "close", t, F[t], a, b),
         NEW q \in Acts, q.kind = "close", q.thread = t, q.for = "protected", ~q.yy,
         q.level = r.level
  PROVE  Ready(Append(Append(c, r), q), F, s, a, b, "none")
<1> DEFINE d == Append(c, r)
           n == Len(d)
           m == Len(F[t])
<1>1. Ready(d, F, s, a, b, "none")
  <2>1. \/ "close" = "pcall" /\ c[Len(c)].kind \in {"main", "cfun"}
        \/ "close" = "close" /\ c[Len(c)].kind \in {"caught", "reset"}
    OBVIOUS
  <2> QED
    BY <2>1, PushGuard
<1>2. r.kind = "try" /\ r.of = "close" /\ r.thread = t
  BY DEF Protects
<1>3. q.kind = "close" /\ q.thread = t /\ q.for = "protected" /\ ~q.yy /\ q.level = r.level
  OBVIOUS
<1>4. d[n] = r
  <2>1. c \in Seq(Acts) /\ r \in Acts
    BY ReadyTypes DEF Protects
  <2> QED
    BY <2>1
<1>5. m \in Nat
  <2>1. F[t] \in Seq(FrameSet)
    BY ReadyTypes
  <2> QED
    BY <2>1
<1>6. n = Len(d) /\ m = Len(F[t])
  OBVIOUS
<1> HIDE DEF d, n, m
<1>7. ~First(q) /\ ~Call(q) /\ ~Guard(q) /\ q.kind \notin {"unroll", "try", "handler"}
  BY ONLY <1>3 DEF First, Call, Guard
<1>8. Kinds(r, q)
  BY ONLY <1>2, <1>3, <1>7 DEF Kinds
<1>9. Fit(F[t], r, q, m, m)
  BY ONLY <1>2, <1>3, <1>5, <1>6, <1>7 DEF Fit
<1>10. /\ Kinds(d[Len(d)], q)
       /\ Fit(F[q.thread], d[Len(d)], q, Len(F[q.thread]), Len(F[q.thread]))
       /\ q.kind = "try" => q.nC = a[q.thread] /\ q.nny = b[q.thread]
       /\ IF q.kind = "handler" THEN "none" # "err" ELSE "none" = "none"
  BY ONLY <1>3, <1>4, <1>6, <1>7, <1>8, <1>9
<1>11. Ready(Append(d, q), F, s, a, b, "none")
  BY ONLY <1>1, <1>7, <1>10, q \in Acts, PushPlain
<1> QED
  BY <1>11 DEF d

(* luaD_pcall goes on after an error.                                      *)
LEMMA PushCaught ==
  ASSUME NEW c, NEW F, NEW s, NEW a, NEW b, Ready(c, F, s, a, b, "none"),
         NEW t, c[Len(c)].thread = t, c[Len(c)].kind \in {"main", "cfun"},
         NEW r \in Acts, r.kind = "caught", r.thread = t,
         Len(F[t]) > 0 => ~F[t][Len(F[t])].ypcall
  PROVE  Ready(Append(c, r), F, s, a, b, "none")
<1> DEFINE p == c[Len(c)]
           m == Len(F[t])
<1>1. r.kind = "caught" /\ r.thread = t /\ (m > 0 => ~F[t][m].ypcall)
  OBVIOUS
<1>2. p.thread = t /\ p.kind \in {"main", "cfun"}
  OBVIOUS
<1>3. p = c[Len(c)] /\ m = Len(F[t])
  OBVIOUS
<1>4. m \in Nat
  <2>1. F[t] \in Seq(FrameSet)
    BY ReadyTypes
  <2> QED
    BY <2>1
<1> HIDE DEF p, m
<1>5. ~First(r) /\ ~Call(r) /\ ~Guard(r) /\ r.kind \notin {"unroll", "try", "handler"}
  BY ONLY <1>1 DEF First, Call, Guard
<1>6. Kinds(p, r)
  BY ONLY <1>1, <1>2, <1>5 DEF Kinds
<1>7. Fit(F[t], p, r, m, m)
  BY ONLY <1>1, <1>3, <1>4, <1>5 DEF Fit
<1>8. /\ Kinds(c[Len(c)], r)
      /\ Fit(F[r.thread], c[Len(c)], r, Len(F[r.thread]), Len(F[r.thread]))
      /\ r.kind = "try" => r.nC = a[r.thread] /\ r.nny = b[r.thread]
      /\ IF r.kind = "handler" THEN "none" # "err" ELSE "none" = "none"
  BY ONLY <1>1, <1>3, <1>5, <1>6, <1>7
<1> QED
  BY ONLY <1>5, <1>8, r \in Acts, Ready(c, F, s, a, b, "none"), PushPlain
(* The close r is for the frame at the top of FR, above the activation p.  *)
Closes(p, FR, r) ==
  /\ r \in Acts /\ r.kind = "close" /\ r.yy /\ r.thread = p.thread /\ FR # <<>>
  /\ r.for \in {"block", "return", "poscall", "finishpcallk"}
  /\ r.for = "block" =>
       p.kind = "exec" /\ FR[Len(FR)].lua /\ FR[Len(FR)].doing = "close"
         /\ FR[Len(FR)].idx = r.level
  /\ r.for = "return" =>
       p.kind = "exec" /\ FR[Len(FR)].lua /\ FR[Len(FR)].doing = "return"
         /\ FR[Len(FR)].func + 1 = r.level
  /\ r.for = "poscall" =>
       p.kind \in {"cfun", "unroll"} /\ ~FR[Len(FR)].lua /\ FR[Len(FR)].clsret
         /\ FR[Len(FR)].doing = "return" /\ FR[Len(FR)].func = r.level
  /\ r.for = "finishpcallk" =>
       p.kind = "unroll" /\ FR[Len(FR)].ypcall /\ ~FR[Len(FR)].clsret
         /\ FR[Len(FR)].recst # "ok" /\ FR[Len(FR)].idx = r.level

(* It is then an activation that may be there.                             *)
LEMMA ClosesFacts ==
  ASSUME NEW p, NEW FR \in Seq(FrameSet), NEW r, Closes(p, FR, r)
  PROVE  /\ r \in Acts /\ ~First(r) /\ ~Call(r) /\ ~Guard(r) /\ ~NonYieldable(r)
         /\ r.kind \notin {"unroll", "try", "handler"} /\ Kinds(p, r)
         /\ Len(FR) \in Nat /\ Len(FR) > 0
         /\ Fit(FR, p, r, IF p.kind = "unroll" THEN Len(FR) - 1 ELSE Len(FR), Len(FR))
<1> DEFINE m == Len(FR)
<1>1. /\ r \in Acts /\ r.kind = "close" /\ r.yy /\ r.thread = p.thread
      /\ r.for \in {"block", "return", "poscall", "finishpcallk"}
      /\ r.for = "block" =>
           p.kind = "exec" /\ FR[m].lua /\ FR[m].doing = "close" /\ FR[m].idx = r.level
      /\ r.for = "return" =>
           p.kind = "exec" /\ FR[m].lua /\ FR[m].doing = "return" /\ FR[m].func + 1 = r.level
      /\ r.for = "poscall" =>
           p.kind \in {"cfun", "unroll"} /\ ~FR[m].lua /\ FR[m].clsret
             /\ FR[m].doing = "return" /\ FR[m].func = r.level
      /\ r.for = "finishpcallk" =>
           p.kind = "unroll" /\ FR[m].ypcall /\ ~FR[m].clsret
             /\ FR[m].recst # "ok" /\ FR[m].idx = r.level
  BY DEF Closes
<1>2. m \in Nat /\ m > 0 /\ m = Len(FR)
  BY DEF Closes
<1> HIDE DEF m
<1>3. /\ ~First(r) /\ ~Call(r) /\ ~Guard(r) /\ ~NonYieldable(r)
      /\ r.kind \notin {"unroll", "try", "handler"}
  BY ONLY <1>1 DEF First, Call, Guard, NonYieldable
<1>4. Kinds(p, r)
  BY ONLY <1>1, <1>3 DEF Kinds
<1>5. CASE p.kind = "unroll"
  <2>1. m - 1 \in Nat /\ m = m - 1 + 1 /\ m - 1 <= m
    BY <1>2
  <2>2. Fit(FR, p, r, m - 1, m)
    BY ONLY <1>1, <1>2, <1>3, <1>5, <2>1 DEF Fit
  <2> QED
    BY <1>1, <1>2, <1>3, <1>4, <1>5, <2>2
<1>6. CASE p.kind # "unroll"
  <2>2. Fit(FR, p, r, m, m)
    BY ONLY <1>1, <1>2, <1>3, <1>6 DEF Fit
  <2> QED
    BY <1>1, <1>2, <1>3, <1>4, <1>6, <2>2
<1> QED
  BY <1>5, <1>6

(* A running function closes variables.                                    *)
LEMMA PushClose ==
  ASSUME NEW c, NEW F, NEW s, NEW a, NEW b, Ready(c, F, s, a, b, "none"),
         NEW t, c[Len(c)].thread = t, c[Len(c)].kind # "unroll",
         NEW r, Closes(c[Len(c)], F[t], r)
  PROVE  Ready(Append(c, r), F, s, a, b, "none")
<1> DEFINE p == c[Len(c)]
           m == Len(F[t])
<1>1. F[t] \in Seq(FrameSet)
  BY ReadyTypes
<1>2. Closes(p, F[t], r) /\ p.kind # "unroll" /\ p.thread = t
  OBVIOUS
<1>3. p = c[Len(c)] /\ m = Len(F[t])
  OBVIOUS
<1> HIDE DEF p, m
<1>4. /\ r \in Acts /\ ~First(r) /\ ~Call(r) /\ r.kind \notin {"unroll", "try", "handler"}
      /\ Kinds(p, r)
      /\ Fit(F[t], p, r, IF p.kind = "unroll" THEN m - 1 ELSE m, m)
  BY ONLY <1>1, <1>2, <1>3, ClosesFacts
<1>5. r.thread = t
  BY ONLY <1>2 DEF Closes
<1>6. /\ Kinds(c[Len(c)], r)
      /\ Fit(F[r.thread], c[Len(c)], r, Len(F[r.thread]), Len(F[r.thread]))
      /\ r.kind = "try" => r.nC = a[r.thread] /\ r.nny = b[r.thread]
      /\ IF r.kind = "handler" THEN "none" # "err" ELSE "none" = "none"
  BY ONLY <1>2, <1>3, <1>4, <1>5
<1> QED
  BY ONLY <1>4, <1>6, Ready(c, F, s, a, b, "none"), PushPlain

-----------------------------------------------------------------------------
(* Below an unroll a thread has no activation but its resume, which lets   *)
(* any frame be above it.                                                  *)
LEMMA AboveUnroll ==
  ASSUME NEW c, NEW F, NEW h, Stack(c, F, h), NEW n \in 2 .. Len(c), c[n].kind = "unroll",
         NEW k \in 1 .. n, NEW f
  PROVE  Above(c, k, c[n].thread, f)
<1> DEFINE t == c[n].thread
<1>1. /\ n - 1 \in 2 .. Len(c) /\ c[n - 1].kind = "try" /\ c[n - 1].of = "resume"
      /\ \A j \in 1 .. n - 2 : c[j].thread # t
  BY UnderUnroll
<1>2. Len(c) \in Nat
  BY StackShape
<1>3. n \in Nat /\ k \in Nat /\ k <= n
  BY <1>2
<1>4. c[n].kind = "unroll"
  OBVIOUS
<1> HIDE DEF t
<1>5. ASSUME NEW i \in 2 .. k, c[i].thread = t
      PROVE  ~Guard(c[i]) /\ ~NonYieldable(c[i])
  <2>1. i = n \/ i = n - 1 \/ i \in 1 .. n - 2
    BY <1>3
  <2>2. i = n \/ i = n - 1
    BY <1>1, <1>5, <2>1
  <2> QED
    BY <2>2, <1>1, <1>4 DEF Guard, NonYieldable, Call
<1>6. Above(c, k, t, f)
  BY ONLY <1>5 DEF Above
<1> QED
  BY <1>6 DEF t

(* A coroutine whose unroll is at the top may yield.                       *)
LEMMA UnrollYields ==
  ASSUME NEW c, NEW F, NEW s, NEW a, NEW b, NEW e, Ready(c, F, s, a, b, e),
         c[Len(c)].kind = "unroll"
  PROVE  b[c[Len(c)].thread] = 0
<1> DEFINE n == Len(c)
           t == c[n].thread
           T == {i \in 1 .. n : c[i].thread = t /\ NonYieldable(c[i])}
<1>1. PICK h : h \in [Nat -> Nat] /\ Stack(c, F, h) /\ Tip(c, F, h, e)
  BY DEF Ready
<1>2. n \in Nat /\ n > 0 /\ c[1].kind = "main" /\ b[t] = NonYields(c, t, n)
  BY ReadyTypes
<1>3. n \in 2 .. Len(c)
  BY <1>1, UnderTop
<1>4. /\ n - 1 \in 2 .. Len(c) /\ c[n - 1].kind = "try" /\ c[n - 1].of = "resume"
      /\ \A j \in 1 .. n - 2 : c[j].thread # t
      /\ t # MainThread
  BY <1>1, <1>3, UnderUnroll
<1>5. c[n].kind = "unroll"
  OBVIOUS
<1>6. T = {}
  <2> SUFFICES ASSUME NEW i \in 1 .. n, c[i].thread = t, NonYieldable(c[i])
               PROVE  FALSE
    OBVIOUS
  <2> HIDE DEF n, t
  <2>1. i = n \/ i = n - 1 \/ i \in 1 .. n - 2
    BY <1>2
  <2>2. i = n \/ i = n - 1
    BY <1>4, <2>1
  <2> QED
    BY <2>2, <1>4, <1>5 DEF NonYieldable, Call
<1>7. NonYields(c, t, n) = MainsOwn(t) + Cardinality(T)
  BY DEF NonYields
<1>8. MainsOwn(t) = 0
  BY <1>4 DEF MainsOwn
<1> HIDE DEF T
<1> QED
  BY <1>2, <1>6, <1>7, <1>8, FS_EmptySet
(* finishCcall or resume goes on with the return of a function that was    *)
(* interrupted, whose frame becomes f: unroll leaves the frame to it.      *)
LEMMA PushInterrupted ==
  ASSUME NEW c, NEW F, NEW s, NEW a, NEW b, Ready(c, F, s, a, b, "none"),
         NEW t, c[Len(c)].thread = t, c[Len(c)].kind = "unroll", F[t] # <<>>,
         NEW r, Closes(c[Len(c)], F[t], r)
  PROVE  Ready(Append(c, r), F, s, a, b, "none")
<1>1. PICK h :
        /\ h \in [Nat -> Nat]
        /\ Stack(c, F, h) /\ Tip(c, F, h, "none") /\ Finishable(c, F, h, s)
  BY DEF Ready
<1> DEFINE n == Len(c)
           k == n - 1
           p == c[n]
           m == Len(F[t])
           g == [h EXCEPT ![n] = m - 1]
           d == Append(c, r)
           g2 == [g EXCEPT ![n + 1] = m]
<1>2. /\ c \in Seq(Acts) /\ n \in Nat /\ n > 0 /\ h \in [Nat -> Nat]
      /\ F \in [Thread -> Seq(FrameSet)] /\ t \in Thread
      /\ F[t] \in Seq(FrameSet) /\ m \in Nat /\ \A u \in Thread : Chain(F[u])
  BY <1>1, ReadyTypes
<1>3. n \in 2 .. Len(c) /\ k \in Nat /\ k > 0 /\ k \in 1 .. Len(c) /\ c[k].thread = t
  BY <1>1, UnderTop
<1>4. h[k] = 0 /\ p.kind = "unroll" /\ p.thread = t
  BY <1>1, <1>3, HeightUnderUnroll
<1>5. m > 0
  BY <1>2
<1>6. h[n] = m
  BY <1>1 DEF Tip
<1>7. Closes(p, F[t], r)
  OBVIOUS
<1>8. /\ n = Len(c) /\ m = Len(F[t]) /\ p = c[n] /\ g = [h EXCEPT ![n] = m - 1]
      /\ d = Append(c, r) /\ g2 = [g EXCEPT ![n + 1] = m] /\ k = n - 1
  OBVIOUS
<1>9. /\ Len(d) = n + 1 /\ d[n + 1] = r /\ \A i \in 1 .. n : d[i] = c[i]
  BY <1>2
<1>10. \A f : Above(c, k, t, f)
  <2> TAKE f
  <2>1. k \in 1 .. n /\ c[n].kind = "unroll" /\ Stack(c, F, h)
    BY <1>1, <1>3
  <2>2. Above(c, k, c[n].thread, f)
    BY ONLY <2>1, <1>3, AboveUnroll
  <2> QED
    BY <2>2, <1>4
<1>11. F[t][m] \in FrameSet
  BY <1>2, <1>5
<1> HIDE DEF n, m, p, g, d, g2, k
<1>12. /\ r \in Acts /\ ~First(r) /\ ~Call(r) /\ ~Guard(r) /\ ~NonYieldable(r)
       /\ r.kind \notin {"unroll", "try", "handler"} /\ Kinds(p, r)
       /\ Fit(F[t], p, r, m - 1, m)
  BY ONLY <1>2, <1>4, <1>7, <1>8, ClosesFacts
<1>13. r.thread = t
  BY ONLY <1>4, <1>7 DEF Closes
<1>14. m - 1 \in Nat /\ m - 1 <= m /\ 0 <= m - 1 /\ n + 1 \in Nat /\ n # n + 1 /\ m \in Nat
       /\ n + 1 - 1 = n /\ n - 1 = k /\ n \in Nat /\ k + 1 = n
  <2>1. n \in Nat /\ m \in Nat /\ m > 0
    BY ONLY <1>2, <1>5
  <2>2. k = n - 1
    BY ONLY <1>8
  <2> QED
    BY ONLY <2>1, <2>2
<1>15. g \in [Nat -> Nat] /\ g[n] = m - 1 /\ \A i \in Nat : i # n => g[i] = h[i]
  BY ONLY <1>2, <1>8, <1>14
<1>16. ~First(p) /\ ~Guard(p) /\ ~Call(p) /\ ~NonYieldable(p)
  BY ONLY <1>4 DEF First, Guard, Call, NonYieldable
<1>17. Stack(c, F, g)
  <2>1. Regrown(c, F, h, k, t, F)
    <3>1. 0 <= Len(F[t]) /\ h[k] <= Len(F[t])
      <4>1. m = Len(F[t])
        BY ONLY <1>8
      <4> QED
        BY ONLY <4>1, <1>14, <1>4
    <3>2. \A q \in 1 .. h[k] : F[t][q] = F[t][q]
      OBVIOUS
    <3>3. \A q \in h[k] + 1 .. Len(F[t]) : Above(c, k, t, F[t][q])
      BY ONLY <1>10
    <3> QED
      BY ONLY <1>2, <3>1, <3>2, <3>3 DEF Regrown
  <2>2. Regrown(c, F, h, k, p.thread, F)
    BY ONLY <2>1, <1>4
  <2>3. Fit(F[t], c[k], p, h[k], m - 1)
    BY ONLY <1>4, <1>8, <1>14, <1>16 DEF Fit, First, Guard, Call
  <2>4. Fit(F[p.thread], c[k], p, h[k], m - 1)
    BY ONLY <2>3, <1>4
  <2>5. k = Len(c) - 1 /\ k > 0 /\ p = c[k + 1] /\ m - 1 \in Nat
    BY ONLY <1>3, <1>8, <1>14
  <2>6. Stack(c, F, [h EXCEPT ![k + 1] = m - 1])
    BY ONLY <1>1, <1>16, <2>2, <2>4, <2>5, ChangeTop
  <2>7. k + 1 = n
    BY ONLY <1>14
  <2> QED
    BY ONLY <2>6, <2>7, <1>8
<1>18. Stack(d, F, g2)
  <2>1. Kinds(c[Len(c)], r)
    BY ONLY <1>8, <1>12
  <2>2. Fit(F[r.thread], c[Len(c)], r, g[Len(c)], m)
    BY ONLY <1>8, <1>12, <1>13, <1>15
  <2>3. ~Call(c[Len(c)])
    BY ONLY <1>8, <1>16
  <2>4. MayPush(c, F, g, r, m)
    BY ONLY <2>1, <2>2, <2>3, <1>12 DEF MayPush
  <2>5. Stack(Append(c, r), F, [g EXCEPT ![Len(c) + 1] = m])
    BY ONLY <2>4, <1>12, <1>14, <1>17, PushStack
  <2> QED
    BY ONLY <2>5, <1>8
<1>19. g2 \in [Nat -> Nat] /\ g2[n + 1] = m /\ \A i \in 0 .. n : g2[i] = g[i]
  BY ONLY <1>15, <1>8, <1>14
<1>20. Tip(d, F, g2, "none")
  BY ONLY <1>9, <1>12, <1>13, <1>19, <1>8 DEF Tip
<1>21. Finishable(d, F, g2, s)
  <2>1. ASSUME NEW u \in Thread, s[u] # "err", NEW q \in 1 .. Len(F[u]) - 1, ~Held(F[u][q])
        PROVE  \E i \in 2 .. Len(d) : d[i].thread = u /\ NonYieldable(d[i]) /\ g2[i - 1] = q
    <3>1. PICK i \in 2 .. Len(c) : c[i].thread = u /\ NonYieldable(c[i]) /\ h[i - 1] = q
      BY ONLY <1>1, <2>1, u \in Thread DEF Finishable
    <3>2. i \in 2 .. n /\ i \in 1 .. n /\ i - 1 \in 0 .. n /\ i \in 2 .. n + 1 /\ i - 1 \in Nat /\ i - 1 # n
      BY ONLY <1>8, <1>14, <3>1
    <3>3. g2[i - 1] = h[i - 1] /\ d[i] = c[i]
      BY ONLY <3>2, <1>9, <1>15, <1>19
    <3>4. i \in 2 .. Len(d)
      BY ONLY <3>2, <1>9
    <3> QED
      BY ONLY <3>1, <3>3, <3>4
  <2> QED
    BY ONLY <2>1 DEF Finishable
<1>22. Counted(d, a, b, "none")
  <2>1. /\ a \in [Thread -> Nat] /\ b \in [Thread -> Nat] /\ a[t] = CCalls(c, n)
        /\ CCalls(c, n) < ErrorCCalls
    <3>1. /\ a \in [Thread -> Nat] /\ b \in [Thread -> Nat]
          /\ a[c[Len(c)].thread] = CCalls(c, Len(c)) /\ CCalls(c, Len(c)) < ErrorCCalls
      BY ReadyTypes
    <3> QED
      BY <3>1 DEF n
  <2>2. CountOf(r) = 0 /\ NonYieldOf(t, r) = 0
    BY ONLY <1>12 DEF CountOf, NonYieldOf, IsCounted
  <2>3. Recounted(a, b, t, r, a, b, "none")
    <3>1. a[t] \in Nat /\ b[t] \in Nat
      BY ONLY <2>1, <1>2
    <3> QED
      BY ONLY <2>1, <2>2, <3>1 DEF Recounted
  <2>4. Recounted(a, b, r.thread, r, a, b, "none") /\ r.thread = c[Len(c)].thread /\ r.kind # "try"
        /\ "none" # "err"
    BY ONLY <2>3, <1>13, <1>4, <1>8, <1>12
  <2> QED
    BY ONLY <2>4, <1>8, <1>12, Ready(c, F, s, a, b, "none"), PushCounts
<1>23. Ready(d, F, s, a, b, "none")
  BY ONLY <1>2, <1>18, <1>19, <1>20, <1>21, <1>22 DEF Ready
<1> QED
  BY <1>23, <1>8

(* All functions below the top one can be continued.                       *)
LEMMA UnrollHeld ==
  ASSUME NEW c, NEW F, NEW s, NEW a, NEW b, NEW e, Ready(c, F, s, a, b, e),
         NEW t, c[Len(c)].thread = t, c[Len(c)].kind = "unroll", s[t] # "err"
  PROVE  b[t] = 0 /\ \A p \in 1 .. Len(F[t]) - 1 : Held(F[t][p])
<1>1. b[t] = 0
  BY UnrollYields
<1> QED
  BY <1>1, AllHeld
(* The frame f comes after those below the frame q of FR, as that one does. *)
LEMMA FollowsToo ==
  ASSUME NEW FR \in Seq(FrameSet), Chain(FR), NEW q \in 1 .. Len(FR), NEW f,
         f.func = FR[q].func, f.lua = FR[q].lua, f.fresh = FR[q].fresh,
         NEW E, E \in Seq(FrameSet), Len(E) = q - 1, \A p \in 1 .. q - 1 : E[p] = FR[p]
  PROVE  IF E = <<>> THEN f.lua /\ f.fresh ELSE Follows(E[Len(E)], f)
<1>1. Len(FR) \in Nat /\ q \in Nat /\ q > 0 /\ q <= Len(FR)
  OBVIOUS
<1>2. CASE q = 1
  <2>1. E = <<>>
    BY <1>2
  <2>2. FR # <<>>
    BY <1>1
  <2>3. FR[1].lua /\ FR[1].fresh
    BY <2>2 DEF Chain
  <2> QED
    BY <2>1, <2>3, <1>2
<1>3. CASE q # 1
  <2>1. q - 1 \in 1 .. q - 1 /\ q \in 2 .. Len(FR)
    BY <1>1, <1>3
  <2>2. E # <<>> /\ E[Len(E)] = FR[q - 1]
    BY <2>1
  <2>3. Follows(FR[q - 1], FR[q])
    BY <2>1 DEF Chain
  <2>4. Follows(FR[q - 1], f)
    BY <2>3 DEF Follows
  <2> QED
    BY <2>2, <2>4
<1> QED
  BY <1>2, <1>3

(* unroll calls what goes on with the frame q of its thread, as f, and     *)
(* leaves it the frame.                                                    *)
Continued(FR, q, r, f) ==
  /\ q \in 1 .. Len(FR)
  /\ r \in Acts /\ Call(r) /\ r.inc = 0 /\ (r.kind = "cfun" => r.cont)
  /\ f \in FrameSet /\ FrameOK(f) /\ ~f.ypcall /\ f.recst = "ok"
  /\ f.func = FR[q].func /\ f.lua = FR[q].lua /\ f.fresh = FR[q].fresh
  /\ f.lua <=> r.kind = "exec"
  /\ f.lua => f.fresh

(* In G the frame q of the thread t is f, and those above it are gone.     *)
Retopped(F, t, q, f, G) ==
  /\ G \in [Thread -> Seq(FrameSet)]
  /\ \A u \in Thread : u # t => G[u] = F[u]
  /\ G[t] = Retop(F[t], q, f)

(* unroll goes on with a function that was interrupted.                    *)
LEMMA PushContinued ==
  ASSUME NEW c, NEW F, NEW s, NEW a, NEW b, Ready(c, F, s, a, b, "none"),
         NEW t, c[Len(c)].thread = t, c[Len(c)].kind = "unroll", s[t] # "err",
         NEW q, NEW r, NEW f, Continued(F[t], q, r, f), r.thread = t,
         NEW G, Retopped(F, t, q, f, G)
  PROVE  Ready(Append(c, r), G, s, a, b, "none")
<1> DEFINE m == Len(F[t])
           E == [F EXCEPT ![t] = SubSeq(F[t], 1, q - 1)]
<1>1. /\ c \in Seq(Acts) /\ Len(c) \in Nat /\ Len(c) > 0
      /\ F \in [Thread -> Seq(FrameSet)] /\ t \in Thread /\ F[t] \in Seq(FrameSet)
      /\ m \in Nat /\ Chain(F[t])
      /\ a \in [Thread -> Nat] /\ b \in [Thread -> Nat]
      /\ a[t] = CCalls(c, Len(c)) /\ CCalls(c, Len(c)) < ErrorCCalls
  BY ReadyTypes
<1>2. /\ q \in 1 .. Len(F[t])
      /\ r \in Acts /\ Call(r) /\ r.inc = 0 /\ (r.kind = "cfun" => r.cont)
      /\ f \in FrameSet /\ FrameOK(f) /\ ~f.ypcall /\ f.recst = "ok"
      /\ f.func = F[t][q].func /\ f.lua = F[t][q].lua /\ f.fresh = F[t][q].fresh
      /\ f.lua <=> r.kind = "exec"
      /\ f.lua => f.fresh
  BY DEF Continued
<1>3. b[t] = 0 /\ \A p \in 1 .. Len(F[t]) - 1 : Held(F[t][p])
  BY UnrollHeld
<1>4. q \in Nat /\ q > 0 /\ q <= m /\ q - 1 \in 0 .. m /\ q - 1 \in 0 .. Len(F[t])
  BY <1>1, <1>2
<1>5. /\ SubSeq(F[t], 1, q - 1) \in Seq(FrameSet) /\ Len(SubSeq(F[t], 1, q - 1)) = q - 1
      /\ \A p \in 1 .. q - 1 : SubSeq(F[t], 1, q - 1)[p] = F[t][p]
      /\ Chain(SubSeq(F[t], 1, q - 1))
  BY ONLY <1>1, <1>4, ChainCut
<1>6. /\ E \in [Thread -> Seq(FrameSet)] /\ \A u \in Thread : u # t => E[u] = F[u]
      /\ E[t] = SubSeq(F[t], 1, q - 1)
  BY <1>1, <1>5
<1>m. m = Len(F[t])
  OBVIOUS
<1> HIDE DEF E, m
<1>7. Shrunk(F, t, q - 1, E)
  BY ONLY <1>6 DEF Shrunk
<1>8. Ready(c, E, s, a, b, "none")
  BY ONLY <1>4, <1>7, Ready(c, F, s, a, b, "none"), c[Len(c)].thread = t,
          c[Len(c)].kind = "unroll", LowerUnroll
<1>9. r.kind # "unroll" /\ CountOf(r) = 0 /\ NonYieldOf(t, r) = 0 /\ ~First(r) /\ ~Guard(r)
      /\ ~NonYieldable(r) /\ r.kind \in {"exec", "cfun"}
  BY <1>2 DEF Call, CountOf, NonYieldOf, IsCounted, NonYieldable, First, Guard
<1>10. Kinds(c[Len(c)], r)
  <2> DEFINE p == c[Len(c)]
  <2>1. p.kind = "unroll" /\ p.thread = t /\ r.thread = t
    OBVIOUS
  <2> HIDE DEF p
  <2>2. Kinds(p, r)
    BY ONLY <2>1, <1>2, <1>9 DEF Kinds
  <2> QED
    BY <2>2 DEF p
<1>11. Recounted(a, b, r.thread, r, a, b, "none")
  <2>1. a[t] \in Nat /\ b[t] \in Nat
    BY ONLY <1>1
  <2>2. Recounted(a, b, t, r, a, b, "none")
    BY ONLY <2>1, <1>1, <1>9 DEF Recounted
  <2> QED
    BY <2>2
<1>12. MayCall(c, E[t], r, f)
  <2>1. PICK h : Stack(c, F, h) /\ Tip(c, F, h, "none")
    BY DEF Ready
  <2>2. Len(c) \in 2 .. Len(c) /\ Len(c) \in 1 .. Len(c) /\ Stack(c, F, h)
    BY <2>1, UnderTop
  <2>3. Above(c, Len(c), c[Len(c)].thread, f)
    BY ONLY <2>2, c[Len(c)].kind = "unroll", AboveUnroll
  <2>4. Above(c, Len(c), r.thread, f)
    BY <2>3
  <2>5. /\ E[t] \in Seq(FrameSet) /\ Len(E[t]) = q - 1
        /\ \A p \in 1 .. q - 1 : E[t][p] = F[t][p]
    BY ONLY <1>5, <1>6
  <2>6. IF E[t] = <<>> THEN f.lua /\ f.fresh ELSE Follows(E[t][Len(E[t])], f)
    BY ONLY <1>1, <1>2, <2>5, FollowsToo
  <2>7. E[t] # <<>> => Held(E[t][Len(E[t])])
    <3>1. SUFFICES ASSUME E[t] # <<>> PROVE Held(E[t][Len(E[t])])
      OBVIOUS
    <3>2. q - 1 # 0
      BY ONLY <2>5, <3>1
    <3>3. q - 1 \in 1 .. q - 1 /\ q - 1 \in 1 .. m - 1
      BY ONLY <1>1, <1>4, <3>2
    <3>4. Held(F[t][q - 1])
      BY ONLY <1>3, <3>3, <1>m
    <3> QED
      BY ONLY <2>5, <3>3, <3>4
  <2> QED
    BY ONLY <1>2, <2>4, <2>6, <2>7 DEF MayCall
<1>13. Extended(E, t, f, G)
  BY <1>6 DEF Extended, Retop, Retopped
<1>14. MayCall(c, E[r.thread], r, f) /\ Extended(E, r.thread, f, G)
  BY <1>12, <1>13
<1> QED
  BY ONLY <1>2, <1>8, <1>10, <1>11, <1>14, PushCall

-----------------------------------------------------------------------------
(* The frames of luaV_execute with the Lua function at the top of FR start *)
(* at a fresh one.                                                         *)
LEMMA FreshStart ==
  ASSUME NEW FR \in Seq(FrameSet), Chain(FR), FR # <<>>, FR[Len(FR)].lua
  PROVE  \E q \in 1 .. Len(FR) :
           /\ FR[q].lua /\ FR[q].fresh
           /\ \A p \in q + 1 .. Len(FR) : FR[p].lua /\ ~FR[p].fresh
<1> DEFINE m == Len(FR)
           S == {q \in 1 .. m : ~(FR[q].lua /\ ~FR[q].fresh)}
<1>1. m \in Nat /\ m > 0
  OBVIOUS
<1>2. FR[1].fresh
  BY DEF Chain
<1>3. 1 \in S
  BY <1>1, <1>2
<1>4. S \in SUBSET (0 .. m)
  BY <1>1
<1>5. PICK q \in S : \A y \in S : y <= q
  <2> HIDE DEF S, m
  <2> QED
    BY ONLY <1>1, <1>3, <1>4, GreatestNumber
<1>6. q \in Nat /\ q > 0 /\ q <= m /\ q \in 1 .. m /\ ~(FR[q].lua /\ ~FR[q].fresh)
  BY <1>1
<1>7. ASSUME NEW p \in q + 1 .. m PROVE FR[p].lua /\ ~FR[p].fresh
  <2>1. p \in 1 .. m /\ ~(p <= q)
    BY <1>1, <1>6
  <2> QED
    BY <2>1, <1>5
<1>8. FR[q].lua
  <2>1. CASE q = m
    BY <2>1
  <2>2. CASE q # m
    <3>1. q + 1 \in q + 1 .. m /\ q + 1 \in 2 .. Len(FR) /\ q + 1 - 1 = q
      BY <1>1, <1>6, <2>2
    <3>2. FR[q + 1].lua /\ ~FR[q + 1].fresh
      BY <1>7, <3>1
    <3>3. Follows(FR[q + 1 - 1], FR[q + 1])
      BY <3>1 DEF Chain
    <3> QED
      BY <3>1, <3>2, <3>3 DEF Follows
  <2> QED
    BY <2>1, <2>2
<1>9. FR[q].fresh
  <2>1. FR[q] \in FrameSet
    BY <1>6
  <2> QED
    BY <2>1, <1>6, <1>8, FrameFacts
<1> QED
  BY <1>6, <1>7, <1>8, <1>9

(* unroll goes on with the Lua function at the top.                        *)
LEMMA PushExecute ==
  ASSUME NEW c, NEW F, NEW s, NEW a, NEW b, Ready(c, F, s, a, b, "none"),
         NEW t, c[Len(c)].thread = t, c[Len(c)].kind = "unroll", s[t] # "err",
         F[t] # <<>>, F[t][Len(F[t])].lua,
         NEW r \in Acts, r.kind = "exec", r.thread = t, r.inc = 0
  PROVE  Ready(Append(c, r), F, s, a, b, "none")
<1>1. /\ F \in [Thread -> Seq(FrameSet)] /\ t \in Thread /\ F[t] \in Seq(FrameSet)
      /\ Len(F[t]) \in Nat /\ Chain(F[t]) /\ c \in Seq(Acts)
  BY ReadyTypes
<1>2. PICK q \in 1 .. Len(F[t]) :
        /\ F[t][q].lua /\ F[t][q].fresh
        /\ \A p \in q + 1 .. Len(F[t]) : F[t][p].lua /\ ~F[t][p].fresh
  BY <1>1, FreshStart
<1> DEFINE f == F[t][q]
           G == [F EXCEPT ![t] = Retop(F[t], q, f)]
<1>3. f \in FrameSet /\ FrameOK(f) /\ f.lua /\ f.fresh /\ f = F[t][q]
  BY <1>1, <1>2 DEF Chain
<1>4. ~f.ypcall /\ f.recst = "ok"
  <2> HIDE DEF f
  <2> QED
    BY ONLY <1>3, FrameFacts DEF FrameOK
<1> HIDE DEF f
<1>5. Continued(F[t], q, r, f)
  BY ONLY <1>2, <1>3, <1>4, r \in Acts, r.kind = "exec", r.inc = 0 DEF Continued, Call
<1>6. /\ Retop(F[t], q, f) \in Seq(FrameSet) /\ Len(Retop(F[t], q, f)) = q
      /\ \A p \in 1 .. q - 1 : Retop(F[t], q, f)[p] = F[t][p]
      /\ Retop(F[t], q, f)[q] = f
  BY ONLY <1>1, <1>2, <1>3, ChainChange
<1>7. /\ G \in [Thread -> Seq(FrameSet)] /\ \A u \in Thread : u # t => G[u] = F[u]
      /\ G[t] = Retop(F[t], q, f)
  BY <1>1, <1>6
<1> HIDE DEF G
<1>8. Ready(Append(c, r), G, s, a, b, "none")
  <2>1. Retopped(F, t, q, f, G)
    BY ONLY <1>7 DEF Retopped
  <2> QED
    BY ONLY <1>5, <2>1, Ready(c, F, s, a, b, "none"), c[Len(c)].thread = t,
            s[t] # "err", c[Len(c)].kind = "unroll", r.thread = t, PushContinued
<1>9. Grown(G, t, F)
  <2>1. q \in Nat /\ q > 0 /\ q <= Len(F[t])
    BY <1>1, <1>2
  <2>2. Len(G[t]) = q
    BY <1>6, <1>7
  <2>3. \A p \in 1 .. q : p \in 1 .. q - 1 \/ p = q
    BY <2>1
  <2>4. \A p \in 1 .. Len(G[t]) : F[t][p] = G[t][p]
    BY ONLY <1>3, <1>6, <1>7, <2>2, <2>3
  <2>5. \A u \in Thread : u # t => F[u] = G[u]
    BY ONLY <1>7
  <2> QED
    BY ONLY <1>1, <1>2, <2>1, <2>2, <2>4, <2>5 DEF Grown
<1>10. Append(c, r)[Len(Append(c, r))] = r
  BY ONLY <1>1, r \in Acts
<1> QED
  BY ONLY <1>8, <1>9, <1>10, r.thread = t, r.kind = "exec", PushLuaFrames
(* The message handler is about to be called.                              *)
LEMMA PushHandler ==
  ASSUME NEW c, NEW F, NEW s, NEW a, NEW b, NEW e, Ready(c, F, s, a, b, e), e # "err",
         NEW t, c[Len(c)].thread = t, c[Len(c)].kind \in {"exec", "cfun", "unroll"},
         NEW r \in Acts, r.kind = "handler", r.thread = t
  PROVE  Ready(Append(c, r), F, s, a, b, "none")
<1> DEFINE p == c[Len(c)]
           m == Len(F[t])
<1>1. p.thread = t /\ p.kind \in {"exec", "cfun", "unroll"} /\ r.kind = "handler" /\ r.thread = t
  OBVIOUS
<1>2. m \in Nat
  BY ReadyTypes
<1>3. p = c[Len(c)] /\ m = Len(F[t])
  OBVIOUS
<1> HIDE DEF p, m
<1>4. ~First(r) /\ ~Call(r) /\ ~Guard(r) /\ r.kind \notin {"unroll", "try"}
  BY ONLY <1>1 DEF First, Call, Guard
<1>5. Kinds(p, r)
  BY ONLY <1>1, <1>4 DEF Kinds
<1>6. Fit(F[t], p, r, m, m)
  BY ONLY <1>1, <1>2, <1>3, <1>4 DEF Fit
<1>7. /\ Kinds(c[Len(c)], r)
      /\ Fit(F[r.thread], c[Len(c)], r, Len(F[r.thread]), Len(F[r.thread]))
      /\ r.kind = "try" => r.nC = a[r.thread] /\ r.nny = b[r.thread]
      /\ IF r.kind = "handler" THEN e # "err" ELSE e = "none"
  BY ONLY <1>1, <1>3, <1>4, <1>5, <1>6, e # "err"
<1> QED
  BY ONLY <1>4, <1>7, r \in Acts, Ready(c, F, s, a, b, e), PushPlain

-----------------------------------------------------------------------------
(* ccall: the counts and the frames after the call r, whose frame is f     *)
(* unless the call overflows.                                              *)
CallMade(F, a, b, r, f, G, a2, b2, e) ==
  /\ e = Overflow(a[r.thread] + 1)
  /\ a2 = [a EXCEPT ![r.thread] = @ + 1]
  /\ b2 = [b EXCEPT ![r.thread] = IF r.inc = 2 THEN @ + 1 ELSE @]
  /\ IF e = "none" THEN Extended(F, r.thread, f, G) ELSE G = F

(* The limits of C calls.                                                  *)
LEMMA OverflowFacts ==
  ASSUME NEW n \in Nat
  PROVE  /\ Overflow(n) \in {"none", "error", "err"}
         /\ n < ErrorCCalls \/ Overflow(n) = "err"
         /\ Overflow(n) = "error" => n = LUAI_MAXCCALLS
BY CoroutineConstants DEF Overflow

(* A call, which may overflow.                                             *)
LEMMA Called ==
  ASSUME NEW c, NEW F, NEW s, NEW a, NEW b, Ready(c, F, s, a, b, "none"),
         NEW r \in Acts, Call(r), r.inc \in {1, 2}, Kinds(c[Len(c)], r),
         NEW f, MayCall(c, F[r.thread], r, f),
         NEW G, NEW a2, NEW b2, NEW e, CallMade(F, a, b, r, f, G, a2, b2, e)
  PROVE  Ready(Append(c, r), G, s, a2, b2, e)
<1> DEFINE t == r.thread
<1>1. a \in [Thread -> Nat] /\ b \in [Thread -> Nat] /\ t \in Thread
  BY ReadyTypes, ActFacts
<1>2. /\ e = Overflow(a[t] + 1)
      /\ a2 = [a EXCEPT ![t] = @ + 1]
      /\ b2 = [b EXCEPT ![t] = IF r.inc = 2 THEN @ + 1 ELSE @]
      /\ IF e = "none" THEN Extended(F, t, f, G) ELSE G = F
  BY DEF CallMade
<1>3. a[t] \in Nat /\ a[t] + 1 \in Nat /\ b[t] \in Nat /\ b[t] + 1 \in Nat
  BY <1>1
<1>4. CountOf(r) = 1 /\ NonYieldOf(t, r) = IF r.inc = 2 THEN 1 ELSE 0
  BY DEF CountOf, NonYieldOf, IsCounted, NonYieldable
<1>5. a[t] + 1 < ErrorCCalls \/ e = "err"
  BY ONLY <1>2, <1>3, OverflowFacts
<1>t. t = r.thread
  OBVIOUS
<1> HIDE DEF t
<1>6. Recounted(a, b, t, r, a2, b2, e)
  <2>1. /\ a2 \in [Thread -> Nat] /\ \A u \in Thread : u # t => a2[u] = a[u]
        /\ a2[t] = a[t] + 1
    BY ONLY <1>1, <1>2, <1>3
  <2>2. /\ b2 \in [Thread -> Nat] /\ \A u \in Thread : u # t => b2[u] = b[u]
        /\ b2[t] = b[t] + IF r.inc = 2 THEN 1 ELSE 0
    BY ONLY <1>1, <1>2, <1>3
  <2> QED
    BY ONLY <2>1, <2>2, <1>4, <1>5 DEF Recounted
<1>7. Recounted(a, b, r.thread, r, a2, b2, e)
  BY ONLY <1>6, <1>t
<1>8. CASE e = "none"
  <2>1. Recounted(a, b, r.thread, r, a2, b2, "none") /\ Extended(F, r.thread, f, G)
    BY ONLY <1>2, <1>7, <1>8, <1>t
  <2>2. Ready(Append(c, r), G, s, a2, b2, "none")
    BY ONLY <2>1, Ready(c, F, s, a, b, "none"), r \in Acts, Call(r), Kinds(c[Len(c)], r),
            MayCall(c, F[r.thread], r, f), PushCall
  <2> QED
    BY ONLY <2>2, <1>8
<1>9. CASE e # "none"
  <2>1. Ready(Append(c, r), F, s, a2, b2, e)
    BY ONLY <1>7, <1>9, Ready(c, F, s, a, b, "none"), r \in Acts, Call(r), Kinds(c[Len(c)], r),
            PushOverflow
  <2> QED
    BY ONLY <2>1, <1>2, <1>9
<1> QED
  BY <1>8, <1>9

(* ccall as the actions state it.                                          *)
LEMMA CCallMade ==
  ASSUME NEW inc \in 1 .. 2, NEW isLua \in BOOLEAN, NEW func \in Nat,
         NEW frames \in Seq(FrameSet), NEW stack,
         CCall(inc, isLua, func, frames, stack), L \in Thread, ci \in [Thread -> Seq(FrameSet)]
  PROVE  /\ cs' = Append(stack, Activation(isLua, inc))
         /\ Activation(isLua, inc) \in Acts /\ Call(Activation(isLua, inc))
         /\ Activation(isLua, inc).inc = inc /\ Activation(isLua, inc).thread = L
         /\ Activation(isLua, inc).kind = (IF isLua THEN "exec" ELSE "cfun")
         /\ ~isLua => Activation(isLua, inc).cont = FALSE
         /\ CallMade([ci EXCEPT ![L] = frames], nC, nny, Activation(isLua, inc),
                     Frame(isLua, TRUE, func), ci', nC', nny', exc')
<1> DEFINE r == Activation(isLua, inc)
           f == Frame(isLua, TRUE, func)
           F == [ci EXCEPT ![L] = frames]
           over == Overflow(nC[L] + 1)
<1>1. /\ r \in Acts /\ Call(r) /\ r.inc = inc /\ r.thread = L
      /\ r.kind = (IF isLua THEN "exec" ELSE "cfun") /\ (~isLua => r.cont = FALSE)
  BY DEF Activation, Acts, Call
<1>2. /\ nC' = [nC EXCEPT ![L] = @ + 1]
      /\ nny' = [nny EXCEPT ![L] = IF inc = 2 THEN @ + 1 ELSE @]
      /\ exc' = over
      /\ cs' = Append(stack, r)
      /\ ci' = [ci EXCEPT ![L] = IF over = "none" THEN Append(frames, f) ELSE frames]
  BY DEF CCall
<1>3. f \in FrameSet
  BY DEF Frame, FrameSet
<1>4. Append(frames, f) \in Seq(FrameSet)
  <2> HIDE DEF f
  <2> QED
    BY ONLY <1>3, frames \in Seq(FrameSet)
<1>5. over = Overflow(nC[L] + 1)
  OBVIOUS
<1> HIDE DEF r, f, over
<1>6. CASE over = "none"
  <2>1. ci' = [ci EXCEPT ![L] = Append(frames, f)]
    BY <1>2, <1>6
  <2>2. Extended(F, L, f, ci')
    BY <2>1, <1>4 DEF Extended
  <2>3. CallMade(F, nC, nny, r, f, ci', nC', nny', exc')
    <3> HIDE DEF F
    <3> QED
      BY ONLY <1>1, <1>2, <1>5, <1>6, <2>2 DEF CallMade
  <2> QED
    BY <1>1, <1>2, <2>3 DEF r, f
<1>7. CASE over # "none"
  <2>1. ci' = F
    BY <1>2, <1>7
  <2>3. CallMade(F, nC, nny, r, f, ci', nC', nny', exc')
    <3> HIDE DEF F
    <3> QED
      BY ONLY <1>1, <1>2, <1>5, <1>7, <2>1 DEF CallMade
  <2> QED
    BY <1>1, <1>2, <2>3 DEF r, f
<1> QED
  BY <1>6, <1>7
(* Between two protected calls of a thread there is a call with a frame.   *)
LEMMA GuardsApart ==
  ASSUME NEW c, NEW F, NEW h, Stack(c, F, h), NEW j \in 2 .. Len(c), NEW i \in 2 .. j - 1,
         Guard(c[j]), Guard(c[i]), c[i].thread = c[j].thread
  PROVE  h[i] < h[j]
<1>1. /\ Len(c) \in Nat /\ \A n \in 0 .. Len(c) : h[n] \in Nat
      /\ c[1].kind = "main"
      /\ Piled(c) /\ Fits(c, F, h) /\ Starts(c, F, h) /\ Framed(c, h) /\ Segments(c, h)
      /\ \A n \in 1 .. Len(c) : c[n] \in Acts
  BY StackShape
<1>2. /\ j \in Nat /\ i \in Nat /\ 2 <= i /\ i < j /\ j <= Len(c) /\ j - 1 \in Nat
      /\ j - 1 \in 1 .. Len(c) /\ j \in 1 .. Len(c) /\ i \in 1 .. Len(c) /\ j - 1 > 1
      /\ j - 1 \in 2 .. Len(c)
  BY <1>1
<1>3. Kinds(c[j - 1], c[j]) /\ Kinds(c[j - 2], c[j - 1])
  <2>1. j - 1 - 1 = j - 2
    BY <1>2
  <2> QED
    BY <1>1, <1>2, <2>1 DEF Piled
<1>4. c[j].of \in {"pcall", "close", "resume"} /\ c[j].kind = "try" /\ c[i].kind = "try"
  BY <1>1, <1>2, ActFacts DEF Guard
<1>5. c[j - 1].kind \in {"cfun", "caught", "reset"}
  <2>1. c[j - 1].kind # "main"
    BY <1>3 DEF Kinds
  <2> QED
    BY <1>3, <1>4, <2>1 DEF Kinds, Guard
<1>6. \A k \in i .. j : c[k].thread = c[j].thread
  BY <1>1, <1>2, SMTT(30) DEF Segments
<1>7. h[j] = h[j - 1]
  BY <1>1, <1>2 DEF Fits, Fit
<1>8. CASE c[j - 1].kind = "cfun"
  <2>1. i # j - 1
    BY <1>4, <1>8
  <2>2. /\ i <= j - 2 /\ j - 2 \in 1 .. Len(c) /\ j - 2 \in i .. j /\ j - 2 \in 0 .. Len(c)
        /\ j - 1 \in 0 .. Len(c) /\ i \in 0 .. Len(c)
    BY <1>1, <1>2, <2>1
  <2>3. h[j - 2] < h[j - 1]
    BY <1>1, <1>4, <1>8 DEF Framed, Call
  <2>4. h[i] <= h[j - 2]
    <3>1. c[i].thread = c[j - 2].thread
      BY <1>6, <2>2
    <3> QED
      BY <1>1, <1>2, <2>2, <3>1 DEF Segments
  <2> QED
    BY <1>1, <1>7, <2>2, <2>3, <2>4
<1>9. CASE c[j - 1].kind = "caught"
  <2>1. i # j - 1
    BY <1>4, <1>9
  <2>2. c[j - 2].kind \in {"main", "cfun"} /\ h[j - 1] = h[j - 2]
    <3>1. c[j - 2].kind \in {"main", "cfun"}
      BY <1>3, <1>9 DEF Kinds
    <3>2. Fit(F[c[j - 1].thread], c[j - 1 - 1], c[j - 1], h[j - 1 - 1], h[j - 1])
      BY <1>1, <1>2 DEF Fits
    <3>3. h[j - 1] = h[j - 1 - 1] /\ j - 1 - 1 = j - 2
      BY <1>2, <1>9, <3>2 DEF Fit
    <3> QED
      BY <3>1, <3>3
  <2>3. i # j - 2
    BY <1>4, <2>2
  <2>4. /\ i <= j - 3 /\ j - 3 \in 1 .. Len(c) /\ j - 2 \in 2 .. Len(c) /\ j - 3 \in i .. j
        /\ j - 1 - 1 = j - 2 /\ j - 1 - 2 = j - 3 /\ j - 2 - 1 = j - 3
        /\ j - 3 \in 0 .. Len(c) /\ j - 2 \in 0 .. Len(c) /\ i \in 0 .. Len(c)
    BY <1>1, <1>2, <2>1, <2>3
  <2>5. c[j - 2].kind = "cfun"
    <3>1. Kinds(c[j - 2 - 1], c[j - 2])
      BY <1>1, <2>4 DEF Piled
    <3> QED
      BY <2>2, <3>1 DEF Kinds
  <2>6. h[j - 3] < h[j - 2]
    <3>1. Call(c[j - 1 - 1]) /\ c[j - 1].kind # "handler"
      BY <2>4, <2>5, <1>9 DEF Call
    <3>2. h[j - 1 - 2] < h[j - 1 - 1]
      BY <1>1, <1>2, <3>1 DEF Framed
    <3> QED
      BY <3>2, <2>4
  <2>7. h[i] <= h[j - 3]
    <3>1. c[i].thread = c[j - 3].thread
      BY <1>6, <2>4
    <3> QED
      BY <1>1, <1>2, <2>4, <3>1 DEF Segments
  <2> QED
    BY <1>1, <1>7, <2>2, <2>4, <2>6, <2>7, SMTT(30)
<1>10. CASE c[j - 1].kind = "reset"
  <2>1. First(c[j - 1]) /\ i # j - 1
    BY <1>4, <1>10 DEF First
  <2>2. i \in 1 .. j - 1 - 1 /\ j - 1 \in i .. j
    BY <1>1, <1>2, <2>1
  <2>3. c[i].thread # c[j - 1].thread
    BY <1>1, <1>2, <2>1, <2>2 DEF Starts
  <2> QED
    BY <1>6, <2>2, <2>3
<1> QED
  BY <1>5, <1>8, <1>9, <1>10

(* A protected call of the thread t, lower than the frame at the top.      *)
LEMMA GuardUnderFrame ==
  ASSUME NEW c, NEW F, NEW h, Stack(c, F, h), NEW i \in 2 .. Len(c), Guard(c[i]),
         NEW t, c[i].thread = t, h[i] < Len(F[t])
  PROVE  c[i].level <= F[t][Len(F[t])].func /\ ~F[t][Len(F[t])].ypcall
<1>1. /\ Len(c) \in Nat /\ Inside(c, F, h) /\ h[i] \in Nat /\ Len(F[t]) \in Nat
  <2>1. Len(c) \in Nat
    BY StackShape
  <2>2. i \in 0 .. Len(c) /\ i \in 1 .. Len(c)
    BY <2>1
  <2> QED
    BY <2>1, <2>2, StackShape
<1>2. Len(F[t]) \in h[i] + 1 .. Len(F[t])
  BY <1>1
<1> QED
  BY <1>1, <1>2 DEF Inside
(* What luaF_close has below it: the protected calls and the frame at the  *)
(* top end where the variables that it closes begin.                       *)
Limits(c, FR, t, n) ==
  /\ \A i \in 2 .. Len(c) : c[i].thread = t /\ Guard(c[i]) =>
       c[i].level <= n \/ (FR # <<>> /\ c[i].level <= FR[Len(FR)].func)
  /\ FR # <<>> =>
       /\ FR[Len(FR)].func <= n
       /\ FR[Len(FR)].ypcall => FR[Len(FR)].clsret \/ FR[Len(FR)].idx <= n

(* luaF_close is within the limits of what is below it.                    *)
LEMMA UnderClose ==
  ASSUME NEW c, NEW F, NEW s, NEW a, NEW b, NEW e, Ready(c, F, s, a, b, e),
         NEW t, c[Len(c)].thread = t, c[Len(c)].kind = "close"
  PROVE  /\ Limits(c, F[t], t, c[Len(c)].level)
         /\ c[Len(c)].yy => F[t] # <<>> /\ Held(F[t][Len(F[t])])
<1>1. PICK h :
        /\ h \in [Nat -> Nat]
        /\ Stack(c, F, h) /\ Tip(c, F, h, e) /\ Finishable(c, F, h, s)
  BY DEF Ready
<1>s. Stack(c, F, h)
  BY <1>1
<1> DEFINE n == Len(c)
           k == n - 1
           r == c[n]
           p == c[k]
           FR == F[t]
           m == Len(FR)
<1>2. /\ n \in Nat /\ k \in Nat /\ k > 0 /\ k \in 1 .. n /\ n \in 2 .. n
      /\ p.thread = t /\ Kinds(p, r) /\ Fit(FR, p, r, h[k], m)
      /\ h[k] \in Nat /\ h[k] <= m /\ h[n] = m /\ p \in Acts /\ r \in Acts
  <2>1. c[Len(c)].kind \notin {"main", "reset", "try"}
    OBVIOUS
  <2>2. c[Len(c)] \in Acts
    BY ReadyTypes
  <2> QED
    BY <1>1, <2>1, <2>2, UnderTop
<1>3. FR \in Seq(FrameSet) /\ Chain(FR)
  BY ReadyTypes
<1>4. r.kind = "close" /\ r.thread = t
  OBVIOUS
<1>5. n = Len(c) /\ k = n - 1 /\ r = c[n] /\ p = c[k] /\ FR = F[t] /\ m = Len(FR)
  OBVIOUS
<1>6. /\ \A i \in 0 .. n : h[i] \in Nat
      /\ Segments(c, h) /\ Framed(c, h) /\ Fits(c, F, h) /\ c[1].kind = "main"
      /\ \A i \in 1 .. n : c[i] \in Acts
  BY <1>s, StackShape
<1> HIDE DEF n, k, r, p, FR, m
<1>7. m \in Nat /\ (FR # <<>> <=> m > 0)
  <2>1. Len(FR) \in Nat /\ (FR # <<>> <=> Len(FR) > 0)
    BY ONLY <1>3
  <2> QED
    BY ONLY <2>1, <1>5
<1>8. /\ r.for \in {"block", "return", "poscall", "finishpcallk", "protected"}
      /\ r.yy \in BOOLEAN /\ r.level \in Nat /\ (r.yy <=> r.for # "protected")
      /\ r.for \in {"block", "return"} => p.kind = "exec"
      /\ r.for = "poscall" => p.kind \in {"cfun", "unroll"}
      /\ r.for = "finishpcallk" => p.kind = "unroll"
      /\ r.for = "protected" => p.kind = "try" /\ p.of = "close" /\ r.level = p.level
  BY ONLY <1>2, <1>4, ActFacts DEF Kinds
<1>9. /\ m = IF p.kind = "unroll" THEN h[k] + 1 ELSE h[k]
      /\ r.for # "protected" => m > 0
      /\ r.for = "block" => FR[m].lua /\ FR[m].doing = "close" /\ FR[m].idx = r.level
      /\ r.for = "return" => FR[m].lua /\ FR[m].doing = "return" /\ FR[m].func + 1 = r.level
      /\ r.for = "poscall" =>
           ~FR[m].lua /\ FR[m].clsret /\ FR[m].doing = "return" /\ FR[m].func = r.level
      /\ r.for = "finishpcallk" =>
           FR[m].ypcall /\ ~FR[m].clsret /\ FR[m].recst # "ok" /\ FR[m].idx = r.level
  BY ONLY <1>2, <1>4 DEF Fit
<1>10. m > 0 => FR[m] \in FrameSet /\ FrameOK(FR[m])
  <2>1. m > 0 => m \in 1 .. Len(FR)
    BY ONLY <1>5, <1>7
  <2> QED
    BY ONLY <2>1, <1>3 DEF Chain
<1>11. r.yy => m > 0 /\ Held(FR[m])
  BY ONLY <1>8, <1>9, <1>10 DEF Held, FrameOK
<1>12. p.kind = "try" /\ p.of = "close" => Guard(p)
  BY DEF Guard
<1>13. r.for = "protected" =>
         h[k] = m /\ (m > 0 => FR[m].func < r.level /\ ~FR[m].ypcall) /\ k \in 2 .. n
  <2> SUFFICES ASSUME r.for = "protected"
               PROVE  h[k] = m /\ (m > 0 => FR[m].func < r.level /\ ~FR[m].ypcall) /\ k \in 2 .. n
    OBVIOUS
  <2>1. h[k] = m /\ Guard(p) /\ r.level = p.level /\ p.kind # "unroll"
    BY ONLY <1>8, <1>9, <1>12, r.for = "protected"
  <2>2. k # 1
    BY <2>1, <1>5, <1>6 DEF Guard
  <2>3. k \in 2 .. n
    BY ONLY <1>2, <2>2
  <2>4. Fit(FR, c[k - 1], p, h[k - 1], h[k])
    <3>1. Fit(F[c[k].thread], c[k - 1], c[k], h[k - 1], h[k])
      BY ONLY <1>5, <1>6, <2>3 DEF Fits
    <3> QED
      BY ONLY <1>2, <1>5, <3>1
  <2> QED
    BY ONLY <2>1, <2>3, <2>4 DEF Fit
<1>14. m > 0 =>
         /\ FR[m].func <= r.level
         /\ FR[m].ypcall => FR[m].clsret \/ FR[m].idx <= r.level
  <2> SUFFICES ASSUME m > 0
               PROVE  /\ FR[m].func <= r.level
                      /\ FR[m].ypcall => FR[m].clsret \/ FR[m].idx <= r.level
    OBVIOUS
  <2> DEFINE f == FR[m]
  <2>1. /\ f.func \in Nat /\ f.idx \in Nat /\ f.lua \in BOOLEAN /\ f.ypcall \in BOOLEAN
        /\ FrameOK(f)
    BY ONLY <1>10, m > 0, FrameFacts
  <2>2. /\ r.for = "block" => f.lua /\ f.doing = "close" /\ f.idx = r.level
        /\ r.for = "return" => f.lua /\ f.func + 1 = r.level
        /\ r.for = "poscall" => f.clsret /\ f.func = r.level
        /\ r.for = "finishpcallk" => f.ypcall /\ f.idx = r.level
        /\ r.for = "protected" => f.func < r.level /\ ~f.ypcall
    BY ONLY <1>9, <1>13, m > 0
  <2> HIDE DEF f
  <2>3. f.func <= r.level /\ (f.ypcall => f.clsret \/ f.idx <= r.level)
    BY ONLY <1>8, <2>1, <2>2 DEF FrameOK
  <2> QED
    BY <2>3 DEF f
<1>15. ASSUME NEW i \in 2 .. n, c[i].thread = t, Guard(c[i])
       PROVE  c[i].level <= r.level \/ (m > 0 /\ c[i].level <= FR[m].func)
  <2>0. c[i].level \in Nat /\ c[i].kind = "try" /\ c[i].of # "resume" /\ i \in Nat
    <3>1. c[i] \in Acts
      BY ONLY <1>2, <1>6
    <3> QED
      BY ONLY <1>15, <3>1, ActFacts DEF Guard
  <2>1. i # n
    BY ONLY <2>0, <1>4, <1>5
  <2>2. i \in 2 .. k /\ i \in 2 .. Len(c)
    BY ONLY <2>1, <1>2, <1>5
  <2>3. h[i] \in Nat
    BY ONLY <1>2, <1>6
  <2>4. h[i] < m => c[i].level <= FR[m].func /\ m > 0
    <3> SUFFICES ASSUME h[i] < m PROVE c[i].level <= FR[m].func /\ m > 0
      OBVIOUS
    <3>1. c[i].level <= F[t][Len(F[t])].func
      <4>1. h[i] < Len(F[t])
        BY ONLY <1>5, h[i] < m
      <4> QED
        BY ONLY <4>1, <1>s, <1>15, <2>2, GuardUnderFrame
    <3> QED
      BY ONLY <3>1, <1>5, <1>7, <2>3, h[i] < m
  <2>5. CASE r.for = "protected"
    <3>1. CASE i = k
      <4>1. c[i].level = r.level
        BY ONLY <1>5, <1>8, <2>5, <3>1
      <4> QED
        BY ONLY <4>1, <2>0
    <3>2. CASE i # k
      <4>1. i \in 2 .. k - 1 /\ k \in 2 .. Len(c)
        BY ONLY <2>2, <3>2, <1>2, <1>5, <1>13, <2>5
      <4>2. Guard(c[k]) /\ c[i].thread = c[k].thread
        BY ONLY <1>2, <1>5, <1>8, <1>12, <1>15, <2>5
      <4>3. h[i] < h[k]
        BY ONLY <1>s, <4>1, <4>2, <1>15, GuardsApart
      <4> QED
        BY ONLY <4>3, <1>13, <2>4, <2>5
    <3> QED
      BY ONLY <3>1, <3>2
  <2>6. CASE p.kind \in {"exec", "cfun"}
    <3>1. i # k
      BY ONLY <2>0, <2>6, <1>5
    <3>2. /\ k - 1 \in 1 .. n /\ i <= k - 1 /\ k - 1 \in i .. n /\ i \in 1 .. n /\ n - 2 = k - 1
          /\ n - 1 = k /\ k - 1 \in 0 .. n
      BY ONLY <1>2, <2>2, <3>1, <1>5
    <3>3. c[k - 1].thread = c[i].thread
      <4>1. c[i].thread = c[n].thread
        BY ONLY <1>4, <1>5, <1>15
      <4>2. n \in 1 .. n
        BY ONLY <1>2
      <4>3. i <= n
        BY ONLY <1>2, <2>2
      <4> QED
        BY ONLY <4>1, <4>2, <4>3, <3>2, <1>5, <1>6 DEF Segments
    <3>4. h[i] <= h[k - 1]
      BY ONLY <3>2, <3>3, <1>5, <1>6 DEF Segments
    <3>5. h[k - 1] < h[k]
      <4>1. Call(c[n - 1]) /\ c[n].kind # "handler"
        BY ONLY <3>2, <2>6, <1>4, <1>5 DEF Call
      <4>2. n \in 2 .. Len(c)
        BY ONLY <1>2, <1>5
      <4>3. h[n - 2] < h[n - 1]
        BY ONLY <4>1, <4>2, <1>6 DEF Framed
      <4> QED
        BY ONLY <4>3, <3>2
    <3>6. h[k] = m
      BY ONLY <1>9, <2>6
    <3>7. h[k - 1] \in Nat /\ h[k] \in Nat
      BY ONLY <3>2, <1>2, <1>6
    <3>8. h[i] < m
      BY ONLY <2>3, <3>4, <3>5, <3>6, <3>7
    <3> QED
      BY ONLY <2>4, <3>8
  <2>7. CASE p.kind = "unroll"
    <3>1. k # 1
      BY ONLY <2>7, <1>5, <1>6
    <3>2. k \in 2 .. Len(c) /\ c[k].kind = "unroll"
      BY ONLY <3>1, <1>2, <1>5, <2>7
    <3>3. /\ c[k - 1].kind = "try" /\ c[k - 1].of = "resume"
          /\ \A j \in 1 .. k - 2 : c[j].thread # c[k].thread
      BY ONLY <1>s, <3>2, UnderUnroll
    <3>4. i = k \/ i = k - 1 \/ i \in 1 .. k - 2
      BY ONLY <2>2, <1>2
    <3>5. c[k].thread = t
      BY ONLY <1>2, <1>5
    <3>6. FALSE
      BY ONLY <3>2, <3>3, <3>4, <3>5, <2>0, <1>15
    <3> QED
      BY ONLY <3>6
  <2> QED
    BY ONLY <1>8, <2>5, <2>6, <2>7
<1>16. Limits(c, FR, t, r.level)
  BY ONLY <1>5, <1>7, <1>14, <1>15 DEF Limits
<1> QED
  BY ONLY <1>5, <1>7, <1>11, <1>16
(* The thread t is on the C stack c.                                       *)
On(c, t) == \E i \in 1 .. Len(c) : c[i].thread = t

(* TopOf, of a thread with frames FR and variables W.                      *)
TopAt(FR, W) ==
  LET func == IF FR = <<>> THEN 0 ELSE Last(FR).func
  IN  1 + IF W # <<>> /\ Last(W).level > func THEN Last(W).level ELSE func

(* ErrorTop                                                                *)
FaultAt(c, FR, W) ==
  LET p == c[Len(c) - 1]
  IN  IF p.kind = "close" /\ TopAt(FR, W) <= p.level THEN p.level + 1 ELSE TopAt(FR, W)

(* A message handler may be called at f.                                   *)
Reaches(c, t, FR, f) ==
  /\ \A i \in 2 .. Len(c) : c[i].thread = t /\ Guard(c[i]) => c[i].level <= f
  /\ FR # <<>> /\ FR[Len(FR)].ypcall => FR[Len(FR)].clsret \/ FR[Len(FR)].idx <= f

(* A thread on the C stack runs or is about to yield, and one that yielded *)
(* did so in a C function.                                                 *)
Settled(c, F, s, bd, e) ==
  \A t \in Thread :
    /\ On(c, t) => /\ ~bd[t]
                   /\ s[t] = "ok" \/ (t = c[Len(c)].thread /\ e = "yield" /\ s[t] = "yield")
    /\ ~On(c, t) /\ s[t] = "yield" =>
         F[t] # <<>> /\ ~F[t][Len(F[t])].lua /\ ~F[t][Len(F[t])].ypcall

(* What may be at the top of the C stack between two steps.                *)
Tips(c, F) ==
  LET r == c[Len(c)]
      FR == F[r.thread]
  IN  /\ r.kind \notin {"caught", "reset"}
      /\ r.kind = "try" => r.of = "pcall"
      /\ r.kind = "unroll" /\ FR # <<>> => Held(FR[Len(FR)])

(* Where errors are raised, and where a function yields.                   *)
Raising(c, F, b, e) ==
  LET r == c[Len(c)]
      FR == F[r.thread]
  IN  /\ e = "yield" => /\ r.kind = "cfun" /\ FR # <<>>
                        /\ ~FR[Len(FR)].lua /\ ~FR[Len(FR)].ypcall /\ b[r.thread] = 0
      /\ e = "exception" => r.kind = "cfun" /\ r.cont
      /\ e = "error" => r.kind \in {"exec", "cfun", "unroll"}
      /\ e = "err" => r.kind \in {"exec", "cfun", "unroll", "handler"}

(* A message handler may be called where an error is raised.               *)
Faults(c, F, V, a, e) ==
  LET t == c[Len(c)].thread
  IN  e = "error" =>
        Reaches(c, t, F[t], IF a[t] = LUAI_MAXCCALLS THEN FaultAt(c, F[t], V[t])
                                                     ELSE TopAt(F[t], V[t]))

Typed(V, s, bd, ef, e) ==
  /\ V \in [Thread -> Seq(VarSet)]
  /\ s \in [Thread -> {"ok", "yield", "err"}]
  /\ bd \in [Thread -> BOOLEAN]
  /\ ef \in [Thread -> Nat]
  /\ e \in {"none", "error", "err", "yield", "exception"}

(* The whole of a state: c is cs, F is ci, V is tbc, s is status, bd is    *)
(* body, a is nC, b is nny, ef is errfunc and e is exc.                    *)
Whole(c, F, V, s, bd, a, b, ef, e) ==
  /\ Ready(c, F, s, a, b, e)
  /\ Typed(V, s, bd, ef, e)
  /\ Settled(c, F, s, bd, e)
  /\ Tips(c, F)
  /\ Raising(c, F, b, e)
  /\ Faults(c, F, V, a, e)

Inv1 == Whole(cs, ci, tbc, status, body, nC, nny, errfunc, exc)

-----------------------------------------------------------------------------
(* The same threads are on the C stacks c and d, and only the frames of    *)
(* the running one changed.                                                *)
Goes(c, F, d, G) ==
  /\ \A u \in Thread : On(c, u) <=> On(d, u)
  /\ \A u \in Thread : u # c[Len(c)].thread => G[u] = F[u]

(* A step of the running thread.                                           *)
LEMMA StepSame ==
  ASSUME NEW c, NEW F, NEW V, NEW s, NEW bd, NEW a, NEW b, NEW ef, NEW e,
         Whole(c, F, V, s, bd, a, b, ef, e), e # "yield",
         NEW d, NEW G, Goes(c, F, d, G), NEW V2, NEW a2, NEW b2, NEW ef2, NEW e2,
         Ready(d, G, s, a2, b2, e2), Typed(V2, s, bd, ef2, e2),
         Tips(d, G), Raising(d, G, b2, e2), Faults(d, G, V2, a2, e2)
  PROVE  Whole(d, G, V2, s, bd, a2, b2, ef2, e2)
<1>1. Ready(c, F, s, a, b, e) /\ Settled(c, F, s, bd, e)
  BY DEF Whole
<1>2. c[Len(c)].thread \in Thread /\ Len(c) \in 1 .. Len(c)
  <2>1. c[Len(c)].thread \in Thread /\ Len(c) \in Nat /\ Len(c) > 0
    BY <1>1, ReadyTypes
  <2> QED
    BY <2>1
<1>3. On(c, c[Len(c)].thread)
  BY <1>2 DEF On
<1>4. ASSUME NEW t \in Thread
      PROVE  /\ On(d, t) => /\ ~bd[t]
                            /\ s[t] = "ok" \/ (t = d[Len(d)].thread /\ e2 = "yield" /\ s[t] = "yield")
             /\ ~On(d, t) /\ s[t] = "yield" =>
                  G[t] # <<>> /\ ~G[t][Len(G[t])].lua /\ ~G[t][Len(G[t])].ypcall
  <2>1. CASE On(d, t)
    <3>1. On(c, t)
      BY <2>1 DEF Goes
    <3> QED
      BY <1>1, <2>1, <3>1, e # "yield" DEF Settled
  <2>2. CASE ~On(d, t)
    <3>1. ~On(c, t)
      BY <2>2 DEF Goes
    <3>2. t # c[Len(c)].thread
      BY <1>3, <3>1
    <3>3. G[t] = F[t]
      BY <3>2 DEF Goes
    <3> QED
      BY <1>1, <2>2, <3>1, <3>3 DEF Settled
  <2> QED
    BY <2>1, <2>2
<1>5. Settled(d, G, s, bd, e2)
  BY <1>4 DEF Settled
<1> QED
  BY <1>5 DEF Whole

(* A step of the running thread without errors.                            *)
LEMMA StepRuns ==
  ASSUME NEW c, NEW F, NEW V, NEW s, NEW bd, NEW a, NEW b, NEW ef, NEW e,
         Whole(c, F, V, s, bd, a, b, ef, e), e # "yield",
         NEW d, NEW G, Goes(c, F, d, G), NEW V2, NEW a2, NEW b2, NEW ef2,
         Ready(d, G, s, a2, b2, "none"), Typed(V2, s, bd, ef2, "none"), Tips(d, G)
  PROVE  Whole(d, G, V2, s, bd, a2, b2, ef2, "none")
<1>1. Raising(d, G, b2, "none") /\ Faults(d, G, V2, a2, "none")
  BY DEF Raising, Faults
<1> QED
  BY <1>1, StepSame

(* An activation of the running thread is a step of it.                    *)
LEMMA GoesPush ==
  ASSUME NEW c \in Seq(Acts), Len(c) > 0, NEW r \in Acts, r.thread = c[Len(c)].thread,
         NEW F, NEW G, \A u \in Thread : u # c[Len(c)].thread => G[u] = F[u]
  PROVE  Goes(c, F, Append(c, r), G)
<1>1. /\ Len(c) \in Nat /\ Len(Append(c, r)) = Len(c) + 1 /\ Append(c, r)[Len(c) + 1] = r
      /\ \A i \in 1 .. Len(c) : Append(c, r)[i] = c[i]
  OBVIOUS
<1>2. Len(c) \in 1 .. Len(c) /\ Len(c) + 1 \in 1 .. Len(c) + 1
  BY <1>1
<1>3. \A i \in 1 .. Len(c) + 1 : i \in 1 .. Len(c) \/ i = Len(c) + 1
  BY <1>1
<1>4. \A i \in 1 .. Len(c) : i \in 1 .. Len(c) + 1
  BY <1>1
<1>5. \A u \in Thread : On(c, u) <=> On(Append(c, r), u)
  <2> DEFINE d == Append(c, r)
             n == Len(c)
  <2>1. /\ n \in 1 .. n /\ n + 1 \in 1 .. Len(d) /\ d[n + 1].thread = c[n].thread
        /\ \A i \in 1 .. Len(d) : i \in 1 .. n \/ i = n + 1
        /\ \A i \in 1 .. n : i \in 1 .. Len(d) /\ d[i] = c[i]
    BY <1>1, <1>2, <1>3, <1>4
  <2>2. n = Len(c)
    OBVIOUS
  <2> HIDE DEF d, n
  <2>3. \A u \in Thread : On(c, u) <=> On(d, u)
    BY ONLY <2>1, <2>2 DEF On
  <2> QED
    BY <2>3 DEF d
<1> QED
  BY <1>5 DEF Goes

(* So is a return to a lower activation of the same thread,                *)
LEMMA GoesCut ==
  ASSUME NEW c \in Seq(Acts), Len(c) > 0, NEW n \in 1 .. Len(c),
         \A i \in n .. Len(c) : c[i].thread = c[Len(c)].thread,
         NEW F, NEW G, \A u \in Thread : u # c[Len(c)].thread => G[u] = F[u]
  PROVE  Goes(c, F, SubSeq(c, 1, n), G)
<1> DEFINE d == SubSeq(c, 1, n)
           m == Len(c)
<1>1. m \in Nat /\ n \in Nat /\ n > 0 /\ n <= m /\ Len(d) = n /\ \A i \in 1 .. n : d[i] = c[i]
  OBVIOUS
<1>2. \A i \in n .. m : c[i].thread = c[m].thread
  OBVIOUS
<1>3. m = Len(c)
  OBVIOUS
<1> HIDE DEF d, m
<1>4. n \in 1 .. n /\ n \in n .. m /\ d[n].thread = c[m].thread
  BY ONLY <1>1, <1>2
<1>5. \A i \in 1 .. m : i \in 1 .. n \/ i \in n .. m
  BY ONLY <1>1
<1>6. \A i \in 1 .. n : i \in 1 .. m
  BY ONLY <1>1
<1>7. \A u \in Thread : On(c, u) <=> On(d, u)
  <2> SUFFICES ASSUME NEW u \in Thread PROVE On(c, u) <=> On(d, u)
    OBVIOUS
  <2>1. ASSUME On(c, u) PROVE On(d, u)
    <3>1. PICK i \in 1 .. m : c[i].thread = u
      BY ONLY <2>1, <1>3 DEF On
    <3>2. CASE i \in 1 .. n
      BY ONLY <3>1, <3>2, <1>1 DEF On
    <3>3. CASE i \in n .. m
      <4>1. d[n].thread = u
        BY ONLY <3>1, <3>3, <1>2, <1>4
      <4> QED
        BY ONLY <4>1, <1>1, <1>4 DEF On
    <3> QED
      BY ONLY <3>2, <3>3, <1>5
  <2>2. ASSUME On(d, u) PROVE On(c, u)
    BY ONLY <2>2, <1>1, <1>3, <1>6 DEF On
  <2> QED
    BY <2>1, <2>2
<1> QED
  BY <1>7 DEF Goes, d

(* and so is a change of its frames.                                       *)
LEMMA GoesSame ==
  ASSUME NEW c, NEW F, NEW G, \A u \in Thread : u # c[Len(c)].thread => G[u] = F[u]
  PROVE  Goes(c, F, c, G)
BY DEF Goes
(* Two such steps make one.                                                *)
LEMMA GoesOn ==
  ASSUME NEW c, NEW F, NEW d, NEW G, Goes(c, F, d, G), NEW d2, NEW G2, Goes(d, G, d2, G2),
         c[Len(c)].thread = d[Len(d)].thread
  PROVE  Goes(c, F, d2, G2)
BY DEF Goes

(* The first free slot is after the function and the variables.            *)
LEMMA TopAtFacts ==
  ASSUME NEW FR \in Seq(FrameSet), NEW W \in Seq(VarSet)
  PROVE  /\ TopAt(FR, W) \in Nat /\ TopAt(FR, W) > 0
         /\ FR # <<>> => FR[Len(FR)].func < TopAt(FR, W)
         /\ W # <<>> => W[Len(W)].level < TopAt(FR, W)
<1> DEFINE f == IF FR = <<>> THEN 0 ELSE FR[Len(FR)].func
           w == W[Len(W)].level
<1>1. f \in Nat
  <2>1. FR # <<>> => FR[Len(FR)] \in FrameSet
    OBVIOUS
  <2> QED
    BY <2>1, FrameFacts
<1>2. W # <<>> => w \in Nat
  <2>1. W # <<>> => W[Len(W)] \in VarSet
    OBVIOUS
  <2> QED
    BY <2>1 DEF VarSet
<1>3. TopAt(FR, W) = 1 + IF W # <<>> /\ w > f THEN w ELSE f
  BY DEF TopAt, Last
<1>4. FR # <<>> => FR[Len(FR)].func = f
  OBVIOUS
<1> HIDE DEF f, w
<1>5. TopAt(FR, W) \in Nat /\ TopAt(FR, W) > 0 /\ f < TopAt(FR, W)
      /\ (W # <<>> => w < TopAt(FR, W))
  BY ONLY <1>1, <1>2, <1>3
<1> QED
  BY <1>4, <1>5 DEF w

(* Where the message handler is called is above the function and its       *)
(* variables.                                                              *)
LEMMA FaultAtFacts ==
  ASSUME NEW c, NEW FR \in Seq(FrameSet), NEW W \in Seq(VarSet), c[Len(c) - 1] \in Acts
  PROVE  /\ FaultAt(c, FR, W) \in Nat /\ TopAt(FR, W) <= FaultAt(c, FR, W)
         /\ c[Len(c) - 1].kind # "close" => FaultAt(c, FR, W) = TopAt(FR, W)
         /\ c[Len(c) - 1].kind = "close" => c[Len(c) - 1].level < FaultAt(c, FR, W)
<1> DEFINE p == c[Len(c) - 1]
           x == TopAt(FR, W)
<1>1. p.kind = "close" => p.level \in Nat
  BY ActFacts
<1>2. x \in Nat
  BY TopAtFacts
<1>3. FaultAt(c, FR, W) = IF p.kind = "close" /\ x <= p.level THEN p.level + 1 ELSE x
  BY DEF FaultAt
<1> HIDE DEF p, x
<1>4. /\ FaultAt(c, FR, W) \in Nat /\ x <= FaultAt(c, FR, W)
      /\ p.kind # "close" => FaultAt(c, FR, W) = x
      /\ p.kind = "close" => p.level < FaultAt(c, FR, W)
  BY ONLY <1>1, <1>2, <1>3
<1> QED
  BY <1>4 DEF p, x

(* A new frame.                                                            *)
LEMMA NewFrame ==
  ASSUME NEW isLua \in BOOLEAN, NEW fresh \in BOOLEAN, NEW func \in Nat, func > 0
  PROVE  LET f == Frame(isLua, fresh, func)
         IN  /\ f \in FrameSet /\ FrameOK(f) /\ ~f.ypcall /\ ~f.k /\ ~f.clsret /\ f.recst = "ok"
             /\ f.doing = "run" /\ f.func = func /\ f.lua = isLua /\ f.fresh = fresh
<1> DEFINE f == Frame(isLua, fresh, func)
<1>1. f \in FrameSet
  BY DEF Frame, FrameSet
<1>2. /\ ~f.ypcall /\ ~f.k /\ ~f.clsret /\ f.recst = "ok" /\ f.doing = "run"
      /\ f.func = func /\ f.lua = isLua /\ f.fresh = fresh
  BY DEF Frame
<1>3. FrameOK(f)
  <2> HIDE DEF f
  <2> QED
    BY <1>2 DEF FrameOK
<1> QED
  BY <1>1, <1>2, <1>3

(* A running function calls another, at func.                              *)
LEMMA MayCallNew ==
  ASSUME NEW c, NEW F, NEW s, NEW a, NEW b, Ready(c, F, s, a, b, "none"), Call(c[Len(c)]),
         NEW t, c[Len(c)].thread = t,
         NEW isLua \in BOOLEAN, NEW fresh \in BOOLEAN, isLua => fresh,
         NEW func \in Nat, F[t][Len(F[t])].func < func,
         F[t][Len(F[t])].ypcall => F[t][Len(F[t])].clsret \/ F[t][Len(F[t])].idx <= func,
         NEW r, r.thread = t, isLua <=> r.kind = "exec",
         isLua /\ ~fresh => F[t][Len(F[t])].lua,
         Held(F[t][Len(F[t])]) \/ NonYieldable(r)
  PROVE  MayCall(c, F[t], r, Frame(isLua, fresh, func))
<1> DEFINE f == Frame(isLua, fresh, func)
           q == F[t][Len(F[t])]
<1>1. /\ F[t] # <<>> /\ q \in FrameSet /\ FrameOK(q)
      /\ \A g \in FrameSet : q.func <= g.func /\ ~g.ypcall => Above(c, Len(c), t, g)
  BY RunningCall
<1>2. q.func \in Nat
  BY <1>1, FrameFacts
<1>3. func > 0
  BY <1>2
<1>4. /\ f \in FrameSet /\ FrameOK(f) /\ ~f.ypcall /\ ~f.k /\ ~f.clsret /\ f.recst = "ok"
      /\ f.doing = "run" /\ f.func = func /\ f.lua = isLua /\ f.fresh = fresh
  BY <1>3, NewFrame
<1>5. /\ q.func < func /\ (q.ypcall => q.clsret \/ q.idx <= func) /\ (isLua /\ ~fresh => q.lua)
      /\ (Held(q) \/ NonYieldable(r)) /\ (isLua <=> r.kind = "exec") /\ (isLua => fresh)
      /\ r.thread = t /\ q = F[t][Len(F[t])]
  OBVIOUS
<1> HIDE DEF f, q
<1>6. q.func <= f.func
  BY <1>2, <1>4, <1>5
<1>7. Above(c, Len(c), t, f)
  BY <1>1, <1>4, <1>6
<1>8. Follows(q, f)
  BY ONLY <1>4, <1>5 DEF Follows
<1>9. MayCall(c, F[t], r, f)
  BY ONLY <1>1, <1>4, <1>5, <1>7, <1>8 DEF MayCall
<1> QED
  BY <1>9 DEF f

(* Where a running function raises an error, its handler may be called.    *)
LEMMA CallReaches ==
  ASSUME NEW c, NEW F, NEW s, NEW a, NEW b, Ready(c, F, s, a, b, "none"), Call(c[Len(c)]),
         NEW t, c[Len(c)].thread = t,
         NEW f \in Nat, F[t][Len(F[t])].func <= f,
         F[t][Len(F[t])].ypcall => F[t][Len(F[t])].clsret \/ F[t][Len(F[t])].idx <= f
  PROVE  Reaches(c, t, F[t], f)
<1> DEFINE q == F[t][Len(F[t])]
           g == Frame(TRUE, TRUE, q.func)
<1>1. /\ F[t] # <<>> /\ q \in FrameSet /\ FrameOK(q)
      /\ \A x \in FrameSet : q.func <= x.func /\ ~x.ypcall => Above(c, Len(c), t, x)
  BY RunningCall
<1>2. q.func \in Nat /\ q.func > 0 /\ q.func <= f /\ q = F[t][Len(F[t])]
      /\ (q.ypcall => q.clsret \/ q.idx <= f)
  BY <1>1, FrameFacts DEF FrameOK
<1>3. Len(c) \in Nat /\ \A i \in 1 .. Len(c) : c[i] \in Acts
  BY ReadyTypes
<1>g. g \in FrameSet /\ g.func = q.func /\ ~g.ypcall
  <2> HIDE DEF q
  <2> QED
    BY <1>2 DEF Frame, FrameSet
<1> HIDE DEF q, g
<1>4. Above(c, Len(c), t, g)
  BY ONLY <1>1, <1>2, <1>g
<1>5. ASSUME NEW i \in 2 .. Len(c), c[i].thread = t, Guard(c[i])
      PROVE  c[i].level <= f
  <2>1. c[i].level <= q.func
    BY ONLY <1>4, <1>5, <1>g DEF Above
  <2>2. i \in 1 .. Len(c)
    BY <1>3
  <2>3. c[i].level \in Nat
    BY <1>3, <1>5, <2>2, ActFacts DEF Guard
  <2> QED
    BY ONLY <2>1, <2>3, <1>2, f \in Nat
<1> QED
  BY ONLY <1>2, <1>5 DEF Reaches
(* The facts about a state that the steps use.                             *)
LEMMA WholeFacts ==
  ASSUME NEW c, NEW F, NEW V, NEW s, NEW bd, NEW a, NEW b, NEW ef, NEW e,
         Whole(c, F, V, s, bd, a, b, ef, e)
  PROVE  /\ Ready(c, F, s, a, b, e) /\ Typed(V, s, bd, ef, e)
         /\ Settled(c, F, s, bd, e) /\ Tips(c, F) /\ Raising(c, F, b, e) /\ Faults(c, F, V, a, e)
         /\ c \in Seq(Acts) /\ Len(c) \in Nat /\ Len(c) > 0
         /\ c[Len(c)] \in Acts /\ c[Len(c)].thread \in Thread
         /\ F \in [Thread -> Seq(FrameSet)]
         /\ \A t \in Thread : F[t] \in Seq(FrameSet) /\ Len(F[t]) \in Nat /\ Chain(F[t])
                              /\ V[t] \in Seq(VarSet)
         /\ a \in [Thread -> Nat] /\ b \in [Thread -> Nat]
         /\ V \in [Thread -> Seq(VarSet)] /\ ef \in [Thread -> Nat]
         /\ s[c[Len(c)].thread] # "err"
<1>1. /\ Ready(c, F, s, a, b, e) /\ Typed(V, s, bd, ef, e)
      /\ Settled(c, F, s, bd, e) /\ Tips(c, F) /\ Raising(c, F, b, e) /\ Faults(c, F, V, a, e)
  BY DEF Whole
<1>2. /\ c \in Seq(Acts) /\ Len(c) \in Nat /\ Len(c) > 0
      /\ c[Len(c)] \in Acts /\ c[Len(c)].thread \in Thread
      /\ F \in [Thread -> Seq(FrameSet)]
      /\ \A t \in Thread : F[t] \in Seq(FrameSet) /\ Len(F[t]) \in Nat /\ Chain(F[t])
      /\ a \in [Thread -> Nat] /\ b \in [Thread -> Nat]
  BY <1>1, ReadyTypes
<1>3. V \in [Thread -> Seq(VarSet)] /\ ef \in [Thread -> Nat]
  BY <1>1 DEF Typed
<1>4. On(c, c[Len(c)].thread)
  <2>1. Len(c) \in 1 .. Len(c)
    BY <1>2
  <2> QED
    BY <2>1 DEF On
<1>5. s[c[Len(c)].thread] # "err"
  <2>1. s[c[Len(c)].thread] \in {"ok", "yield"}
    BY <1>1, <1>2, <1>4 DEF Settled
  <2> QED
    BY <2>1
<1> QED
  BY <1>1, <1>2, <1>3, <1>5

(* Handlers reach farther up too.                                          *)
LEMMA ReachesMore ==
  ASSUME NEW c \in Seq(Acts), NEW t, NEW FR \in Seq(FrameSet), NEW x \in Nat, NEW y \in Nat,
         x <= y, Reaches(c, t, FR, x)
  PROVE  Reaches(c, t, FR, y)
<1>1. ASSUME NEW i \in 2 .. Len(c), c[i].thread = t, Guard(c[i])
      PROVE  c[i].level <= y
  <2>1. i \in 1 .. Len(c)
    OBVIOUS
  <2>2. c[i] \in Acts
    BY <2>1
  <2>3. c[i].level \in Nat
    BY <2>2, <1>1, ActFacts DEF Guard
  <2>4. c[i].level <= x
    BY <1>1 DEF Reaches
  <2> QED
    BY <2>3, <2>4
<1>2. ASSUME FR # <<>>, FR[Len(FR)].ypcall
      PROVE  FR[Len(FR)].clsret \/ FR[Len(FR)].idx <= y
  <2>1. FR[Len(FR)] \in FrameSet
    BY <1>2
  <2>2. FR[Len(FR)].idx \in Nat
    BY <2>1, FrameFacts
  <2>3. FR[Len(FR)].clsret \/ FR[Len(FR)].idx <= x
    BY <1>2 DEF Reaches
  <2> QED
    BY <2>2, <2>3
<1> QED
  BY <1>1, <1>2 DEF Reaches

(* A message handler may be called with another activation at the top.     *)
LEMMA ReachesPush ==
  ASSUME NEW c \in Seq(Acts), NEW t, NEW FR, NEW x, NEW r \in Acts,
         Guard(r) => r.level <= x, Reaches(c, t, FR, x)
  PROVE  Reaches(Append(c, r), t, FR, x)
<1> DEFINE d == Append(c, r)
           n == Len(c)
<1>1. /\ n \in Nat /\ Len(d) = n + 1 /\ d[n + 1] = r /\ \A i \in 1 .. n : d[i] = c[i]
  OBVIOUS
<1>2. n = Len(c)
  OBVIOUS
<1> HIDE DEF d, n
<1>3. ASSUME NEW i \in 2 .. Len(d), d[i].thread = t, Guard(d[i])
      PROVE  d[i].level <= x
  <2>1. i = n + 1 \/ (i \in 2 .. n /\ i \in 1 .. n)
    BY ONLY <1>1
  <2>2. CASE i = n + 1
    BY ONLY <2>2, <1>1, <1>3, Guard(r) => r.level <= x
  <2>3. CASE i \in 2 .. n /\ i \in 1 .. n
    BY ONLY <2>3, <1>1, <1>2, <1>3, Reaches(c, t, FR, x) DEF Reaches
  <2> QED
    BY ONLY <2>1, <2>2, <2>3
<1>4. Reaches(d, t, FR, x)
  BY ONLY <1>3, Reaches(c, t, FR, x) DEF Reaches
<1> QED
  BY <1>4 DEF d

(* A call, from its beginning to where the function called begins, or the  *)
(* call raises an error.                                                   *)
LEMMA CallStep ==
  ASSUME NEW c, NEW F, NEW V, NEW s, NEW bd, NEW a, NEW b, NEW ef,
         Whole(c, F, V, s, bd, a, b, ef, "none"),
         NEW t, c[Len(c)].thread = t,
         NEW r \in Acts, Call(r), r.thread = t, r.inc \in {1, 2}, Kinds(c[Len(c)], r),
         NEW f, MayCall(c, F[t], r, f),
         NEW G, NEW a2, NEW b2, NEW e2, CallMade(F, a, b, r, f, G, a2, b2, e2),
         NEW V2, NEW ef2, Typed(V2, s, bd, ef2, "none"),
         e2 = "error" => Reaches(c, t, F[t], FaultAt(Append(c, r), F[t], V2[t]))
  PROVE  Whole(Append(c, r), G, V2, s, bd, a2, b2, ef2, e2)
<1> DEFINE d == Append(c, r)
<1>1. /\ Ready(c, F, s, a, b, "none") /\ c \in Seq(Acts) /\ Len(c) \in Nat /\ Len(c) > 0
      /\ t \in Thread /\ a \in [Thread -> Nat]
      /\ F \in [Thread -> Seq(FrameSet)]
  BY WholeFacts
<1>2. /\ e2 = Overflow(a[t] + 1)
      /\ a2 = [a EXCEPT ![t] = @ + 1]
      /\ IF e2 = "none" THEN Extended(F, t, f, G) ELSE G = F
  BY DEF CallMade
<1>3. /\ a[t] \in Nat /\ a[t] + 1 \in Nat /\ a2[t] = a[t] + 1
  BY <1>1, <1>2
<1>4. e2 \in {"none", "error", "err"} /\ (e2 = "error" => a2[t] = LUAI_MAXCCALLS)
  BY ONLY <1>2, <1>3, OverflowFacts
<1>5. d[Len(d)] = r /\ d = Append(c, r) /\ r.thread = t /\ r.kind \in {"exec", "cfun"}
  BY <1>1 DEF Call
<1> HIDE DEF d
<1>6. Ready(d, G, s, a2, b2, e2)
  <2>1. MayCall(c, F[r.thread], r, f)
    BY <1>5
  <2>2. Ready(Append(c, r), G, s, a2, b2, e2)
    BY ONLY <1>1, <2>1, r \in Acts, Call(r), r.inc \in {1, 2}, Kinds(c[Len(c)], r),
            CallMade(F, a, b, r, f, G, a2, b2, e2), Called
  <2> QED
    BY ONLY <2>2, <1>5
<1>7. Tips(d, G)
  BY ONLY <1>5 DEF Tips
<1>8. Raising(d, G, b2, e2)
  BY ONLY <1>4, <1>5 DEF Raising
<1>9. Faults(d, G, V2, a2, e2)
  <2>1. CASE e2 = "error"
    <3>1. G = F
      BY <1>2, <2>1
    <3>2. ~Guard(r)
      BY <1>5 DEF Guard
    <3>3. Reaches(c, t, F[t], FaultAt(d, F[t], V2[t]))
      BY <2>1, <1>5
    <3>4. Reaches(d, t, F[t], FaultAt(d, F[t], V2[t]))
      <4> DEFINE x == FaultAt(d, F[t], V2[t])
      <4>1. Reaches(c, t, F[t], x) /\ (Guard(r) => r.level <= x)
        BY <3>2, <3>3
      <4> HIDE DEF x
      <4>2. Reaches(Append(c, r), t, F[t], x)
        BY ONLY <4>1, <1>1, r \in Acts, ReachesPush
      <4> QED
        BY <4>2, <1>5 DEF x
    <3> QED
      BY ONLY <1>4, <1>5, <2>1, <3>1, <3>4 DEF Faults
  <2>2. CASE e2 # "error"
    BY ONLY <2>2 DEF Faults
  <2> QED
    BY <2>1, <2>2
<1>10. Goes(c, F, d, G)
  <2>1. \A u \in Thread : u # c[Len(c)].thread => G[u] = F[u]
    BY <1>2 DEF Extended
  <2>2. r.thread = c[Len(c)].thread
    BY <1>5
  <2> QED
    BY <2>1, <2>2, <1>1, <1>5, GoesPush
<1>11. Typed(V2, s, bd, ef2, e2)
  BY <1>4 DEF Typed
<1>12. Whole(d, G, V2, s, bd, a2, b2, ef2, e2)
  <2>1. "none" # "yield"
    OBVIOUS
  <2> QED
    BY ONLY <1>6, <1>7, <1>8, <1>9, <1>10, <1>11, <2>1, Whole(c, F, V, s, bd, a, b, ef, "none"),
            StepSame
<1> QED
  BY <1>5, <1>12
(* The running function changes its frame.                                 *)
LEMMA ChangeStep ==
  ASSUME NEW c, NEW F, NEW V, NEW s, NEW bd, NEW a, NEW b, NEW ef,
         Whole(c, F, V, s, bd, a, b, ef, "none"),
         NEW t, NEW f, MayChange(c, F, t, b, f), c[Len(c)].kind = "unroll" => Held(f),
         NEW G, Replaced(F, t, f, G), NEW V2, NEW ef2, Typed(V2, s, bd, ef2, "none")
  PROVE  Whole(c, G, V2, s, bd, a, b, ef2, "none")
<1>1. /\ Ready(c, F, s, a, b, "none") /\ c[Len(c)].thread \in Thread
      /\ F \in [Thread -> Seq(FrameSet)]
      /\ \A u \in Thread : F[u] \in Seq(FrameSet) /\ Len(F[u]) \in Nat /\ Chain(F[u])
  BY WholeFacts
<1>2. Ready(c, G, s, a, b, "none")
  BY <1>1, ChangeFrame
<1>3. /\ c[Len(c)].thread = t /\ c[Len(c)].kind \in {"exec", "cfun", "unroll"}
      /\ F[t] # <<>> /\ f \in FrameSet
  BY DEF MayChange
<1>4. (\A u \in Thread : u # t => G[u] = F[u]) /\ G[t] = Retop(F[t], Len(F[t]), f)
  BY DEF Replaced
<1>5. G[t][Len(G[t])] = f
  <2>1. F[t] \in Seq(FrameSet) /\ Len(F[t]) \in 1 .. Len(F[t])
    BY <1>1, <1>3
  <2> QED
    BY <1>3, <1>4, <2>1 DEF Retop
<1>6. Tips(c, G)
  BY <1>3, <1>5 DEF Tips
<1>7. Goes(c, F, c, G)
  BY <1>3, <1>4, GoesSame
<1>8. "none" # "yield"
  OBVIOUS
<1> QED
  BY ONLY <1>2, <1>6, <1>7, <1>8, Whole(c, F, V, s, bd, a, b, ef, "none"),
          Typed(V2, s, bd, ef2, "none"), StepRuns

(* luaF_close is called.                                                   *)
LEMMA CloseStep ==
  ASSUME NEW c, NEW F, NEW V, NEW s, NEW bd, NEW a, NEW b, NEW ef,
         Whole(c, F, V, s, bd, a, b, ef, "none"),
         NEW t, c[Len(c)].thread = t, NEW r, Closes(c[Len(c)], F[t], r)
  PROVE  Whole(Append(c, r), F, V, s, bd, a, b, ef, "none")
<1>1. /\ Ready(c, F, s, a, b, "none") /\ c \in Seq(Acts) /\ Len(c) > 0 /\ t \in Thread
      /\ Typed(V, s, bd, ef, "none")
  BY WholeFacts
<1>2. r \in Acts /\ r.kind = "close" /\ r.thread = c[Len(c)].thread /\ F[t] # <<>>
  BY DEF Closes
<1>3. Ready(Append(c, r), F, s, a, b, "none")
  <2>1. CASE c[Len(c)].kind = "unroll"
    BY <1>1, <1>2, <2>1, PushInterrupted
  <2>2. CASE c[Len(c)].kind # "unroll"
    BY <1>1, <1>2, <2>2, PushClose
  <2> QED
    BY <2>1, <2>2
<1>4. Goes(c, F, Append(c, r), F)
  <2>1. \A u \in Thread : u # c[Len(c)].thread => F[u] = F[u]
    OBVIOUS
  <2> QED
    BY ONLY <1>1, <1>2, <2>1, GoesPush
<1>5. Append(c, r)[Len(Append(c, r))] = r
  BY <1>1, <1>2
<1>6. Tips(Append(c, r), F)
  BY ONLY <1>2, <1>5 DEF Tips
<1>8. "none" # "yield"
  OBVIOUS
<1> QED
  BY ONLY <1>1, <1>3, <1>4, <1>6, <1>8, Whole(c, F, V, s, bd, a, b, ef, "none"), StepRuns

-----------------------------------------------------------------------------
(* The activation at the top, which is not the first of its thread, goes   *)
(* away.                                                                   *)
LEMMA BelowTop ==
  ASSUME NEW c, NEW F, NEW s, NEW a, NEW b, NEW e, Ready(c, F, s, a, b, e),
         ~First(c[Len(c)])
  PROVE  /\ Len(c) \in Nat /\ Len(c) - 1 \in Nat /\ Len(c) - 1 > 0 /\ Len(c) - 1 \in 1 .. Len(c)
         /\ c[Len(c) - 1].thread = c[Len(c)].thread /\ Kinds(c[Len(c) - 1], c[Len(c)])
         /\ c[Len(c) - 1] \in Acts
<1>1. PICK h : Stack(c, F, h) /\ Tip(c, F, h, e)
  BY DEF Ready
<1> QED
  BY <1>1, UnderNext

(* Popped(c) is c without its last activation.                             *)
Popped(c) == SubSeq(c, 1, Len(c) - 1)

(* What is left is what was below.                                         *)
LEMMA PoppedFacts ==
  ASSUME NEW c, NEW F, NEW s, NEW a, NEW b, NEW e, Ready(c, F, s, a, b, e),
         ~First(c[Len(c)]), NEW G, \A u \in Thread : u # c[Len(c)].thread => G[u] = F[u]
  PROVE  /\ Popped(c) \in Seq(Acts) /\ Len(Popped(c)) = Len(c) - 1
         /\ \A i \in 1 .. Len(c) - 1 : Popped(c)[i] = c[i]
         /\ Popped(c)[Len(Popped(c))] = c[Len(c) - 1]
         /\ Goes(c, F, Popped(c), G)
<1>1. /\ Len(c) \in Nat /\ Len(c) - 1 \in Nat /\ Len(c) - 1 > 0 /\ Len(c) - 1 \in 1 .. Len(c)
      /\ c[Len(c) - 1].thread = c[Len(c)].thread
  BY BelowTop
<1>2. c \in Seq(Acts) /\ Len(c) > 0
  BY ReadyTypes
<1>3. /\ Popped(c) \in Seq(Acts) /\ Len(Popped(c)) = Len(c) - 1
      /\ \A i \in 1 .. Len(c) - 1 : Popped(c)[i] = c[i]
      /\ Popped(c)[Len(Popped(c))] = c[Len(c) - 1]
  BY <1>1, <1>2 DEF Popped
<1>4. \A i \in Len(c) - 1 .. Len(c) : c[i].thread = c[Len(c)].thread
  <2>1. \A i \in Len(c) - 1 .. Len(c) : i = Len(c) - 1 \/ i = Len(c)
    BY <1>1
  <2> QED
    BY <1>1, <2>1
<1>5. Goes(c, F, Popped(c), G)
  BY <1>1, <1>2, <1>4, GoesCut DEF Popped
<1> QED
  BY <1>3, <1>5

(* A step by which the activation at the top goes away.                    *)
LEMMA PopStep ==
  ASSUME NEW c, NEW F, NEW V, NEW s, NEW bd, NEW a, NEW b, NEW ef,
         Whole(c, F, V, s, bd, a, b, ef, "none"), ~First(c[Len(c)]),
         NEW G, \A u \in Thread : u # c[Len(c)].thread => G[u] = F[u],
         NEW V2, NEW a2, NEW b2, NEW ef2,
         Ready(Popped(c), G, s, a2, b2, "none"), Typed(V2, s, bd, ef2, "none"),
         c[Len(c) - 1].kind \notin {"caught", "reset"},
         c[Len(c) - 1].kind = "try" => c[Len(c) - 1].of = "pcall",
         LET FR == G[c[Len(c)].thread]
         IN  c[Len(c) - 1].kind = "unroll" /\ FR # <<>> => Held(FR[Len(FR)])
  PROVE  Whole(Popped(c), G, V2, s, bd, a2, b2, ef2, "none")
<1>1. Ready(c, F, s, a, b, "none")
  BY WholeFacts
<1>2. Popped(c)[Len(Popped(c))] = c[Len(c) - 1] /\ Goes(c, F, Popped(c), G)
  BY <1>1, PoppedFacts
<1>3. c[Len(c) - 1].thread = c[Len(c)].thread
  BY <1>1, BelowTop
<1>4. Tips(Popped(c), G)
  BY <1>2, <1>3 DEF Tips
<1>8. "none" # "yield"
  OBVIOUS
<1> QED
  BY ONLY <1>2, <1>4, <1>8, Ready(Popped(c), G, s, a2, b2, "none"),
          Whole(c, F, V, s, bd, a, b, ef, "none"), Typed(V2, s, bd, ef2, "none"), StepRuns

(* Uncount                                                                 *)
Uncounts(a, b, t, inc, a2, b2) ==
  /\ a2 = [a EXCEPT ![t] = IF inc > 0 THEN @ - 1 ELSE @]
  /\ b2 = [b EXCEPT ![t] = IF inc = 2 THEN @ - 1 ELSE @]

(* A return takes the counts back that the call added.                     *)
LEMMA Uncounted ==
  ASSUME NEW c, NEW F, NEW s, NEW a, NEW b, NEW e, Ready(c, F, s, a, b, e),
         Call(c[Len(c)]), NEW t, c[Len(c)].thread = t,
         NEW a2, NEW b2, Uncounts(a, b, t, c[Len(c)].inc, a2, b2)
  PROVE  Discounted(a, b, t, c[Len(c)], a2, b2)
<1> DEFINE r == c[Len(c)]
           n == Len(c) - 1
<1>1. /\ a \in [Thread -> Nat] /\ b \in [Thread -> Nat] /\ t \in Thread /\ r \in Acts
      /\ a[t] = CCalls(c, Len(c)) /\ b[t] = NonYields(c, t, Len(c))
  BY ReadyTypes
<1>2. ~First(r) /\ Call(r) /\ r.thread = t
  BY DEF First, Call
<1>3. Len(c) \in Nat /\ n \in Nat /\ n + 1 = Len(c)
  BY <1>2, BelowTop
<1>4. r = c[n + 1] /\ a[t] = CCalls(c, n + 1) /\ b[t] = NonYields(c, t, n + 1)
  BY <1>1, <1>3
<1>5. r.inc \in 0 .. 2
  BY <1>1, <1>2, ActFacts
<1>6. Uncounts(a, b, t, r.inc, a2, b2)
  OBVIOUS
<1> HIDE DEF r, n
<1>7. /\ CCalls(c, n) \in Nat /\ NonYields(c, t, n) \in Nat
      /\ a[t] = CCalls(c, n) + CountOf(r) /\ b[t] = NonYields(c, t, n) + NonYieldOf(t, r)
  BY ONLY <1>3, <1>4, CountsAreNumbers, CountStep
<1>8. /\ CountOf(r) = IF r.inc > 0 THEN 1 ELSE 0
      /\ NonYieldOf(t, r) = IF r.inc = 2 THEN 1 ELSE 0
  <2>1. r.kind # "unroll"
    BY ONLY <1>2 DEF Call
  <2> QED
    BY ONLY <1>2, <2>1 DEF CountOf, NonYieldOf, IsCounted, NonYieldable
<1>9. /\ a[t] \in Nat /\ b[t] \in Nat /\ a[t] - CountOf(r) \in Nat /\ b[t] - NonYieldOf(t, r) \in Nat
  <2>1. CountOf(r) \in Nat /\ NonYieldOf(t, r) \in Nat
    BY ONLY <1>8
  <2> QED
    BY ONLY <1>7, <2>1
<1>10. /\ a2 = [a EXCEPT ![t] = IF r.inc > 0 THEN @ - 1 ELSE @]
       /\ b2 = [b EXCEPT ![t] = IF r.inc = 2 THEN @ - 1 ELSE @]
  BY ONLY <1>6 DEF Uncounts
<1>11. /\ a2 \in [Thread -> Nat] /\ a2[t] = a[t] - CountOf(r)
       /\ \A u \in Thread : u # t => a2[u] = a[u]
  BY ONLY <1>1, <1>5, <1>8, <1>9, <1>10
<1>12. /\ b2 \in [Thread -> Nat] /\ b2[t] = b[t] - NonYieldOf(t, r)
       /\ \A u \in Thread : u # t => b2[u] = b[u]
  BY ONLY <1>1, <1>5, <1>8, <1>9, <1>10
<1>13. Discounted(a, b, t, r, a2, b2)
  BY ONLY <1>11, <1>12 DEF Discounted
<1> QED
  BY <1>13 DEF r
-----------------------------------------------------------------------------
(* The steps *)

(* The names of the actions for what is at the top.                        *)
LEMMA TopNames ==
  ASSUME cs \in Seq(Acts), Len(cs) > 0
  PROVE  cur = cs[Len(cs)] /\ L = cs[Len(cs)].thread /\ cur.thread = L
BY DEF cur, L, Last

(* The names of the actions for the frames of a thread.                    *)
LEMMA FrameNames ==
  ASSUME NEW t, ci[t] \in Seq(FrameSet)
  PROVE  /\ TopOf(t) = TopAt(ci[t], tbc[t])
         /\ Last(ci[t]) = ci[t][Len(ci[t])]
         /\ \A f : WithTop(t, f) = Retop(ci[t], Len(ci[t]), f)
         /\ Front(ci[t]) = SubSeq(ci[t], 1, Len(ci[t]) - 1)
BY DEF TopOf, TopAt, Last, WithTop, Retop, Front

(* The facts about the state that the steps use.                           *)
LEMMA InvFacts ==
  ASSUME Inv1
  PROVE  /\ Ready(cs, ci, status, nC, nny, exc) /\ Typed(tbc, status, body, errfunc, exc)
         /\ Settled(cs, ci, status, body, exc) /\ Tips(cs, ci)
         /\ cs \in Seq(Acts) /\ Len(cs) \in Nat /\ Len(cs) > 0
         /\ cs[Len(cs)] = cur /\ cur \in Acts /\ cur.thread = L /\ L \in Thread
         /\ ci \in [Thread -> Seq(FrameSet)] /\ ci[L] \in Seq(FrameSet) /\ Len(ci[L]) \in Nat
         /\ Chain(ci[L])
         /\ tbc \in [Thread -> Seq(VarSet)] /\ tbc[L] \in Seq(VarSet)
         /\ nC \in [Thread -> Nat] /\ nny \in [Thread -> Nat] /\ errfunc \in [Thread -> Nat]
         /\ status[L] # "err"
         /\ TopOf(L) = TopAt(ci[L], tbc[L]) /\ TopOf(L) \in Nat /\ TopOf(L) > 0
         /\ ci[L] # <<>> =>
              /\ ci[L][Len(ci[L])] = top /\ top \in FrameSet /\ FrameOK(top)
              /\ top.func < TopOf(L) /\ Len(ci[L]) \in 1 .. Len(ci[L])
         /\ \A f : WithTop(L, f) = Retop(ci[L], Len(ci[L]), f)
         /\ Front(ci[L]) = SubSeq(ci[L], 1, Len(ci[L]) - 1)
<1>1. Whole(cs, ci, tbc, status, body, nC, nny, errfunc, exc)
  BY DEF Inv1
<1>2. /\ Ready(cs, ci, status, nC, nny, exc) /\ Typed(tbc, status, body, errfunc, exc)
      /\ Settled(cs, ci, status, body, exc) /\ Tips(cs, ci)
      /\ cs \in Seq(Acts) /\ Len(cs) \in Nat /\ Len(cs) > 0
      /\ cs[Len(cs)] \in Acts /\ cs[Len(cs)].thread \in Thread
      /\ ci \in [Thread -> Seq(FrameSet)]
      /\ \A t \in Thread : ci[t] \in Seq(FrameSet) /\ Len(ci[t]) \in Nat /\ Chain(ci[t])
                           /\ tbc[t] \in Seq(VarSet)
      /\ nC \in [Thread -> Nat] /\ nny \in [Thread -> Nat]
      /\ tbc \in [Thread -> Seq(VarSet)] /\ errfunc \in [Thread -> Nat]
      /\ status[cs[Len(cs)].thread] # "err"
  BY ONLY <1>1, WholeFacts
<1>3. cur = cs[Len(cs)] /\ L = cs[Len(cs)].thread /\ cur.thread = L
  BY ONLY <1>2, TopNames
<1>4. L \in Thread /\ ci[L] \in Seq(FrameSet) /\ tbc[L] \in Seq(VarSet) /\ Len(ci[L]) \in Nat
      /\ Chain(ci[L])
  BY ONLY <1>2, <1>3
<1>5. /\ TopOf(L) = TopAt(ci[L], tbc[L])
      /\ Last(ci[L]) = ci[L][Len(ci[L])]
      /\ \A f : WithTop(L, f) = Retop(ci[L], Len(ci[L]), f)
      /\ Front(ci[L]) = SubSeq(ci[L], 1, Len(ci[L]) - 1)
  BY ONLY <1>4, FrameNames
<1>6. /\ TopAt(ci[L], tbc[L]) \in Nat /\ TopAt(ci[L], tbc[L]) > 0
      /\ ci[L] # <<>> => ci[L][Len(ci[L])].func < TopAt(ci[L], tbc[L])
  BY ONLY <1>4, TopAtFacts
<1>7. top = ci[L][Len(ci[L])]
  BY ONLY <1>5 DEF top
<1>8. ci[L] # <<>> => /\ Len(ci[L]) \in 1 .. Len(ci[L])
                      /\ ci[L][Len(ci[L])] \in FrameSet /\ FrameOK(ci[L][Len(ci[L])])
  <2>1. ci[L] # <<>> => Len(ci[L]) \in 1 .. Len(ci[L]) /\ ci[L][Len(ci[L])] \in FrameSet
    BY ONLY <1>4
  <2> QED
    BY ONLY <1>4, <2>1 DEF Chain
<1> QED
  BY ONLY <1>2, <1>3, <1>4, <1>5, <1>6, <1>7, <1>8

(* The running function and its frame.                                     *)
LEMMA RunFacts ==
  ASSUME Inv1, exc = "none", Call(cur)
  PROVE  /\ Ready(cs, ci, status, nC, nny, "none")
         /\ Whole(cs, ci, tbc, status, body, nC, nny, errfunc, "none")
         /\ ci[L] # <<>> /\ ci[L][Len(ci[L])] = top /\ top \in FrameSet /\ FrameOK(top)
         /\ top.func \in Nat /\ top.func < TopOf(L)
         /\ cur.kind = "exec" => top.lua
         /\ cur.kind = "cfun" => ~top.lua /\ top.recst = "ok"
         /\ Call(cs[Len(cs)]) /\ cs[Len(cs)].thread = L
         /\ Typed(tbc, status, body, errfunc, "none")
<1> DEFINE n == Len(cs)
<1>1. /\ Ready(cs, ci, status, nC, nny, "none")
      /\ Whole(cs, ci, tbc, status, body, nC, nny, errfunc, "none")
      /\ Typed(tbc, status, body, errfunc, "none")
  BY InvFacts DEF Inv1
<1>2. cs[n] = cur /\ cs[n].thread = L /\ L \in Thread /\ Call(cs[n])
  BY InvFacts
<1>3. ci[L] # <<>> => ci[L][Len(ci[L])] = top /\ top \in FrameSet /\ FrameOK(top)
                      /\ top.func < TopOf(L)
  BY InvFacts
<1>4. /\ ci[L] # <<>>
      /\ cs[n].kind = "exec" => ci[L][Len(ci[L])].lua
      /\ cs[n].kind = "cfun" => ~ci[L][Len(ci[L])].lua /\ ci[L][Len(ci[L])].recst = "ok"
  BY <1>1, <1>2, RunningCall
<1>5. top.func \in Nat
  BY <1>3, <1>4, FrameFacts
<1> QED
  BY <1>1, <1>2, <1>3, <1>4, <1>5
(* A call that is not counted.                                             *)
LEMMA FreeCall ==
  ASSUME NEW c, NEW F, NEW V, NEW s, NEW bd, NEW a, NEW b, NEW ef,
         Whole(c, F, V, s, bd, a, b, ef, "none"),
         NEW t, c[Len(c)].thread = t,
         NEW r \in Acts, Call(r), r.thread = t, r.inc = 0, Kinds(c[Len(c)], r),
         NEW f, MayCall(c, F[t], r, f), NEW G, Extended(F, t, f, G)
  PROVE  Whole(Append(c, r), G, V, s, bd, a, b, ef, "none")
<1>1. /\ Ready(c, F, s, a, b, "none") /\ Typed(V, s, bd, ef, "none")
      /\ c \in Seq(Acts) /\ Len(c) \in Nat /\ Len(c) > 0
      /\ c[Len(c)].thread \in Thread
      /\ a \in [Thread -> Nat] /\ b \in [Thread -> Nat]
  BY ONLY Whole(c, F, V, s, bd, a, b, ef, "none"), WholeFacts
<1>2. a[t] < ErrorCCalls /\ t \in Thread
  <2>1. "none" # "err"
    OBVIOUS
  <2> QED
    BY <1>1, <2>1, ReadyTypes
<1>3. Recounted(a, b, r.thread, r, a, b, "none")
  <2>1. CountOf(r) = 0 /\ NonYieldOf(t, r) = 0
    BY DEF CountOf, NonYieldOf, IsCounted, NonYieldable, Call
  <2>2. a[t] \in Nat /\ b[t] \in Nat
    BY <1>1, <1>2
  <2> QED
    BY <1>1, <1>2, <2>1, <2>2 DEF Recounted
<1>4. MayCall(c, F[r.thread], r, f) /\ Extended(F, r.thread, f, G)
  OBVIOUS
<1>5. Ready(Append(c, r), G, s, a, b, "none")
  BY ONLY <1>1, <1>3, <1>4, r \in Acts, Call(r), Kinds(c[Len(c)], r), PushCall
<1>6. \A u \in Thread : u # c[Len(c)].thread => G[u] = F[u]
  BY DEF Extended
<1>7. Goes(c, F, Append(c, r), G)
  BY ONLY <1>1, <1>6, r \in Acts, r.thread = t, c[Len(c)].thread = t, GoesPush
<1>8. Tips(Append(c, r), G)
  <2>1. Append(c, r)[Len(Append(c, r))] = r
    BY ONLY <1>1, r \in Acts
  <2> QED
    BY <2>1 DEF Tips, Call
<1>9. "none" # "yield"
  OBVIOUS
<1> QED
  BY ONLY <1>1, <1>5, <1>7, <1>8, <1>9, Whole(c, F, V, s, bd, a, b, ef, "none"), StepRuns

(* A function puts a frame on its own.                                     *)
LEMMA ExtendedBy ==
  ASSUME NEW F \in [Thread -> Seq(FrameSet)], NEW t \in Thread, NEW f \in FrameSet
  PROVE  Extended(F, t, f, [F EXCEPT ![t] = Append(@, f)])
BY DEF Extended

(* A Lua function calls another of its luaV_execute.                       *)
LEMMA GrownBy ==
  ASSUME NEW F \in [Thread -> Seq(FrameSet)], NEW t \in Thread, Chain(F[t]), F[t] # <<>>,
         F[t][Len(F[t])].lua, NEW func \in Nat, F[t][Len(F[t])].func < func, func > 0
  PROVE  Grown(F, t, [F EXCEPT ![t] = Append(@, Frame(TRUE, FALSE, func))])
<1> DEFINE f == Frame(TRUE, FALSE, func)
           G == [F EXCEPT ![t] = Append(@, f)]
<1>1. f \in FrameSet /\ FrameOK(f) /\ f.func = func /\ f.lua = TRUE /\ f.fresh = FALSE
  <2>1. TRUE \in BOOLEAN /\ FALSE \in BOOLEAN
    OBVIOUS
  <2> QED
    BY ONLY <2>1, func \in Nat, func > 0, NewFrame
<1> HIDE DEF f
<1>2. F[t] \in Seq(FrameSet) /\ Len(F[t]) \in Nat /\ Len(F[t]) \in 1 .. Len(F[t])
  OBVIOUS
<1>3. FrameOK(F[t][Len(F[t])])
  BY ONLY <1>2, Chain(F[t]) DEF Chain
<1>4. Follows(F[t][Len(F[t])], f)
  BY ONLY <1>1, <1>3, F[t][Len(F[t])].lua, F[t][Len(F[t])].func < func DEF Follows, FrameOK
<1>5. /\ Append(F[t], f) \in Seq(FrameSet) /\ Len(Append(F[t], f)) = Len(F[t]) + 1
      /\ \A q \in 1 .. Len(F[t]) : Append(F[t], f)[q] = F[t][q]
      /\ Append(F[t], f)[Len(F[t]) + 1] = f
      /\ Chain(Append(F[t], f))
  BY ONLY <1>1, <1>2, <1>4, F[t] # <<>>, Chain(F[t]), ChainPush
<1>6. G \in [Thread -> Seq(FrameSet)] /\ G[t] = Append(F[t], f)
      /\ \A u \in Thread : u # t => G[u] = F[u]
  BY <1>5
<1>7. \A q \in Len(F[t]) + 1 .. Len(G[t]) : q = Len(F[t]) + 1
  BY ONLY <1>2, <1>5, <1>6
<1>8. Len(F[t]) <= Len(G[t])
  BY ONLY <1>2, <1>5, <1>6
<1> HIDE DEF G
<1>9. Grown(F, t, G)
  BY ONLY <1>1, <1>5, <1>6, <1>7, <1>8 DEF Grown
<1> QED
  BY <1>9 DEF G, f

(* ccall of a Lua function.                                                *)
LEMMA LuaCallMade ==
  ASSUME NEW inc \in 1 .. 2, NEW func \in Nat,
         NEW frames \in Seq(FrameSet), NEW stack,
         CCall(inc, TRUE, func, frames, stack), L \in Thread, ci \in [Thread -> Seq(FrameSet)]
  PROVE  /\ cs' = Append(stack, Activation(TRUE, inc))
         /\ Activation(TRUE, inc) \in Acts /\ Call(Activation(TRUE, inc))
         /\ Activation(TRUE, inc).inc = inc /\ Activation(TRUE, inc).thread = L
         /\ Activation(TRUE, inc).kind = "exec"
         /\ CallMade([ci EXCEPT ![L] = frames], nC, nny, Activation(TRUE, inc),
                     Frame(TRUE, TRUE, func), ci', nC', nny', exc')
<1> DEFINE z == TRUE
<1>1. z \in BOOLEAN /\ CCall(inc, z, func, frames, stack)
  OBVIOUS
<1>2. z
  OBVIOUS
<1> HIDE DEF z
<1>3. /\ Activation(z, inc) \in Acts /\ Call(Activation(z, inc))
      /\ Activation(z, inc).inc = inc /\ Activation(z, inc).thread = L
      /\ Activation(z, inc).kind = (IF z THEN "exec" ELSE "cfun")
      /\ CallMade([ci EXCEPT ![L] = frames], nC, nny, Activation(z, inc),
                  Frame(z, TRUE, func), ci', nC', nny', exc')
  BY <1>1, CCallMade
<1>4. Activation(z, inc).kind = "exec"
  BY ONLY <1>2, <1>3
<1>5. cs' = Append(stack, Activation(TRUE, inc))
  BY DEF CCall
<1>6. z = TRUE
  BY DEF z
<1> QED
  BY ONLY <1>3, <1>4, <1>5, <1>6
(* OP_CALL of a Lua function keeps the invariant.                          *)
LEMMA CallLuaKeeps ==
  ASSUME Inv1, CallLua
  PROVE  Inv1'
<1>1. /\ exc = "none" /\ cur.kind = "exec"
      /\ ci' = [ci EXCEPT ![L] = Append(@, Frame(TRUE, FALSE, TopOf(L)))]
      /\ UNCHANGED <<tbc, status, body, nC, nny, errfunc, cs, exc>>
  BY DEF CallLua, InLua, Running, counts
<1>2. Call(cur) /\ "none" # "yield"
  BY <1>1 DEF Call
<1>3. /\ Ready(cs, ci, status, nC, nny, "none")
      /\ Whole(cs, ci, tbc, status, body, nC, nny, errfunc, "none")
      /\ ci[L] # <<>> /\ ci[L][Len(ci[L])] = top /\ top.lua
      /\ top.func < TopOf(L)
      /\ cs[Len(cs)].thread = L
      /\ Typed(tbc, status, body, errfunc, "none")
  BY <1>1, <1>2, RunFacts
<1>4. /\ ci \in [Thread -> Seq(FrameSet)] /\ L \in Thread /\ Chain(ci[L]) /\ cs[Len(cs)] = cur
      /\ TopOf(L) \in Nat /\ TopOf(L) > 0
  BY InvFacts
<1>5. ci[L][Len(ci[L])].lua /\ ci[L][Len(ci[L])].func < TopOf(L) /\ cs[Len(cs)].kind = "exec"
  BY ONLY <1>1, <1>3, <1>4
<1>6. Grown(ci, L, ci')
  BY ONLY <1>1, <1>3, <1>4, <1>5, GrownBy
<1>7. Ready(cs, ci', status, nC, nny, "none")
  BY ONLY <1>3, <1>5, <1>6, PushLuaFrames
<1>8. \A u \in Thread : u # cs[Len(cs)].thread => ci'[u] = ci[u]
  BY ONLY <1>3, <1>6 DEF Grown
<1>9. Goes(cs, ci, cs, ci')
  BY ONLY <1>8, GoesSame
<1>10. Tips(cs, ci')
  BY ONLY <1>5 DEF Tips
<1>11. Whole(cs, ci', tbc, status, body, nC, nny, errfunc, "none")
  BY ONLY <1>2, <1>3, <1>7, <1>9, <1>10, StepRuns
<1> QED
  BY ONLY <1>1, <1>11 DEF Inv1

(* OP_CALL of a C function keeps the invariant.                            *)
LEMMA CallCKeeps ==
  ASSUME Inv1, CallC
  PROVE  Inv1'
<1> DEFINE f == Frame(FALSE, FALSE, TopOf(L))
           r == Activation(FALSE, 0)
<1>1. /\ exc = "none" /\ cur.kind = "exec"
      /\ ci' = [ci EXCEPT ![L] = Append(@, f)] /\ cs' = Append(cs, r)
      /\ UNCHANGED <<tbc, status, body, nC, nny, errfunc, exc>>
  BY DEF CallC, InLua, Running, counts
<1>2. Call(cur) /\ "none" # "yield"
  BY <1>1 DEF Call
<1>3. /\ Ready(cs, ci, status, nC, nny, "none")
      /\ Whole(cs, ci, tbc, status, body, nC, nny, errfunc, "none")
      /\ ci[L] # <<>> /\ ci[L][Len(ci[L])] = top /\ top.lua /\ FrameOK(top)
      /\ top.func < TopOf(L)
      /\ cs[Len(cs)].thread = L /\ Call(cs[Len(cs)])
      /\ Typed(tbc, status, body, errfunc, "none")
  BY <1>1, <1>2, RunFacts
<1>4. /\ ci \in [Thread -> Seq(FrameSet)] /\ L \in Thread /\ Chain(ci[L]) /\ cs[Len(cs)] = cur
      /\ TopOf(L) \in Nat /\ TopOf(L) > 0
  BY InvFacts
<1>5. /\ ci[L][Len(ci[L])].func < TopOf(L) /\ cs[Len(cs)].kind = "exec"
      /\ ~ci[L][Len(ci[L])].ypcall /\ Held(ci[L][Len(ci[L])])
  BY ONLY <1>1, <1>3, <1>4 DEF FrameOK, Held
<1>6. /\ r \in Acts /\ Call(r) /\ r.thread = L /\ r.inc = 0 /\ r.kind = "cfun" /\ r.cont = FALSE
      /\ ~First(r) /\ r.kind # "main"
  BY <1>4 DEF Activation, Acts, Call, First
<1>7. f \in FrameSet
  <2>1. FALSE \in BOOLEAN
    OBVIOUS
  <2> QED
    BY <2>1, <1>4, NewFrame
<1>8. Kinds(cs[Len(cs)], r)
  <2> HIDE DEF r
  <2> QED
    BY ONLY <1>3, <1>5, <1>6 DEF Kinds, Guard
<1>9. MayCall(cs, ci[L], r, f)
  <2> HIDE DEF r
  <2>1. FALSE \in BOOLEAN /\ (FALSE => FALSE) /\ (FALSE <=> r.kind = "exec")
    BY ONLY <1>6
  <2>2. ci[L][Len(ci[L])].ypcall => ci[L][Len(ci[L])].clsret \/ ci[L][Len(ci[L])].idx <= TopOf(L)
    BY ONLY <1>5
  <2>3. Held(ci[L][Len(ci[L])]) \/ NonYieldable(r)
    BY ONLY <1>5
  <2>4. FALSE /\ ~FALSE => ci[L][Len(ci[L])].lua
    OBVIOUS
  <2> QED
    BY ONLY <1>3, <1>4, <1>5, <1>6, <2>1, <2>2, <2>3, <2>4, MayCallNew
<1>10. Extended(ci, L, f, ci')
  <2> HIDE DEF f
  <2> QED
    BY ONLY <1>1, <1>4, <1>7, ExtendedBy
<1> HIDE DEF r, f
<1>11. Whole(Append(cs, r), ci', tbc, status, body, nC, nny, errfunc, "none")
  BY ONLY <1>3, <1>6, <1>8, <1>9, <1>10, FreeCall
<1> QED
  BY ONLY <1>1, <1>11 DEF Inv1

(* A metamethod that is called keeps the invariant.                        *)
LEMMA CallMetaKeeps ==
  ASSUME Inv1, CallMeta
  PROVE  Inv1'
<1> DEFINE f == Frame(TRUE, TRUE, TopOf(L))
           r == Activation(TRUE, 1)
<1>1. /\ exc = "none" /\ cur.kind = "exec"
      /\ CCall(1, TRUE, TopOf(L), ci[L], cs)
      /\ UNCHANGED <<tbc, status, body, errfunc>>
  BY DEF CallMeta, InLua, Running
<1>2. Call(cur) /\ "none" # "yield" /\ TRUE \in BOOLEAN /\ 1 \in 1 .. 2
  BY <1>1 DEF Call
<1>3. /\ Ready(cs, ci, status, nC, nny, "none")
      /\ Whole(cs, ci, tbc, status, body, nC, nny, errfunc, "none")
      /\ ci[L] # <<>> /\ ci[L][Len(ci[L])] = top /\ top.lua /\ FrameOK(top)
      /\ top.func < TopOf(L) /\ top.func \in Nat
      /\ cs[Len(cs)].thread = L /\ Call(cs[Len(cs)])
      /\ Typed(tbc, status, body, errfunc, "none")
  BY <1>1, <1>2, RunFacts
<1>4. /\ ci \in [Thread -> Seq(FrameSet)] /\ L \in Thread /\ ci[L] \in Seq(FrameSet)
      /\ cs[Len(cs)] = cur /\ TopOf(L) \in Nat /\ TopOf(L) > 0 /\ TopOf(L) = TopAt(ci[L], tbc[L])
      /\ cs \in Seq(Acts) /\ Len(cs) \in Nat /\ Len(cs) > 0 /\ tbc[L] \in Seq(VarSet)
  BY InvFacts
<1>5. /\ ci[L][Len(ci[L])].func < TopOf(L) /\ cs[Len(cs)].kind = "exec"
      /\ ~ci[L][Len(ci[L])].ypcall /\ Held(ci[L][Len(ci[L])])
  BY ONLY <1>1, <1>3, <1>4 DEF FrameOK, Held
<1>6. /\ cs' = Append(cs, r) /\ r \in Acts /\ Call(r) /\ r.inc = 1 /\ r.thread = L /\ r.kind = "exec"
      /\ CallMade([ci EXCEPT ![L] = ci[L]], nC, nny, r, f, ci', nC', nny', exc')
  BY ONLY <1>1, <1>2, <1>4, LuaCallMade
<1> HIDE DEF r, f
<1>7. [ci EXCEPT ![L] = ci[L]] = ci
  BY ONLY <1>4
<1>8. CallMade(ci, nC, nny, r, f, ci', nC', nny', exc')
  BY ONLY <1>6, <1>7
<1>9. Kinds(cs[Len(cs)], r)
  BY ONLY <1>3, <1>5, <1>6 DEF Kinds, Guard, First, Call
<1>10. MayCall(cs, ci[L], r, f)
  <2>1. (TRUE => TRUE) /\ (TRUE <=> r.kind = "exec")
    BY ONLY <1>6
  <2>2. ci[L][Len(ci[L])].ypcall => ci[L][Len(ci[L])].clsret \/ ci[L][Len(ci[L])].idx <= TopOf(L)
    BY ONLY <1>5
  <2>3. Held(ci[L][Len(ci[L])]) \/ NonYieldable(r)
    BY ONLY <1>5
  <2>4. TRUE /\ ~TRUE => ci[L][Len(ci[L])].lua
    OBVIOUS
  <2> QED
    BY ONLY <1>2, <1>3, <1>4, <1>5, <1>6, <2>1, <2>2, <2>3, <2>4, MayCallNew DEF f
<1>11. Reaches(cs, L, ci[L], FaultAt(Append(cs, r), ci[L], tbc[L]))
  <2>1. /\ FaultAt(Append(cs, r), ci[L], tbc[L]) \in Nat
        /\ TopOf(L) <= FaultAt(Append(cs, r), ci[L], tbc[L])
    <3>1. Append(cs, r)[Len(Append(cs, r)) - 1] = cs[Len(cs)] /\ cs[Len(cs)] \in Acts
      BY ONLY <1>4, <1>6
    <3>2. Append(cs, r)[Len(Append(cs, r)) - 1] \in Acts
      BY ONLY <3>1
    <3> QED
      BY ONLY <1>4, <3>2, FaultAtFacts
  <2> DEFINE x == FaultAt(Append(cs, r), ci[L], tbc[L])
  <2>2. x \in Nat /\ TopOf(L) <= x
    BY ONLY <2>1
  <2> HIDE DEF x
  <2>3. ci[L][Len(ci[L])].func <= x
    BY ONLY <2>2, <1>3, <1>4
  <2>4. Reaches(cs, L, ci[L], x)
    BY ONLY <1>3, <1>5, <2>2, <2>3, CallReaches
  <2> QED
    BY ONLY <2>4 DEF x
<1>12. r.inc \in {1, 2}
  BY ONLY <1>6
<1>13. exc' = "error" => Reaches(cs, L, ci[L], FaultAt(Append(cs, r), ci[L], tbc[L]))
  BY ONLY <1>11
<1>14. Whole(Append(cs, r), ci', tbc, status, body, nC', nny', errfunc, exc')
  BY ONLY <1>3, <1>6, <1>8, <1>9, <1>10, <1>12, <1>13, CallStep
<1> QED
  BY ONLY <1>1, <1>6, <1>14 DEF Inv1
(* A running function calls another at the first free slot.                *)
LEMMA RunCall ==
  ASSUME NEW c, NEW F, NEW V, NEW s, NEW bd, NEW a, NEW b, NEW ef,
         Whole(c, F, V, s, bd, a, b, ef, "none"), Call(c[Len(c)]),
         NEW t, c[Len(c)].thread = t,
         NEW isLua \in BOOLEAN, NEW r \in Acts, Call(r), r.thread = t, r.inc \in {1, 2},
         Kinds(c[Len(c)], r), isLua <=> r.kind = "exec",
         F[t][Len(F[t])].ypcall =>
           F[t][Len(F[t])].clsret \/ F[t][Len(F[t])].idx <= TopAt(F[t], V[t]),
         Held(F[t][Len(F[t])]) \/ NonYieldable(r),
         NEW G, NEW a2, NEW b2, NEW e2,
         CallMade(F, a, b, r, Frame(isLua, TRUE, TopAt(F[t], V[t])), G, a2, b2, e2),
         NEW ef2, Typed(V, s, bd, ef2, "none")
  PROVE  Whole(Append(c, r), G, V, s, bd, a2, b2, ef2, e2)
<1> DEFINE x == TopAt(F[t], V[t])
           y == FaultAt(Append(c, r), F[t], V[t])
           q == F[t][Len(F[t])]
<1>1. /\ Ready(c, F, s, a, b, "none")
      /\ c \in Seq(Acts) /\ Len(c) \in Nat /\ Len(c) > 0 /\ c[Len(c)] \in Acts
      /\ F[t] \in Seq(FrameSet) /\ V[t] \in Seq(VarSet)
  BY ONLY Whole(c, F, V, s, bd, a, b, ef, "none"), c[Len(c)].thread = t, WholeFacts
<1>2. F[t] # <<>> /\ q \in FrameSet
  BY <1>1, RunningCall
<1>3. x \in Nat /\ q.func < x
  BY ONLY <1>1, <1>2, TopAtFacts
<1>4. y \in Nat /\ x <= y
  <2>1. Append(c, r)[Len(Append(c, r)) - 1] = c[Len(c)]
    BY ONLY <1>1, r \in Acts
  <2>2. Append(c, r)[Len(Append(c, r)) - 1] \in Acts
    BY ONLY <1>1, <2>1
  <2> QED
    BY ONLY <1>1, <2>2, FaultAtFacts
<1>5. q.func \in Nat /\ q.idx \in Nat /\ q = F[t][Len(F[t])]
  BY <1>2, FrameFacts
<1>6. CallMade(F, a, b, r, Frame(isLua, TRUE, x), G, a2, b2, e2) /\ (q.ypcall => q.clsret \/ q.idx <= x)
      /\ (Held(q) \/ NonYieldable(r))
  OBVIOUS
<1>y. y = FaultAt(Append(c, r), F[t], V[t])
  OBVIOUS
<1> HIDE DEF x, y, q
<1>7. MayCall(c, F[t], r, Frame(isLua, TRUE, x))
  <2>1. TRUE \in BOOLEAN /\ (isLua => TRUE) /\ (isLua /\ ~TRUE => F[t][Len(F[t])].lua)
    OBVIOUS
  <2>2. /\ F[t][Len(F[t])].func < x
        /\ F[t][Len(F[t])].ypcall => F[t][Len(F[t])].clsret \/ F[t][Len(F[t])].idx <= x
        /\ Held(F[t][Len(F[t])]) \/ NonYieldable(r)
    BY ONLY <1>3, <1>5, <1>6
  <2> QED
    BY ONLY <1>1, <1>3, <2>1, <2>2, isLua \in BOOLEAN, Call(c[Len(c)]), c[Len(c)].thread = t,
            r.thread = t, isLua <=> r.kind = "exec", MayCallNew
<1>8. Reaches(c, t, F[t], y)
  <2>1. q.func <= y
    BY ONLY <1>3, <1>4, <1>5
  <2>2. q.ypcall => q.clsret \/ q.idx <= y
    BY ONLY <1>3, <1>4, <1>5, <1>6
  <2>3. /\ F[t][Len(F[t])].func <= y
        /\ F[t][Len(F[t])].ypcall => F[t][Len(F[t])].clsret \/ F[t][Len(F[t])].idx <= y
    BY ONLY <1>5, <2>1, <2>2
  <2> QED
    BY ONLY <1>1, <1>4, <2>3, Call(c[Len(c)]), c[Len(c)].thread = t, CallReaches
<1>9. e2 = "error" => Reaches(c, t, F[t], FaultAt(Append(c, r), F[t], V[t]))
  BY ONLY <1>8, <1>y
<1> QED
  BY ONLY <1>6, <1>7, <1>9, Whole(c, F, V, s, bd, a, b, ef, "none"), c[Len(c)].thread = t,
          r \in Acts, Call(r), r.thread = t, r.inc \in {1, 2}, Kinds(c[Len(c)], r),
          Typed(V, s, bd, ef2, "none"), CallStep

(* luaD_pcall calls a function.                                            *)
LEMMA GuardCall ==
  ASSUME NEW c, NEW F, NEW V, NEW s, NEW bd, NEW a, NEW b, NEW ef,
         Whole(c, F, V, s, bd, a, b, ef, "none"),
         NEW t, c[Len(c)].thread = t, c[Len(c)].kind \in {"main", "cfun"},
         c[Len(c)].kind = "cfun" => ~F[t][Len(F[t])].ypcall,
         NEW p, Protects(p, "pcall", t, F[t], a, b), p.level = TopAt(F[t], V[t]),
         NEW isLua \in BOOLEAN, NEW r \in Acts, Call(r), r.thread = t, r.inc = 2,
         isLua <=> r.kind = "exec", r.kind = "cfun" => ~r.cont,
         F[t] = <<>> => isLua,
         NEW G, NEW a2, NEW b2, NEW e2,
         CallMade(F, a, b, r, Frame(isLua, TRUE, TopAt(F[t], V[t])), G, a2, b2, e2),
         NEW ef2, Typed(V, s, bd, ef2, "none")
  PROVE  Whole(Append(Append(c, p), r), G, V, s, bd, a2, b2, ef2, e2)
<1> DEFINE x == TopAt(F[t], V[t])
           d == Append(c, p)
           y == FaultAt(Append(d, r), F[t], V[t])
           q == F[t][Len(F[t])]
           f == Frame(isLua, TRUE, x)
           n == Len(c)
<1>1. /\ Ready(c, F, s, a, b, "none") /\ Typed(V, s, bd, ef, "none")
      /\ c \in Seq(Acts) /\ Len(c) \in Nat /\ Len(c) > 0 /\ c[Len(c)] \in Acts
      /\ F[t] \in Seq(FrameSet) /\ V[t] \in Seq(VarSet)
  BY ONLY Whole(c, F, V, s, bd, a, b, ef, "none"), c[Len(c)].thread = t, WholeFacts
<1>2. p \in Acts /\ p.kind = "try" /\ p.of = "pcall" /\ p.thread = t /\ p.level = x
      /\ ~First(p) /\ ~NonYieldable(p)
  BY DEF Protects, First, NonYieldable, Call
<1>3. d \in Seq(Acts) /\ Len(d) = n + 1 /\ d[n + 1] = p /\ d[Len(d)] = p
      /\ \A i \in 1 .. n : d[i] = c[i]
  BY ONLY <1>1, <1>2
<1>4. x \in Nat /\ x > 0 /\ (F[t] # <<>> => q.func < x)
  BY ONLY <1>1, TopAtFacts
<1>5. y \in Nat /\ x <= y
  <2>1. Append(d, r)[Len(Append(d, r)) - 1] = d[Len(d)]
    <3> HIDE DEF d
    <3>1. Len(d) \in Nat /\ Len(d) > 0
      BY ONLY <1>1, <1>3
    <3> QED
      BY ONLY <3>1, <1>3, r \in Acts
  <2>2. Append(d, r)[Len(Append(d, r)) - 1] \in Acts
    BY ONLY <1>2, <1>3, <2>1
  <2> HIDE DEF d
  <2> QED
    BY ONLY <1>1, <2>2, FaultAtFacts
<1>6. f \in FrameSet /\ FrameOK(f) /\ ~f.ypcall /\ f.recst = "ok" /\ f.func = x /\ f.lua = isLua
      /\ f.fresh = TRUE
  <2> HIDE DEF x
  <2> QED
    BY ONLY <1>4, isLua \in BOOLEAN DEF Frame, FrameSet, FrameOK
<1>7. /\ CallMade(F, a, b, r, f, G, a2, b2, e2) /\ y = FaultAt(Append(d, r), F[t], V[t])
      /\ q = F[t][Len(F[t])]
  OBVIOUS
<1>8. c[n].kind = "cfun" =>
        /\ Call(c[n]) /\ F[t] # <<>> /\ q \in FrameSet
        /\ \A g \in FrameSet : q.func <= g.func /\ ~g.ypcall => Above(c, n, t, g)
  <2>1. c[n].kind = "cfun" => Call(c[n])
    BY DEF Call
  <2> QED
    BY <1>1, <2>1, RunningCall
<1>9. c[n].kind = "main" => n = 1
  <2>1. Piled(c)
    BY ONLY <1>1, ReadyTypes
  <2>2. n \in Nat /\ n > 0 /\ n = Len(c)
    BY ONLY <1>1
  <2> HIDE DEF n
  <2>3. n # 1 => n \in 2 .. Len(c)
    BY ONLY <2>2
  <2>4. \A i \in 2 .. Len(c) : c[i].kind # "main"
    BY ONLY <2>1 DEF Piled, Kinds
  <2> QED
    BY ONLY <2>3, <2>4
<1>10. c[n].kind = "cfun" => q.func \in Nat
  BY ONLY <1>8, FrameFacts
<1>11. \/ "pcall" = "pcall" /\ c[Len(c)].kind \in {"main", "cfun"}
       \/ "pcall" = "close" /\ c[Len(c)].kind \in {"caught", "reset"}
  OBVIOUS
<1>12. Ready(d, F, s, a, b, "none")
  BY ONLY <1>1, <1>11, c[Len(c)].thread = t, Protects(p, "pcall", t, F[t], a, b), PushGuard
<1>13. c[n].thread = t /\ c[n].kind \in {"main", "cfun"}
  OBVIOUS
<1>14. n \in Nat /\ n > 0 /\ n = Len(c)
  BY <1>1
<1> HIDE DEF x, y, q, d, f, n
<1>15. Goes(c, F, d, F)
  <2>1. \A u \in Thread : u # c[Len(c)].thread => F[u] = F[u]
    OBVIOUS
  <2>2. p.thread = c[Len(c)].thread
    BY <1>2
  <2> QED
    BY ONLY <1>1, <1>2, <2>1, <2>2, GoesPush DEF d
<1>16. Tips(d, F)
  BY ONLY <1>2, <1>3 DEF Tips
<1>17. Whole(d, F, V, s, bd, a, b, ef, "none")
  <2>1. "none" # "yield"
    OBVIOUS
  <2> QED
    BY ONLY <1>1, <1>12, <1>15, <1>16, <2>1, Whole(c, F, V, s, bd, a, b, ef, "none"), StepRuns
<1>18. ASSUME NEW g, g \in FrameSet, g.func = x, ~g.ypcall PROVE Above(d, Len(d), t, g)
  <2>1. ASSUME NEW i, i \in 2 .. n + 1, d[i].thread = t
        PROVE  /\ Guard(d[i]) => d[i].level <= g.func /\ ~g.ypcall
               /\ NonYieldable(d[i]) => ~g.ypcall
    <3>1. CASE i = n + 1
      BY ONLY <3>1, <1>2, <1>3, <1>4, <1>18
    <3>2. CASE i # n + 1
      <4>1. i \in 1 .. n /\ i \in 2 .. n /\ d[i] = c[i] /\ n # 1
        BY ONLY <1>14, <3>2, <2>1, <1>3
      <4>2. c[n].kind = "cfun"
        BY ONLY <4>1, <1>9, <1>13
      <4>3. q.func <= g.func
        BY ONLY <4>2, <1>4, <1>8, <1>10, <1>18
      <4>4. Above(c, n, t, g)
        BY ONLY <4>2, <4>3, <1>8, <1>18
      <4>5. c[i].thread = t
        BY ONLY <4>1, <2>1
      <4> QED
        BY ONLY <4>1, <4>4, <4>5 DEF Above
    <3> QED
      BY ONLY <3>1, <3>2
  <2> QED
    BY ONLY <2>1, <1>3 DEF Above
<1>19. MayCall(d, F[t], r, f)
  <2>1. Above(d, Len(d), r.thread, f)
    BY ONLY <1>6, <1>18, r.thread = t
  <2>2. F[t] # <<>> => Follows(F[t][Len(F[t])], f)
    <3>1. ASSUME F[t] # <<>> PROVE c[n].kind = "cfun"
      <4>1. ASSUME c[n].kind = "main" PROVE FALSE
        <5>1. Len(c) = 1
          BY ONLY <4>1, <1>9, <1>14
        <5>2. PICK h : h \in [Nat -> Nat] /\ Stack(c, F, h) /\ Tip(c, F, h, "none")
          BY ONLY <1>1 DEF Ready
        <5>3. h[1] = 0
          BY ONLY <5>2 DEF Stack, Shapes
        <5>4. h[Len(c)] = Len(F[t])
          BY ONLY <5>2, <1>13, <1>14 DEF Tip
        <5>5. Len(F[t]) = 0
          BY ONLY <5>1, <5>3, <5>4
        <5> QED
          BY ONLY <5>5, <3>1, <1>1
      <4> QED
        BY ONLY <4>1, <1>13
    <3>2. F[t] # <<>> => ~q.ypcall /\ q.func < x
      BY <3>1, <1>4, <1>7, <1>14
    <3> QED
      BY ONLY <3>2, <1>6, <1>7 DEF Follows
  <2>3. NonYieldable(r)
    BY DEF NonYieldable
  <2> QED
    BY ONLY <1>6, <2>1, <2>2, <2>3, isLua <=> r.kind = "exec", F[t] = <<>> => isLua DEF MayCall
<1>20. Kinds(d[Len(d)], r)
  BY ONLY <1>2, <1>3, Call(r), r.thread = t, r.inc = 2, r.kind = "cfun" => ~r.cont
     DEF Kinds, Call, First, Guard
<1>21. Reaches(d, t, F[t], y)
  <2> DEFINE g == Frame(TRUE, TRUE, x)
  <2>1. g \in FrameSet /\ g.func = x /\ ~g.ypcall
    BY ONLY <1>4 DEF Frame, FrameSet
  <2> HIDE DEF g
  <2>2. Above(d, Len(d), t, g)
    BY ONLY <1>18, <2>1
  <2>3. ASSUME NEW i \in 2 .. Len(d), d[i].thread = t, Guard(d[i])
        PROVE  d[i].level <= y
    <3>1. d[i].level <= x
      BY ONLY <2>1, <2>2, <2>3 DEF Above
    <3>2. d[i] \in Acts
      <4>1. i \in 1 .. Len(d)
        BY ONLY <1>3, <1>14
      <4> QED
        BY ONLY <1>3, <4>1
    <3>3. d[i].level \in Nat
      BY ONLY <3>2, <2>3, ActFacts DEF Guard
    <3> QED
      BY ONLY <3>1, <3>3, <1>4, <1>5
  <2>4. F[t] # <<>> /\ F[t][Len(F[t])].ypcall => FALSE
    <3>1. F[t] # <<>> => Len(F[t]) > 0
      BY ONLY <1>1
    <3> QED
      BY ONLY <3>1, Protects(p, "pcall", t, F[t], a, b) DEF Protects
  <2> QED
    BY ONLY <2>3, <2>4 DEF Reaches
<1>22. e2 = "error" => Reaches(d, t, F[t], FaultAt(Append(d, r), F[t], V[t]))
  BY ONLY <1>21, <1>7
<1>23. r.inc \in {1, 2} /\ d[Len(d)].thread = t
  BY <1>2, <1>3
<1>24. Whole(Append(d, r), G, V, s, bd, a2, b2, ef2, e2)
  BY ONLY <1>7, <1>17, <1>19, <1>20, <1>22, <1>23, r \in Acts, Call(r), r.thread = t,
          Typed(V, s, bd, ef2, "none"), CallStep
<1> QED
  BY ONLY <1>24 DEF d
(* The frame at the top is another one.                                    *)
LEMMA RetopFacts ==
  ASSUME NEW FR \in Seq(FrameSet), FR # <<>>, NEW f \in FrameSet
  PROVE  LET E == Retop(FR, Len(FR), f)
         IN  /\ E \in Seq(FrameSet) /\ E # <<>> /\ Len(E) = Len(FR) /\ E[Len(E)] = f
             /\ \A q \in 1 .. Len(FR) - 1 : E[q] = FR[q]
<1> DEFINE D == Front(FR)
<1>1. /\ Len(FR) \in Nat /\ Len(FR) > 0
      /\ D \in Seq(FrameSet) /\ Len(D) = Len(FR) - 1
      /\ \A q \in 1 .. Len(FR) - 1 : D[q] = FR[q]
  BY FrontFacts
<1>2. Retop(FR, Len(FR), f) = Append(D, f)
  BY DEF Retop, Front
<1> HIDE DEF D
<1> QED
  BY <1>1, <1>2

(* What the frames are when the one at the top is another one.             *)
LEMMA ReplacedTop ==
  ASSUME NEW F \in [Thread -> Seq(FrameSet)], NEW t \in Thread, F[t] # <<>>,
         NEW f \in FrameSet, NEW G, Replaced(F, t, f, G)
  PROVE  /\ G \in [Thread -> Seq(FrameSet)] /\ G[t] \in Seq(FrameSet) /\ G[t] # <<>>
         /\ Len(G[t]) = Len(F[t]) /\ G[t][Len(G[t])] = f
         /\ \A q \in 1 .. Len(F[t]) - 1 : G[t][q] = F[t][q]
<1>1. F[t] \in Seq(FrameSet)
  OBVIOUS
<1>2. G \in [Thread -> Seq(FrameSet)] /\ G[t] = Retop(F[t], Len(F[t]), f)
  BY DEF Replaced
<1> DEFINE FR == F[t]
           E == Retop(FR, Len(FR), f)
<1>3. FR \in Seq(FrameSet) /\ FR # <<>> /\ FR = F[t] /\ G[t] = E
  BY <1>1, <1>2
<1> HIDE DEF FR
<1>4. /\ E \in Seq(FrameSet) /\ E # <<>> /\ Len(E) = Len(FR) /\ E[Len(E)] = f
      /\ \A q \in 1 .. Len(FR) - 1 : E[q] = FR[q]
  BY <1>3, RetopFacts
<1> HIDE DEF E
<1> QED
  BY ONLY <1>2, <1>3, <1>4

(* The actions that replace the frame at the top do so.                    *)
LEMMA ReplacedBy ==
  ASSUME NEW F \in [Thread -> Seq(FrameSet)], NEW t \in Thread, F[t] # <<>>,
         NEW f \in FrameSet
  PROVE  Replaced(F, t, f, [F EXCEPT ![t] = Retop(F[t], Len(F[t]), f)])
<1>1. F[t] \in Seq(FrameSet) /\ Len(F[t]) \in Nat /\ Len(F[t]) > 0
  OBVIOUS
<1>2. SubSeq(F[t], 1, Len(F[t]) - 1) \in Seq(FrameSet)
  BY <1>1
<1>3. Retop(F[t], Len(F[t]), f) \in Seq(FrameSet)
  BY <1>2 DEF Retop
<1> QED
  BY <1>3 DEF Replaced

(* The actions that drop frames do so.                                     *)
LEMMA ShrunkBy ==
  ASSUME NEW F \in [Thread -> Seq(FrameSet)], NEW t \in Thread, NEW m \in 0 .. Len(F[t])
  PROVE  Shrunk(F, t, m, [F EXCEPT ![t] = SubSeq(@, 1, m)])
<1>1. F[t] \in Seq(FrameSet) /\ Len(F[t]) \in Nat
  OBVIOUS
<1>2. SubSeq(F[t], 1, m) \in Seq(FrameSet)
  BY <1>1
<1> QED
  BY <1>2 DEF Shrunk

(* A function that changes its frame closes variables.                     *)
LEMMA ChangeClose ==
  ASSUME NEW c, NEW F, NEW V, NEW s, NEW bd, NEW a, NEW b, NEW ef,
         Whole(c, F, V, s, bd, a, b, ef, "none"),
         NEW t, NEW f, MayChange(c, F, t, b, f), c[Len(c)].kind = "unroll" => Held(f),
         NEW G, Replaced(F, t, f, G), NEW r, Closes(c[Len(c)], G[t], r)
  PROVE  Whole(Append(c, r), G, V, s, bd, a, b, ef, "none")
<1>1. Typed(V, s, bd, ef, "none")
  BY ONLY Whole(c, F, V, s, bd, a, b, ef, "none"), WholeFacts
<1>2. Whole(c, G, V, s, bd, a, b, ef, "none")
  BY ONLY <1>1, Whole(c, F, V, s, bd, a, b, ef, "none"), MayChange(c, F, t, b, f),
          c[Len(c)].kind = "unroll" => Held(f), Replaced(F, t, f, G), ChangeStep
<1>3. c[Len(c)].thread = t
  BY DEF MayChange
<1> QED
  BY ONLY <1>2, <1>3, Closes(c[Len(c)], G[t], r), CloseStep

(* A Lua function returns to another of its luaV_execute.                  *)
LEMMA ReturnStep ==
  ASSUME NEW c, NEW F, NEW V, NEW s, NEW bd, NEW a, NEW b, NEW ef,
         Whole(c, F, V, s, bd, a, b, ef, "none"), c[Len(c)].kind = "exec",
         NEW t, c[Len(c)].thread = t, ~F[t][Len(F[t])].fresh,
         NEW G, Shrunk(F, t, Len(F[t]) - 1, G)
  PROVE  Whole(c, G, V, s, bd, a, b, ef, "none")
<1>1. Ready(c, F, s, a, b, "none") /\ Typed(V, s, bd, ef, "none")
  BY ONLY Whole(c, F, V, s, bd, a, b, ef, "none"), WholeFacts
<1>2. Ready(c, G, s, a, b, "none")
  BY ONLY <1>1, c[Len(c)].kind = "exec", c[Len(c)].thread = t, ~F[t][Len(F[t])].fresh,
          Shrunk(F, t, Len(F[t]) - 1, G), PopLuaFrame
<1>3. \A u \in Thread : u # c[Len(c)].thread => G[u] = F[u]
  BY DEF Shrunk
<1>4. Goes(c, F, c, G)
  BY ONLY <1>3, GoesSame
<1>5. Tips(c, G)
  BY DEF Tips
<1>6. "none" # "yield"
  OBVIOUS
<1> QED
  BY ONLY <1>1, <1>2, <1>4, <1>5, <1>6, Whole(c, F, V, s, bd, a, b, ef, "none"), StepRuns

(* A function returns to C code.                                           *)
LEMMA PopCallStep ==
  ASSUME NEW c, NEW F, NEW V, NEW s, NEW bd, NEW a, NEW b, NEW ef,
         Whole(c, F, V, s, bd, a, b, ef, "none"),
         NEW t, c[Len(c)].thread = t,
         \/ c[Len(c)].kind = "exec" /\ F[t][Len(F[t])].fresh
         \/ c[Len(c)].kind = "cfun",
         NEW G, Shrunk(F, t, Len(F[t]) - 1, G),
         NEW a2, NEW b2, Uncounts(a, b, t, c[Len(c)].inc, a2, b2)
  PROVE  Whole(Popped(c), G, V, s, bd, a2, b2, ef, "none")
<1>1. /\ Ready(c, F, s, a, b, "none") /\ Typed(V, s, bd, ef, "none")
      /\ F \in [Thread -> Seq(FrameSet)] /\ c[Len(c)].thread \in Thread
      /\ s[c[Len(c)].thread] # "err"
      /\ b \in [Thread -> Nat]
  BY ONLY Whole(c, F, V, s, bd, a, b, ef, "none"), WholeFacts
<1>2. Call(c[Len(c)]) /\ ~First(c[Len(c)])
  BY DEF Call, First
<1>3. Discounted(a, b, t, c[Len(c)], a2, b2)
  BY ONLY <1>1, <1>2, c[Len(c)].thread = t, Uncounts(a, b, t, c[Len(c)].inc, a2, b2), Uncounted
<1>4. Ready(SubSeq(c, 1, Len(c) - 1), G, s, a2, b2, "none")
  BY ONLY <1>1, <1>3, c[Len(c)].thread = t, Shrunk(F, t, Len(F[t]) - 1, G),
          \/ c[Len(c)].kind = "exec" /\ F[t][Len(F[t])].fresh
          \/ c[Len(c)].kind = "cfun", PopCall
<1>5. Ready(Popped(c), G, s, a2, b2, "none")
  BY ONLY <1>4 DEF Popped
<1>6. /\ Len(c) \in Nat /\ Len(c) - 1 > 0
      /\ c[Len(c) - 1].thread = c[Len(c)].thread /\ Kinds(c[Len(c) - 1], c[Len(c)])
  BY ONLY <1>1, <1>2, BelowTop
<1>7. \A u \in Thread : u # c[Len(c)].thread => G[u] = F[u]
  BY DEF Shrunk
<1>8. Popped(c)[Len(Popped(c))] = c[Len(c) - 1]
  BY ONLY <1>1, <1>2, <1>7, PoppedFacts
<1>9. /\ c[Len(c) - 1].kind \notin {"caught", "reset"}
      /\ c[Len(c) - 1].kind = "try" => c[Len(c) - 1].of = "pcall"
      /\ c[Len(c) - 1].kind = "unroll" => c[Len(c)].inc = 0
  BY ONLY <1>2, <1>6 DEF Kinds, Call
<1>10. ASSUME c[Len(c) - 1].kind = "unroll", G[t] # <<>> PROVE Held(G[t][Len(G[t])])
  <2>1. Popped(c)[Len(Popped(c))].kind = "unroll" /\ Popped(c)[Len(Popped(c))].thread = t
    BY <1>6, <1>8, <1>10
  <2>2. b2[t] = 0
    BY ONLY <1>5, <2>1, UnrollYields
  <2>3. b[t] = 0
    BY ONLY <2>2, <1>1, <1>9, <1>10, c[Len(c)].thread = t, Uncounts(a, b, t, c[Len(c)].inc, a2, b2)
       DEF Uncounts
  <2>4. \A p \in 1 .. Len(F[t]) - 1 : Held(F[t][p])
    BY ONLY <1>1, <2>3, c[Len(c)].thread = t, AllHeld
  <2>5. F[t] \in Seq(FrameSet) /\ Len(F[t]) \in Nat /\ t \in Thread
    BY <1>1
  <2>6. G[t] = SubSeq(F[t], 1, Len(F[t]) - 1)
    BY DEF Shrunk
  <2>7. Len(F[t]) - 1 > 0 /\ Len(F[t]) - 1 \in 1 .. Len(F[t]) - 1 /\ Len(G[t]) = Len(F[t]) - 1
        /\ G[t][Len(F[t]) - 1] = F[t][Len(F[t]) - 1]
    BY ONLY <2>5, <2>6, <1>10
  <2> QED
    BY ONLY <2>4, <2>7
<1>11. LET FR == G[c[Len(c)].thread]
       IN  c[Len(c) - 1].kind = "unroll" /\ FR # <<>> => Held(FR[Len(FR)])
  BY <1>10
<1> QED
  BY ONLY <1>1, <1>2, <1>5, <1>7, <1>9, <1>11, Whole(c, F, V, s, bd, a, b, ef, "none"), PopStep
(* A new variable to be closed.                                            *)
LEMMA NewTbcTyped ==
  ASSUME Inv1, ci[L] # <<>>, NewTbc
  PROVE  tbc' \in [Thread -> Seq(VarSet)]
<1>1. /\ tbc \in [Thread -> Seq(VarSet)] /\ tbc[L] \in Seq(VarSet) /\ L \in Thread
      /\ TopOf(L) \in Nat /\ top \in FrameSet
  BY InvFacts
<1>2. top.func \in Nat
  BY <1>1, FrameFacts
<1> DEFINE v == [level |-> TopOf(L), owner |-> top.func]
<1>3. v \in VarSet
  BY <1>1, <1>2 DEF VarSet
<1>4. tbc' = [tbc EXCEPT ![L] = Append(@, v)]
  BY DEF NewTbc
<1> HIDE DEF v
<1>5. Append(tbc[L], v) \in Seq(VarSet)
  BY <1>1, <1>3
<1> QED
  BY <1>1, <1>4, <1>5

(* OP_TBC keeps the invariant.                                             *)
LEMMA DeclareTbcKeeps ==
  ASSUME Inv1, DeclareTbc
  PROVE  Inv1'
<1>1. /\ exc = "none" /\ cur.kind = "exec" /\ NewTbc
      /\ UNCHANGED <<ci, status, body, nC, nny, errfunc, cs, exc>>
  BY DEF DeclareTbc, InLua, Running, counts
<1>2. Call(cur) /\ "none" # "yield"
  BY <1>1 DEF Call
<1>3. /\ Ready(cs, ci, status, nC, nny, "none")
      /\ Whole(cs, ci, tbc, status, body, nC, nny, errfunc, "none")
      /\ ci[L] # <<>> /\ Typed(tbc, status, body, errfunc, "none")
  BY <1>1, <1>2, RunFacts
<1>4. tbc' \in [Thread -> Seq(VarSet)]
  BY <1>1, <1>3, NewTbcTyped
<1>5. Typed(tbc', status, body, errfunc, "none")
  BY ONLY <1>3, <1>4 DEF Typed
<1>6. \A u \in Thread : u # cs[Len(cs)].thread => ci[u] = ci[u]
  OBVIOUS
<1>7. Goes(cs, ci, cs, ci)
  BY ONLY <1>6, GoesSame
<1>8. Tips(cs, ci)
  BY InvFacts
<1>9. Whole(cs, ci, tbc', status, body, nC, nny, errfunc, "none")
  BY ONLY <1>2, <1>3, <1>5, <1>7, <1>8, StepRuns
<1> QED
  BY ONLY <1>1, <1>9 DEF Inv1

(* OP_CLOSE keeps the invariant.                                           *)
LEMMA CloseBlockKeeps ==
  ASSUME Inv1, CloseBlock
  PROVE  Inv1'
<1>1. PICK i \in OwnTbc(L) :
        /\ ci' = [ci EXCEPT ![L] =
                    WithTop(L, [top EXCEPT !.doing = "close", !.idx = tbc[L][i].level])]
        /\ cs' = Append(cs, Closing(L, tbc[L][i].level, TRUE, "block"))
  BY DEF CloseBlock
<1>2. /\ exc = "none" /\ cur.kind = "exec"
      /\ UNCHANGED <<tbc, status, body, nC, nny, errfunc, exc>>
  BY DEF CloseBlock, InLua, Running, counts
<1> DEFINE level == tbc[L][i].level
           f == [top EXCEPT !.doing = "close", !.idx = level]
           r == Closing(L, level, TRUE, "block")
<1>3. Call(cur)
  BY <1>2 DEF Call
<1>4. /\ Whole(cs, ci, tbc, status, body, nC, nny, errfunc, "none")
      /\ ci[L] # <<>> /\ ci[L][Len(ci[L])] = top /\ top \in FrameSet /\ FrameOK(top) /\ top.lua
      /\ top.func \in Nat
  BY <1>2, <1>3, RunFacts
<1>5. /\ ci \in [Thread -> Seq(FrameSet)] /\ L \in Thread /\ cs[Len(cs)] = cur /\ cur.thread = L
      /\ tbc[L] \in Seq(VarSet) /\ (\A g : WithTop(L, g) = Retop(ci[L], Len(ci[L]), g))
  BY InvFacts
<1>6. level \in Nat /\ top.func < level
  <2>1. i \in 1 .. Len(tbc[L]) /\ tbc[L][i].level > top.func
    BY <1>1 DEF OwnTbc, top
  <2>2. tbc[L][i] \in VarSet
    BY <1>5, <2>1
  <2> QED
    BY <2>1, <2>2, <1>4 DEF VarSet
<1>7. /\ r \in Acts /\ r.kind = "close" /\ r.thread = L /\ r.level = level
      /\ r.yy = TRUE /\ r.for = "block"
  <2> HIDE DEF level
  <2> QED
    BY <1>5, <1>6 DEF Closing, Acts
<1>8. /\ f \in FrameSet /\ f.func = top.func /\ f.lua = top.lua /\ f.fresh = top.fresh
      /\ f.doing = "close" /\ f.idx = level /\ f.ypcall = top.ypcall
  <2> HIDE DEF level
  <2> QED
    BY <1>4, <1>6 DEF FrameSet
<1>9. FrameOK(f)
  <2> HIDE DEF level
  <2> QED
    BY <1>4, <1>6 DEF FrameSet, FrameOK
<1>10. ci' = [ci EXCEPT ![L] = Retop(ci[L], Len(ci[L]), f)] /\ cs' = Append(cs, r)
  BY <1>1, <1>5
<1> HIDE DEF f, r, level
<1>11. Replaced(ci, L, f, ci')
  BY ONLY <1>4, <1>5, <1>8, <1>10, ReplacedBy
<1>12. MayChange(cs, ci, L, nny, f)
  BY ONLY <1>2, <1>4, <1>5, <1>8, <1>9 DEF MayChange
<1>13. ci'[L] # <<>> /\ ci'[L][Len(ci'[L])] = f
  BY ONLY <1>4, <1>5, <1>8, <1>11, ReplacedTop
<1>14. Closes(cs[Len(cs)], ci'[L], r)
  BY ONLY <1>2, <1>4, <1>5, <1>7, <1>8, <1>13 DEF Closes
<1>15. cs[Len(cs)].kind = "unroll" => Held(f)
  BY ONLY <1>2, <1>5
<1>16. Whole(Append(cs, r), ci', tbc, status, body, nC, nny, errfunc, "none")
  BY ONLY <1>4, <1>11, <1>12, <1>14, <1>15, ChangeClose
<1> QED
  BY ONLY <1>2, <1>10, <1>16 DEF Inv1
(* The return of a Lua function keeps the invariant.                       *)
LEMMA ReturnLuaKeeps ==
  ASSUME Inv1, ReturnLua
  PROVE  Inv1'
<1>1. /\ exc = "none" /\ cur.kind = "exec"
      /\ UNCHANGED <<tbc, status, body, errfunc, exc>>
  BY DEF ReturnLua, InLua, Running
<1>2. Call(cur)
  BY <1>1 DEF Call
<1>3. /\ Whole(cs, ci, tbc, status, body, nC, nny, errfunc, "none")
      /\ ci[L] # <<>> /\ ci[L][Len(ci[L])] = top /\ top \in FrameSet /\ FrameOK(top) /\ top.lua
      /\ top.func \in Nat
  BY <1>1, <1>2, RunFacts
<1>4. /\ ci \in [Thread -> Seq(FrameSet)] /\ L \in Thread /\ cs[Len(cs)] = cur /\ cur.thread = L
      /\ ci[L] \in Seq(FrameSet) /\ Len(ci[L]) \in Nat
      /\ (\A g : WithTop(L, g) = Retop(ci[L], Len(ci[L]), g))
      /\ Front(ci[L]) = SubSeq(ci[L], 1, Len(ci[L]) - 1)
      /\ cs \in Seq(Acts)
  BY InvFacts
<1>5. cs[Len(cs)].kind = "exec" /\ cs[Len(cs)].thread = L
  BY ONLY <1>1, <1>4
<1>6. CASE OwnTbc(L) = {}
  <2>1. PopLua
    BY <1>6 DEF ReturnLua
  <2>2. ci' = [ci EXCEPT ![L] = SubSeq(@, 1, Len(ci[L]) - 1)]
    BY <2>1, <1>4 DEF PopLua
  <2> DEFINE m == Len(ci[L]) - 1
  <2>3. m \in 0 .. Len(ci[L])
    <3>1. Len(ci[L]) > 0
      BY ONLY <1>3, <1>4
    <3> QED
      BY ONLY <3>1, <1>4
  <2>4. m = Len(ci[L]) - 1
    OBVIOUS
  <2> HIDE DEF m
  <2>5. ci' = [ci EXCEPT ![L] = SubSeq(@, 1, m)]
    BY ONLY <2>2, <2>4
  <2>6. Shrunk(ci, L, m, ci')
    BY ONLY <1>4, <2>3, <2>5, ShrunkBy
  <2>7. Shrunk(ci, L, Len(ci[L]) - 1, ci')
    BY ONLY <2>4, <2>6
  <2>8. CASE top.fresh
    <3>1. Uncount(cur.inc) /\ cs' = Front(cs)
      BY <2>1, <2>8 DEF PopLua
    <3>2. cs' = Popped(cs)
      BY <3>1 DEF Front, Popped
    <3>3. Uncounts(nC, nny, L, cs[Len(cs)].inc, nC', nny')
      BY ONLY <3>1, <1>4 DEF Uncounts, Uncount
    <3>4. \/ cs[Len(cs)].kind = "exec" /\ ci[L][Len(ci[L])].fresh
          \/ cs[Len(cs)].kind = "cfun"
      BY ONLY <1>3, <1>5, <2>8
    <3>5. Whole(Popped(cs), ci', tbc, status, body, nC', nny', errfunc, "none")
      BY ONLY <1>3, <1>5, <2>7, <3>3, <3>4, PopCallStep
    <3> QED
      BY ONLY <1>1, <3>2, <3>5 DEF Inv1
  <2>9. CASE ~top.fresh
    <3>1. nC' = nC /\ nny' = nny /\ cs' = cs
      BY <2>1, <2>9 DEF PopLua, counts
    <3>2. ~ci[L][Len(ci[L])].fresh
      BY ONLY <1>3, <2>9
    <3>3. Whole(cs, ci', tbc, status, body, nC, nny, errfunc, "none")
      BY ONLY <1>3, <1>5, <2>7, <3>2, ReturnStep
    <3> QED
      BY ONLY <1>1, <3>1, <3>3 DEF Inv1
  <2> QED
    BY ONLY <2>8, <2>9
<1>7. CASE OwnTbc(L) # {}
  <2> DEFINE f == [top EXCEPT !.doing = "return"]
             r == Closing(L, top.func + 1, TRUE, "return")
  <2>1. /\ ci' = [ci EXCEPT ![L] = Retop(ci[L], Len(ci[L]), f)]
        /\ cs' = Append(cs, r) /\ nC' = nC /\ nny' = nny
    BY <1>7, <1>4 DEF ReturnLua, counts
  <2>2. /\ r \in Acts /\ r.kind = "close" /\ r.thread = L /\ r.level = top.func + 1
        /\ r.yy = TRUE /\ r.for = "return"
    BY <1>3, <1>4 DEF Closing, Acts
  <2>3. /\ f \in FrameSet /\ f.func = top.func /\ f.lua = top.lua /\ f.fresh = top.fresh
        /\ f.doing = "return" /\ f.ypcall = top.ypcall
    BY <1>3 DEF FrameSet
  <2>4. FrameOK(f)
    BY <1>3 DEF FrameSet, FrameOK
  <2> HIDE DEF f, r
  <2>5. Replaced(ci, L, f, ci')
    BY ONLY <1>3, <1>4, <2>1, <2>3, ReplacedBy
  <2>6. MayChange(cs, ci, L, nny, f)
    BY ONLY <1>3, <1>5, <2>3, <2>4 DEF MayChange
  <2>7. ci'[L] # <<>> /\ ci'[L][Len(ci'[L])] = f
    BY ONLY <1>3, <1>4, <2>3, <2>5, ReplacedTop
  <2>8. Closes(cs[Len(cs)], ci'[L], r)
    BY ONLY <1>3, <1>5, <2>2, <2>3, <2>7 DEF Closes
  <2>9. cs[Len(cs)].kind = "unroll" => Held(f)
    BY ONLY <1>5
  <2>10. Whole(Append(cs, r), ci', tbc, status, body, nC, nny, errfunc, "none")
    BY ONLY <1>3, <2>5, <2>6, <2>8, <2>9, ChangeClose
  <2> QED
    BY ONLY <1>1, <2>1, <2>10 DEF Inv1
<1> QED
  BY ONLY <1>6, <1>7

(* An instruction that closes again after a yield keeps the invariant.     *)
LEMMA RepeatCloseKeeps ==
  ASSUME Inv1, RepeatClose
  PROVE  Inv1'
<1>1. /\ exc = "none" /\ cur.kind = "exec" /\ top.doing # "run"
      /\ cs' = Append(cs, IF top.doing = "close" THEN Closing(L, top.idx, TRUE, "block")
                                                 ELSE Closing(L, top.func + 1, TRUE, "return"))
      /\ UNCHANGED <<ci, tbc, status, body, nC, nny, errfunc, exc>>
  BY DEF RepeatClose, Running, counts, thread
<1>2. Call(cur)
  BY <1>1 DEF Call
<1>3. /\ Whole(cs, ci, tbc, status, body, nC, nny, errfunc, "none")
      /\ ci[L] # <<>> /\ ci[L][Len(ci[L])] = top /\ top \in FrameSet /\ top.lua
      /\ cs[Len(cs)].thread = L
  BY <1>1, <1>2, RunFacts
<1>4. L \in Thread /\ cs[Len(cs)].kind = "exec"
  BY <1>1, InvFacts
<1>5. top.func \in Nat /\ top.idx \in Nat /\ top.doing \in {"run", "close", "return"}
  BY <1>3, FrameFacts
<1> DEFINE r == IF top.doing = "close" THEN Closing(L, top.idx, TRUE, "block")
                                       ELSE Closing(L, top.func + 1, TRUE, "return")
<1>6. /\ r \in Acts /\ r.kind = "close" /\ r.thread = L /\ r.yy = TRUE
      /\ IF top.doing = "close" THEN r.level = top.idx /\ r.for = "block"
                                ELSE r.level = top.func + 1 /\ r.for = "return"
  BY <1>4, <1>5 DEF Closing, Acts
<1>7. cs' = Append(cs, r)
  BY <1>1
<1> HIDE DEF r
<1>8. Closes(cs[Len(cs)], ci[L], r)
  BY ONLY <1>1, <1>3, <1>4, <1>5, <1>6 DEF Closes
<1>9. Whole(Append(cs, r), ci, tbc, status, body, nC, nny, errfunc, "none")
  BY ONLY <1>3, <1>8, CloseStep
<1> QED
  BY ONLY <1>1, <1>7, <1>9 DEF Inv1
(* The activation that Try makes, and its fields.                          *)
LEMMA TryFacts ==
  ASSUME NEW t \in Thread, NEW of \in {"pcall", "close", "resume"}, NEW depth \in Nat,
         NEW x \in Nat, NEW y \in Nat, NEW level \in Nat, NEW old \in Nat
  PROVE  LET r == Try(t, of, depth, <<x, y>>, level, old)
         IN  /\ r \in Acts /\ r.kind = "try" /\ r.thread = t /\ r.of = of /\ r.depth = depth
             /\ r.nC = x /\ r.nny = y /\ r.level = level /\ r.errfunc = old
BY DEF Try, Acts

(* The first free slot does not depend on what else the top frame says.    *)
LEMMA TopAtSame ==
  ASSUME NEW FR, NEW GR, FR # <<>>, GR # <<>>, GR[Len(GR)].func = FR[Len(FR)].func, NEW W
  PROVE  TopAt(GR, W) = TopAt(FR, W)
BY DEF TopAt, Last

(* ccall, by the running thread, whose frames are 'frames', makes the      *)
(* activation r.                                                           *)
CallBy(r, inc, isLua, func, frames, stack) ==
  /\ cs' = Append(stack, r) /\ Call(r) /\ r.inc = inc /\ r.thread = L
  /\ isLua <=> r.kind = "exec"
  /\ r.kind = "cfun" => ~r.cont
  /\ CallMade([ci EXCEPT ![L] = frames], nC, nny, r,
              Frame(isLua, TRUE, func), ci', nC', nny', exc')

(* CCall makes such an activation.                                         *)
LEMMA FunctionCallMade ==
  ASSUME NEW inc \in 1 .. 2, NEW isLua \in BOOLEAN, NEW func \in Nat,
         NEW frames \in Seq(FrameSet), NEW stack,
         CCall(inc, isLua, func, frames, stack), L \in Thread, ci \in [Thread -> Seq(FrameSet)]
  PROVE  \E r \in Acts : CallBy(r, inc, isLua, func, frames, stack)
<1> DEFINE r == Activation(isLua, inc)
<1>1. /\ r \in Acts /\ Call(r) /\ r.inc = inc /\ r.thread = L
      /\ r.kind = (IF isLua THEN "exec" ELSE "cfun")
      /\ ~isLua => r.cont = FALSE
      /\ CallMade([ci EXCEPT ![L] = frames], nC, nny, r,
                  Frame(isLua, TRUE, func), ci', nC', nny', exc')
  BY CCallMade
<1>2. cs' = Append(stack, r)
  BY DEF CCall
<1> HIDE DEF r
<1>3. (isLua <=> r.kind = "exec") /\ (r.kind = "cfun" => ~r.cont)
  BY ONLY <1>1, isLua \in BOOLEAN
<1> QED
  BY ONLY <1>1, <1>2, <1>3 DEF CallBy

(* The call of the host program keeps the invariant.                       *)
LEMMA StartMainKeeps ==
  ASSUME Inv1, StartMain
  PROVE  Inv1'
<1> DEFINE p == Try(L, "pcall", 0, <<nC[L], nny[L]>>, TopOf(L), errfunc[L])
<1>1. /\ exc = "none" /\ cur.kind = "main"
      /\ CCall(2, TRUE, TopOf(L), ci[L], Append(cs, p))
      /\ UNCHANGED <<tbc, status, body, errfunc>>
  BY DEF StartMain, Running
<1>2. /\ Ready(cs, ci, status, nC, nny, "none") /\ Typed(tbc, status, body, errfunc, "none")
      /\ Whole(cs, ci, tbc, status, body, nC, nny, errfunc, "none")
      /\ cs \in Seq(Acts) /\ Len(cs) \in Nat /\ Len(cs) > 0
      /\ cs[Len(cs)] = cur /\ cur.thread = L /\ L \in Thread
      /\ ci \in [Thread -> Seq(FrameSet)] /\ ci[L] \in Seq(FrameSet)
      /\ nC[L] \in Nat /\ nny[L] \in Nat /\ errfunc[L] \in Nat
      /\ TopOf(L) = TopAt(ci[L], tbc[L]) /\ TopOf(L) \in Nat /\ TopOf(L) > 0
  BY <1>1, InvFacts DEF Inv1
<1>3. ci[L] = <<>>
  <2>1. Len(cs) = 1
    <3>1. Piled(cs)
      BY ONLY <1>2, ReadyTypes
    <3>2. \A i \in 2 .. Len(cs) : cs[i].kind # "main"
      BY ONLY <3>1 DEF Piled, Kinds
    <3>3. Len(cs) # 1 => Len(cs) \in 2 .. Len(cs)
      <4> DEFINE n == Len(cs)
      <4>1. n \in Nat /\ n > 0
        BY ONLY <1>2
      <4> HIDE DEF n
      <4>2. n # 1 => n \in 2 .. n
        BY ONLY <4>1
      <4> QED
        BY ONLY <4>2 DEF n
    <3> QED
      BY ONLY <1>1, <1>2, <3>2, <3>3
  <2>2. PICK h : h \in [Nat -> Nat] /\ Stack(cs, ci, h) /\ Tip(cs, ci, h, "none")
    BY ONLY <1>2 DEF Ready
  <2>3. h[1] = 0
    BY ONLY <2>2 DEF Stack, Shapes
  <2>4. h[Len(cs)] = Len(ci[L])
    BY ONLY <2>2, <1>2 DEF Tip
  <2>5. Len(ci[L]) = 0
    BY ONLY <2>1, <2>3, <2>4
  <2> QED
    BY ONLY <2>5, <1>2
<1>4. /\ p \in Acts /\ p.kind = "try" /\ p.thread = L /\ p.of = "pcall" /\ p.depth = 0
      /\ p.nC = nC[L] /\ p.nny = nny[L] /\ p.level = TopOf(L)
  BY <1>2 DEF Try, Acts
<1> HIDE DEF p
<1>5. Protects(p, "pcall", L, ci[L], nC, nny)
  <2>1. Len(ci[L]) = 0
    BY ONLY <1>3
  <2> QED
    BY ONLY <1>2, <1>4, <2>1 DEF Protects
<1> DEFINE r == Activation(TRUE, 2)
           z == TRUE
           f == Frame(z, TRUE, TopOf(L))
<1>6. 2 \in 1 .. 2
  OBVIOUS
<1>7. /\ cs' = Append(Append(cs, p), r)
      /\ r \in Acts /\ Call(r) /\ r.inc = 2 /\ r.thread = L /\ r.kind = "exec"
      /\ CallMade([ci EXCEPT ![L] = ci[L]], nC, nny, r, f, ci', nC', nny', exc')
  <2>1. /\ r \in Acts /\ Call(r) /\ r.inc = 2 /\ r.thread = L /\ r.kind = "exec"
        /\ CallMade([ci EXCEPT ![L] = ci[L]], nC, nny, r, f, ci', nC', nny', exc')
    BY ONLY <1>1, <1>2, <1>6, LuaCallMade
  <2>2. cs' = Append(Append(cs, p), r)
    BY ONLY <1>1 DEF CCall
  <2> QED
    BY ONLY <2>1, <2>2
<1>8. z \in BOOLEAN /\ z = TRUE
  OBVIOUS
<1> HIDE DEF r, z
<1>9. [ci EXCEPT ![L] = ci[L]] = ci
  BY ONLY <1>2
<1>10. CallMade(ci, nC, nny, r, Frame(z, TRUE, TopAt(ci[L], tbc[L])), ci', nC', nny', exc')
  BY ONLY <1>2, <1>7, <1>9
<1>11. /\ (z <=> r.kind = "exec") /\ (r.kind = "cfun" => ~r.cont)
       /\ (ci[L] = <<>> => z)
  BY ONLY <1>7, <1>8
<1>12. /\ cs[Len(cs)].thread = L /\ cs[Len(cs)].kind \in {"main", "cfun"}
       /\ cs[Len(cs)].kind = "cfun" => ~ci[L][Len(ci[L])].ypcall
       /\ p.level = TopAt(ci[L], tbc[L])
  BY ONLY <1>1, <1>2, <1>4
<1>13. Whole(Append(Append(cs, p), r), ci', tbc, status, body, nC', nny', errfunc, exc')
  BY ONLY <1>2, <1>5, <1>7, <1>8, <1>10, <1>11, <1>12, GuardCall
<1> QED
  BY ONLY <1>1, <1>7, <1>13 DEF Inv1
(* A C function that changes its frame to f, which has a continuation,     *)
(* calls another.                                                          *)
LEMMA ContinuedCall ==
  ASSUME NEW c, NEW F, NEW V, NEW s, NEW bd, NEW a, NEW b, NEW ef,
         Whole(c, F, V, s, bd, a, b, ef, "none"), c[Len(c)].kind = "cfun",
         NEW t \in Thread, NEW f, MayChange(c, F, t, b, f), f.k,
         f.ypcall => f.clsret \/ f.idx <= TopAt(F[t], V[t]),
         NEW isLua \in BOOLEAN, NEW r \in Acts, Call(r), r.thread = t, r.inc = 1,
         isLua <=> r.kind = "exec", r.kind = "cfun" => ~r.cont,
         NEW H, Replaced(F, t, f, H),
         NEW G, NEW a2, NEW b2, NEW e2,
         CallMade(H, a, b, r, Frame(isLua, TRUE, TopAt(F[t], V[t])), G, a2, b2, e2),
         NEW ef2, Typed(V, s, bd, ef2, "none")
  PROVE  Whole(Append(c, r), G, V, s, bd, a2, b2, ef2, e2)
<1>1. /\ Ready(c, F, s, a, b, "none") /\ Typed(V, s, bd, ef, "none")
      /\ F \in [Thread -> Seq(FrameSet)]
  BY ONLY Whole(c, F, V, s, bd, a, b, ef, "none"), WholeFacts
<1>2. /\ c[Len(c)].thread = t /\ F[t] # <<>> /\ f \in FrameSet
      /\ f.func = F[t][Len(F[t])].func
  BY DEF MayChange
<1>3. H[t] # <<>> /\ H[t][Len(H[t])] = f
  BY ONLY <1>1, <1>2, t \in Thread, Replaced(F, t, f, H), ReplacedTop
<1>4. TopAt(H[t], V[t]) = TopAt(F[t], V[t])
  <2>1. H[t][Len(H[t])].func = F[t][Len(F[t])].func
    BY ONLY <1>2, <1>3
  <2> QED
    BY ONLY <1>2, <1>3, <2>1, TopAtSame
<1>5. c[Len(c)].kind = "unroll" => Held(f)
  OBVIOUS
<1>6. Whole(c, H, V, s, bd, a, b, ef, "none")
  BY ONLY <1>1, <1>5, Whole(c, F, V, s, bd, a, b, ef, "none"), MayChange(c, F, t, b, f),
          Replaced(F, t, f, H), ChangeStep
<1>7. Call(c[Len(c)]) /\ r.inc \in {1, 2} /\ Kinds(c[Len(c)], r)
  BY <1>2 DEF Call, Kinds, First, Guard
<1>8. /\ H[t][Len(H[t])].ypcall =>
           H[t][Len(H[t])].clsret \/ H[t][Len(H[t])].idx <= TopAt(H[t], V[t])
      /\ Held(H[t][Len(H[t])]) \/ NonYieldable(r)
      /\ CallMade(H, a, b, r, Frame(isLua, TRUE, TopAt(H[t], V[t])), G, a2, b2, e2)
  BY <1>3, <1>4 DEF Held
<1> QED
  BY ONLY <1>2, <1>6, <1>7, <1>8, isLua \in BOOLEAN, r \in Acts, Call(r), r.thread = t,
          isLua <=> r.kind = "exec", Typed(V, s, bd, ef2, "none"), RunCall

(* lua_callk keeps the invariant.                                          *)
LEMMA CallFromCKeeps ==
  ASSUME Inv1, NEW k \in BOOLEAN, NEW isLua \in BOOLEAN, CallFromC(k, isLua)
  PROVE  Inv1'
<1>1. /\ exc = "none" /\ cur.kind = "cfun" /\ ~top.ypcall
      /\ UNCHANGED <<tbc, status, body, errfunc>>
  BY DEF CallFromC, InC, Running
<1>2. Call(cur)
  BY <1>1 DEF Call
<1>3. /\ Whole(cs, ci, tbc, status, body, nC, nny, errfunc, "none")
      /\ ci[L] # <<>> /\ ci[L][Len(ci[L])] = top /\ top \in FrameSet /\ FrameOK(top) /\ ~top.lua
      /\ top.recst = "ok" /\ cs[Len(cs)].thread = L
      /\ Typed(tbc, status, body, errfunc, "none")
  BY <1>1, <1>2, RunFacts
<1>4. /\ ci \in [Thread -> Seq(FrameSet)] /\ L \in Thread /\ cs[Len(cs)] = cur
      /\ ci[L] \in Seq(FrameSet)
      /\ (\A g : WithTop(L, g) = Retop(ci[L], Len(ci[L]), g))
      /\ TopOf(L) \in Nat /\ TopOf(L) = TopAt(ci[L], tbc[L])
  BY InvFacts
<1>5. cs[Len(cs)].kind = "cfun" /\ Call(cs[Len(cs)])
  BY ONLY <1>1, <1>2, <1>4
<1>6. CASE k /\ yieldable
  <2> DEFINE f == [top EXCEPT !.k = TRUE]
             H == [ci EXCEPT ![L] = Retop(ci[L], Len(ci[L]), f)]
  <2>1. CCall(1, isLua, TopOf(L), Retop(ci[L], Len(ci[L]), f), cs)
    BY <1>4, <1>6 DEF CallFromC
  <2>2. /\ f \in FrameSet /\ f.func = top.func /\ f.lua = top.lua /\ f.fresh = top.fresh
        /\ f.ypcall = top.ypcall /\ f.recst = top.recst /\ f.k = TRUE
    BY <1>3 DEF FrameSet
  <2>3. FrameOK(f)
    BY <1>1, <1>3 DEF FrameSet, FrameOK
  <2> HIDE DEF f
  <2>4. Replaced(ci, L, f, H) /\ Retop(ci[L], Len(ci[L]), f) \in Seq(FrameSet)
    BY ONLY <1>3, <1>4, <2>2, ReplacedBy, RetopFacts
  <2>5. MayChange(cs, ci, L, nny, f)
    BY ONLY <1>1, <1>3, <1>5, <2>2, <2>3 DEF MayChange
  <2>6. f.k /\ (f.ypcall => f.clsret \/ f.idx <= TopAt(ci[L], tbc[L]))
    BY ONLY <2>2, <1>1
  <2>7. 1 \in 1 .. 2
    OBVIOUS
  <2> DEFINE frames == Retop(ci[L], Len(ci[L]), f)
  <2>c. PICK r \in Acts : CallBy(r, 1, isLua, TopOf(L), frames, cs)
    BY ONLY <1>4, <2>1, <2>4, <2>7, isLua \in BOOLEAN, FunctionCallMade
  <2>8. /\ cs' = Append(cs, r) /\ Call(r) /\ r.inc = 1 /\ r.thread = L
        /\ isLua <=> r.kind = "exec"
        /\ r.kind = "cfun" => ~r.cont
        /\ CallMade(H, nC, nny, r, Frame(isLua, TRUE, TopOf(L)), ci', nC', nny', exc')
    BY ONLY <2>c DEF CallBy
  <2> HIDE DEF H
  <2>9. CallMade(H, nC, nny, r, Frame(isLua, TRUE, TopAt(ci[L], tbc[L])), ci', nC', nny', exc')
    BY ONLY <2>8, <1>4
  <2>10. Whole(Append(cs, r), ci', tbc, status, body, nC', nny', errfunc, exc')
    BY ONLY <1>3, <1>4, <1>5, <2>4, <2>5, <2>6, <2>8, <2>9, isLua \in BOOLEAN, ContinuedCall
  <2> QED
    BY ONLY <1>1, <2>8, <2>10 DEF Inv1
<1>7. CASE ~(k /\ yieldable)
  <2>1. CCall(2, isLua, TopOf(L), ci[L], cs) /\ 2 \in 1 .. 2
    BY <1>7 DEF CallFromC
  <2>c. PICK r \in Acts : CallBy(r, 2, isLua, TopOf(L), ci[L], cs)
    BY ONLY <1>4, <2>1, isLua \in BOOLEAN, FunctionCallMade
  <2>2. /\ cs' = Append(cs, r) /\ Call(r) /\ r.inc = 2 /\ r.thread = L
        /\ isLua <=> r.kind = "exec"
        /\ r.kind = "cfun" => ~r.cont
        /\ CallMade([ci EXCEPT ![L] = ci[L]], nC, nny, r, Frame(isLua, TRUE, TopOf(L)),
                    ci', nC', nny', exc')
    BY ONLY <2>c DEF CallBy
  <2>3. [ci EXCEPT ![L] = ci[L]] = ci
    BY ONLY <1>4
  <2>4. CallMade(ci, nC, nny, r, Frame(isLua, TRUE, TopAt(ci[L], tbc[L])), ci', nC', nny', exc')
    BY ONLY <2>2, <2>3, <1>4
  <2>5. r.inc \in {1, 2} /\ Kinds(cs[Len(cs)], r) /\ NonYieldable(r)
    BY ONLY <1>3, <1>5, <2>2 DEF Call, Kinds, First, Guard, NonYieldable
  <2>6. /\ ci[L][Len(ci[L])].ypcall =>
             ci[L][Len(ci[L])].clsret \/ ci[L][Len(ci[L])].idx <= TopAt(ci[L], tbc[L])
        /\ Held(ci[L][Len(ci[L])]) \/ NonYieldable(r)
    BY ONLY <1>1, <1>3, <2>5
  <2>7. Whole(Append(cs, r), ci', tbc, status, body, nC', nny', errfunc, exc')
    BY ONLY <1>3, <1>5, <2>2, <2>4, <2>5, <2>6, isLua \in BOOLEAN, RunCall
  <2> QED
    BY ONLY <1>1, <2>2, <2>7 DEF Inv1
<1> QED
  BY ONLY <1>6, <1>7
(* lua_pcallk keeps the invariant, by either of its two ways to protect.   *)
LEMMA PcallFromCKeeps ==
  ASSUME Inv1, NEW k \in BOOLEAN, NEW handler \in BOOLEAN, NEW isLua \in BOOLEAN,
         PcallFromC(k, handler, isLua)
  PROVE  Inv1'
<1>1. /\ exc = "none" /\ cur.kind = "cfun" /\ ~top.ypcall
      /\ (k => "pcallk" \in Uses)
      /\ errfunc' = [errfunc EXCEPT ![L] = IF handler THEN top.func ELSE 0]
      /\ UNCHANGED <<tbc, status, body>>
  BY DEF PcallFromC, InC, Running
<1>2. Call(cur)
  BY <1>1 DEF Call
<1>3. /\ Whole(cs, ci, tbc, status, body, nC, nny, errfunc, "none")
      /\ ci[L] # <<>> /\ ci[L][Len(ci[L])] = top /\ top \in FrameSet /\ FrameOK(top) /\ ~top.lua
      /\ top.recst = "ok" /\ cs[Len(cs)].thread = L /\ top.func \in Nat /\ top.func < TopOf(L)
      /\ Typed(tbc, status, body, errfunc, "none")
  BY <1>1, <1>2, RunFacts
<1>4. /\ ci \in [Thread -> Seq(FrameSet)] /\ L \in Thread /\ cs[Len(cs)] = cur
      /\ ci[L] \in Seq(FrameSet) /\ Len(ci[L]) \in Nat
      /\ (\A g : WithTop(L, g) = Retop(ci[L], Len(ci[L]), g))
      /\ TopOf(L) \in Nat /\ TopOf(L) > 0 /\ TopOf(L) = TopAt(ci[L], tbc[L])
      /\ errfunc \in [Thread -> Nat] /\ errfunc[L] \in Nat /\ nC[L] \in Nat /\ nny[L] \in Nat
  BY InvFacts
<1>5. cs[Len(cs)].kind = "cfun" /\ Call(cs[Len(cs)])
  BY ONLY <1>1, <1>2, <1>4
<1>6. Typed(tbc, status, body, errfunc', "none")
  <2>1. errfunc' \in [Thread -> Nat]
    BY ONLY <1>1, <1>3, <1>4
  <2> QED
    BY ONLY <1>3, <2>1 DEF Typed
<1>7. CASE k /\ yieldable
  <2> DEFINE f == [top EXCEPT !.k = TRUE, !.ypcall = TRUE, !.olderr = errfunc[L], !.idx = TopOf(L)]
             H == [ci EXCEPT ![L] = Retop(ci[L], Len(ci[L]), f)]
  <2>1. CCall(1, isLua, TopOf(L), Retop(ci[L], Len(ci[L]), f), cs) /\ nny[L] = 0
    BY <1>4, <1>7 DEF PcallFromC, yieldable
  <2>2. /\ f \in FrameSet /\ f.func = top.func /\ f.lua = top.lua /\ f.fresh = top.fresh
        /\ f.ypcall = TRUE /\ f.recst = top.recst /\ f.k = TRUE /\ f.idx = TopOf(L)
    BY <1>3, <1>4 DEF FrameSet
  <2>3. FrameOK(f)
    BY <1>1, <1>3, <1>4, <1>7 DEF FrameSet, FrameOK
  <2> HIDE DEF f
  <2>4. Replaced(ci, L, f, H) /\ Retop(ci[L], Len(ci[L]), f) \in Seq(FrameSet)
    BY ONLY <1>3, <1>4, <2>2, ReplacedBy, RetopFacts
  <2>5. MayChange(cs, ci, L, nny, f)
    BY ONLY <1>1, <1>3, <1>5, <2>1, <2>2, <2>3 DEF MayChange
  <2>6. f.k /\ (f.ypcall => f.clsret \/ f.idx <= TopAt(ci[L], tbc[L]))
    BY ONLY <2>2, <1>4
  <2>7. 1 \in 1 .. 2
    OBVIOUS
  <2> DEFINE frames == Retop(ci[L], Len(ci[L]), f)
  <2>c. PICK r \in Acts : CallBy(r, 1, isLua, TopOf(L), frames, cs)
    BY ONLY <1>4, <2>1, <2>4, <2>7, isLua \in BOOLEAN, FunctionCallMade
  <2>8. /\ cs' = Append(cs, r) /\ Call(r) /\ r.inc = 1 /\ r.thread = L
        /\ isLua <=> r.kind = "exec"
        /\ r.kind = "cfun" => ~r.cont
        /\ CallMade(H, nC, nny, r, Frame(isLua, TRUE, TopOf(L)), ci', nC', nny', exc')
    BY ONLY <2>c DEF CallBy
  <2> HIDE DEF H
  <2>9. CallMade(H, nC, nny, r, Frame(isLua, TRUE, TopAt(ci[L], tbc[L])), ci', nC', nny', exc')
    BY ONLY <2>8, <1>4
  <2>10. Whole(Append(cs, r), ci', tbc, status, body, nC', nny', errfunc', exc')
    BY ONLY <1>3, <1>4, <1>5, <1>6, <2>4, <2>5, <2>6, <2>8, <2>9, isLua \in BOOLEAN, ContinuedCall
  <2> QED
    BY ONLY <1>1, <2>8, <2>10 DEF Inv1
<1>8. CASE ~(k /\ yieldable)
  <2> DEFINE p == Try(L, "pcall", Len(ci[L]), <<nC[L], nny[L]>>, TopOf(L), errfunc[L])
  <2>1. CCall(2, isLua, TopOf(L), ci[L], Append(cs, p)) /\ 2 \in 1 .. 2
    BY <1>8 DEF PcallFromC
  <2>2. /\ p \in Acts /\ p.kind = "try" /\ p.thread = L /\ p.of = "pcall" /\ p.depth = Len(ci[L])
        /\ p.nC = nC[L] /\ p.nny = nny[L] /\ p.level = TopOf(L)
    BY <1>4 DEF Try, Acts
  <2> HIDE DEF p
  <2>3. Protects(p, "pcall", L, ci[L], nC, nny)
    BY ONLY <1>1, <1>3, <1>4, <2>2 DEF Protects
  <2>c. PICK r \in Acts : CallBy(r, 2, isLua, TopOf(L), ci[L], Append(cs, p))
    BY ONLY <1>4, <2>1, isLua \in BOOLEAN, FunctionCallMade
  <2>4. /\ cs' = Append(Append(cs, p), r) /\ Call(r) /\ r.inc = 2 /\ r.thread = L
        /\ isLua <=> r.kind = "exec"
        /\ r.kind = "cfun" => ~r.cont
        /\ CallMade([ci EXCEPT ![L] = ci[L]], nC, nny, r, Frame(isLua, TRUE, TopOf(L)),
                    ci', nC', nny', exc')
    BY ONLY <2>c DEF CallBy
  <2>5. [ci EXCEPT ![L] = ci[L]] = ci
    BY ONLY <1>4
  <2>6. CallMade(ci, nC, nny, r, Frame(isLua, TRUE, TopAt(ci[L], tbc[L])), ci', nC', nny', exc')
    BY ONLY <2>4, <2>5, <1>4
  <2>7. /\ cs[Len(cs)].kind \in {"main", "cfun"}
        /\ cs[Len(cs)].kind = "cfun" => ~ci[L][Len(ci[L])].ypcall
        /\ p.level = TopAt(ci[L], tbc[L])
        /\ ci[L] = <<>> => isLua
    BY ONLY <1>1, <1>3, <1>4, <1>5, <2>2
  <2>8. Whole(Append(Append(cs, p), r), ci', tbc, status, body, nC', nny', errfunc', exc')
    BY ONLY <1>3, <1>6, <2>3, <2>4, <2>6, <2>7, isLua \in BOOLEAN, GuardCall
  <2> QED
    BY ONLY <1>1, <2>4, <2>8 DEF Inv1
<1> QED
  BY ONLY <1>7, <1>8
(* The return of a lua_pcallk that may yield keeps the invariant.          *)
LEMMA PcallkReturnsKeeps ==
  ASSUME Inv1, PcallkReturns
  PROVE  Inv1'
<1> DEFINE f == [top EXCEPT !.ypcall = FALSE]
<1>1. /\ exc = "none" /\ cur.kind = "cfun" /\ top.ypcall
      /\ ci' = [ci EXCEPT ![L] = WithTop(L, f)]
      /\ errfunc' = [errfunc EXCEPT ![L] = top.olderr]
      /\ UNCHANGED <<tbc, status, body, nC, nny, cs, exc>>
  BY DEF PcallkReturns, Running, counts
<1>2. Call(cur)
  BY <1>1 DEF Call
<1>3. /\ Whole(cs, ci, tbc, status, body, nC, nny, errfunc, "none")
      /\ ci[L] # <<>> /\ ci[L][Len(ci[L])] = top /\ top \in FrameSet /\ FrameOK(top)
      /\ top.recst = "ok" /\ cs[Len(cs)].thread = L
      /\ Typed(tbc, status, body, errfunc, "none")
  BY <1>1, <1>2, RunFacts
<1>4. /\ ci \in [Thread -> Seq(FrameSet)] /\ L \in Thread /\ cs[Len(cs)] = cur
      /\ (\A g : WithTop(L, g) = Retop(ci[L], Len(ci[L]), g))
      /\ errfunc \in [Thread -> Nat]
  BY InvFacts
<1>5. /\ f \in FrameSet /\ f.func = top.func /\ f.lua = top.lua /\ f.fresh = top.fresh
      /\ f.ypcall = FALSE /\ f.recst = top.recst
  BY <1>3 DEF FrameSet
<1>6. FrameOK(f)
  BY <1>1, <1>3 DEF FrameSet, FrameOK
<1>7. ci' = [ci EXCEPT ![L] = Retop(ci[L], Len(ci[L]), f)]
  BY <1>1, <1>4
<1> HIDE DEF f
<1>8. Replaced(ci, L, f, ci')
  BY ONLY <1>3, <1>4, <1>5, <1>7, ReplacedBy
<1>9. MayChange(cs, ci, L, nny, f) /\ (cs[Len(cs)].kind = "unroll" => Held(f))
  BY ONLY <1>1, <1>3, <1>4, <1>5, <1>6 DEF MayChange
<1>10. Typed(tbc, status, body, errfunc', "none")
  <2>1. top.olderr \in Nat
    BY ONLY <1>3, FrameFacts
  <2>2. errfunc' \in [Thread -> Nat]
    BY ONLY <1>1, <1>4, <2>1
  <2> QED
    BY ONLY <1>3, <2>2 DEF Typed
<1>11. Whole(cs, ci', tbc, status, body, nC, nny, errfunc', "none")
  BY ONLY <1>3, <1>8, <1>9, <1>10, ChangeStep
<1> QED
  BY ONLY <1>1, <1>11 DEF Inv1

(* A protected call is over.                                               *)
LEMMA PopGuardStep ==
  ASSUME NEW c, NEW F, NEW V, NEW s, NEW bd, NEW a, NEW b, NEW ef,
         Whole(c, F, V, s, bd, a, b, ef, "none"),
         c[Len(c)].kind = "try", c[Len(c)].of = "pcall",
         NEW ef2, Typed(V, s, bd, ef2, "none")
  PROVE  Whole(Popped(c), F, V, s, bd, a, b, ef2, "none")
<1>1. Ready(c, F, s, a, b, "none")
  BY ONLY Whole(c, F, V, s, bd, a, b, ef, "none"), WholeFacts
<1>2. ~First(c[Len(c)]) /\ Plain(c) /\ Guard(c[Len(c)])
  BY DEF First, Plain, Guard
<1>3. Ready(SubSeq(c, 1, Len(c) - 1), F, s, a, b, "none")
  BY ONLY <1>1, <1>2, PopPlain
<1>4. Ready(Popped(c), F, s, a, b, "none")
  BY ONLY <1>3 DEF Popped
<1>5. Kinds(c[Len(c) - 1], c[Len(c)])
  BY ONLY <1>1, <1>2, BelowTop
<1>6. /\ c[Len(c) - 1].kind \notin {"caught", "reset"}
      /\ c[Len(c) - 1].kind = "try" => c[Len(c) - 1].of = "pcall"
      /\ LET FR == F[c[Len(c)].thread]
         IN  c[Len(c) - 1].kind = "unroll" /\ FR # <<>> => Held(FR[Len(FR)])
  BY ONLY <1>2, <1>5, c[Len(c)].of = "pcall" DEF Kinds
<1>7. \A u \in Thread : u # c[Len(c)].thread => F[u] = F[u]
  OBVIOUS
<1> QED
  BY ONLY <1>2, <1>4, <1>6, <1>7, Whole(c, F, V, s, bd, a, b, ef, "none"),
          Typed(V, s, bd, ef2, "none"), PopStep

(* The return of luaD_pcall without an error keeps the invariant.          *)
LEMMA PcallReturnsKeeps ==
  ASSUME Inv1, PcallReturns
  PROVE  Inv1'
<1>1. /\ exc = "none" /\ cur.kind = "try" /\ cur.of = "pcall"
      /\ errfunc' = [errfunc EXCEPT ![L] = cur.errfunc] /\ cs' = Popped(cs)
      /\ UNCHANGED <<ci, tbc, status, body, nC, nny, exc>>
  BY DEF PcallReturns, Running, counts, Front, Popped
<1>2. /\ Whole(cs, ci, tbc, status, body, nC, nny, errfunc, "none")
      /\ Typed(tbc, status, body, errfunc, "none")
      /\ cs[Len(cs)] = cur /\ cur \in Acts /\ errfunc \in [Thread -> Nat]
  BY <1>1, InvFacts DEF Inv1
<1>3. Typed(tbc, status, body, errfunc', "none")
  <2>1. cur.errfunc \in Nat
    BY ONLY <1>1, <1>2, ActFacts
  <2>2. errfunc' \in [Thread -> Nat]
    BY ONLY <1>1, <1>2, <2>1
  <2> QED
    BY ONLY <1>2, <2>2 DEF Typed
<1>4. cs[Len(cs)].kind = "try" /\ cs[Len(cs)].of = "pcall"
  BY ONLY <1>1, <1>2
<1>5. Whole(Popped(cs), ci, tbc, status, body, nC, nny, errfunc', "none")
  BY ONLY <1>2, <1>3, <1>4, PopGuardStep
<1> QED
  BY ONLY <1>1, <1>5 DEF Inv1

(* lua_toclose keeps the invariant.                                        *)
LEMMA ToCloseKeeps ==
  ASSUME Inv1, ToClose
  PROVE  Inv1'
<1> DEFINE f == [top EXCEPT !.clsret = TRUE]
<1>1. /\ exc = "none" /\ cur.kind = "cfun" /\ ~top.ypcall /\ "toclose" \in Uses
      /\ NewTbc
      /\ ci' = [ci EXCEPT ![L] = WithTop(L, f)]
      /\ UNCHANGED <<status, body, nC, nny, errfunc, cs, exc>>
  BY DEF ToClose, InC, Running, counts
<1>2. Call(cur)
  BY <1>1 DEF Call
<1>3. /\ Whole(cs, ci, tbc, status, body, nC, nny, errfunc, "none")
      /\ ci[L] # <<>> /\ ci[L][Len(ci[L])] = top /\ top \in FrameSet /\ FrameOK(top)
      /\ top.recst = "ok" /\ ~top.lua /\ cs[Len(cs)].thread = L
      /\ Typed(tbc, status, body, errfunc, "none")
  BY <1>1, <1>2, RunFacts
<1>4. /\ ci \in [Thread -> Seq(FrameSet)] /\ L \in Thread /\ cs[Len(cs)] = cur
      /\ (\A g : WithTop(L, g) = Retop(ci[L], Len(ci[L]), g))
  BY InvFacts
<1>5. /\ f \in FrameSet /\ f.func = top.func /\ f.lua = top.lua /\ f.fresh = top.fresh
      /\ f.ypcall = top.ypcall /\ f.recst = top.recst
  BY <1>3 DEF FrameSet
<1>6. FrameOK(f)
  BY <1>1, <1>3 DEF FrameSet, FrameOK
<1>7. ci' = [ci EXCEPT ![L] = Retop(ci[L], Len(ci[L]), f)]
  BY <1>1, <1>4
<1> HIDE DEF f
<1>8. Replaced(ci, L, f, ci')
  BY ONLY <1>3, <1>4, <1>5, <1>7, ReplacedBy
<1>9. MayChange(cs, ci, L, nny, f) /\ (cs[Len(cs)].kind = "unroll" => Held(f))
  BY ONLY <1>1, <1>3, <1>4, <1>5, <1>6 DEF MayChange
<1>10. Typed(tbc', status, body, errfunc, "none")
  <2>1. tbc' \in [Thread -> Seq(VarSet)]
    BY <1>1, <1>3, NewTbcTyped
  <2> QED
    BY ONLY <1>3, <2>1 DEF Typed
<1>11. Whole(cs, ci', tbc', status, body, nC, nny, errfunc, "none")
  BY ONLY <1>3, <1>8, <1>9, <1>10, ChangeStep
<1> QED
  BY ONLY <1>1, <1>11 DEF Inv1

(* A C function that closes its variables as it returns.                   *)
LEMMA CloseAndReturnKeeps ==
  ASSUME Inv1, exc = "none", cur.kind \in {"cfun", "unroll"}, ci[L] # <<>>,
         ~top.lua, top.clsret, cur.kind = "cfun" => top.recst = "ok", CloseAndReturn(cs)
  PROVE  Whole(cs', ci', tbc, status, body, nC, nny, errfunc, "none")
<1> DEFINE f == [top EXCEPT !.doing = "return"]
           r == Closing(L, top.func, TRUE, "poscall")
<1>1. /\ Whole(cs, ci, tbc, status, body, nC, nny, errfunc, "none")
      /\ ci[L][Len(ci[L])] = top /\ top \in FrameSet /\ FrameOK(top)
      /\ ci \in [Thread -> Seq(FrameSet)] /\ L \in Thread
      /\ cs[Len(cs)] = cur /\ cs[Len(cs)].thread = L
      /\ (\A g : WithTop(L, g) = Retop(ci[L], Len(ci[L]), g))
  BY InvFacts DEF Inv1
<1>2. top.func \in Nat
  BY <1>1, FrameFacts
<1>3. /\ ci' = [ci EXCEPT ![L] = Retop(ci[L], Len(ci[L]), f)] /\ cs' = Append(cs, r)
  BY <1>1 DEF CloseAndReturn
<1>4. /\ r \in Acts /\ r.kind = "close" /\ r.thread = L /\ r.level = top.func
      /\ r.yy = TRUE /\ r.for = "poscall"
  BY <1>1, <1>2 DEF Closing, Acts
<1>5. /\ f \in FrameSet /\ f.func = top.func /\ f.lua = top.lua /\ f.fresh = top.fresh
      /\ f.doing = "return" /\ f.ypcall = top.ypcall /\ f.clsret = top.clsret
      /\ f.recst = top.recst
  BY <1>1 DEF FrameSet
<1>6. FrameOK(f)
  BY <1>1 DEF FrameSet, FrameOK
<1>7. /\ cs[Len(cs)].kind \in {"cfun", "unroll"} /\ (cs[Len(cs)].kind = "cfun" => top.recst = "ok")
      /\ ci[L] # <<>> /\ ~top.lua /\ top.clsret
  BY <1>1
<1> HIDE DEF f, r
<1>8. Replaced(ci, L, f, ci')
  BY ONLY <1>1, <1>3, <1>5, <1>7, ReplacedBy
<1>9. MayChange(cs, ci, L, nny, f)
  BY ONLY <1>1, <1>5, <1>6, <1>7 DEF MayChange
<1>10. ci'[L] # <<>> /\ ci'[L][Len(ci'[L])] = f
  BY ONLY <1>1, <1>5, <1>7, <1>8, ReplacedTop, SMTT(30)
<1>11. Closes(cs[Len(cs)], ci'[L], r)
  BY ONLY <1>1, <1>4, <1>5, <1>7, <1>10 DEF Closes
<1>12. cs[Len(cs)].kind = "unroll" => Held(f)
  BY ONLY <1>5, <1>7 DEF Held
<1>13. Whole(Append(cs, r), ci', tbc, status, body, nC, nny, errfunc, "none")
  BY ONLY <1>1, <1>8, <1>9, <1>11, <1>12, ChangeClose
<1> QED
  BY ONLY <1>3, <1>13

(* The return of a C function keeps the invariant.                         *)
LEMMA ReturnCKeeps ==
  ASSUME Inv1, ReturnC
  PROVE  Inv1'
<1>1. /\ exc = "none" /\ cur.kind = "cfun"
      /\ UNCHANGED <<tbc, status, body, errfunc, exc>>
  BY DEF ReturnC, InC, Running
<1>2. Call(cur)
  BY <1>1 DEF Call
<1>3. /\ Whole(cs, ci, tbc, status, body, nC, nny, errfunc, "none")
      /\ ci[L] # <<>> /\ ~top.lua /\ top.recst = "ok"
  BY <1>1, <1>2, RunFacts
<1>4. /\ ci \in [Thread -> Seq(FrameSet)] /\ L \in Thread /\ cs[Len(cs)] = cur /\ cur.thread = L
      /\ ci[L] \in Seq(FrameSet) /\ Len(ci[L]) \in Nat
      /\ Front(ci[L]) = SubSeq(ci[L], 1, Len(ci[L]) - 1)
  BY InvFacts
<1>5. CASE top.clsret
  <2>1. CloseAndReturn(cs) /\ nC' = nC /\ nny' = nny
    BY <1>5 DEF ReturnC, counts
  <2>2. Whole(cs', ci', tbc, status, body, nC, nny, errfunc, "none")
    BY <1>1, <1>3, <1>5, <2>1, CloseAndReturnKeeps
  <2> QED
    BY ONLY <1>1, <2>1, <2>2 DEF Inv1
<1>6. CASE ~top.clsret
  <2>1. PopC
    BY <1>6 DEF ReturnC
  <2>2. /\ ci' = [ci EXCEPT ![L] = SubSeq(@, 1, Len(ci[L]) - 1)]
        /\ Uncount(cur.inc) /\ cs' = Popped(cs)
    BY <2>1, <1>1, <1>4 DEF PopC, Popped, Front
  <2> DEFINE m == Len(ci[L]) - 1
  <2>3. m \in 0 .. Len(ci[L]) /\ m = Len(ci[L]) - 1
    <3>1. Len(ci[L]) > 0
      BY ONLY <1>3, <1>4
    <3> QED
      BY ONLY <3>1, <1>4
  <2> HIDE DEF m
  <2>4. ci' = [ci EXCEPT ![L] = SubSeq(@, 1, m)]
    BY ONLY <2>2, <2>3
  <2>5. Shrunk(ci, L, m, ci')
    BY ONLY <1>4, <2>3, <2>4, ShrunkBy
  <2>6. Shrunk(ci, L, Len(ci[L]) - 1, ci')
    BY ONLY <2>3, <2>5
  <2>7. Uncounts(nC, nny, L, cs[Len(cs)].inc, nC', nny')
    BY ONLY <2>2, <1>4 DEF Uncounts, Uncount
  <2>8. /\ cs[Len(cs)].thread = L
        /\ \/ cs[Len(cs)].kind = "exec" /\ ci[L][Len(ci[L])].fresh
           \/ cs[Len(cs)].kind = "cfun"
    BY ONLY <1>1, <1>4
  <2>9. Whole(Popped(cs), ci', tbc, status, body, nC', nny', errfunc, "none")
    BY ONLY <1>3, <2>6, <2>7, <2>8, PopCallStep
  <2> QED
    BY ONLY <1>1, <2>2, <2>9 DEF Inv1
<1> QED
  BY ONLY <1>5, <1>6
(* A running function raises an error.                                     *)
LEMMA ErrorStep ==
  ASSUME NEW c, NEW F, NEW V, NEW s, NEW bd, NEW a, NEW b, NEW ef,
         Whole(c, F, V, s, bd, a, b, ef, "none"), Call(c[Len(c)]),
         NEW t, c[Len(c)].thread = t, ~F[t][Len(F[t])].ypcall
  PROVE  Whole(c, F, V, s, bd, a, b, ef, "error")
<1> DEFINE x == TopAt(F[t], V[t])
           y == FaultAt(c, F[t], V[t])
           z == IF a[t] = LUAI_MAXCCALLS THEN y ELSE x
           e == "error"
<1>1. /\ Ready(c, F, s, a, b, "none") /\ Typed(V, s, bd, ef, "none") /\ Tips(c, F)
      /\ c \in Seq(Acts) /\ Len(c) \in Nat /\ Len(c) > 0 /\ c[Len(c)] \in Acts
      /\ F[t] \in Seq(FrameSet) /\ V[t] \in Seq(VarSet)
  BY ONLY Whole(c, F, V, s, bd, a, b, ef, "none"), c[Len(c)].thread = t, WholeFacts
<1>2. F[t] # <<>> /\ F[t][Len(F[t])] \in FrameSet
  BY <1>1, RunningCall
<1>3. x \in Nat /\ F[t][Len(F[t])].func < x
  BY ONLY <1>1, <1>2, TopAtFacts
<1>4. ~First(c[Len(c)])
  BY DEF First, Call
<1>5. c[Len(c) - 1] \in Acts
  BY ONLY <1>1, <1>4, BelowTop
<1>6. y \in Nat /\ x <= y
  BY ONLY <1>1, <1>5, FaultAtFacts
<1>7. F[t][Len(F[t])].func \in Nat
  BY ONLY <1>2, FrameFacts
<1>8. z = IF a[t] = LUAI_MAXCCALLS THEN FaultAt(c, F[t], V[t]) ELSE TopAt(F[t], V[t])
  OBVIOUS
<1>9. z \in Nat /\ F[t][Len(F[t])].func <= z
  <2> HIDE DEF x, y
  <2> QED
    BY ONLY <1>3, <1>6, <1>7 DEF z
<1> HIDE DEF x, y, z
<1>10. Reaches(c, t, F[t], z)
  <2>1. F[t][Len(F[t])].ypcall => F[t][Len(F[t])].clsret \/ F[t][Len(F[t])].idx <= z
    OBVIOUS
  <2> QED
    BY ONLY <1>1, <1>9, <2>1, Call(c[Len(c)]), c[Len(c)].thread = t, CallReaches
<1>11. Faults(c, F, V, a, e)
  BY <1>8, <1>10 DEF Faults
<1>12. Raising(c, F, b, e)
  BY DEF Raising, Call
<1>13. e # "none" /\ ("none" = "err" => e = "err") /\ "none" # "yield"
  OBVIOUS
<1>14. Ready(c, F, s, a, b, e)
  BY ONLY <1>1, <1>13, Raised
<1>15. Typed(V, s, bd, ef, e)
  BY ONLY <1>1 DEF Typed, e
<1>16. Goes(c, F, c, F)
  <2>1. \A u \in Thread : u # c[Len(c)].thread => F[u] = F[u]
    OBVIOUS
  <2> QED
    BY ONLY <2>1, GoesSame
<1>17. Whole(c, F, V, s, bd, a, b, ef, e)
  BY ONLY <1>1, <1>11, <1>12, <1>13, <1>14, <1>15, <1>16,
          Whole(c, F, V, s, bd, a, b, ef, "none"), StepSame
<1> QED
  BY ONLY <1>17 DEF e

(* An error of a running function keeps the invariant.                     *)
LEMMA ErrorKeeps ==
  ASSUME Inv1, exc = "none", InLua \/ InC, exc' = "error",
         UNCHANGED <<ci, tbc, status, body, nC, nny, errfunc, cs>>
  PROVE  Inv1'
<1>1. Call(cur) /\ (cur.kind = "cfun" => ~top.ypcall)
  BY DEF InLua, InC, Call
<1>2. /\ Whole(cs, ci, tbc, status, body, nC, nny, errfunc, "none")
      /\ ci[L][Len(ci[L])] = top /\ FrameOK(top)
      /\ cs[Len(cs)].thread = L /\ Call(cs[Len(cs)])
      /\ (cur.kind = "exec" => top.lua)
  BY <1>1, RunFacts
<1>3. ~ci[L][Len(ci[L])].ypcall
  BY ONLY <1>1, <1>2 DEF FrameOK, Call
<1>4. Whole(cs, ci, tbc, status, body, nC, nny, errfunc, "error")
  BY ONLY <1>2, <1>3, ErrorStep
<1> QED
  BY <1>4 DEF Inv1

(* What is thrown by a C function.                                         *)
LEMMA ThrowStep ==
  ASSUME NEW c, NEW F, NEW V, NEW s, NEW bd, NEW a, NEW b, NEW ef,
         Whole(c, F, V, s, bd, a, b, ef, "none"),
         c[Len(c)].kind = "cfun", c[Len(c)].cont
  PROVE  Whole(c, F, V, s, bd, a, b, ef, "exception")
<1> DEFINE e == "exception"
<1>1. /\ Ready(c, F, s, a, b, "none") /\ Typed(V, s, bd, ef, "none") /\ Tips(c, F)
  BY ONLY Whole(c, F, V, s, bd, a, b, ef, "none"), WholeFacts
<1>2. e # "none" /\ ("none" = "err" => e = "err") /\ "none" # "yield"
  OBVIOUS
<1>3. Ready(c, F, s, a, b, e)
  BY ONLY <1>1, <1>2, Raised
<1>4. Typed(V, s, bd, ef, e)
  BY ONLY <1>1 DEF Typed, e
<1>5. Goes(c, F, c, F)
  <2>1. \A u \in Thread : u # c[Len(c)].thread => F[u] = F[u]
    OBVIOUS
  <2> QED
    BY ONLY <2>1, GoesSame
<1>6. Raising(c, F, b, e) /\ Faults(c, F, V, a, e)
  BY DEF Raising, Faults
<1>7. Whole(c, F, V, s, bd, a, b, ef, e)
  BY ONLY <1>1, <1>2, <1>3, <1>4, <1>5, <1>6,
          Whole(c, F, V, s, bd, a, b, ef, "none"), StepSame
<1> QED
  BY ONLY <1>7 DEF e

(* A C function yields: its frame becomes f.                               *)
LEMMA YieldStep ==
  ASSUME NEW c, NEW F, NEW V, NEW s, NEW bd, NEW a, NEW b, NEW ef,
         Whole(c, F, V, s, bd, a, b, ef, "none"),
         NEW t, NEW f, MayChange(c, F, t, b, f), c[Len(c)].kind = "cfun", ~f.ypcall, ~f.lua,
         b[t] = 0, NEW G, Replaced(F, t, f, G)
  PROVE  Whole(c, G, V, [s EXCEPT ![t] = "yield"], bd, a, b, ef, "yield")
<1> DEFINE s2 == [s EXCEPT ![t] = "yield"]
           e == "yield"
<1>1. /\ Ready(c, F, s, a, b, "none") /\ Typed(V, s, bd, ef, "none")
      /\ Settled(c, F, s, bd, "none")
      /\ Len(c) \in Nat /\ Len(c) > 0 /\ c[Len(c)].thread \in Thread
      /\ F \in [Thread -> Seq(FrameSet)]
      /\ s[c[Len(c)].thread] # "err"
  BY ONLY Whole(c, F, V, s, bd, a, b, ef, "none"), WholeFacts
<1>2. c[Len(c)].thread = t /\ F[t] # <<>> /\ f \in FrameSet
  BY DEF MayChange
<1>3. t \in Thread
  BY ONLY <1>1, <1>2
<1>4. G[t] # <<>> /\ G[t][Len(G[t])] = f
  BY ONLY <1>1, <1>2, <1>3, Replaced(F, t, f, G), ReplacedTop
<1>5. /\ s \in [Thread -> {"ok", "yield", "err"}]
  BY ONLY <1>1 DEF Typed
<1>6. s2 \in [Thread -> {"ok", "yield", "err"}] /\ s2[t] = "yield"
      /\ \A u \in Thread : u # t => s2[u] = s[u]
  BY ONLY <1>3, <1>5
<1>7. e # "none" /\ ("none" = "err" => e = "err") /\ e = "yield"
  OBVIOUS
<1> HIDE DEF s2, e
<1>8. Ready(c, G, s, a, b, "none")
  BY ONLY <1>1, MayChange(c, F, t, b, f), Replaced(F, t, f, G), ChangeFrame
<1>9. Ready(c, G, s, a, b, e)
  BY ONLY <1>7, <1>8, Raised
<1>10. Ready(c, G, s2, a, b, e)
  <2>1. \A u \in Thread : s2[u] # "err" => s[u] # "err"
    BY ONLY <1>1, <1>2, <1>6
  <2> QED
    BY ONLY <1>9, <2>1, NewStatus
<1>11. Typed(V, s2, bd, ef, e)
  BY ONLY <1>1, <1>6, <1>7 DEF Typed
<1>12. On(c, t)
  <2>1. Len(c) \in 1 .. Len(c)
    BY ONLY <1>1
  <2> QED
    BY ONLY <1>2, <2>1 DEF On
<1>13. \A u \in Thread : u # t => G[u] = F[u]
  BY DEF Replaced
<1>14. Settled(c, G, s2, bd, e)
  BY ONLY <1>1, <1>2, <1>6, <1>7, <1>12, <1>13 DEF Settled
<1>15. Tips(c, G)
  BY DEF Tips
<1>16. Raising(c, G, b, e)
  BY <1>2, <1>4, <1>7 DEF Raising
<1>17. Faults(c, G, V, a, e)
  BY <1>7 DEF Faults
<1>18. Whole(c, G, V, s2, bd, a, b, ef, e)
  BY ONLY <1>10, <1>11, <1>14, <1>15, <1>16, <1>17 DEF Whole
<1> QED
  BY ONLY <1>18 DEF s2, e

(* A C++ exception keeps the invariant.                                    *)
LEMMA ExceptionKeeps ==
  ASSUME Inv1, Exception
  PROVE  Inv1'
<1>1. /\ InC /\ exc = "none" /\ cur.kind = "cfun"
      /\ exc' = (IF cur.cont THEN "exception" ELSE "error")
      /\ UNCHANGED <<ci, tbc, status, body, nC, nny, errfunc, cs>>
  BY DEF Exception, InC, Running, counts, thread
<1>2. CASE cur.cont
  <2>1. Whole(cs, ci, tbc, status, body, nC, nny, errfunc, "none")
    BY <1>1 DEF Inv1
  <2>2. cs[Len(cs)].kind = "cfun" /\ cs[Len(cs)].cont
    BY <1>1, <1>2, InvFacts
  <2>3. Whole(cs, ci, tbc, status, body, nC, nny, errfunc, "exception")
    BY ONLY <2>1, <2>2, ThrowStep
  <2> QED
    BY ONLY <1>1, <1>2, <2>3 DEF Inv1
<1>3. CASE ~cur.cont
  BY <1>1, <1>3, ErrorKeeps
<1> QED
  BY ONLY <1>2, <1>3

(* lua_yieldk keeps the invariant.                                         *)
LEMMA YieldKeeps ==
  ASSUME Inv1, NEW k \in BOOLEAN, Yield(k)
  PROVE  Inv1'
<1>1. /\ InC /\ exc = "none" /\ cur.kind = "cfun" /\ ~top.ypcall
      /\ UNCHANGED <<tbc, body, nC, nny, errfunc, cs>>
  BY DEF Yield, InC, Running, counts
<1>2. CASE ~yieldable
  <2>1. exc' = "error" /\ UNCHANGED <<status, ci>>
    BY <1>2 DEF Yield
  <2> QED
    BY <1>1, <2>1, ErrorKeeps
<1>3. CASE yieldable
  <2> DEFINE f == [top EXCEPT !.k = k]
  <2>1. /\ status' = [status EXCEPT ![L] = "yield"] /\ exc' = "yield"
        /\ ci' = [ci EXCEPT ![L] = WithTop(L, f)] /\ nny[L] = 0
    BY <1>3 DEF Yield, yieldable
  <2>2. Call(cur)
    BY <1>1 DEF Call
  <2>3. /\ Whole(cs, ci, tbc, status, body, nC, nny, errfunc, "none")
        /\ ci[L] # <<>> /\ ci[L][Len(ci[L])] = top /\ top \in FrameSet /\ FrameOK(top)
        /\ top.recst = "ok" /\ ~top.lua /\ cs[Len(cs)].thread = L
    BY <1>1, <2>2, RunFacts
  <2>4. /\ ci \in [Thread -> Seq(FrameSet)] /\ L \in Thread /\ cs[Len(cs)] = cur
        /\ (\A g : WithTop(L, g) = Retop(ci[L], Len(ci[L]), g))
    BY InvFacts
  <2>5. /\ f \in FrameSet /\ f.func = top.func /\ f.lua = top.lua /\ f.fresh = top.fresh
        /\ f.ypcall = top.ypcall /\ f.recst = top.recst
    BY <2>3 DEF FrameSet
  <2>6. FrameOK(f)
    BY <1>1, <2>3 DEF FrameSet, FrameOK
  <2>7. ci' = [ci EXCEPT ![L] = Retop(ci[L], Len(ci[L]), f)]
    BY <2>1, <2>4
  <2> HIDE DEF f
  <2>8. Replaced(ci, L, f, ci')
    BY ONLY <2>3, <2>4, <2>5, <2>7, ReplacedBy
  <2>9. MayChange(cs, ci, L, nny, f) /\ cs[Len(cs)].kind = "cfun" /\ ~f.ypcall /\ ~f.lua
    BY ONLY <1>1, <2>3, <2>4, <2>5, <2>6 DEF MayChange
  <2>10. Whole(cs, ci', tbc, [status EXCEPT ![L] = "yield"], body, nC, nny, errfunc, "yield")
    BY ONLY <2>1, <2>3, <2>8, <2>9, YieldStep
  <2> QED
    BY ONLY <1>1, <2>1, <2>10 DEF Inv1
<1> QED
  BY ONLY <1>2, <1>3
(* luaF_close calls a __close method, which comes from at least its level. *)
LEMMA CloseCall ==
  ASSUME NEW c, NEW F, NEW V, NEW s, NEW bd, NEW a, NEW b, NEW ef,
         Whole(c, F, V, s, bd, a, b, ef, "none"), c[Len(c)].kind = "close",
         NEW t, c[Len(c)].thread = t,
         NEW level \in Nat, c[Len(c)].level <= level,
         NEW r \in Acts, r.kind = "exec", r.thread = t,
         r.inc = IF c[Len(c)].yy THEN 1 ELSE 2,
         NEW G, NEW a2, NEW b2, NEW e2,
         CallMade(F, a, b, r, Frame(TRUE, TRUE, level + 1), G, a2, b2, e2),
         NEW V2, Typed(V2, s, bd, ef, "none")
  PROVE  Whole(Append(c, r), G, V2, s, bd, a2, b2, ef, e2)
<1> DEFINE f == Frame(TRUE, TRUE, level + 1)
           x == c[Len(c)].level
           q == F[t][Len(F[t])]
           y == FaultAt(Append(c, r), F[t], V2[t])
<1>1. /\ Ready(c, F, s, a, b, "none")
      /\ c \in Seq(Acts) /\ Len(c) \in Nat /\ Len(c) > 0 /\ c[Len(c)] \in Acts
      /\ t \in Thread /\ F[t] \in Seq(FrameSet)
  BY ONLY Whole(c, F, V, s, bd, a, b, ef, "none"), c[Len(c)].thread = t, WholeFacts
<1>2. Limits(c, F[t], t, c[Len(c)].level)
      /\ (c[Len(c)].yy => F[t] # <<>> /\ Held(F[t][Len(F[t])]))
  BY ONLY <1>1, c[Len(c)].thread = t, c[Len(c)].kind = "close", UnderClose
<1>3. c[Len(c)].level \in Nat /\ c[Len(c)].yy \in BOOLEAN
  BY ONLY <1>1, c[Len(c)].kind = "close", ActFacts
<1>4. x \in Nat /\ x <= level /\ x < level + 1 /\ level + 1 \in Nat /\ x = c[Len(c)].level
  BY <1>3
<1>5. /\ f \in FrameSet /\ FrameOK(f) /\ ~f.ypcall /\ f.recst = "ok" /\ f.func = level + 1
      /\ f.lua = TRUE /\ f.fresh = TRUE
  BY DEF Frame, FrameSet, FrameOK
<1>6. F[t] # <<>> => q \in FrameSet /\ q.func \in Nat /\ q.idx \in Nat
  <2>1. F[t] # <<>> => q \in FrameSet
    BY ONLY <1>1
  <2> QED
    BY ONLY <2>1, FrameFacts
<1>7. /\ CallMade(F, a, b, r, f, G, a2, b2, e2) /\ q = F[t][Len(F[t])]
      /\ y = FaultAt(Append(c, r), F[t], V2[t])
  OBVIOUS
<1>8. V2[t] \in Seq(VarSet)
  BY ONLY <1>1, Typed(V2, s, bd, ef, "none") DEF Typed
<1>9. y \in Nat /\ x < y
  <2>1. Append(c, r)[Len(Append(c, r)) - 1] = c[Len(c)]
    BY ONLY <1>1, r \in Acts
  <2>2. Append(c, r)[Len(Append(c, r)) - 1] \in Acts
        /\ Append(c, r)[Len(Append(c, r)) - 1].kind = "close"
    BY ONLY <1>1, <2>1, c[Len(c)].kind = "close"
  <2>3. y \in Nat /\ Append(c, r)[Len(Append(c, r)) - 1].level < y
    BY ONLY <1>1, <1>8, <2>2, FaultAtFacts
  <2> QED
    BY ONLY <2>1, <2>3
<1> HIDE DEF f, x, q, y
<1>10. ASSUME NEW i \in 2 .. Len(c), c[i].thread = t, Guard(c[i])
       PROVE  c[i].level \in Nat /\ c[i].level <= x
  <2>1. c[i] \in Acts
    <3>1. i \in 1 .. Len(c)
      BY ONLY <1>1
    <3> QED
      BY ONLY <1>1, <3>1
  <2>2. c[i].level \in Nat
    BY ONLY <2>1, <1>10, ActFacts DEF Guard
  <2>3. c[i].level <= x \/ (F[t] # <<>> /\ c[i].level <= q.func)
    BY ONLY <1>2, <1>4, <1>7, <1>10 DEF Limits
  <2>4. F[t] # <<>> => q.func <= x
    BY ONLY <1>2, <1>4, <1>7 DEF Limits
  <2> QED
    BY ONLY <1>4, <1>6, <2>2, <2>3, <2>4
<1>11. F[t] # <<>> => q.func <= x /\ (q.ypcall => q.clsret \/ q.idx <= x)
  BY ONLY <1>2, <1>4, <1>7 DEF Limits
<1>12. MayCall(c, F[t], r, f)
  <2>1. Above(c, Len(c), r.thread, f)
    <3>1. ASSUME NEW i \in 2 .. Len(c), c[i].thread = t, Guard(c[i])
          PROVE  c[i].level <= f.func
      BY ONLY <3>1, <1>4, <1>5, <1>10
    <3> QED
      BY ONLY <3>1, <1>5, r.thread = t DEF Above
  <2>2. F[t] # <<>> => Follows(F[t][Len(F[t])], f)
    <3>1. F[t] # <<>> => q.func < f.func /\ (q.ypcall => q.clsret \/ q.idx <= f.func)
      BY ONLY <1>4, <1>5, <1>6, <1>11
    <3> QED
      BY ONLY <3>1, <1>5, <1>7 DEF Follows
  <2>3. F[t] # <<>> => Held(F[t][Len(F[t])]) \/ NonYieldable(r)
    BY ONLY <1>2, <1>3, r.kind = "exec", r.inc = IF c[Len(c)].yy THEN 1 ELSE 2
       DEF NonYieldable, Call
  <2> QED
    BY ONLY <1>5, <2>1, <2>2, <2>3, r.kind = "exec" DEF MayCall
<1>13. Reaches(c, t, F[t], y)
  <2>1. ASSUME NEW i \in 2 .. Len(c), c[i].thread = t, Guard(c[i])
        PROVE  c[i].level <= y
    BY ONLY <2>1, <1>4, <1>9, <1>10
  <2>2. F[t] # <<>> /\ q.ypcall => q.clsret \/ q.idx <= y
    BY ONLY <1>4, <1>6, <1>9, <1>11
  <2> QED
    BY ONLY <1>7, <2>1, <2>2 DEF Reaches
<1>14. e2 = "error" => Reaches(c, t, F[t], FaultAt(Append(c, r), F[t], V2[t]))
  BY ONLY <1>7, <1>13
<1>15. Call(r) /\ r.inc \in {1, 2} /\ Kinds(c[Len(c)], r)
  BY ONLY <1>3, r.kind = "exec", r.thread = t, r.inc = IF c[Len(c)].yy THEN 1 ELSE 2,
          c[Len(c)].kind = "close", c[Len(c)].thread = t DEF Call, Kinds, First, Guard
<1> QED
  BY ONLY <1>7, <1>12, <1>14, <1>15, Whole(c, F, V, s, bd, a, b, ef, "none"),
          c[Len(c)].thread = t, r \in Acts, r.thread = t, Typed(V2, s, bd, ef, "none"), CallStep

(* luaF_close, calling the next __close method, keeps the invariant.       *)
LEMMA CloseNextKeeps ==
  ASSUME Inv1, CloseNext
  PROVE  Inv1'
<1> DEFINE z == IF cur.yy THEN 1 ELSE 2
           v == Last(tbc[L])
           r == Activation(TRUE, z)
           f == Frame(TRUE, TRUE, v.level + 1)
<1>1. /\ exc = "none" /\ cur.kind = "close"
      /\ tbc[L] # <<>> /\ v.level >= cur.level
      /\ tbc' = [tbc EXCEPT ![L] = Front(@)]
      /\ CCall(z, TRUE, v.level + 1, ci[L], cs)
      /\ UNCHANGED <<status, body, errfunc>>
  BY DEF CloseNext, Running
<1>2. /\ Whole(cs, ci, tbc, status, body, nC, nny, errfunc, "none")
      /\ Typed(tbc, status, body, errfunc, "none")
      /\ cs[Len(cs)] = cur /\ cur \in Acts /\ cur.thread = L /\ L \in Thread
      /\ ci \in [Thread -> Seq(FrameSet)] /\ ci[L] \in Seq(FrameSet)
      /\ tbc \in [Thread -> Seq(VarSet)] /\ tbc[L] \in Seq(VarSet)
  BY <1>1, InvFacts DEF Inv1
<1>3. /\ Len(tbc[L]) \in 1 .. Len(tbc[L]) /\ Front(tbc[L]) \in Seq(VarSet)
      /\ Last(tbc[L]) = tbc[L][Len(tbc[L])]
  BY <1>1, <1>2, FrontFacts DEF Last
<1>4. v \in VarSet
  BY <1>2, <1>3
<1>5. v.level \in Nat /\ v.level + 1 \in Nat
  BY <1>4 DEF VarSet
<1>6. cur.level \in Nat /\ cur.yy \in BOOLEAN
  BY ONLY <1>1, <1>2, ActFacts
<1>7. z \in 1 .. 2 /\ z = IF cs[Len(cs)].yy THEN 1 ELSE 2
  BY <1>2
<1> HIDE DEF v, z
<1>8. /\ r \in Acts /\ Call(r) /\ r.inc = z /\ r.thread = L /\ r.kind = "exec"
      /\ CallMade([ci EXCEPT ![L] = ci[L]], nC, nny, r, f, ci', nC', nny', exc')
  BY ONLY <1>1, <1>2, <1>5, <1>7, LuaCallMade
<1>9. cs' = Append(cs, r)
  BY ONLY <1>1 DEF CCall
<1> HIDE DEF r
<1>10. [ci EXCEPT ![L] = ci[L]] = ci
  BY ONLY <1>2
<1>11. CallMade(ci, nC, nny, r, Frame(TRUE, TRUE, v.level + 1), ci', nC', nny', exc')
  BY ONLY <1>8, <1>10
<1>12. Typed(tbc', status, body, errfunc, "none")
  <2>1. tbc' \in [Thread -> Seq(VarSet)]
    BY ONLY <1>1, <1>2, <1>3
  <2> QED
    BY ONLY <1>2, <2>1 DEF Typed
<1>13. /\ cs[Len(cs)].kind = "close" /\ cs[Len(cs)].thread = L
       /\ cs[Len(cs)].level <= v.level
  BY ONLY <1>1, <1>2, <1>5, <1>6
<1>14. r.inc = IF cs[Len(cs)].yy THEN 1 ELSE 2
  BY ONLY <1>7, <1>8
<1>15. Whole(Append(cs, r), ci', tbc', status, body, nC', nny', errfunc, exc')
  BY ONLY <1>2, <1>5, <1>8, <1>11, <1>12, <1>13, <1>14, CloseCall
<1> QED
  BY ONLY <1>1, <1>9, <1>15 DEF Inv1
=============================================================================
