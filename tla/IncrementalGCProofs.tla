------------------------ MODULE IncrementalGCProofs ------------------------
(***************************************************************************)
(* Proofs about IncrementalGC for every heap, every number of objects and  *)
(* every bound: the type invariant, the tri-colour invariant, the absence  *)
(* of dangling references and the completeness of full collections.        *)
(*                                                                         *)
(* NoDangling is not inductive.  What makes it so is (1) that nothing but  *)
(* the unswept part of 'allgc' is ever dead and nothing alive points to    *)
(* the dead (DeadAreUnreferenced), (2) that while the collector marks,     *)
(* black objects point to non-white ones only (TriColor) and gray objects  *)
(* are in a list that the atomic phase will traverse (GraysListed), and    *)
(* (3) that what was swept is white (SweptIsWhite), so that the next cycle *)
(* starts with no black object it would not traverse.  FullInv at the end  *)
(* adds that during the cycle of a full collection only needed objects are *)
(* marked.                                                                 *)
(***************************************************************************)
EXTENDS IncrementalGC, TLAPS

Dead(o) == color[o] = "otherwhite"
Alive == {o \in Alloc : ~Dead(o)}

(* The roots are alive, and the permanent ones never leave 'allgc'.        *)
RootsAlive == {MainThread, Registry} \subseteq allgc /\ Held \subseteq Alive

(* What is not allocated refers to nothing and has a neutral colour.       *)
FreeIsClean == \A o \in Obj \ Alloc : refs[o] = {} /\ color[o] = "white"

(* While the collector marks, threads are not black: they have no barrier. *)
ThreadsNotBlack == keepinvariant => \A o \in Threads : color[o] # "black"

(* What the sweep has left behind is white.                                *)
SweptIsWhite ==
  /\ ~issweepphase => unswept = {}
  /\ gcstate = "swpallgc" =>
       unswept \subseteq allgc /\ \A o \in allgc \ unswept : color[o] = "white"
  /\ gcstate = "swpfinobj" =>
       /\ unswept \subseteq finobj
       /\ \A o \in allgc \union (finobj \ unswept) : color[o] = "white"
  /\ gcstate = "swptobefnz" =>
       /\ unswept \subseteq tobefnz
       /\ \A o \in allgc \union finobj \union (tobefnz \ unswept) : color[o] = "white"
  /\ gcstate \in {"swpend", "callfin", "pause"} =>
       unswept = {} /\ \A o \in Alloc : color[o] = "white"

IInv ==
  /\ TypeOK
  /\ RootsAlive
  /\ DeadAreUnreferenced
  /\ FreeIsClean
  /\ TriColor
  /\ GraysListed
  /\ ThreadsNotBlack
  /\ SweptIsWhite

-----------------------------------------------------------------------------
(* The initial state satisfies the invariant.                              *)
LEMMA InitIInv == Init => IInv
<1> SUFFICES ASSUME Init PROVE IInv
  OBVIOUS
<1> USE ConstantsAssumption DEF Init
<1>1. TypeOK
  BY DEF TypeOK, Colors, GCStates, SweepStates, Tables, Upvals, Strings
<1>2. RootsAlive /\ DeadAreUnreferenced /\ FreeIsClean
  BY DEF RootsAlive, Alive, Dead, Held, DeadAreUnreferenced, FreeIsClean, Alloc
<1>3. TriColor /\ GraysListed /\ ThreadsNotBlack /\ SweptIsWhite
  BY DEF TriColor, GraysListed, ThreadsNotBlack, SweptIsWhite, keepinvariant,
         issweepphase, SweepStates, Alloc
<1> QED
  BY <1>1, <1>2, <1>3 DEF IInv

(* What marking the objects of S does to the colours: marked objects stop  *)
(* being white, those to be visited later go to the gray set, and an       *)
(* object that turns black points to no white one.                         *)
MarkOutcome(S, c) ==
  /\ c \in [Obj -> Colors]
  /\ \A o \in Obj : \/ c[o] = color[o]
                    \/ IsWhite(o) /\ o \in ToMark(S) /\ c[o] \in {"gray", "black"}
  /\ \A o \in S : c[o] \in {"gray", "black"}
  /\ \A o \in Obj : c[o] = "black" /\ color[o] # "black" =>
       o \notin Threads /\ \A v \in refs[o] : c[v] \in {"gray", "black"}
  /\ \A o \in Obj : c[o] = "gray" <=> color[o] = "gray" \/ o \in ToGray(S)
  /\ \A o \in ToMark(S) : o \in S \/ \E u \in S : o \in refs[u]
  /\ ToGray(S) \subseteq ToMark(S)

(* MarkColor has that outcome.                                             *)
LEMMA MarkEffect ==
  ASSUME TypeOK, NEW S \in SUBSET Obj
  PROVE  MarkOutcome(S, MarkColor(S, color))
<1> DEFINE c == MarkColor(S, color)
<1>1. \A o \in ToMark(S) : o \in S \/ \E u \in S : o \in refs[u]
  BY DEF ToMark
<1>2. \A o \in S : IsWhite(o) => o \in ToMark(S)
  BY DEF ToMark
<1>3. \A o \in ToMark(S) : IsWhite(o)
  BY DEF ToMark
<1>4. c \in [Obj -> Colors]
  BY DEF MarkColor, TypeOK, Colors
<1>5. \A o \in Obj : c[o] = IF o \notin ToMark(S) THEN color[o]
                            ELSE IF o \in BlackWhenMarked THEN "black" ELSE "gray"
  BY DEF MarkColor
<1>6. \A o \in Obj : ~IsWhite(o) <=> color[o] \in {"gray", "black"}
  BY DEF TypeOK, Colors, IsWhite
<1> HIDE DEF c
<1>7. \A o \in S : c[o] \in {"gray", "black"}
  BY <1>2, <1>5, <1>6
<1>8. ASSUME NEW o \in Obj, c[o] = "black", color[o] # "black"
      PROVE  o \notin Threads /\ \A v \in refs[o] : c[v] \in {"gray", "black"}
  <2>1. o \in ToMark(S) /\ o \in Upvals \union Strings
    BY <1>5, <1>8 DEF BlackWhenMarked
  <2>2. o \notin Threads
    BY <2>1 DEF Upvals, Strings, Threads
  <2>3. CASE o \in Strings
    BY <2>2, <2>3 DEF TypeOK
  <2>4. CASE o \in Upvals
    <3>1. o \in S /\ IsWhite(o)
      BY <2>1, <2>4 DEF ToMark, TypeOK, Upvals, Closures
    <3>2. \A v \in refs[o] : v \in Obj /\ (IsWhite(v) => v \in ToMark(S))
      BY <3>1, <2>4 DEF ToMark, TypeOK
    <3> QED
      BY <3>2, <1>5, <1>6, <2>2
  <2> QED
    BY <2>1, <2>3, <2>4
<1>9. \A o \in Obj : c[o] = "gray" <=> color[o] = "gray" \/ o \in ToGray(S)
  BY <1>3, <1>5 DEF ToGray, IsWhite
<1> QED
  BY <1>1, <1>3, <1>4, <1>5, <1>7, <1>8, <1>9 DEF ToGray, MarkOutcome, c

(* Everything the running function can name is alive.                      *)
LEMMA HeldUpvaluesAlive ==
  ASSUME IInv
  PROVE  /\ HeldUpvalues \subseteq Alive \intersect Upvals
         /\ \A p \in Alive : refs[p] \subseteq Alive
         /\ Alive \subseteq Alloc /\ Alloc \subseteq Obj
         /\ Held \subseteq Alive
<1>1. \A p \in Alive : refs[p] \subseteq Alive
  BY DEF IInv, DeadAreUnreferenced, Alive, Dead
<1> QED
  BY <1>1 DEF HeldUpvalues, IInv, RootsAlive, Alive, Alloc, TypeOK, Tables

-----------------------------------------------------------------------------
(* The effect of the barriers.  While the collector marks, a barrier after *)
(* storing v in o leaves no black o with a white v; while it does not, it  *)
(* changes the colour of an object the sweep has still to visit, and never *)
(* to dead.                                                                *)
BarrierOutcome(o, v) ==
  /\ color' \in [Obj -> Colors]
  /\ gray' \subseteq Obj /\ grayagain' \subseteq Obj
  /\ \A x \in Obj : color[x] = "otherwhite" <=> color'[x] = "otherwhite"
  /\ ~keepinvariant => \A x \in Obj : color[x] = "white" => color'[x] = "white"
  /\ keepinvariant =>
       /\ \A x \in Obj : ~IsWhite(x) => color'[x] \in {"gray", "black"}
       /\ \A x \in Obj : color'[x] # color[x] => x \in Alloc
       /\ \A x \in Obj : color'[x] = "black" /\ color[x] # "black" =>
            x \notin Threads /\ \A y \in refs[x] : color'[y] \in {"gray", "black"}
       /\ gray' \union grayagain' = {x \in Alloc : color'[x] = "gray"}
       /\ gray' \intersect grayagain' = {}
       /\ color'[o] = "black" =>
            o \in Threads \/ color'[v] \in {"gray", "black"}

(* The forward barrier has that outcome.                                   *)
LEMMA ForwardBarrierEffect ==
  ASSUME IInv, NEW o \in Alive, NEW v \in Alive,
         ForwardBarrier(o, v), UNCHANGED grayagain
  PROVE  BarrierOutcome(o, v)
<1>1. o \in Obj /\ v \in Obj /\ Alloc \subseteq Obj /\ refs[v] \subseteq Alloc
  BY HeldUpvaluesAlive DEF Alive
<1>2. TypeOK /\ GraysListed
  BY DEF IInv
<1>3. CASE ~(color[o] = "black" /\ IsWhite(v)) /\ UNCHANGED <<color, gray>>
  BY <1>1, <1>2, <1>3 DEF BarrierOutcome, TypeOK, Colors, IsWhite, GraysListed
<1>4. CASE keepinvariant /\ color' = MarkColor({v}, color) /\ gray' = gray \union ToGray({v})
  <2> DEFINE c == MarkColor({v}, color)
  <2>1. /\ c \in [Obj -> Colors]
        /\ \A x \in Obj : \/ c[x] = color[x]
                          \/ IsWhite(x) /\ x \in ToMark({v}) /\ c[x] \in {"gray", "black"}
        /\ c[v] \in {"gray", "black"}
        /\ \A x \in Obj : c[x] = "black" /\ color[x] # "black" =>
             x \notin Threads /\ \A y \in refs[x] : c[y] \in {"gray", "black"}
        /\ \A x \in Obj : c[x] = "gray" <=> color[x] = "gray" \/ x \in ToGray({v})
        /\ ToMark({v}) \subseteq Alloc
        /\ ToGray({v}) \subseteq ToMark({v})
    <3>1. MarkOutcome({v}, c)
      BY <1>1, <1>2, MarkEffect
    <3> HIDE DEF c
    <3> QED
      BY <3>1, <1>1 DEF MarkOutcome, Alive
  <2>2. color' = c
    BY <1>4
  <2>3. \A x \in Alive : color[x] # "otherwhite"
    BY DEF Alive, Dead
  <2>4. \A x \in Alloc : color[x] # "otherwhite"
    BY <1>2, <1>4 DEF IInv, DeadAreUnreferenced, keepinvariant
  <2>5. /\ gray' \union grayagain' = {x \in Alloc : c[x] = "gray"}
        /\ gray' \intersect grayagain' = {}
    <3>1. \A x \in ToGray({v}) : IsWhite(x)
      BY DEF ToGray, ToMark
    <3>2. \A x \in grayagain : ~IsWhite(x)
      BY <1>2, <1>4 DEF GraysListed, IsWhite
    <3> QED
      BY <3>1, <3>2, <2>1, <1>1, <1>2, <1>4 DEF GraysListed
  <2> HIDE DEF c
  <2>6. \A x \in Obj : (color[x] = "otherwhite" <=> c[x] = "otherwhite")
    BY <2>1, <2>4
  <2>7. \A x \in Obj : ~IsWhite(x) => c[x] \in {"gray", "black"}
    BY <2>1, <1>2 DEF TypeOK, Colors, IsWhite
  <2>8. gray' \subseteq Obj /\ grayagain' \subseteq Obj
    BY <2>1, <1>1, <1>2, <1>4 DEF TypeOK
  <2> QED
    BY <2>1, <2>2, <2>5, <2>6, <2>7, <2>8, <1>4 DEF BarrierOutcome
<1>5. CASE /\ color[o] = "black" /\ ~keepinvariant
           /\ color' = [color EXCEPT ![o] = "white"] /\ UNCHANGED gray
  BY <1>1, <1>2, <1>5 DEF BarrierOutcome, TypeOK, Colors
<1> QED
  BY <1>3, <1>4, <1>5 DEF ForwardBarrier

(* So has the barrier of every kind of object.                             *)
LEMMA BarrierEffect ==
  ASSUME IInv, NEW o \in Alive, NEW v \in Alive, Barrier(o, v)
  PROVE  BarrierOutcome(o, v)
<1>1. o \in Obj /\ v \in Obj /\ Alloc \subseteq Obj /\ o \in Alloc
  BY HeldUpvaluesAlive DEF Alive
<1>2. TypeOK /\ GraysListed
  BY DEF IInv
<1>3. CASE o \in Threads /\ UNCHANGED <<color, gray, grayagain>>
  BY <1>1, <1>2, <1>3 DEF BarrierOutcome, TypeOK, Colors, IsWhite, GraysListed
<1>4. CASE BackBarrier(o, v) /\ UNCHANGED gray
  <2>1. CASE color[o] = "black" /\ IsWhite(v)
    BY <1>1, <1>2, <1>4, <2>1
    DEF BackBarrier, BarrierOutcome, TypeOK, Colors, IsWhite, GraysListed
  <2>2. CASE ~(color[o] = "black" /\ IsWhite(v))
    BY <1>1, <1>2, <1>4, <2>2
    DEF BackBarrier, BarrierOutcome, TypeOK, Colors, IsWhite, GraysListed
  <2> QED
    BY <2>1, <2>2
<1> QED
  BY <1>3, <1>4, ForwardBarrierEffect DEF Barrier

-----------------------------------------------------------------------------
(* A write of v into p, followed by the barrier, preserves the invariant.  *)
LEMMA WritePreserves ==
  ASSUME IInv, NEW p \in Alive, NEW v \in Alive,
         refs' \in [Obj -> SUBSET Obj],
         \A x \in Obj : x # p => refs'[x] = refs[x],
         refs'[p] \subseteq refs[p] \union {v},
         v \in Upvals => p \in Closures,
         p \notin Strings,
         BarrierOutcome(p, v),
         UNCHANGED <<mt, gcstate, lists, unswept, control>>
  PROVE  IInv'
<1>1. /\ Alive \subseteq Alloc /\ Alloc \subseteq Obj /\ Held \subseteq Alive
      /\ \A x \in Alive : refs[x] \subseteq Alive
  BY HeldUpvaluesAlive
<1>2. Alloc' = Alloc /\ Alive' = Alive /\ keepinvariant' = keepinvariant
  BY <1>1 DEF Alloc, Alive, Dead, lists, keepinvariant, BarrierOutcome
<1>3. TypeOK'
  <2>1. \A x \in Obj : refs'[x] \intersect Upvals # {} => x \in Closures
    BY <1>1 DEF IInv, TypeOK
  <2>2. \A x \in Strings : refs'[x] = {}
    BY DEF IInv, TypeOK, Strings
  <2> QED
    BY <2>1, <2>2 DEF IInv, TypeOK, BarrierOutcome, lists, control
<1>4. RootsAlive'
  <2>1. refs'[MainThread] \subseteq Alive
    BY <1>1, ConstantsAssumption DEF IInv, RootsAlive, Held
  <2> QED
    BY <2>1, <1>2 DEF IInv, RootsAlive, Held, lists
<1>5. DeadAreUnreferenced'
  <2>1. \A x \in Alive : refs'[x] \subseteq Alive
    BY <1>1
  <2> QED
    BY <2>1, <1>1, <1>2
    DEF IInv, DeadAreUnreferenced, BarrierOutcome, lists, Alive, Dead
<1>6. FreeIsClean'
  BY <1>1, <1>2 DEF IInv, FreeIsClean, BarrierOutcome, Alive
<1>7. TriColor'
  <2> SUFFICES ASSUME keepinvariant, NEW x \in Alloc, color'[x] = "black",
                      NEW y \in refs'[x]
               PROVE  color'[y] \in {"gray", "black"}
    BY <1>2 DEF TriColor, IsWhite
  <2>1. x \in Obj /\ y \in Obj /\ v \in Obj
    BY <1>1
  <2>2. x \notin Threads
    BY <2>1 DEF IInv, ThreadsNotBlack, BarrierOutcome
  <2>3. CASE y \in refs[x]
    BY <2>1, <2>3 DEF IInv, TriColor, BarrierOutcome
  <2>4. CASE x = p /\ y = v
    BY <2>1, <2>2, <2>4 DEF BarrierOutcome
  <2> QED
    BY <2>1, <2>3, <2>4
<1>8. GraysListed' /\ ThreadsNotBlack'
  BY <1>2 DEF IInv, GraysListed, ThreadsNotBlack, BarrierOutcome, Threads
<1>9. SweptIsWhite'
  BY <1>1, <1>2 DEF IInv, SweptIsWhite, BarrierOutcome, lists, issweepphase,
                    keepinvariant, SweepStates, Alloc
<1> QED
  BY <1>3, <1>4, <1>5, <1>6, <1>7, <1>8, <1>9 DEF IInv

(* No barrier is needed where the store adds no white object to a black    *)
(* one: on a thread, and when a reference only goes away.                  *)
LEMMA NoBarrierOutcome ==
  ASSUME IInv, NEW p \in Alive, NEW v \in Alive,
         p \in Threads \/ v \in refs[p],
         UNCHANGED <<color, gray, grayagain>>
  PROVE  BarrierOutcome(p, v)
<1>1. p \in Alloc /\ Alloc \subseteq Obj /\ v \in Obj
  BY HeldUpvaluesAlive DEF Alive
<1>2. keepinvariant /\ color[p] = "black" => p \in Threads \/ color[v] \in {"gray", "black"}
  BY <1>1 DEF IInv, TriColor, TypeOK, IsWhite, Colors
<1> QED
  BY <1>1, <1>2 DEF BarrierOutcome, IInv, TypeOK, IsWhite, Colors, GraysListed

(* Reading a reference the program can name preserves the invariant.       *)
LEMMA LoadPreserves ==
  ASSUME IInv, NEW p \in Held \union HeldUpvalues, NEW v \in refs[p], Load(p, v)
  PROVE  IInv'
<1>1. p \in Alive /\ v \in Alive /\ MainThread \in Alive /\ v \in Obj
  BY HeldUpvaluesAlive DEF Held, Alive
<1>2. MainThread \in Threads /\ MainThread \notin Strings
  BY ConstantsAssumption DEF Threads, Strings
<1>3. BarrierOutcome(MainThread, v)
  BY <1>1, <1>2, NoBarrierOutcome DEF Load, graylists
<1>4. /\ refs' \in [Obj -> SUBSET Obj]
      /\ refs'[MainThread] \subseteq refs[MainThread] \union {v}
      /\ \A x \in Obj : x # MainThread => refs'[x] = refs[x]
  BY <1>1, ConstantsAssumption DEF Load, IInv, TypeOK
<1> QED
  BY <1>1, <1>2, <1>3, <1>4, WritePreserves DEF Load

(* So does overwriting or popping one.                                     *)
LEMMA DropPreserves ==
  ASSUME IInv, NEW p \in Held \union HeldUpvalues, NEW v \in refs[p], Drop(p, v)
  PROVE  IInv'
<1>1. p \in Alive /\ v \in Alive /\ v \in Obj /\ p \in Obj
  BY HeldUpvaluesAlive DEF Alive
<1>2. BarrierOutcome(p, v)
  BY <1>1, NoBarrierOutcome DEF Drop, graylists
<1>3. /\ refs' \in [Obj -> SUBSET Obj]
      /\ refs'[p] \subseteq refs[p] \union {v}
      /\ \A x \in Obj : x # p => refs'[x] = refs[x]
  BY <1>1 DEF Drop, IInv, TypeOK
<1>4. (v \in Upvals => p \in Closures) /\ p \notin Strings
  BY <1>1 DEF IInv, TypeOK, Strings
<1> QED
  BY <1>1, <1>2, <1>3, <1>4, WritePreserves DEF Drop

(* Objects the running function names are never upvalues.                  *)
LEMMA HeldAreNotUpvals ==
  ASSUME IInv
  PROVE  Held \intersect Upvals = {}
BY ConstantsAssumption DEF IInv, TypeOK, Held, Upvals, Closures, Threads, Tables

(* Storing with the barrier of the object stored into preserves it.        *)
LEMMA StorePreserves ==
  ASSUME IInv, NEW p \in Held, NEW v \in Held, Store(p, v)
  PROVE  IInv'
<1>1. p \in Alive /\ v \in Alive /\ v \in Obj /\ p \in Obj
  BY HeldUpvaluesAlive DEF Alive
<1>2. BarrierOutcome(p, v)
  BY <1>1, BarrierEffect DEF Store
<1>3. /\ refs' \in [Obj -> SUBSET Obj]
      /\ refs'[p] \subseteq refs[p] \union {v}
      /\ \A x \in Obj : x # p => refs'[x] = refs[x]
  BY <1>1 DEF Store, IInv, TypeOK
<1>4. v \notin Upvals /\ p \notin Strings
  BY HeldAreNotUpvals DEF Store
<1> QED
  BY <1>1, <1>2, <1>3, <1>4, WritePreserves DEF Store

(* Assigning a closed upvalue, with its forward barrier, preserves it.     *)
LEMMA SetUpvaluePreserves ==
  ASSUME IInv, NEW u \in HeldUpvalues, NEW v \in Held, SetUpvalue(u, v)
  PROVE  IInv'
<1>1. u \in Alive /\ v \in Alive /\ v \in Obj /\ u \in Obj /\ u \in Upvals
  BY HeldUpvaluesAlive DEF Alive
<1>2. BarrierOutcome(u, v)
  BY <1>1, BarrierEffect DEF SetUpvalue
<1>3. /\ refs' \in [Obj -> SUBSET Obj]
      /\ refs'[u] \subseteq refs[u] \union {v}
      /\ \A x \in Obj : x # u => refs'[x] = refs[x]
  BY <1>1 DEF SetUpvalue, IInv, TypeOK
<1>4. v \notin Upvals /\ u \notin Strings
  BY <1>1, HeldAreNotUpvals DEF Upvals, Strings
<1> QED
  BY <1>1, <1>2, <1>3, <1>4, WritePreserves DEF SetUpvalue

(* Giving a closure an upvalue of another preserves it.                    *)
LEMMA ShareUpvaluePreserves ==
  ASSUME IInv, NEW d \in Held, NEW u \in HeldUpvalues, ShareUpvalue(d, u)
  PROVE  IInv'
<1>1. u \in Alive /\ d \in Alive /\ u \in Obj /\ d \in Obj
  BY HeldUpvaluesAlive DEF Alive
<1>2. BarrierOutcome(d, u)
  BY <1>1, BarrierEffect DEF ShareUpvalue
<1>3. /\ refs' \in [Obj -> SUBSET Obj]
      /\ refs'[d] \subseteq refs[d] \union {u}
      /\ \A x \in Obj : x # d => refs'[x] = refs[x]
  BY <1>1 DEF ShareUpvalue, IInv, TypeOK
<1>4. d \in Closures /\ d \notin Strings
  BY DEF ShareUpvalue, Closures, Strings
<1> QED
  BY <1>1, <1>2, <1>3, <1>4, WritePreserves DEF ShareUpvalue

(* Changing the metatable of a basic type, without a barrier, preserves it. *)
LEMMA SetGlobalMetatablePreserves ==
  ASSUME IInv, NEW new \in SUBSET HeldTables, SetGlobalMetatable(new)
  PROVE  IInv'
<1>1. /\ Alloc' = Alloc /\ Alive' = Alive /\ keepinvariant' = keepinvariant
      /\ issweepphase' = issweepphase /\ refs' = refs /\ color' = color
  BY DEF SetGlobalMetatable, Alloc, Alive, Dead, lists, keepinvariant, issweepphase
<1>2. RootsAlive'
  BY <1>1 DEF IInv, RootsAlive, Held, SetGlobalMetatable, lists, HeldTables
<1>3. TypeOK'
  BY DEF IInv, TypeOK, SetGlobalMetatable, lists, graylists, control, HeldTables
<1>4. DeadAreUnreferenced' /\ FreeIsClean' /\ ThreadsNotBlack'
  BY <1>1 DEF IInv, DeadAreUnreferenced, FreeIsClean, ThreadsNotBlack,
              SetGlobalMetatable, lists
<1>5. TriColor' /\ GraysListed'
  BY <1>1 DEF IInv, TriColor, GraysListed, IsWhite, SetGlobalMetatable, graylists
<1>6. SweptIsWhite'
  BY <1>1 DEF IInv, SweptIsWhite, SetGlobalMetatable, lists
<1> QED
  BY <1>2, <1>3, <1>4, <1>5, <1>6 DEF IInv

(* A new object preserves it: white, or black for an upvalue of a black    *)
(* closure while the collector marks.                                      *)
LEMMA NewPreserves ==
  ASSUME IInv, NEW o \in Obj \ Alloc, NEW p \in Held, New(o, p)
  PROVE  IInv'
<1>1. /\ Alive \subseteq Alloc /\ Alloc \subseteq Obj /\ p \in Alive
      /\ \A x \in Alive : refs[x] \subseteq Alive
      /\ o \in Obj /\ p # o /\ refs[o] = {} /\ color[o] = "white"
  BY HeldUpvaluesAlive DEF IInv, FreeIsClean
<1>2. /\ Alloc' = Alloc \union {o} /\ keepinvariant' = keepinvariant
      /\ issweepphase' = issweepphase /\ gcstate' = gcstate /\ unswept' = unswept
      /\ allgc' = allgc \union {o} /\ finobj' = finobj /\ tobefnz' = tobefnz
      /\ mt' = mt /\ gray' = gray /\ grayagain' = grayagain
  BY DEF New, Alloc, keepinvariant, issweepphase, graylists
<1>3. /\ refs' \in [Obj -> SUBSET Obj]
      /\ refs'[p] = refs[p] \union {o}
      /\ \A x \in Obj : x # p => refs'[x] = refs[x]
  BY <1>1 DEF New, IInv, TypeOK
<1>4. /\ color' \in [Obj -> Colors]
      /\ \A x \in Obj : x # o /\ x # p => color'[x] = color[x]
      /\ color'[o] \in {"white", "black"}
      /\ ~keepinvariant => color'[o] = "white"
      /\ keepinvariant => color'[p] = color[p]
      /\ color'[p] \in {color[p], "white"}
      /\ color'[o] # "black" /\ color'[p] = "black" => o \notin Upvals
      /\ color'[o] = "black" => o \in Upvals
  BY <1>1 DEF New, IInv, TypeOK, Colors
<1>5. Alive' = Alive \union {o}
  BY <1>1, <1>2, <1>4 DEF Alive, Dead
<1>6. TypeOK'
  <2>1. \A x \in Obj : refs'[x] \intersect Upvals # {} => x \in Closures
    BY <1>1, <1>3 DEF IInv, TypeOK, New, Upvals, Closures
  <2>2. \A x \in Strings : refs'[x] = {}
    BY <1>1, <1>3, ConstantsAssumption
    DEF IInv, TypeOK, New, Strings, Closures
  <2>3. finalizing' = finalizing /\ user' = user /\ emerg' = emerg
    BY DEF New, control
  <2> QED
    BY <2>1, <2>2, <2>3, <1>1, <1>2, <1>3, <1>4 DEF IInv, TypeOK, Alloc
<1>7. RootsAlive'
  <2>1. refs'[MainThread] \subseteq Alive \union {o}
    BY <1>1, <1>3, ConstantsAssumption DEF IInv, RootsAlive, Held
  <2> QED
    BY <2>1, <1>2, <1>5 DEF IInv, RootsAlive, Held
<1>8. DeadAreUnreferenced'
  <2>1. \A x \in Alive' : refs'[x] \subseteq Alive'
    BY <1>1, <1>3, <1>5
  <2>2. \A x \in Alloc' : color'[x] = "otherwhite" =>
          gcstate' = "swpallgc" /\ x \in unswept' /\ x \in allgc'
    BY <1>1, <1>2, <1>4 DEF IInv, DeadAreUnreferenced
  <2> QED
    BY <2>1, <2>2 DEF DeadAreUnreferenced, Alive, Dead
<1>9. FreeIsClean'
  BY <1>1, <1>2, <1>3, <1>4 DEF IInv, FreeIsClean
<1>10. TriColor'
  <2> SUFFICES ASSUME keepinvariant, NEW x \in Alloc', color'[x] = "black",
                      NEW y \in refs'[x]
               PROVE  color'[y] \in {"gray", "black"}
    BY <1>2 DEF TriColor, IsWhite
  <2>1. x # o
    BY <1>1, <1>3
  <2>2. CASE y = o
    <3>1. x = p
      BY <1>1, <1>3, <2>1, <2>2, <1>2 DEF IInv, DeadAreUnreferenced, TriColor, keepinvariant
    <3>2. o \in Upvals \/ p \in Threads
      BY ConstantsAssumption DEF New, Threads, Upvals
    <3>3. p \notin Threads
      BY <3>1, <1>4 DEF IInv, ThreadsNotBlack, Threads
    <3> QED
      BY <2>2, <3>1, <3>2, <3>3, <1>4
  <2>3. CASE y # o
    <3>1. x \in Alloc /\ y \in refs[x] /\ color[x] = "black" /\ y \in Obj
      BY <1>1, <1>2, <1>3, <1>4, <2>1, <2>3
    <3>2. color[y] \in {"gray", "black"}
      BY <3>1 DEF IInv, TriColor, TypeOK, Colors, IsWhite
    <3> QED
      BY <3>1, <3>2, <1>4, <2>3
  <2> QED
    BY <2>2, <2>3
<1>11. GraysListed' /\ ThreadsNotBlack'
  BY <1>1, <1>2, <1>4
  DEF IInv, GraysListed, ThreadsNotBlack, Threads, Upvals, New, keepinvariant
<1>12. SweptIsWhite'
  BY <1>1, <1>2, <1>4 DEF IInv, SweptIsWhite, Alloc, keepinvariant, issweepphase, SweepStates
<1> QED
  BY <1>6, <1>7, <1>8, <1>9, <1>10, <1>11, <1>12 DEF IInv

(* A table moved to 'finobj' while nothing is being swept: a write of its  *)
(* metatable, then a move that changes neither colour nor reference.       *)
LEMMA SetFinalizerPreserves ==
  ASSUME IInv, NEW o \in HeldTables, NEW m \in HeldTables, SetFinalizer(o, m)
  PROVE  IInv'
<1>1. /\ Alive \subseteq Alloc /\ Alloc \subseteq Obj /\ o \in Alive /\ m \in Alive
      /\ \A x \in Alive : refs[x] \subseteq Alive
      /\ o \in Tables /\ o \in allgc /\ o # Registry /\ o # MainThread
      /\ o \notin Threads /\ o \notin Strings /\ m \notin Upvals /\ o \in Obj
  BY HeldUpvaluesAlive, ConstantsAssumption
  DEF HeldTables, SetFinalizer, Tables, Threads, Strings, Upvals
<1>2. TypeOK
  BY DEF IInv
<1>3. CASE ~issweepphase
  <2>1. /\ refs' = [refs EXCEPT ![o] = @ \union {m}] /\ allgc' = allgc \ {o}
        /\ ForwardBarrier(o, m) /\ unswept' = unswept /\ finobj' = finobj \union {o}
        /\ mt' = mt /\ gcstate' = gcstate /\ tobefnz' = tobefnz
        /\ grayagain' = grayagain
        /\ finalizing' = finalizing /\ user' = user /\ emerg' = emerg
    BY <1>3 DEF SetFinalizer, control
  <2>2. BarrierOutcome(o, m)
    BY <1>1, <2>1, ForwardBarrierEffect
  <2>3. /\ refs' \in [Obj -> SUBSET Obj]
        /\ refs'[o] = refs[o] \union {m}
        /\ \A x \in Obj : x # o => refs'[x] = refs[x]
    BY <1>1, <1>2, <2>1 DEF TypeOK
  <2>4. Alloc' = Alloc /\ Alive' = Alive /\ keepinvariant' = keepinvariant
    BY <1>1, <2>1, <2>2 DEF Alloc, Alive, Dead, keepinvariant, BarrierOutcome
  <2>5. TypeOK'
    <3>1. \A x \in Obj : refs'[x] \intersect Upvals # {} => x \in Closures
      BY <1>1, <1>2, <2>3 DEF TypeOK
    <3>2. \A x \in Strings : refs'[x] = {}
      BY <1>1, <1>2, <2>3 DEF TypeOK, Strings
    <3> QED
      BY <3>1, <3>2, <1>1, <1>2, <2>1, <2>2, <2>3 DEF TypeOK, BarrierOutcome
  <2>6. RootsAlive'
    BY <1>1, <2>1, <2>3, <2>4, ConstantsAssumption DEF IInv, RootsAlive, Held
  <2>7. DeadAreUnreferenced'
    <3>1. \A x \in Alive : refs'[x] \subseteq Alive
      BY <1>1, <2>3
    <3> QED
      BY <3>1, <1>1, <2>1, <2>2, <2>4
      DEF IInv, DeadAreUnreferenced, BarrierOutcome, Alive, Dead
  <2>8. FreeIsClean'
    BY <1>1, <2>2, <2>3, <2>4 DEF IInv, FreeIsClean, BarrierOutcome
  <2>9. TriColor'
    <3> SUFFICES ASSUME keepinvariant, NEW x \in Alloc, color'[x] = "black",
                        NEW y \in refs'[x]
                 PROVE  color'[y] \in {"gray", "black"}
      BY <2>4 DEF TriColor, IsWhite
    <3>1. x \in Obj /\ y \in Obj /\ m \in Obj
      BY <1>1, <2>3
    <3>2. CASE y \in refs[x]
      BY <3>1, <3>2, <2>2 DEF IInv, TriColor, BarrierOutcome
    <3>3. CASE x = o /\ y = m
      BY <3>1, <3>3, <1>1, <2>2 DEF BarrierOutcome
    <3> QED
      BY <3>1, <3>2, <3>3, <2>3
  <2>10. GraysListed' /\ ThreadsNotBlack'
    BY <2>2, <2>4 DEF IInv, GraysListed, ThreadsNotBlack, BarrierOutcome, Threads
  <2>11. SweptIsWhite'
    BY <1>1, <1>3, <2>1, <2>2
    DEF IInv, SweptIsWhite, BarrierOutcome, issweepphase, keepinvariant, SweepStates, Alloc
  <2> QED
    BY <2>5, <2>6, <2>7, <2>8, <2>9, <2>10, <2>11 DEF IInv
<1>4. CASE issweepphase
  <2>1. PICK S \in SUBSET unswept :
          /\ gcstate # "swpallgc" \/ o \in unswept => S = {}
          /\ unswept' = unswept \ (S \union {o})
          /\ allgc' = allgc \ (Freed(S, color) \union {o})
          /\ refs' = Cut([refs EXCEPT ![o] = @ \union {m}], Freed(S, color))
          /\ color' = SweepColor(S \union {o}, color)
    BY <1>4 DEF SetFinalizer, ToLive
  <2>2. /\ finobj' = finobj \union {o} /\ mt' = mt /\ gcstate' = gcstate
        /\ tobefnz' = tobefnz /\ gray' = gray /\ grayagain' = grayagain
        /\ finalizing' = finalizing /\ user' = user /\ emerg' = emerg
        /\ keepinvariant' = keepinvariant /\ issweepphase' = issweepphase
        /\ ~keepinvariant
    BY <1>4 DEF SetFinalizer, control, issweepphase, keepinvariant, SweepStates
  <2>3. /\ Freed(S, color) \subseteq allgc \intersect S
        /\ Freed(S, color) \intersect Alive = {}
        /\ \A x \in Freed(S, color) : color[x] = "otherwhite"
        /\ \A x \in S : x \notin Freed(S, color) => color[x] # "otherwhite"
    BY <1>1, <2>1 DEF Freed, IInv, DeadAreUnreferenced, SweptIsWhite, Alive, Dead, Alloc
  <2>4. /\ refs' \in [Obj -> SUBSET Obj]
        /\ \A x \in Obj : x \in Freed(S, color) => refs'[x] = {}
        /\ \A x \in Obj : x # o => refs'[x] \subseteq refs[x]
        /\ refs'[o] \subseteq refs[o] \union {m}
    BY <1>1, <1>2, <2>1 DEF TypeOK, Cut
  <2>5. /\ color' \in [Obj -> Colors]
        /\ \A x \in Obj : color'[x] = IF x \in S \union {o} THEN "white" ELSE color[x]
    BY <1>2, <2>1 DEF SweepColor, TypeOK, Colors
  <2>6. Alloc' = Alloc \ Freed(S, color)
    <3>1. o \notin Freed(S, color)
      BY <1>1, <2>3
    <3>2. allgc \intersect (finobj \union tobefnz) = {}
      BY <1>2 DEF TypeOK
    <3> QED
      BY <3>1, <3>2, <1>1, <2>1, <2>2, <2>3 DEF Alloc
  <2>7. Alive' = Alive
    BY <1>1, <2>3, <2>5, <2>6 DEF Alive, Dead
  <2>8. TypeOK'
    <3>1. \A x \in Obj : refs'[x] \intersect Upvals # {} => x \in Closures
      BY <1>1, <1>2, <2>4 DEF TypeOK
    <3>2. \A x \in Strings : refs'[x] = {}
      BY <1>1, <1>2, <2>4 DEF TypeOK, Strings
    <3> QED
      BY <3>1, <3>2, <1>1, <1>2, <2>1, <2>2, <2>4, <2>5 DEF TypeOK
  <2>9. RootsAlive'
    <3>1. Held' \subseteq Held
      BY <1>1, <2>2, <2>4, ConstantsAssumption DEF Held
    <3>2. {MainThread, Registry} \subseteq allgc'
      BY <1>1, <2>1, <2>3 DEF IInv, RootsAlive, Held
    <3> QED
      BY <3>1, <3>2, <2>7 DEF IInv, RootsAlive
  <2>10. DeadAreUnreferenced'
    <3>1. \A x \in Alive' : refs'[x] \subseteq Alive'
      BY <1>1, <2>4, <2>7
    <3>2. \A x \in Alloc' : color'[x] = "otherwhite" =>
            gcstate' = "swpallgc" /\ x \in unswept' /\ x \in allgc'
      BY <1>1, <2>1, <2>2, <2>5, <2>6 DEF IInv, DeadAreUnreferenced
    <3> QED
      BY <3>1, <3>2 DEF DeadAreUnreferenced, Alive, Dead
  <2>11. FreeIsClean'
    BY <1>1, <2>3, <2>4, <2>5, <2>6 DEF IInv, FreeIsClean
  <2>12. TriColor' /\ GraysListed' /\ ThreadsNotBlack'
    BY <2>2 DEF TriColor, GraysListed, ThreadsNotBlack
  <2>13. SweptIsWhite'
    <3>1. SweptIsWhite /\ o \in allgc /\ unswept \subseteq Obj
      BY <1>1, <1>2 DEF IInv, TypeOK
    <3>2. CASE gcstate = "swpallgc"
      BY <3>1, <3>2, <1>1, <2>1, <2>2, <2>3, <2>5 DEF SweptIsWhite, Alloc
    <3>3. CASE gcstate = "swpfinobj"
      BY <3>1, <3>3, <1>1, <2>1, <2>2, <2>3, <2>5 DEF SweptIsWhite, Alloc
    <3>4. CASE gcstate = "swptobefnz"
      <4>1. o \notin unswept /\ S = {}
        BY <3>1, <3>4, <1>1, <1>2, <2>1 DEF SweptIsWhite, TypeOK
      <4> QED
        BY <4>1, <3>1, <3>4, <1>1, <2>1, <2>2, <2>3, <2>5 DEF SweptIsWhite, Alloc
    <3>5. CASE gcstate = "swpend"
      BY <3>1, <3>5, <1>1, <2>1, <2>2, <2>3, <2>5, <2>6 DEF SweptIsWhite, Alloc
    <3> QED
      BY <3>2, <3>3, <3>4, <3>5, <1>4, <2>2 DEF issweepphase, SweepStates
  <2> QED
    BY <2>8, <2>9, <2>10, <2>11, <2>12, <2>13 DEF IInv
<1> QED
  BY <1>3, <1>4

-----------------------------------------------------------------------------
(* Entering the sweep, from colours c and references r in which the dead   *)
(* are in 'allgc' and nothing alive points to the dead.                    *)
LEMMA EnterSweepPreserves ==
  ASSUME IInv, NEW c \in [Obj -> Colors], NEW r \in [Obj -> SUBSET Obj],
         EnterSweep(allgc, c, r),
         \A x \in Obj : r[x] \subseteq refs[x],
         \A x \in Obj \ Alloc : r[x] = {} /\ c[x] = "white",
         \A x \in Alloc : c[x] # "otherwhite" =>
            \A y \in r[x] : y \in Alloc /\ c[y] # "otherwhite",
         {MainThread, Registry} \subseteq allgc,
         \A x \in {MainThread, Registry} \union mt : c[x] # "otherwhite",
         \A x \in finobj' \union tobefnz' : c[x] # "otherwhite",
         finobj' \union tobefnz' = finobj \union tobefnz,
         finobj' \intersect tobefnz' = {},
         mt' = mt, gray' \subseteq Obj, grayagain' \subseteq Obj,
         finalizing' \subseteq Obj, user' \in 0..3, emerg' \in 0..3
  PROVE  IInv'
<1>1. PICK S \in SUBSET allgc :
        /\ gcstate' = "swpallgc"
        /\ unswept' = allgc \ S
        /\ allgc' = allgc \ Freed(S, c)
        /\ color' = SweepColor(S, c)
        /\ refs' = Cut(r, Freed(S, c))
  BY DEF EnterSweep, ToLive
<1>2. /\ TypeOK /\ Alloc \subseteq Obj /\ RootsAlive /\ Tables \subseteq Obj
      /\ allgc \intersect (finobj \union tobefnz) = {}
  BY DEF IInv, TypeOK, Alloc, Tables
<1>3. /\ Freed(S, c) \subseteq S
      /\ \A x \in S : x \in Freed(S, c) <=> c[x] = "otherwhite"
  BY DEF Freed
<1>4. Alloc' = Alloc \ Freed(S, c)
  BY <1>1, <1>2, <1>3 DEF Alloc
<1>5. /\ refs' \in [Obj -> SUBSET Obj]
      /\ \A x \in Obj : refs'[x] = IF x \in Freed(S, c) THEN {} ELSE r[x]
  BY <1>1 DEF Cut
<1>6. /\ color' \in [Obj -> Colors]
      /\ \A x \in Obj : color'[x] = IF x \in S THEN "white" ELSE c[x]
  BY <1>1 DEF SweepColor, Colors
<1>7. TypeOK'
  <2>1. \A x \in Obj : refs'[x] \intersect Upvals # {} => x \in Closures
    BY <1>2, <1>5 DEF TypeOK
  <2>2. \A x \in Strings : refs'[x] = {}
    BY <1>2, <1>5 DEF TypeOK, Strings
  <2>3. mt' \in SUBSET Tables /\ gcstate' \in GCStates
    BY <1>1, <1>2 DEF TypeOK, GCStates, SweepStates
  <2>4. /\ allgc' \subseteq Obj /\ finobj' \subseteq Tables /\ tobefnz' \subseteq Tables
        /\ allgc' \intersect finobj' = {} /\ unswept' \subseteq Obj
        /\ (allgc' \union finobj') \intersect tobefnz' = {}
    BY <1>1, <1>2 DEF TypeOK
  <2> QED
    BY <2>1, <2>2, <2>3, <2>4, <1>5, <1>6 DEF TypeOK
<1>8. \A x \in Alloc : c[x] # "otherwhite" => x \in Alive'
  BY <1>2, <1>3, <1>4, <1>6 DEF Alive, Dead, Alloc
<1>9. RootsAlive'
  <2>1. {MainThread, Registry} \subseteq allgc' /\ mt' \subseteq Alloc
    BY <1>1, <1>2, <1>3 DEF RootsAlive, Held, Alive
  <2>2. \A x \in refs'[MainThread] : x \in Alloc /\ c[x] # "otherwhite"
    BY <1>5, ConstantsAssumption DEF Alloc
  <2> QED
    BY <2>1, <2>2, <1>8 DEF RootsAlive, Held, Alloc
<1>10. DeadAreUnreferenced'
  <2>1. \A x \in Alloc' : color'[x] # "otherwhite" =>
          \A y \in refs'[x] : y \in Alive'
    BY <1>2, <1>3, <1>4, <1>5, <1>6, <1>8
  <2>2. \A x \in Alloc' : color'[x] = "otherwhite" =>
          x \in unswept' /\ x \in allgc'
    BY <1>1, <1>2, <1>3, <1>4, <1>6 DEF Alloc
  <2> QED
    BY <2>1, <2>2, <1>1 DEF DeadAreUnreferenced, Alive, Dead
<1>11. FreeIsClean'
  BY <1>2, <1>3, <1>4, <1>5, <1>6 DEF FreeIsClean
<1>12. TriColor' /\ GraysListed' /\ ThreadsNotBlack'
  BY <1>1 DEF TriColor, GraysListed, ThreadsNotBlack, keepinvariant
<1>13. SweptIsWhite'
  BY <1>1, <1>2, <1>3, <1>6 DEF SweptIsWhite, issweepphase, SweepStates, Alloc
<1> QED
  BY <1>7, <1>9, <1>10, <1>11, <1>12, <1>13 DEF IInv

(* Starting a full collection preserves it, in whatever state of the cycle. *)
LEMMA StartFullPreserves ==
  ASSUME IInv, StartFull
  PROVE  IInv'
<1>1. /\ finobj' = finobj /\ tobefnz' = tobefnz /\ mt' = mt /\ gray' = gray
      /\ grayagain' = grayagain /\ finalizing' = finalizing
      /\ user' \in 0..3 /\ emerg' \in 0..3
  BY DEF StartFull, graylists, IInv, TypeOK
<1>2. TypeOK /\ RootsAlive /\ DeadAreUnreferenced /\ FreeIsClean
  BY DEF IInv
<1>3. CASE keepinvariant
  <2>1. EnterSweep(allgc, color, refs)
    BY <1>3 DEF StartFull
  <2>2. \A x \in Alloc : color[x] # "otherwhite"
    BY <1>2, <1>3 DEF DeadAreUnreferenced, keepinvariant
  <2>3. \A x \in {MainThread, Registry} \union mt : color[x] # "otherwhite"
    BY <1>2 DEF RootsAlive, Held, Alive, Dead
  <2>4. color \in [Obj -> Colors] /\ refs \in [Obj -> SUBSET Obj]
    BY <1>2 DEF TypeOK
  <2>5. \A x \in Alloc : color[x] # "otherwhite" =>
            \A y \in refs[x] : y \in Alloc /\ color[y] # "otherwhite"
    BY <1>2 DEF DeadAreUnreferenced
  <2>6. \A x \in Obj \ Alloc : refs[x] = {} /\ color[x] = "white"
    BY <1>2 DEF FreeIsClean
  <2>7. /\ finobj' \intersect tobefnz' = {} /\ gray' \subseteq Obj
        /\ grayagain' \subseteq Obj /\ finalizing' \subseteq Obj
        /\ {MainThread, Registry} \subseteq allgc
    BY <1>1, <1>2 DEF TypeOK, RootsAlive
  <2>8. \A x \in finobj' \union tobefnz' : color[x] # "otherwhite"
    BY <1>1, <2>2 DEF Alloc
  <2> QED
    BY <2>1, <2>3, <2>4, <2>5, <2>6, <2>7, <2>8, <1>1, EnterSweepPreserves
<1>4. CASE ~keepinvariant
  <2>1. /\ UNCHANGED <<refs, color, gcstate, allgc, unswept>>
        /\ Alloc' = Alloc /\ Alive' = Alive /\ keepinvariant' = keepinvariant
        /\ issweepphase' = issweepphase
    BY <1>1, <1>4 DEF StartFull, Alloc, Alive, Dead, keepinvariant, issweepphase
  <2>2. TypeOK' /\ RootsAlive'
    BY <1>1, <2>1, <1>2 DEF TypeOK, RootsAlive, Held
  <2>3. DeadAreUnreferenced' /\ FreeIsClean' /\ ThreadsNotBlack'
    BY <1>1, <2>1 DEF IInv, DeadAreUnreferenced, FreeIsClean, ThreadsNotBlack
  <2>4. TriColor' /\ GraysListed'
    BY <1>1, <2>1 DEF IInv, TriColor, GraysListed, IsWhite
  <2>5. SweptIsWhite'
    BY <1>1, <2>1 DEF IInv, SweptIsWhite
  <2> QED
    BY <2>2, <2>3, <2>4, <2>5 DEF IInv
<1> QED
  BY <1>3, <1>4

(* Steps that move the collector to its next state and change no object.   *)
LEMMA PhaseStepPreserves ==
  ASSUME IInv, EndPropagate \/ NextSweep \/ EndCycle \/ EndStage
  PROVE  IInv'
<1>1. /\ refs' = refs /\ mt' = mt /\ color' = color /\ finalizing' = finalizing
      /\ allgc' = allgc /\ finobj' = finobj /\ tobefnz' = tobefnz
      /\ gray' = gray /\ grayagain' = grayagain
      /\ Alloc' = Alloc /\ Alive' = Alive
  BY DEF EndPropagate, NextSweep, EndCycle, EndStage, heap, lists, graylists,
         control, Alloc, Alive, Dead
<1>2. TypeOK /\ DeadAreUnreferenced /\ SweptIsWhite
  BY DEF IInv
<1>3. /\ gcstate' \in GCStates /\ unswept' \subseteq Obj
      /\ user' \in 0..3 /\ emerg' \in 0..3
  <2>1. CASE EndPropagate
    BY <1>2, <2>1 DEF TypeOK, EndPropagate, GCStates, control
  <2>2. CASE NextSweep \/ EndCycle \/ EndStage
    BY <1>2, <2>2 DEF TypeOK, NextSweep, EndCycle, EndStage, GCStates,
                      SweepStates, control, Tables
  <2> QED
    BY <2>1, <2>2
<1>4. TypeOK' /\ RootsAlive' /\ FreeIsClean'
  BY <1>1, <1>3 DEF IInv, TypeOK, RootsAlive, FreeIsClean, Held
<1>5. keepinvariant' => keepinvariant
  BY DEF EndPropagate, NextSweep, EndCycle, EndStage, keepinvariant, issweepphase,
         SweepStates
<1>6. TriColor' /\ GraysListed' /\ ThreadsNotBlack'
  BY <1>1, <1>5 DEF IInv, TriColor, GraysListed, ThreadsNotBlack, IsWhite
<1>7. CASE NextSweep
  <2>1. unswept = {} /\ \A o \in Alloc : color[o] # "otherwhite"
    BY <1>2, <1>7 DEF NextSweep, DeadAreUnreferenced
  <2>2. DeadAreUnreferenced'
    BY <1>1, <1>2, <2>1 DEF DeadAreUnreferenced
  <2>3. SweptIsWhite'
    BY <1>1, <1>2, <1>7, <2>1 DEF SweptIsWhite, NextSweep, issweepphase, SweepStates, Alloc
  <2> QED
    BY <1>4, <1>6, <2>2, <2>3 DEF IInv
<1>8. CASE EndPropagate \/ EndCycle
  <2>1. \A o \in Alloc : color[o] # "otherwhite"
    BY <1>2, <1>8 DEF EndPropagate, EndCycle, DeadAreUnreferenced
  <2>2. DeadAreUnreferenced'
    BY <1>1, <1>2, <2>1 DEF DeadAreUnreferenced
  <2>3. SweptIsWhite'
    BY <1>1, <1>2, <1>8
    DEF SweptIsWhite, EndPropagate, EndCycle, issweepphase, SweepStates
  <2> QED
    BY <1>4, <1>6, <2>2, <2>3 DEF IInv
<1>9. CASE EndStage
  BY <1>1, <1>2, <1>4, <1>6, <1>9
  DEF IInv, EndStage, DeadAreUnreferenced, SweptIsWhite, issweepphase
<1> QED
  BY <1>7, <1>8, <1>9

(* A finalizer is called: its object is an ordinary, white one again.      *)
LEMMA CallFinalizerPreserves ==
  ASSUME IInv, NEW o \in tobefnz, CallFinalizer(o)
  PROVE  IInv'
<1>1. /\ TypeOK /\ RootsAlive /\ DeadAreUnreferenced /\ FreeIsClean /\ SweptIsWhite
      /\ gcstate = "callfin" /\ gcstate' = gcstate /\ mt' = mt /\ color' = color
      /\ finobj' = finobj /\ unswept' = unswept /\ gray' = gray
      /\ grayagain' = grayagain /\ user' = user /\ emerg' = emerg
      /\ tobefnz' = tobefnz \ {o} /\ allgc' = allgc \union {o}
  BY DEF IInv, CallFinalizer, graylists
<1>2. o \in Obj /\ o \in Alloc /\ Alloc' = Alloc /\ Alloc \subseteq Obj
  BY <1>1 DEF Alloc, TypeOK, Tables
<1>3. /\ refs' \in [Obj -> SUBSET Obj] /\ finalizing' \subseteq Obj
      /\ \A x \in Obj : x # MainThread => refs'[x] = refs[x]
      /\ refs'[MainThread] \subseteq refs[MainThread] \union {o}
  BY <1>1, <1>2, ConstantsAssumption DEF CallFinalizer, TypeOK
<1>4. MainThread \notin Strings /\ MainThread \notin Upvals /\ MainThread \in Obj
  BY ConstantsAssumption DEF Strings, Upvals
<1>5. /\ Alive' = Alive /\ o \in Alive /\ MainThread \in Alive
      /\ \A x \in Alloc : color[x] = "white"
  BY <1>1, <1>2 DEF Alive, Dead, SweptIsWhite, RootsAlive, Held
<1>6. o \notin Upvals /\ o \notin Threads /\ o \in Tables
  BY <1>1 DEF TypeOK, Upvals, Threads, Tables
<1>7. TypeOK'
  <2>1. \A x \in Obj : refs'[x] \intersect Upvals # {} => x \in Closures
    BY <1>1, <1>3, <1>4, <1>6 DEF TypeOK
  <2>2. \A x \in Strings : refs'[x] = {}
    BY <1>1, <1>3, <1>4 DEF TypeOK, Strings
  <2> QED
    BY <2>1, <2>2, <1>1, <1>2, <1>3 DEF TypeOK
<1>8. RootsAlive'
  BY <1>1, <1>3, <1>5, ConstantsAssumption DEF RootsAlive, Held
<1>9. DeadAreUnreferenced'
  <2>1. \A x \in Alive : refs'[x] \subseteq Alive
    BY <1>1, <1>2, <1>3, <1>5 DEF DeadAreUnreferenced, Alive, Dead
  <2> QED
    BY <2>1, <1>1, <1>2, <1>5 DEF DeadAreUnreferenced, Alive, Dead
<1>10. FreeIsClean'
  BY <1>1, <1>2, <1>3, <1>5 DEF FreeIsClean, Alive
<1>11. TriColor' /\ GraysListed' /\ ThreadsNotBlack'
  BY <1>1 DEF TriColor, GraysListed, ThreadsNotBlack, keepinvariant
<1>12. SweptIsWhite'
  BY <1>1, <1>2 DEF SweptIsWhite, issweepphase, SweepStates
<1> QED
  BY <1>7, <1>8, <1>9, <1>10, <1>11, <1>12 DEF IInv

(* A finalizer returning preserves it.                                     *)
LEMMA FinalizerReturnsPreserves ==
  ASSUME IInv, FinalizerReturns
  PROVE  IInv'
<1>1. /\ mt' = mt /\ color' = color /\ gcstate' = gcstate /\ allgc' = allgc
      /\ finobj' = finobj /\ tobefnz' = tobefnz /\ unswept' = unswept
      /\ gray' = gray /\ grayagain' = grayagain /\ user' = user /\ emerg' = emerg
      /\ finalizing' = {}
      /\ Alloc' = Alloc /\ Alive' = Alive /\ keepinvariant' = keepinvariant
      /\ issweepphase' = issweepphase
  BY DEF FinalizerReturns, lists, graylists, Alloc, Alive, Dead, keepinvariant,
         issweepphase
<1>2. TypeOK /\ RootsAlive
  BY DEF IInv
<1>3. /\ refs' \in [Obj -> SUBSET Obj]
      /\ \A x \in Obj : refs'[x] \subseteq refs[x]
  BY <1>2, ConstantsAssumption DEF FinalizerReturns, TypeOK
<1>4. TypeOK'
  <2>1. \A x \in Obj : refs'[x] \intersect Upvals # {} => x \in Closures
    BY <1>2, <1>3 DEF TypeOK
  <2>2. \A x \in Strings : refs'[x] = {}
    BY <1>2, <1>3 DEF TypeOK, Strings
  <2> QED
    BY <2>1, <2>2, <1>1, <1>2, <1>3 DEF TypeOK
<1>5. RootsAlive'
  BY <1>1, <1>2, <1>3, ConstantsAssumption DEF RootsAlive, Held
<1>6. Alloc \subseteq Obj
  BY HeldUpvaluesAlive
<1>7. DeadAreUnreferenced' /\ FreeIsClean' /\ ThreadsNotBlack'
  BY <1>1, <1>3, <1>6 DEF IInv, DeadAreUnreferenced, FreeIsClean, ThreadsNotBlack
<1>8. TriColor' /\ GraysListed'
  BY <1>1, <1>3, <1>6 DEF IInv, TriColor, GraysListed, IsWhite
<1>9. SweptIsWhite'
  BY <1>1 DEF IInv, SweptIsWhite
<1> QED
  BY <1>4, <1>5, <1>7, <1>8, <1>9 DEF IInv

(* One step of the sweep.                                                  *)
LEMMA SweepPreserves ==
  ASSUME IInv, Sweep
  PROVE  IInv'
<1>1. PICK S \in SUBSET unswept :
        /\ unswept' = unswept \ S
        /\ color' = SweepColor(S, color)
        /\ refs' = Cut(refs, Freed(S, color))
        /\ allgc' = allgc \ Freed(S, color)
        /\ finobj' = finobj \ Freed(S, color)
        /\ tobefnz' = tobefnz \ Freed(S, color)
  BY DEF Sweep, Chunks
<1>2. /\ TypeOK /\ RootsAlive /\ DeadAreUnreferenced /\ FreeIsClean /\ SweptIsWhite
      /\ mt' = mt /\ gcstate' = gcstate /\ gray' = gray /\ grayagain' = grayagain
      /\ finalizing' = finalizing /\ user' = user /\ emerg' = emerg /\ unswept # {}
  BY DEF IInv, Sweep, graylists, control
<1>3. issweepphase /\ ~keepinvariant
  BY <1>2 DEF SweptIsWhite, issweepphase, SweepStates, keepinvariant
<1>4. /\ Alloc' = Alloc \ Freed(S, color) /\ Alloc \subseteq Obj
      /\ Freed(S, color) \subseteq S
      /\ \A x \in S : x \in Freed(S, color) <=> color[x] = "otherwhite"
      /\ unswept \subseteq Obj
  BY <1>1, <1>2 DEF Alloc, Freed, TypeOK, Tables
<1>5. /\ refs' \in [Obj -> SUBSET Obj]
      /\ \A x \in Obj : refs'[x] = IF x \in Freed(S, color) THEN {} ELSE refs[x]
  BY <1>1, <1>2 DEF Cut, TypeOK
<1>6. /\ color' \in [Obj -> Colors]
      /\ \A x \in Obj : color'[x] = IF x \in S THEN "white" ELSE color[x]
  BY <1>1, <1>2 DEF SweepColor, TypeOK, Colors
<1>7. Alive' = Alive
  BY <1>4, <1>6 DEF Alive, Dead
<1>8. TypeOK'
  <2>1. \A x \in Obj : refs'[x] \intersect Upvals # {} => x \in Closures
    BY <1>2, <1>5 DEF TypeOK
  <2>2. \A x \in Strings : refs'[x] = {}
    BY <1>2, <1>5 DEF TypeOK, Strings
  <2> QED
    BY <2>1, <2>2, <1>1, <1>2, <1>5, <1>6 DEF TypeOK
<1>9. RootsAlive'
  <2>1. Held' \subseteq Held
    BY <1>2, <1>5, ConstantsAssumption DEF Held
  <2>2. {MainThread, Registry} \subseteq allgc'
    BY <1>1, <1>2, <1>4 DEF RootsAlive, Held, Alive, Dead, Freed
  <2> QED
    BY <2>1, <2>2, <1>2, <1>7 DEF RootsAlive
<1>10. DeadAreUnreferenced'
  <2>1. \A x \in Alive' : refs'[x] \subseteq Alive'
    BY <1>2, <1>4, <1>5, <1>7 DEF DeadAreUnreferenced, Alive, Dead
  <2>2. \A x \in Alloc' : color'[x] = "otherwhite" =>
          gcstate' = "swpallgc" /\ x \in unswept' /\ x \in allgc'
    BY <1>1, <1>2, <1>4, <1>6 DEF DeadAreUnreferenced
  <2> QED
    BY <2>1, <2>2 DEF DeadAreUnreferenced, Alive, Dead
<1>11. FreeIsClean'
  BY <1>2, <1>4, <1>5, <1>6 DEF FreeIsClean
<1>12. TriColor' /\ GraysListed' /\ ThreadsNotBlack'
  BY <1>2, <1>3 DEF TriColor, GraysListed, ThreadsNotBlack, keepinvariant
<1>13. SweptIsWhite'
  <2>1. CASE gcstate = "swpallgc"
    BY <2>1, <1>1, <1>2, <1>4, <1>6 DEF SweptIsWhite, issweepphase, SweepStates, TypeOK
  <2>2. CASE gcstate = "swpfinobj"
    BY <2>2, <1>1, <1>2, <1>4, <1>6, HeldUpvaluesAlive
    DEF SweptIsWhite, issweepphase, SweepStates, Alloc
  <2>3. CASE gcstate = "swptobefnz"
    BY <2>3, <1>1, <1>2, <1>4, <1>6, HeldUpvaluesAlive
    DEF SweptIsWhite, issweepphase, SweepStates, Alloc
  <2> QED
    BY <2>1, <2>2, <2>3, <1>2, <1>3 DEF SweptIsWhite, issweepphase, SweepStates
<1> QED
  BY <1>8, <1>9, <1>10, <1>11, <1>12, <1>13 DEF IInv

(* The roots are marked at the start of a cycle.                           *)
LEMMA RestartPreserves ==
  ASSUME IInv, Restart
  PROVE  IInv'
<1> DEFINE roots == {MainThread, Registry} \union mt \union tobefnz
           c == MarkColor(roots, color)
<1>1. /\ refs' = refs /\ mt' = mt /\ gcstate = "pause" /\ gcstate' = "propagate"
      /\ allgc' = allgc /\ finobj' = finobj /\ tobefnz' = tobefnz
      /\ unswept' = unswept /\ finalizing' = finalizing /\ user' = user /\ emerg' = emerg
      /\ color' = c /\ gray' = ToGray(roots) /\ grayagain' = {}
  BY DEF Restart, heap, lists, control
<1>2. /\ TypeOK /\ RootsAlive /\ DeadAreUnreferenced /\ FreeIsClean /\ SweptIsWhite
      /\ unswept = {} /\ \A x \in Obj : color[x] = "white"
  BY <1>1 DEF IInv, SweptIsWhite, FreeIsClean
<1>3. /\ Alloc' = Alloc /\ Alloc \subseteq Obj /\ keepinvariant'
      /\ roots \subseteq Alloc /\ Alive = Alloc
      /\ \A x \in Alloc : refs[x] \subseteq Alloc
  BY <1>1, <1>2, HeldUpvaluesAlive
  DEF Alloc, keepinvariant, RootsAlive, Held, Alive, Dead
<1>4. MarkOutcome(roots, c)
  BY <1>2, <1>3, MarkEffect
<1> HIDE DEF c, roots
<1>5. /\ c \in [Obj -> Colors]
      /\ \A x \in Obj : c[x] \in {"white", "gray", "black"}
      /\ \A x \in Obj : c[x] # "white" => x \in Alloc
      /\ \A x \in Obj : c[x] = "gray" <=> x \in ToGray(roots)
      /\ ToGray(roots) \subseteq Alloc
      /\ \A x \in Obj : c[x] = "black" =>
           x \notin Threads /\ \A y \in refs[x] : c[y] \in {"gray", "black"}
  BY <1>2, <1>3, <1>4 DEF MarkOutcome, Colors
<1>6. Alive' = Alive
  BY <1>1, <1>3, <1>5 DEF Alive, Dead
<1>7. TypeOK'
  BY <1>1, <1>2, <1>3, <1>5 DEF TypeOK, GCStates
<1>8. RootsAlive' /\ FreeIsClean'
  BY <1>1, <1>2, <1>3, <1>5, <1>6 DEF RootsAlive, Held, FreeIsClean, Colors
<1>9. DeadAreUnreferenced'
  BY <1>1, <1>2, <1>3, <1>5 DEF DeadAreUnreferenced
<1>10. TriColor'
  BY <1>1, <1>3, <1>5 DEF TriColor, IsWhite
<1>11. GraysListed' /\ ThreadsNotBlack' /\ SweptIsWhite'
  BY <1>1, <1>2, <1>3, <1>5
  DEF GraysListed, ThreadsNotBlack, SweptIsWhite, issweepphase, SweepStates, Threads
<1> QED
  BY <1>7, <1>8, <1>9, <1>10, <1>11 DEF IInv

(* One gray object is traversed.                                           *)
LEMMA PropagatePreserves ==
  ASSUME IInv, NEW o \in gray, Propagate(o)
  PROVE  IInv'
<1> DEFINE S == StrongRefs[o]
           c == MarkColor(S, color)
           revisit == o \in Threads \union WeakTables
<1>1. /\ refs' = refs /\ mt' = mt /\ gcstate = "propagate" /\ gcstate' = gcstate
      /\ allgc' = allgc /\ finobj' = finobj /\ tobefnz' = tobefnz
      /\ unswept' = unswept /\ finalizing' = finalizing /\ user' = user /\ emerg' = emerg
      /\ color' = [c EXCEPT ![o] = IF revisit THEN "gray" ELSE "black"]
      /\ gray' = (gray \ {o}) \union ToGray(S)
      /\ grayagain' = IF revisit THEN grayagain \union {o} ELSE grayagain
  BY DEF Propagate, heap, lists, control
<1>2. /\ TypeOK /\ RootsAlive /\ DeadAreUnreferenced /\ FreeIsClean /\ SweptIsWhite
      /\ TriColor /\ GraysListed /\ ThreadsNotBlack /\ keepinvariant /\ keepinvariant'
      /\ \A x \in Alloc : color[x] # "otherwhite"
  BY <1>1 DEF IInv, keepinvariant, DeadAreUnreferenced
<1>3. /\ Alloc' = Alloc /\ Alloc \subseteq Obj /\ Alive = Alloc
      /\ o \in Alloc /\ color[o] = "gray" /\ o \notin grayagain
      /\ \A x \in Alloc : refs[x] \subseteq Alloc
  BY <1>1, <1>2, HeldUpvaluesAlive DEF Alloc, Alive, Dead, GraysListed
<1>4. /\ S \subseteq Alloc
      /\ S = IF o \in WeakTables THEN {} ELSE refs[o]
  BY <1>2, <1>3 DEF StrongRefs, Cut, TypeOK
<1>5. MarkOutcome(S, c)
  BY <1>2, <1>3, <1>4, MarkEffect
<1>6. \A x \in ToGray(S) : IsWhite(x)
  BY DEF ToGray, ToMark
<1> HIDE DEF c, S
<1>7. /\ c \in [Obj -> Colors]
      /\ \A x \in Obj : c[x] = color[x] \/ (IsWhite(x) /\ c[x] \in {"gray", "black"})
      /\ \A x \in S : c[x] \in {"gray", "black"}
      /\ \A x \in Obj : c[x] # color[x] => x \in Alloc
      /\ \A x \in Obj : c[x] = "gray" <=> color[x] = "gray" \/ x \in ToGray(S)
      /\ ToGray(S) \subseteq Alloc
      /\ \A x \in Obj : c[x] = "black" /\ color[x] # "black" =>
           x \notin Threads /\ \A y \in refs[x] : c[y] \in {"gray", "black"}
  BY <1>3, <1>4, <1>5 DEF MarkOutcome
<1>8. /\ color' \in [Obj -> Colors]
      /\ \A x \in Obj : x # o => color'[x] = c[x]
      /\ color'[o] = IF revisit THEN "gray" ELSE "black"
  BY <1>1, <1>3, <1>7 DEF Colors
<1> HIDE DEF revisit
<1>9. TypeOK'
  BY <1>1, <1>2, <1>3, <1>7, <1>8 DEF TypeOK
<1>10. \A x \in Alloc : color'[x] # "otherwhite"
  BY <1>2, <1>3, <1>7, <1>8
<1>11. RootsAlive' /\ DeadAreUnreferenced'
  BY <1>1, <1>2, <1>3, <1>10
  DEF RootsAlive, Held, Alive, Dead, DeadAreUnreferenced
<1>12. FreeIsClean'
  BY <1>1, <1>2, <1>3, <1>7, <1>8 DEF FreeIsClean
<1>13. TriColor'
  <2> SUFFICES ASSUME NEW x \in Alloc, color'[x] = "black", NEW y \in refs[x]
               PROVE  color'[y] \in {"gray", "black"}
    BY <1>1, <1>3 DEF TriColor, IsWhite
  <2>1. x \in Obj /\ y \in Obj
    BY <1>3
  <2>2. y = o => color'[y] \in {"gray", "black"}
    BY <1>8
  <2>3. c[y] \in {"gray", "black"} => color'[y] \in {"gray", "black"}
    BY <2>1, <2>2, <1>8
  <2>4. CASE x = o
    BY <2>3, <2>4, <1>4, <1>7, <1>8 DEF revisit
  <2>5. CASE x # o /\ color[x] = "black"
    <3>1. color[y] \in {"gray", "black"}
      BY <2>1, <2>5, <1>2 DEF TriColor, IsWhite, TypeOK, Colors
    <3> QED
      BY <3>1, <2>1, <2>3, <1>7
  <2>6. CASE x # o /\ color[x] # "black"
    BY <2>1, <2>3, <2>6, <1>7, <1>8
  <2> QED
    BY <2>4, <2>5, <2>6
<1>14. GraysListed'
  BY <1>1, <1>2, <1>3, <1>6, <1>7, <1>8 DEF GraysListed, IsWhite
<1>15. ThreadsNotBlack' /\ SweptIsWhite'
  BY <1>1, <1>2, <1>3, <1>7, <1>8
  DEF ThreadsNotBlack, SweptIsWhite, issweepphase, SweepStates, Threads, revisit
<1> QED
  BY <1>9, <1>11, <1>12, <1>13, <1>14, <1>15 DEF IInv
-----------------------------------------------------------------------------
(* What the atomic phase marks, finds pending, resurrects, keeps.          *)
Pending == tobefnz \union ToFinalize(Marked)
Reborn == Resurrected(Pending, Marked)
Kept == Marked \union Reborn \union WeakStrings(Marked \union Reborn)
KeptRefs == ClearedRefs(Marked, Reborn)

(* The marked objects hold the roots and, through strong references, all   *)
(* that their members hold.                                                *)
LEMMA MarkedIsClosed ==
  ASSUME IInv, keepinvariant
  PROVE  /\ Marked \subseteq Alloc
         /\ {MainThread, Registry} \union mt \union gray \union grayagain \subseteq Marked
         /\ \A x \in Marked : StrongRefs[x] \subseteq Marked
<1>1. /\ TypeOK /\ Alloc \subseteq Obj /\ FreeIsClean /\ GraysListed /\ TriColor
      /\ {MainThread, Registry} \union mt \subseteq Alloc
  BY HeldUpvaluesAlive DEF IInv, RootsAlive, Held, Alive
<1>2. \A x \in Alloc : refs[x] \subseteq Alloc
  BY <1>1 DEF IInv, DeadAreUnreferenced, keepinvariant
<1> DEFINE black == {o \in Obj : color[o] = "black"}
           start == {MainThread, Registry} \union mt \union gray \union grayagain
           E == Cut(StrongRefs, black)
<1>3. Marked = NonWhite \union Closure(start, E, Obj)
  BY DEF Marked
<1>4. /\ \A x \in Obj : E[x] \subseteq refs[x] /\ StrongRefs[x] \subseteq refs[x]
      /\ \A x \in Obj : color[x] # "black" => E[x] = StrongRefs[x]
      /\ \A x \in Obj : refs[x] \subseteq Obj
  BY <1>1 DEF Cut, StrongRefs, TypeOK
<1>5. start \subseteq Alloc
  BY <1>1 DEF GraysListed
<1> HIDE DEF E
<1>6. Marked \subseteq Alloc
  <2>1. Closure(start, E, Obj) \subseteq Alloc
    BY <1>1, <1>2, <1>4, <1>5, ClosureLeast
  <2>2. NonWhite \subseteq Alloc
    BY <1>1 DEF NonWhite, IsWhite, FreeIsClean
  <2> QED
    BY <2>1, <2>2, <1>3
<1>7. start \subseteq Marked
  BY <1>1, <1>3, <1>5, ClosureContains
<1>8. \A x \in Marked : StrongRefs[x] \subseteq Marked
  <2> SUFFICES ASSUME NEW x \in Marked, NEW y \in StrongRefs[x] PROVE y \in Marked
    OBVIOUS
  <2>1. x \in Obj /\ y \in refs[x] /\ y \in Obj
    BY <1>1, <1>4, <1>6
  <2>2. CASE color[x] = "black"
    BY <2>1, <2>2, <1>1, <1>3, <1>6 DEF TriColor, NonWhite
  <2>3. CASE color[x] # "black"
    <3>1. x \in Closure(start, E, Obj)
      <4>1. color[x] = "gray" \/ IsWhite(x)
        BY <1>1, <2>1, <2>3 DEF TypeOK, Colors, IsWhite
      <4>2. CASE color[x] = "gray"
        <5>1. x \in start
          BY <4>2, <1>1, <1>6 DEF GraysListed
        <5> QED
          BY <5>1, <1>1, <1>5, ClosureContains
      <4>3. CASE IsWhite(x)
        BY <4>3, <1>3 DEF NonWhite
      <4> QED
        BY <4>1, <4>2, <4>3
    <3>2. E[x] \subseteq Closure(start, E, Obj) /\ y \in E[x]
      BY <3>1, <1>4, <2>1, <2>3, ClosureClosed
    <3> QED
      BY <3>2, <1>3
  <2> QED
    BY <2>2, <2>3
<1> QED
  BY <1>6, <1>7, <1>8

(* What the atomic phase marks is allocated, holds everything that has to  *)
(* stay, and is closed under the references it keeps.                      *)
LEMMA AtomicMarks ==
  ASSUME IInv, keepinvariant
  PROVE  /\ Kept \subseteq Alloc
         /\ NonWhite \subseteq Kept
         /\ {MainThread, Registry} \union mt \subseteq Kept
         /\ Pending \subseteq Reborn
         /\ \A x \in Kept : KeptRefs[x] \subseteq Kept
<1>1. /\ TypeOK /\ Alloc \subseteq Obj
      /\ finobj \subseteq Alloc /\ tobefnz \subseteq Alloc
  BY HeldUpvaluesAlive DEF IInv, Alloc
<1>2. \A x \in Alloc : refs[x] \subseteq Alloc
  BY <1>1 DEF IInv, DeadAreUnreferenced, keepinvariant
<1> DEFINE F == Cut(StrongRefs, Marked)
<1>3. /\ Reborn = Closure(Pending, F, Obj)
      /\ NonWhite \subseteq Marked
  BY DEF Marked, Reborn, Resurrected
<1>4. /\ \A x \in Obj : F[x] \subseteq refs[x]
      /\ \A x \in Obj : x \notin WeakTables /\ x \notin Marked => F[x] = refs[x]
      /\ \A x \in Obj : x \notin WeakTables => StrongRefs[x] = refs[x]
      /\ \A x \in Obj : refs[x] \subseteq Obj
  BY <1>1 DEF Cut, StrongRefs, TypeOK
<1>5. Pending \subseteq Alloc
  BY <1>1 DEF Pending, ToFinalize
<1> HIDE DEF F
<1>6. /\ Marked \subseteq Alloc
      /\ {MainThread, Registry} \union mt \subseteq Marked
      /\ \A x \in Marked : StrongRefs[x] \subseteq Marked
  BY MarkedIsClosed
<1>7. Reborn \subseteq Alloc
  BY <1>1, <1>2, <1>3, <1>4, <1>5, ClosureLeast
<1>a. \A W : \A y : y \in WeakStrings(W) <=>
        y \in Strings /\ \E w \in W : w \in WeakTables /\ y \in refs[w]
  BY DEF WeakStrings
<1>b. Kept = Marked \union Reborn \union WeakStrings(Marked \union Reborn)
  BY DEF Kept
<1>8. Kept \subseteq Alloc
  BY <1>2, <1>6, <1>7, <1>a, <1>b
<1>9. Pending \subseteq Reborn
  BY <1>1, <1>3, <1>5, ClosureContains
<1>10. \A x \in Kept : KeptRefs[x] \subseteq Kept
  <2> SUFFICES ASSUME NEW x \in Kept, NEW y \in KeptRefs[x] PROVE y \in Kept
    OBVIOUS
  <2>1. x \in Obj /\ y \in refs[x] /\ y \in Obj
    BY <1>1, <1>4, <1>8 DEF KeptRefs, ClearedRefs
  <2>2. x \notin Strings
    BY <2>1, <1>1 DEF TypeOK
  <2>3. x \in Marked \union Reborn
    BY <2>2, <1>a, <1>b
  <2>4. CASE x \in WeakTables
    <3>1. y \in Strings \union Marked \union Reborn
      BY <2>1, <2>3, <2>4 DEF KeptRefs, ClearedRefs
    <3> QED
      BY <3>1, <2>1, <2>3, <2>4, <1>a, <1>b
  <2>5. CASE x \notin WeakTables /\ x \in Marked
    BY <2>1, <2>5, <1>4, <1>6, <1>b
  <2>6. CASE x \notin WeakTables /\ x \notin Marked
    <3>1. x \in Closure(Pending, F, Obj)
      BY <2>3, <2>6, <1>3
    <3>2. F[x] \subseteq Closure(Pending, F, Obj) /\ y \in F[x]
      BY <3>1, <1>4, <2>1, <2>6, ClosureClosed
    <3> QED
      BY <3>2, <1>3, <1>b
  <2> QED
    BY <2>4, <2>5, <2>6
<1> QED
  BY <1>3, <1>6, <1>8, <1>9, <1>10, <1>b

(* The atomic phase preserves the invariant: after the flip only what it   *)
(* did not mark is dead.                                                   *)
LEMMA AtomicPreserves ==
  ASSUME IInv, Atomic
  PROVE  IInv'
<1>1. keepinvariant
  BY DEF Atomic, keepinvariant
<1> DEFINE c == FlippedColor(Kept)
<1>2. /\ tobefnz' = Pending
      /\ finobj' = finobj \ Pending
      /\ gray' = {}
      /\ grayagain' = Kept \intersect WeakTables
      /\ EnterSweep(allgc, c, KeptRefs)
      /\ mt' = mt /\ finalizing' = finalizing /\ user' = user /\ emerg' = emerg
  BY DEF Atomic, control, Pending, Reborn, Kept, KeptRefs
<1>3. /\ Kept \subseteq Alloc
      /\ NonWhite \subseteq Kept
      /\ {MainThread, Registry} \union mt \subseteq Kept
      /\ Pending \subseteq Reborn
      /\ \A x \in Kept : KeptRefs[x] \subseteq Kept
  BY <1>1, AtomicMarks
<1>4. /\ TypeOK /\ Alloc \subseteq Obj /\ FreeIsClean
      /\ {MainThread, Registry} \subseteq allgc
      /\ \A x \in Alloc : color[x] # "otherwhite"
  BY <1>1, HeldUpvaluesAlive
  DEF IInv, RootsAlive, DeadAreUnreferenced, keepinvariant
<1>5. /\ Reborn \subseteq Kept /\ Marked \subseteq Kept
      /\ Pending \union (finobj \ Pending) = finobj \union tobefnz
      /\ finobj \ Pending \subseteq Marked
  BY <1>4 DEF TypeOK, Pending, ToFinalize, Kept
<1>6. /\ c \in [Obj -> Colors]
      /\ \A x \in Obj : x \in Kept => c[x] # "otherwhite"
      /\ \A x \in Obj : x \notin Alloc => c[x] = color[x]
      /\ \A x \in Alloc : x \notin Kept => c[x] = "otherwhite"
  <2>1. \A x \in Alloc : x \notin Kept => color[x] = "white"
    BY <1>3, <1>4 DEF NonWhite, IsWhite
  <2> QED
    BY <2>1, <1>3, <1>4 DEF FlippedColor, TypeOK, Colors
<1>7. /\ KeptRefs \in [Obj -> SUBSET Obj]
      /\ \A x \in Obj : KeptRefs[x] \subseteq refs[x]
  BY <1>4 DEF KeptRefs, ClearedRefs, TypeOK
<1> HIDE DEF c
<1>8. \A x \in Obj \ Alloc : KeptRefs[x] = {} /\ c[x] = "white"
  BY <1>4, <1>6, <1>7 DEF FreeIsClean
<1>9. \A x \in Alloc : c[x] # "otherwhite" =>
        \A y \in KeptRefs[x] : y \in Alloc /\ c[y] # "otherwhite"
  BY <1>3, <1>4, <1>6
<1>10. \A x \in {MainThread, Registry} \union mt : c[x] # "otherwhite"
  BY <1>3, <1>4, <1>6
<1>11. /\ \A x \in finobj' \union tobefnz' : c[x] # "otherwhite"
       /\ finobj' \union tobefnz' = finobj \union tobefnz
       /\ finobj' \intersect tobefnz' = {}
  BY <1>2, <1>3, <1>4, <1>5, <1>6
<1>12. /\ gray' \subseteq Obj /\ grayagain' \subseteq Obj
       /\ finalizing' \subseteq Obj /\ user' \in 0..3 /\ emerg' \in 0..3
  BY <1>2, <1>4 DEF TypeOK, WeakTables
<1> QED
  BY <1>2, <1>4, <1>6, <1>7, <1>8, <1>9, <1>10, <1>11, <1>12, EnterSweepPreserves

-----------------------------------------------------------------------------
(* Every step of the program, whatever it interleaves with, preserves the  *)
(* invariant.                                                              *)
LEMMA ProgramPreserves ==
  ASSUME IInv, Program
  PROVE  IInv'
<1>1. CASE \E o \in Obj \ Alloc, p \in Held : New(o, p)
  BY <1>1, NewPreserves
<1>2. CASE \E p \in Held \union HeldUpvalues : \E v \in refs[p] : Load(p, v)
  BY <1>2, LoadPreserves
<1>3. CASE \E p, v \in Held : Store(p, v)
  BY <1>3, StorePreserves
<1>4. CASE \E u \in HeldUpvalues, v \in Held : SetUpvalue(u, v)
  BY <1>4, SetUpvaluePreserves
<1>5. CASE \E d \in Held, u \in HeldUpvalues : ShareUpvalue(d, u)
  BY <1>5, ShareUpvaluePreserves
<1>6. CASE \E new \in SUBSET HeldTables : SetGlobalMetatable(new)
  BY <1>6, SetGlobalMetatablePreserves
<1>7. CASE \E o, m \in HeldTables : SetFinalizer(o, m)
  BY <1>7, SetFinalizerPreserves
<1>8. CASE \E p \in Held \union HeldUpvalues : \E v \in refs[p] : Drop(p, v)
  BY <1>8, DropPreserves
<1>9. Growth => \/ \E o \in Obj \ Alloc, p \in Held : New(o, p)
                \/ \E p \in Held \union HeldUpvalues : \E v \in refs[p] : Load(p, v)
                \/ \E p, v \in Held : Store(p, v)
                \/ \E u \in HeldUpvalues, v \in Held : SetUpvalue(u, v)
                \/ \E new \in SUBSET HeldTables : SetGlobalMetatable(new)
                \/ \E o, m \in HeldTables : SetFinalizer(o, m)
  <2>1. \A m \in HeldTables : {m} \in SUBSET HeldTables
    OBVIOUS
  <2> QED
    BY <2>1 DEF Growth, Fresh
<1>10. SetGlobalMetatable({}) => \E new \in SUBSET HeldTables : SetGlobalMetatable(new)
  OBVIOUS
<1> QED
  BY <1>1, <1>2, <1>3, <1>4, <1>5, <1>6, <1>7, <1>8, <1>9, <1>10 DEF Program

(* Every step of the collector preserves the invariant.                    *)
LEMMA CollectorPreserves ==
  ASSUME IInv, Collector
  PROVE  IInv'
<1>1. CASE Restart
  BY <1>1, RestartPreserves
<1>2. CASE \E o \in gray : Propagate(o)
  BY <1>2, PropagatePreserves
<1>3. CASE EndPropagate \/ NextSweep \/ EndCycle \/ EndStage
  BY <1>3, PhaseStepPreserves
<1>4. CASE Atomic
  BY <1>4, AtomicPreserves
<1>5. CASE Sweep
  BY <1>5, SweepPreserves
<1>6. CASE \E o \in tobefnz : CallFinalizer(o)
  BY <1>6, CallFinalizerPreserves
<1> QED
  BY <1>1, <1>2, <1>3, <1>4, <1>5, <1>6 DEF Collector

(* A step that changes nothing preserves the invariant.                    *)
LEMMA StutterPreserves ==
  ASSUME IInv, UNCHANGED vars
  PROVE  IInv'
<1>1. /\ refs' = refs /\ mt' = mt /\ color' = color /\ gcstate' = gcstate
      /\ allgc' = allgc /\ finobj' = finobj /\ tobefnz' = tobefnz
      /\ unswept' = unswept /\ gray' = gray /\ grayagain' = grayagain
      /\ finalizing' = finalizing /\ user' = user /\ emerg' = emerg
  BY DEF vars
<1>2. /\ Alloc' = Alloc /\ Alive' = Alive /\ Held' = Held
      /\ keepinvariant' = keepinvariant /\ issweepphase' = issweepphase
  BY <1>1 DEF Alloc, Alive, Dead, Held, keepinvariant, issweepphase
<1>3. TypeOK' /\ RootsAlive' /\ DeadAreUnreferenced' /\ FreeIsClean'
  BY <1>1, <1>2 DEF IInv, TypeOK, RootsAlive, DeadAreUnreferenced, FreeIsClean
<1>4. TriColor' /\ GraysListed' /\ ThreadsNotBlack' /\ SweptIsWhite'
  BY <1>1, <1>2 DEF IInv, TriColor, GraysListed, ThreadsNotBlack, SweptIsWhite, IsWhite
<1> QED
  BY <1>3, <1>4 DEF IInv

(* The invariant holds in every reachable state: what the interleaving of  *)
(* the program with the collector of lgc.c can never break.                *)
THEOREM Inductive == Spec => []IInv
<1>1. IInv /\ [Next]_vars => IInv'
  BY ProgramPreserves, CollectorPreserves, FinalizerReturnsPreserves,
     StartFullPreserves, StutterPreserves DEF Next
<1> QED
  BY InitIInv, <1>1, PTL DEF Spec

(* What the program or a finalizer needs is alive: it can be reached from  *)
(* what is alive, and nothing alive points to the dead.                    *)
LEMMA NeededIsAlive ==
  ASSUME IInv
  PROVE  NoDangling /\ Needed \subseteq Alive
<1>1. /\ Alive \subseteq Alloc /\ Alloc \subseteq Obj /\ Held \subseteq Alive
      /\ \A p \in Alive : refs[p] \subseteq Alive
  BY HeldUpvaluesAlive
<1>2. {MainThread, Registry} \union mt \subseteq Alive
  BY <1>1 DEF Held
<1>3. finobj \union tobefnz \subseteq Alive
  BY DEF IInv, DeadAreUnreferenced, TypeOK, Alive, Dead, Alloc
<1>4. Needed \subseteq Alive
  BY <1>1, <1>2, <1>3, ClosureLeast DEF Needed
<1> QED
  BY <1>1, <1>4 DEF NoDangling

(* The variables stay in their types, with disjoint object lists.          *)
THEOREM TypeCorrect == Spec => []TypeOK
BY Inductive, PTL DEF IInv

(* No use after free: everything the program or a pending finalizer can    *)
(* reach is allocated, at any interleaving with the collector.             *)
THEOREM NothingDangles == Spec => []NoDangling
<1>1. IInv => NoDangling
  BY NeededIsAlive
<1> QED
  BY <1>1, Inductive, PTL

(* The write barriers keep the tri-colour invariant while marking, and no  *)
(* gray object escapes the gray lists or is in both.                       *)
THEOREM MarkingIsSound == Spec => []MarksAreSound
<1>1. IInv => MarksAreSound
  BY DEF IInv, MarksAreSound
<1> QED
  BY <1>1, Inductive, PTL

(* The dead are in the unswept part of 'allgc' and out of reach, and a     *)
(* cycle ends with a heap that is white all over.                          *)
THEOREM SweepingIsSound == Spec => []SweepIsSound
<1>1. IInv => CycleEndsWhite
  BY DEF IInv, SweptIsWhite, CycleEndsWhite
<1>2. IInv => SweepIsSound
  BY <1>1 DEF IInv, SweepIsSound
<1> QED
  BY <1>2, Inductive, PTL

-----------------------------------------------------------------------------
(* Full collections leave no garbage.  Stage 2 of one runs a whole cycle   *)
(* while nothing else runs: what it marks is needed, what survives the     *)
(* flip was marked, and what is dead is swept.                             *)

(* The second stage of a full collection.                                  *)
Collecting == emerg = 2 \/ (emerg = 0 /\ user = 2)

(* What must stay whatever is cleared from weak tables.                    *)
NeededRoots == {MainThread, Registry} \union mt \union finobj \union tobefnz
StronglyNeeded == Closure(NeededRoots, StrongRefs, Obj)

(* While a full collection runs its cycle, only what is needed is marked,  *)
(* and only what is needed survives.                                       *)
FullInv ==
  /\ user = 2 => emerg = 0 /\ finalizing = {}
  /\ Collecting /\ keepinvariant => NonWhite \subseteq StronglyNeeded
  /\ Collecting /\ gcstate \in SweepStates \union {"callfin"} => Alive \subseteq Needed

-----------------------------------------------------------------------------
(* The program rests during a full collection that the program asked for.  *)
LEMMA NobodyElseRuns ==
  ASSUME FullInv, Running
  PROVE  ~Collecting /\ user # 2
BY DEF FullInv, Running, Collecting

(* The roots are objects, held by their closures.                          *)
LEMMA RootsNeeded ==
  ASSUME IInv
  PROVE  /\ NeededRoots \subseteq Alive /\ NeededRoots \subseteq Obj
         /\ NeededRoots \subseteq StronglyNeeded /\ NeededRoots \subseteq Needed
         /\ Needed = Closure(NeededRoots, refs, Obj)
         /\ StronglyNeeded \subseteq Obj /\ Needed \subseteq Obj
<1>1. /\ Alive \subseteq Alloc /\ Alloc \subseteq Obj /\ Held \subseteq Alive
  BY HeldUpvaluesAlive
<1>2. finobj \union tobefnz \subseteq Alive
  BY DEF IInv, DeadAreUnreferenced, TypeOK, Alive, Dead, Alloc
<1>3. NeededRoots \subseteq Alive
  BY <1>1, <1>2 DEF Held, NeededRoots
<1>4. Needed = Closure(NeededRoots, refs, Obj)
  BY DEF Needed, NeededRoots
<1>5. NeededRoots \subseteq Obj
  BY <1>1, <1>3
<1> QED
  BY <1>3, <1>4, <1>5, ClosureContains DEF StronglyNeeded, Closure

(* Marking needed objects marks nothing else.                              *)
LEMMA MarksAreNeeded ==
  ASSUME IInv, NEW S \in SUBSET Obj, S \subseteq StronglyNeeded
  PROVE  ToMark(S) \subseteq StronglyNeeded
<1> SUFFICES ASSUME NEW o \in ToMark(S), o \notin S
             PROVE  o \in StronglyNeeded
  OBVIOUS
<1>1. PICK u \in S \intersect Upvals : o \in refs[u]
  BY DEF ToMark
<1>2. u \in Obj /\ StrongRefs[u] = refs[u] /\ refs[u] \subseteq Obj
  BY <1>1 DEF IInv, TypeOK, StrongRefs, Cut, Upvals, WeakTables
<1> QED
  BY <1>1, <1>2, ClosureClosed DEF StronglyNeeded

(* Nothing that was needed is lost when only dead objects lose references. *)
LEMMA NeededStays ==
  ASSUME IInv, UNCHANGED NeededRoots, refs' \in [Obj -> SUBSET Obj],
         \A x \in Alive : refs'[x] = refs[x]
  PROVE  Needed \subseteq Needed'
<1>1. /\ NeededRoots \subseteq Alive /\ NeededRoots \subseteq Obj
      /\ Needed = Closure(NeededRoots, refs, Obj)
  BY RootsNeeded
<1>2. Needed' = Closure(NeededRoots, refs', Obj)
  BY DEF Needed, NeededRoots
<1>3. /\ Alive \subseteq Obj
      /\ \A p \in Alive : refs[p] \subseteq Alive
  BY HeldUpvaluesAlive
<1> DEFINE C == Alive \intersect Closure(NeededRoots, refs', Obj)
<1>4. C \in SUBSET Obj /\ NeededRoots \subseteq C
  BY <1>1, <1>3, ClosureContains
<1>5. ASSUME NEW x \in C PROVE refs[x] \subseteq C
  <2>1. refs'[x] \subseteq Obj /\ refs'[x] = refs[x] /\ refs[x] \subseteq Alive
    BY <1>3
  <2> QED
    BY <2>1, ClosureClosed
<1>6. Closure(NeededRoots, refs, Obj) \subseteq C
  BY <1>4, <1>5, ClosureLeast
<1> QED
  BY <1>1, <1>2, <1>6

(* The marking steps mark needed objects only.                             *)
LEMMA MarkingIsTight ==
  ASSUME IInv, FullInv, Restart \/ \E o \in gray : Propagate(o)
  PROVE  FullInv'
<1>1. /\ refs' = refs /\ mt' = mt /\ finobj' = finobj /\ tobefnz' = tobefnz
      /\ gcstate' = "propagate" /\ user' = user /\ emerg' = emerg
      /\ finalizing' = finalizing
  BY DEF Restart, Propagate, heap, lists, control
<1>2. StronglyNeeded' = StronglyNeeded /\ Collecting' = Collecting
  BY <1>1 DEF StronglyNeeded, NeededRoots, StrongRefs, Collecting
<1>3. NonWhite' \subseteq NonWhite \union StronglyNeeded
      \/ ~Collecting
  <2>1. CASE Restart
    <3> DEFINE S == {MainThread, Registry} \union mt \union tobefnz
    <3>1. S \subseteq StronglyNeeded /\ S \in SUBSET Obj
      BY RootsNeeded DEF NeededRoots
    <3>2. color' = MarkColor(S, color)
      BY <2>1 DEF Restart
    <3>3. NonWhite' \subseteq NonWhite \union ToMark(S)
      BY <3>2 DEF NonWhite, IsWhite, MarkColor
    <3> QED
      BY <3>1, <3>3, MarksAreNeeded
  <2>2. CASE \E o \in gray : Propagate(o)
    <3>1. PICK o \in gray : Propagate(o)
      BY <2>2
    <3> DEFINE S == StrongRefs[o]
    <3>2. keepinvariant /\ o \in NonWhite /\ o \in Obj
      BY <3>1 DEF Propagate, keepinvariant, IInv, TypeOK, GraysListed, NonWhite, IsWhite
    <3>3. S \subseteq Obj
      BY <3>2 DEF IInv, TypeOK, StrongRefs, Cut
    <3>4. CASE Collecting
      <4>1. o \in StronglyNeeded
        BY <3>2, <3>4 DEF FullInv
      <4>2. S \subseteq StronglyNeeded
        BY <4>1, <3>3, ClosureClosed DEF StronglyNeeded
      <4>3. NonWhite' \subseteq NonWhite \union ToMark(S) \union {o}
        <5>1. ASSUME NEW x \in Obj, x # o, x \notin ToMark(S)
              PROVE  color'[x] = color[x]
          BY <3>1, <5>1 DEF Propagate, MarkColor
        <5> QED
          BY <5>1, <3>2 DEF NonWhite, IsWhite
      <4> QED
        BY <4>1, <4>2, <4>3, <3>3, MarksAreNeeded
    <3> QED
      BY <3>4
  <2> QED
    BY <2>1, <2>2
<1>4. Collecting => NonWhite \subseteq StronglyNeeded
  <2>1. CASE Restart
    <3>1. \A x \in Obj : color[x] = "white"
      BY <2>1 DEF Restart, IInv, SweptIsWhite, FreeIsClean
    <3> QED
      BY <3>1 DEF NonWhite, IsWhite
  <2>2. CASE \E o \in gray : Propagate(o)
    BY <2>2 DEF FullInv, Propagate, keepinvariant
  <2> QED
    BY <2>1, <2>2
<1> QED
  BY <1>1, <1>2, <1>3, <1>4 DEF FullInv, keepinvariant, SweepStates

(* What the atomic phase leaves: alive is what it marked, with the         *)
(* references that were not cleared, and nothing leaves the roots.         *)
LEMMA AtomicEffect ==
  ASSUME IInv, Atomic
  PROVE  /\ tobefnz' = Pending /\ finobj' = finobj \ Pending /\ mt' = mt
         /\ gcstate' = "swpallgc" /\ control' = control
         /\ finobj' \union tobefnz' = finobj \union tobefnz
         /\ Alloc' \subseteq Alloc /\ Alive' = Kept
         /\ \A x \in Alloc' : refs'[x] = KeptRefs[x]
<1>1. keepinvariant
  BY DEF Atomic, keepinvariant
<1> DEFINE c == FlippedColor(Kept)
<1>2. /\ tobefnz' = Pending
      /\ finobj' = finobj \ Pending
      /\ EnterSweep(allgc, c, KeptRefs)
      /\ mt' = mt /\ control' = control
  BY DEF Atomic, control, Pending, Reborn, Kept, KeptRefs
<1>3. /\ Kept \subseteq Alloc
      /\ NonWhite \subseteq Kept
      /\ Pending \subseteq Reborn
  BY <1>1, AtomicMarks
<1>4. /\ TypeOK /\ Alloc \subseteq Obj
      /\ \A x \in Alloc : color[x] # "otherwhite"
  BY <1>1, HeldUpvaluesAlive DEF IInv, DeadAreUnreferenced, keepinvariant
<1>5. /\ Reborn \subseteq Kept /\ Marked \subseteq Kept
      /\ finobj' \union tobefnz' = finobj \union tobefnz
      /\ finobj \union tobefnz \subseteq Kept
  BY <1>2, <1>3, <1>4 DEF TypeOK, Pending, ToFinalize, Kept
<1>6. /\ \A x \in Obj : x \in Kept => c[x] # "otherwhite"
      /\ \A x \in Alloc : x \notin Kept => c[x] = "otherwhite"
  <2>1. \A x \in Alloc : x \notin Kept => color[x] = "white"
    BY <1>3, <1>4 DEF NonWhite, IsWhite
  <2> QED
    BY <2>1, <1>3, <1>4 DEF FlippedColor, TypeOK, Colors
<1> HIDE DEF c
<1>7. PICK S \in SUBSET allgc :
        /\ gcstate' = "swpallgc"
        /\ allgc' = allgc \ Freed(S, c)
        /\ color' = SweepColor(S, c)
        /\ refs' = Cut(KeptRefs, Freed(S, c))
  BY <1>2 DEF EnterSweep, ToLive
<1>8. /\ Alloc' = (allgc \ Freed(S, c)) \union finobj \union tobefnz
      /\ Alloc' \subseteq Alloc
      /\ \A x \in S : x \in Freed(S, c) <=> c[x] = "otherwhite"
      /\ Freed(S, c) \subseteq S
  BY <1>5, <1>7 DEF Alloc, Freed
<1>9. DOMAIN KeptRefs = Obj
  BY DEF KeptRefs, ClearedRefs
<1>10. ASSUME NEW x \in Alloc' PROVE refs'[x] = KeptRefs[x]
  <2>1. x \notin Freed(S, c) /\ x \in Obj
    BY <1>4, <1>5, <1>6, <1>8
  <2> QED
    BY <2>1, <1>7, <1>9 DEF Cut
<1>11. Alive' = Kept
  <2>1. \A x \in Obj : color'[x] = IF x \in S THEN "white" ELSE c[x]
    BY <1>7 DEF SweepColor
  <2>2. Kept \subseteq Alloc'
    BY <1>3, <1>4, <1>6, <1>8 DEF Alloc
  <2> QED
    BY <2>1, <2>2, <1>3, <1>4, <1>6, <1>8, <1>5 DEF Alive, Dead, Alloc
<1> QED
  BY <1>2, <1>5, <1>7, <1>8, <1>10, <1>11

(* The atomic phase of the second stage keeps only what is needed: the     *)
(* marked objects are closed under strong references, so that clearing     *)
(* weak tables and freeing the others cuts no strong path to them.         *)
LEMMA AtomicIsTight ==
  ASSUME IInv, FullInv, Atomic
  PROVE  FullInv'
<1>1. /\ user' = user /\ emerg' = emerg /\ finalizing' = finalizing
      /\ gcstate = "enteratomic" /\ gcstate' = "swpallgc" /\ mt' = mt
      /\ finobj' \union tobefnz' = finobj \union tobefnz
      /\ Alive' = Kept /\ Alive' \subseteq Alloc' /\ keepinvariant
      /\ \A x \in Alloc' : refs'[x] = KeptRefs[x]
      /\ Alloc' \subseteq Alloc /\ tobefnz' = Pending
  BY AtomicEffect DEF control, Atomic, keepinvariant, Alive
<1>2. IInv' /\ TypeOK /\ TypeOK' /\ Alloc \subseteq Obj
  BY AtomicPreserves, HeldUpvaluesAlive DEF IInv
<1>3. /\ Kept \subseteq Alloc
      /\ NonWhite \subseteq Kept
      /\ {MainThread, Registry} \union mt \subseteq Kept
      /\ Pending \subseteq Reborn
      /\ \A x \in Kept : KeptRefs[x] \subseteq Kept
  BY <1>1, AtomicMarks
<1>4. /\ NeededRoots' = NeededRoots /\ NeededRoots \subseteq Kept
      /\ Needed' = Closure(NeededRoots, refs', Obj)
      /\ NeededRoots \subseteq Needed' /\ NeededRoots \subseteq Obj
  <2>1. NeededRoots' = NeededRoots
    BY <1>1 DEF NeededRoots
  <2>2. finobj \union tobefnz \subseteq Kept
    BY <1>3 DEF Pending, ToFinalize, Kept
  <2>3. Needed' = Closure(NeededRoots, refs', Obj)
    BY <2>1 DEF Needed, NeededRoots
  <2>4. NeededRoots \subseteq Kept /\ NeededRoots \subseteq Obj
    BY <1>3, <2>2, RootsNeeded DEF NeededRoots
  <2> QED
    BY <2>1, <2>3, <2>4, ClosureContains
<1>5. \A x \in Needed' : x \in Obj => refs'[x] \subseteq Needed'
  <2>1. \A x \in Obj : refs'[x] \subseteq Obj
    BY <1>2 DEF TypeOK
  <2> QED
    BY <2>1, <1>4, ClosureClosed
<1>6. StronglyNeeded \subseteq Needed'
  <2> DEFINE C == Kept \intersect Needed'
  <2>1. C \in SUBSET Obj /\ NeededRoots \subseteq C
    BY <1>2, <1>3, <1>4
  <2>2. ASSUME NEW x \in C PROVE StrongRefs[x] \subseteq C
    <3>1. x \in Obj /\ refs'[x] = KeptRefs[x]
      BY <1>1, <1>2, <1>3
    <3>2. CASE x \in WeakTables
      BY <3>1, <3>2 DEF StrongRefs, Cut, IInv, TypeOK
    <3>3. CASE x \notin WeakTables
      <4>1. StrongRefs[x] = refs'[x]
        BY <3>1, <3>3, <1>2 DEF StrongRefs, Cut, KeptRefs, ClearedRefs, TypeOK
      <4> QED
        BY <4>1, <3>1, <1>3, <1>5
    <3> QED
      BY <3>2, <3>3
  <2>3. StronglyNeeded \subseteq C
    BY <2>1, <2>2, ClosureLeast DEF StronglyNeeded
  <2> QED
    BY <2>3
<1>7. Collecting => Marked \union Reborn \subseteq StronglyNeeded
  <2> SUFFICES ASSUME Collecting PROVE Marked \union Reborn \subseteq StronglyNeeded
    OBVIOUS
  <2>1. NonWhite \subseteq StronglyNeeded /\ NeededRoots \subseteq StronglyNeeded
        /\ StronglyNeeded \in SUBSET Obj
    BY <1>1, RootsNeeded DEF FullInv
  <2>2. \A x \in StronglyNeeded : StrongRefs[x] \subseteq StronglyNeeded
    <3>1. \A x \in Obj : StrongRefs[x] \subseteq Obj
      BY <1>2 DEF TypeOK, StrongRefs, Cut
    <3> QED
      BY <3>1, <2>1, ClosureClosed DEF StronglyNeeded
  <2>3. \A N : \A x \in StronglyNeeded : Cut(StrongRefs, N)[x] \subseteq StronglyNeeded
    BY <2>1, <2>2, <1>2 DEF Cut, StrongRefs, TypeOK
  <2>4. Marked \subseteq StronglyNeeded
    <3> DEFINE black == {o \in Obj : color[o] = "black"}
               start == {MainThread, Registry} \union mt \union gray \union grayagain
    <3>1. start \subseteq StronglyNeeded
      BY <2>1, <1>1, <1>2 DEF NeededRoots, IInv, GraysListed, NonWhite, IsWhite
    <3>2. Closure(start, Cut(StrongRefs, black), Obj) \subseteq StronglyNeeded
      BY <2>1, <2>3, <3>1, ClosureLeast
    <3> QED
      BY <2>1, <3>2 DEF Marked
  <2>5. Reborn \subseteq StronglyNeeded
    <3>1. Pending \subseteq StronglyNeeded
      BY <2>1 DEF Pending, ToFinalize, NeededRoots
    <3> QED
      BY <2>1, <2>3, <3>1, ClosureLeast DEF Reborn, Resurrected
  <2> QED
    BY <2>4, <2>5
<1>8. Collecting => Kept \subseteq Needed'
  <2> SUFFICES ASSUME Collecting, NEW y \in Kept, y \notin Marked \union Reborn
               PROVE  y \in Needed'
    BY <1>6, <1>7
  <2>1. PICK w \in (Marked \union Reborn) \intersect WeakTables :
          y \in refs[w] /\ y \in Strings
    BY DEF Kept, WeakStrings
  <2>2. w \in Kept /\ w \in Obj /\ w \in Needed'
    BY <1>2, <1>3, <1>6, <1>7, <2>1 DEF Kept
  <2>3. y \in KeptRefs[w]
    BY <2>1, <2>2 DEF KeptRefs, ClearedRefs
  <2> QED
    BY <2>2, <2>3, <1>1, <1>5
<1> QED
  BY <1>1, <1>8 DEF FullInv, Collecting, keepinvariant

(* The sweep frees the dead, which nothing that is needed refers to.       *)
LEMMA SweepIsTight ==
  ASSUME IInv, FullInv, Sweep
  PROVE  FullInv'
<1>1. PICK S \in SUBSET unswept :
        /\ color' = SweepColor(S, color)
        /\ refs' = Cut(refs, Freed(S, color))
        /\ allgc' = allgc \ Freed(S, color)
        /\ finobj' = finobj \ Freed(S, color)
        /\ tobefnz' = tobefnz \ Freed(S, color)
  BY DEF Sweep, Chunks
<1>2. /\ mt' = mt /\ gcstate' = gcstate /\ user' = user /\ emerg' = emerg
      /\ finalizing' = finalizing /\ unswept # {}
  BY DEF Sweep, control
<1>3. gcstate \in SweepStates /\ ~keepinvariant
  BY <1>2 DEF IInv, SweptIsWhite, issweepphase, SweepStates, keepinvariant
<1>4. TypeOK /\ Alloc \subseteq Obj /\ S \subseteq Obj
  BY HeldUpvaluesAlive DEF IInv, TypeOK
<1>5. \A x \in Freed(S, color) : x \in S /\ color[x] = "otherwhite"
  BY DEF Freed
<1>6. finobj' = finobj /\ tobefnz' = tobefnz /\ NeededRoots' = NeededRoots
  <2>1. finobj' = finobj /\ tobefnz' = tobefnz
    BY <1>1, <1>4, <1>5 DEF IInv, DeadAreUnreferenced, TypeOK, Alloc
  <2> QED
    BY <2>1, <1>2 DEF NeededRoots
<1>7. /\ refs' \in [Obj -> SUBSET Obj]
      /\ \A x \in Alive : refs'[x] = refs[x]
  BY <1>1, <1>4, <1>5 DEF TypeOK, Cut, Alive, Dead
<1>8. Alive' \subseteq Alive
  <2>1. /\ Alloc' = Alloc \ Freed(S, color)
        /\ \A x \in Obj : color'[x] = IF x \in S THEN "white" ELSE color[x]
    BY <1>1 DEF Alloc, SweepColor
  <2> QED
    BY <2>1, <1>4 DEF Alive, Dead, Freed
<1>9. Needed \subseteq Needed'
  BY <1>6, <1>7, NeededStays
<1> QED
  BY <1>2, <1>3, <1>8, <1>9 DEF FullInv, Collecting, keepinvariant

(* The other steps of the collector change phases and stages only, or call *)
(* a finalizer, which the second stage does not.                           *)
LEMMA PhasesAreTight ==
  ASSUME IInv, FullInv,
         EndPropagate \/ NextSweep \/ EndCycle \/ \E o \in tobefnz : CallFinalizer(o)
  PROVE  FullInv'
<1>1. CASE EndPropagate \/ NextSweep
  <2>1. /\ refs' = refs /\ mt' = mt /\ color' = color /\ allgc' = allgc
        /\ finobj' = finobj /\ tobefnz' = tobefnz
        /\ user' = user /\ emerg' = emerg /\ finalizing' = finalizing
    BY <1>1 DEF EndPropagate, NextSweep, heap, lists, control
  <2>2. /\ NonWhite' = NonWhite /\ StronglyNeeded' = StronglyNeeded
        /\ Needed' = Needed /\ Alive' = Alive /\ Collecting' = Collecting
    BY <2>1 DEF NonWhite, IsWhite, StronglyNeeded, StrongRefs, NeededRoots,
                Needed, Alive, Alloc, Dead, Collecting
  <2>3. \/ keepinvariant /\ keepinvariant' /\ gcstate' = "enteratomic"
        \/ /\ gcstate \in SweepStates /\ ~keepinvariant'
    BY <1>1 DEF EndPropagate, NextSweep, keepinvariant, issweepphase, SweepStates
  <2> QED
    BY <2>1, <2>2, <2>3 DEF FullInv, SweepStates
<1>2. CASE EndCycle
  <2>1. gcstate' = "pause" /\ user' = user /\ emerg' = emerg /\ finalizing' = finalizing
    BY <1>2 DEF EndCycle, control
  <2> QED
    BY <2>1 DEF FullInv, keepinvariant, SweepStates
<1>3. CASE \E o \in tobefnz : CallFinalizer(o)
  <2>1. /\ user' = user /\ emerg' = emerg /\ gcstate = "callfin" /\ emerg = 0
        /\ user > 0 => gcstate # Target(user)
    BY <1>3 DEF CallFinalizer, CollectorRuns
  <2>2. user # 2
    BY <2>1 DEF Target
  <2> QED
    BY <2>1, <2>2 DEF FullInv, Collecting
<1> QED
  BY <1>1, <1>2, <1>3

(* A stage of a full collection ends: the second one starts at a pause.    *)
LEMMA EndStageIsTight ==
  ASSUME IInv, FullInv, EndStage
  PROVE  FullInv'
<1>1. gcstate' = gcstate /\ finalizing' = finalizing
  BY DEF EndStage
<1>2. user \in 0..3 /\ emerg \in 0..3
  BY DEF IInv, TypeOK
<1>3. CASE emerg > 0 /\ gcstate = Target(emerg) /\ emerg' = emerg - 1 /\ user' = user
  <2>1. user # 2
    BY <1>3 DEF FullInv
  <2>2. emerg' = 2 => gcstate = "pause"
    BY <1>2, <1>3 DEF Target
  <2> QED
    BY <2>1, <2>2, <1>1, <1>3 DEF FullInv, Collecting, keepinvariant, SweepStates
<1>4. CASE /\ emerg = 0 /\ finalizing = {} /\ user > 0
           /\ gcstate = Target(user) /\ user' = user - 1 /\ emerg' = 0
  <2>1. user' = 2 => gcstate = "pause"
    BY <1>2, <1>4 DEF Target
  <2> QED
    BY <2>1, <1>1, <1>4 DEF FullInv, Collecting, keepinvariant, SweepStates
<1> QED
  BY <1>3, <1>4 DEF EndStage

(* Every step keeps the second stage to what is needed.                    *)
LEMMA FullStep ==
  ASSUME IInv, FullInv, [Next]_vars
  PROVE  FullInv'
<1>1. CASE Program \/ FinalizerReturns
  <2>1. Running /\ emerg' = emerg /\ user' = user
    BY <1>1 DEF Program, Growth, FinalizerReturns, New, Load, Store, SetUpvalue,
                ShareUpvalue, Drop, SetGlobalMetatable, SetFinalizer, control
  <2> QED
    BY <2>1, NobodyElseRuns DEF FullInv, Collecting
<1>2. CASE StartFull
  <2>1. Running /\ emerg' \in {0, 3} /\ (user' = user \/ (user' = 3 /\ emerg' = 0))
    BY <1>2 DEF StartFull
  <2> QED
    BY <1>2, <2>1, NobodyElseRuns DEF FullInv, Collecting, StartFull
<1>3. CASE Collector
  BY <1>3, MarkingIsTight, AtomicIsTight, SweepIsTight, PhasesAreTight, EndStageIsTight
  DEF Collector
<1>4. CASE UNCHANGED vars
  <2>1. /\ refs' = refs /\ mt' = mt /\ color' = color /\ allgc' = allgc
        /\ finobj' = finobj /\ tobefnz' = tobefnz /\ gcstate' = gcstate
        /\ user' = user /\ emerg' = emerg /\ finalizing' = finalizing
    BY <1>4 DEF vars
  <2>2. /\ NonWhite' = NonWhite /\ StronglyNeeded' = StronglyNeeded
        /\ Needed' = Needed /\ Alive' = Alive /\ Collecting' = Collecting
        /\ keepinvariant' = keepinvariant
    BY <2>1 DEF NonWhite, IsWhite, StronglyNeeded, StrongRefs, NeededRoots,
                Needed, Alive, Alloc, Dead, Collecting, keepinvariant
  <2> QED
    BY <2>1, <2>2 DEF FullInv
<1> QED
  BY <1>1, <1>2, <1>3, <1>4 DEF Next

(* A full collection leaves no garbage: when it reaches the finalizers of  *)
(* the cycle it runs, whatever cycle it interrupted and wherever it was,   *)
(* every object left is one that the program or a finalizer needs.         *)
THEOREM FullCollectionsAreComplete == Spec => []FullCollectionComplete
<1>1. Init => FullInv
  BY DEF Init, FullInv, Collecting
<1>2. IInv /\ FullInv /\ [Next]_vars => FullInv'
  BY FullStep
<1>3. IInv /\ FullInv => FullCollectionComplete
  <2> SUFFICES ASSUME IInv, FullInv, Collecting, gcstate = "callfin"
               PROVE  Alloc \subseteq Needed
    BY DEF FullCollectionComplete, Collecting
  <2>1. Alive \subseteq Needed
    BY DEF FullInv
  <2>2. Alloc \subseteq Alive
    BY DEF IInv, DeadAreUnreferenced, Alive, Dead
  <2> QED
    BY <2>1, <2>2
<1> QED
  BY <1>1, <1>2, <1>3, Inductive, PTL DEF Spec
-----------------------------------------------------------------------------
(***************************************************************************)
(* The incremental collector implements the contract of HeapContract, for  *)
(* every heap and every bound.  A step of the program is the contract's    *)
(* step on what the program can follow references to; a step of the        *)
(* collector is one of the contract's or is not seen.  The contract's      *)
(* variables are the collector's own, 'alloc' being the three lists taken  *)
(* together, so that the proof needs no history: what it rests on is that  *)
(* nothing dangles before and after the step, and that the atomic phase    *)
(* marks all that can be reached without weak references.                  *)
(***************************************************************************)

(* What the contract lets the program follow references to.                *)
CanReach == Contract!Accessible

(* All that the running function can name can be reached, with what it     *)
(* holds, and is alive.                                                    *)
LEMMA HeldIsAccessible ==
  ASSUME IInv
  PROVE  /\ CanReach \subseteq Alive
         /\ {MainThread, Registry} \subseteq CanReach
         /\ Held \subseteq CanReach /\ HeldUpvalues \subseteq CanReach
         /\ \A x \in CanReach : refs[x] \subseteq CanReach
<1> DEFINE roots == {MainThread, Registry} \union mt
<1>1. CanReach = Closure(roots, refs, Alloc)
  BY DEF CanReach, Contract!Accessible, Contract!Roots, Contract!Closure, Closure
<1>2. /\ Alive \subseteq Alloc /\ roots \subseteq Alive
      /\ \A x \in Alive : refs[x] \subseteq Alive
  BY HeldUpvaluesAlive DEF Held
<1>3. CanReach \subseteq Alive
  BY <1>1, <1>2, ClosureLeast
<1>4. roots \subseteq CanReach
  BY <1>1, <1>2, ClosureContains
<1>5. ASSUME NEW x \in CanReach PROVE refs[x] \subseteq CanReach
  BY <1>1, <1>2, <1>3, ClosureClosed
<1>6. Held \subseteq CanReach
  BY <1>4, <1>5 DEF Held
<1> QED
  BY <1>3, <1>4, <1>5, <1>6 DEF HeldUpvalues

(* Nothing is freed but garbage, if nothing dangles after the step.        *)
LEMMA OnlyGarbageIsFreed ==
  ASSUME NoDangling', mt' = mt, Alloc' \subseteq Alloc
  PROVE  Contract!FreeOnlyGarbage
BY DEF NoDangling, Needed, Contract!FreeOnlyGarbage, Contract!Roots,
       Contract!Closure, Closure

(* Rewriting one object that the program can reach is a contract's step.   *)
LEMMA WriteIsMutate ==
  ASSUME IInv, NEW p \in CanReach, NEW v \in CanReach,
         refs' \in [Obj -> SUBSET Obj],
         \A x \in Obj : x # p => refs'[x] = refs[x],
         refs'[p] \subseteq refs[p] \union {v},
         UNCHANGED <<mt, allgc, finobj, tobefnz>>
  PROVE  Contract!Mutate
<1>1. refs' = [refs EXCEPT ![p] = refs'[p]]
  BY DEF IInv, TypeOK
<1>2. refs'[p] \subseteq CanReach
  BY HeldIsAccessible
<1>3. Alloc' = Alloc
  BY DEF Alloc
<1> QED
  BY <1>1, <1>2, <1>3 DEF Contract!Mutate, CanReach

(* A new object appears in what the program can reach.                     *)
LEMMA NewIsNew ==
  ASSUME IInv, NEW o \in Obj \ Alloc, NEW p \in Held, New(o, p)
  PROVE  Contract!New
<1>1. p \in CanReach /\ p # o /\ p \in Obj /\ refs[o] = {}
  BY HeldIsAccessible, HeldUpvaluesAlive DEF IInv, FreeIsClean
<1>2. refs' = [refs EXCEPT ![p] = @ \union {o}, ![o] = {}]
  BY <1>1 DEF New, IInv, TypeOK
<1>3. /\ UNCHANGED <<mt, finobj, tobefnz>>
      /\ Alloc' = Alloc \union {o}
  BY DEF New, Alloc
<1> QED
  BY <1>1, <1>2, <1>3 DEF Contract!New, CanReach

(* Setting a finalizer moves an ordinary object to 'finobj'; what the      *)
(* sweep frees on the way is dead.                                         *)
LEMMA SetFinalizerIsSetFinalizer ==
  ASSUME IInv, NoDangling', NEW o \in HeldTables, NEW m \in HeldTables,
         SetFinalizer(o, m)
  PROVE  Contract!SetFinalizer
<1>1. /\ o \in CanReach /\ m \in CanReach /\ o \in Alive /\ o \in Obj
      /\ Alive \subseteq Alloc /\ Alloc \subseteq Obj
  BY HeldIsAccessible, HeldUpvaluesAlive DEF HeldTables
<1>2. /\ o \in allgc /\ o \notin finobj /\ o \notin tobefnz
      /\ finobj' = finobj \union {o} /\ tobefnz' = tobefnz /\ mt' = mt
  BY DEF SetFinalizer, IInv, TypeOK
<1>3. PICK F \in SUBSET allgc :
        /\ F \intersect Alive = {}
        /\ allgc' = allgc \ (F \union {o})
        /\ refs' = Cut([refs EXCEPT ![o] = @ \union {m}], F)
  <2> DEFINE r == [refs EXCEPT ![o] = @ \union {m}]
  <2>1. CASE ~issweepphase
    <3>1. refs' = r /\ allgc' = allgc \ {o}
      BY <2>1 DEF SetFinalizer
    <3>2. r = Cut(r, {})
      BY DEF Cut, IInv, TypeOK
    <3> QED
      BY <3>1, <3>2
  <2>2. CASE issweepphase
    <3>1. PICK S \in {{}} \union
                       (IF gcstate = "swpallgc" /\ o \notin unswept
                          THEN ToLive(unswept, color) ELSE {}) :
            /\ allgc' = allgc \ (Freed(S, color) \union {o})
            /\ refs' = Cut(r, Freed(S, color))
      BY <2>2 DEF SetFinalizer
    <3>2. S \subseteq allgc
      BY DEF ToLive, IInv, SweptIsWhite
    <3>3. Freed(S, color) \subseteq allgc /\ Freed(S, color) \intersect Alive = {}
      BY <3>2 DEF Freed, Alive, Dead
    <3> QED
      BY <3>1, <3>3
  <2> QED
    BY <2>1, <2>2
<1>4. Alloc \ Alloc' = F /\ Alloc' \subseteq Alloc
  <2>1. F \intersect (finobj \union tobefnz) = {}
    BY DEF IInv, TypeOK
  <2>2. o \notin F
    BY <1>1, <1>3
  <2> QED
    BY <2>1, <2>2, <1>2, <1>3 DEF Alloc
<1>5. refs' = [Contract!Cut(refs, Alloc \ Alloc') EXCEPT ![o] = @ \union {m}]
  <2>1. /\ refs \in [Obj -> SUBSET Obj] /\ o \notin F
    BY <1>1, <1>3 DEF IInv, TypeOK
  <2>2. Cut([refs EXCEPT ![o] = @ \union {m}], F)
          = [[x \in Obj |-> IF x \in F THEN {} ELSE refs[x]] EXCEPT ![o] = @ \union {m}]
    BY <2>1, <1>1 DEF Cut
  <2> QED
    BY <2>1, <2>2, <1>3, <1>4 DEF Contract!Cut
<1>6. Contract!FreeOnlyGarbage
  BY <1>2, <1>4, OnlyGarbageIsFreed
<1> QED
  BY <1>1, <1>2, <1>5, <1>6 DEF Contract!SetFinalizer, CanReach

(* Every step of the program, a finalizer's return included, is one of the *)
(* contract's or changes nothing that it sees.                             *)
LEMMA ProgramRefines ==
  ASSUME IInv, NoDangling', Program \/ FinalizerReturns
  PROVE  Contract!Next \/ UNCHANGED Contract!vars
<1>1. /\ {MainThread, Registry} \subseteq CanReach
      /\ Held \subseteq CanReach /\ HeldUpvalues \subseteq CanReach
      /\ \A x \in CanReach : refs[x] \subseteq CanReach
      /\ CanReach \subseteq Obj
      /\ refs \in [Obj -> SUBSET Obj]
  BY HeldIsAccessible, HeldUpvaluesAlive DEF IInv, TypeOK
<1>2. ASSUME NEW o \in Obj \ Alloc, NEW p \in Held, New(o, p)
      PROVE  Contract!Next
  BY <1>2, NewIsNew DEF Contract!Next
<1>3. ASSUME NEW p \in Held \union HeldUpvalues, NEW v \in refs[p], Load(p, v)
      PROVE  Contract!Next
  <2>1. Contract!Mutate
    <3>1. /\ v \in CanReach /\ MainThread \in CanReach
          /\ refs' = [refs EXCEPT ![MainThread] = @ \union {v}]
          /\ UNCHANGED <<mt, allgc, finobj, tobefnz>>
      BY <1>1, <1>3 DEF Load, lists
    <3> QED
      BY <3>1, <1>1, WriteIsMutate
  <2> QED
    BY <2>1 DEF Contract!Next
<1>4. ASSUME NEW p \in Held, NEW v \in Held, Store(p, v)
      PROVE  Contract!Next
  <2>1. Contract!Mutate
    <3>1. /\ v \in CanReach /\ p \in CanReach
          /\ refs' = [refs EXCEPT ![p] = @ \union {v}]
          /\ UNCHANGED <<mt, allgc, finobj, tobefnz>>
      BY <1>1, <1>4 DEF Store, lists
    <3> QED
      BY <3>1, <1>1, WriteIsMutate
  <2> QED
    BY <2>1 DEF Contract!Next
<1>5. ASSUME NEW u \in HeldUpvalues, NEW v \in Held, SetUpvalue(u, v)
      PROVE  Contract!Next
  <2>1. Contract!Mutate
    <3>1. /\ v \in CanReach /\ u \in CanReach
          /\ refs' = [refs EXCEPT ![u] = {v}]
          /\ UNCHANGED <<mt, allgc, finobj, tobefnz>>
      BY <1>1, <1>5 DEF SetUpvalue, lists
    <3> QED
      BY <3>1, <1>1, WriteIsMutate
  <2> QED
    BY <2>1 DEF Contract!Next
<1>6. ASSUME NEW d \in Held, NEW u \in HeldUpvalues, ShareUpvalue(d, u)
      PROVE  Contract!Next
  <2>1. Contract!Mutate
    <3>1. /\ d \in CanReach /\ u \in CanReach
          /\ refs' = [refs EXCEPT ![d] = @ \union {u}]
          /\ UNCHANGED <<mt, allgc, finobj, tobefnz>>
      BY <1>1, <1>6 DEF ShareUpvalue, lists
    <3> QED
      BY <3>1, <1>1, WriteIsMutate
  <2> QED
    BY <2>1 DEF Contract!Next
<1>7. ASSUME NEW p \in Held \union HeldUpvalues, NEW v \in refs[p], Drop(p, v)
      PROVE  Contract!Next
  <2>1. Contract!Mutate
    <3>1. /\ v \in CanReach /\ p \in CanReach
          /\ refs' = [refs EXCEPT ![p] = @ \ {v}]
          /\ UNCHANGED <<mt, allgc, finobj, tobefnz>>
      BY <1>1, <1>7 DEF Drop, lists
    <3> QED
      BY <3>1, <1>1, WriteIsMutate
  <2> QED
    BY <2>1 DEF Contract!Next
<1>8. ASSUME NEW new \in SUBSET HeldTables, SetGlobalMetatable(new)
      PROVE  Contract!Next
  <2>1. UNCHANGED <<Alloc, refs, finobj, tobefnz>> /\ mt' \subseteq CanReach
    BY <1>1, <1>8 DEF SetGlobalMetatable, lists, Alloc, HeldTables
  <2> QED
    BY <2>1 DEF Contract!SetGlobalMetatable, Contract!Next, CanReach
<1>9. ASSUME NEW o \in HeldTables, NEW m \in HeldTables, SetFinalizer(o, m)
      PROVE  Contract!Next
  BY <1>9, SetFinalizerIsSetFinalizer DEF Contract!Next
<1>10. ASSUME FinalizerReturns
       PROVE  Contract!Next
  <2>1. Contract!Mutate
    <3>1. /\ MainThread \in CanReach
          /\ refs' \in {refs, [refs EXCEPT ![MainThread] = @ \ finalizing]}
          /\ UNCHANGED <<mt, allgc, finobj, tobefnz>>
      BY <1>1, <1>10 DEF FinalizerReturns, lists
    <3> QED
      BY <3>1, <1>1, WriteIsMutate
  <2> QED
    BY <2>1 DEF Contract!Next
<1>11. Program =>
         \/ \E o \in Obj \ Alloc, p \in Held : New(o, p)
         \/ \E p \in Held \union HeldUpvalues : \E v \in refs[p] : Load(p, v)
         \/ \E p, v \in Held : Store(p, v)
         \/ \E u \in HeldUpvalues, v \in Held : SetUpvalue(u, v)
         \/ \E d \in Held, u \in HeldUpvalues : ShareUpvalue(d, u)
         \/ \E new \in SUBSET HeldTables : SetGlobalMetatable(new)
         \/ \E o, m \in HeldTables : SetFinalizer(o, m)
         \/ \E p \in Held \union HeldUpvalues : \E v \in refs[p] : Drop(p, v)
  <2>1. \A m \in HeldTables : {m} \in SUBSET HeldTables
    OBVIOUS
  <2> QED
    BY <2>1 DEF Program, Growth, Fresh
<1> QED
  BY <1>2, <1>3, <1>4, <1>5, <1>6, <1>7, <1>8, <1>9, <1>10, <1>11

(* What the program can reach without weak references is marked when the   *)
(* atomic phase separates and clears.                                      *)
LEMMA StronglyReachedIsMarked ==
  ASSUME IInv, keepinvariant
  PROVE  Contract!StronglyAccessible \subseteq Marked
<1>1. Contract!StronglyAccessible
        = Closure({MainThread, Registry} \union mt, StrongRefs, Alloc)
  BY DEF Contract!StronglyAccessible, Contract!Roots, Contract!Strong,
         Contract!Closure, Contract!Cut, Closure, StrongRefs, Cut
<1>2. /\ Marked \subseteq Alloc
      /\ {MainThread, Registry} \union mt \subseteq Marked
      /\ \A x \in Marked : StrongRefs[x] \subseteq Marked
  BY MarkedIsClosed
<1> QED
  BY <1>1, <1>2, ClosureLeast

(* The atomic phase is a step of the contract's collector: it separates    *)
(* what is not strongly reachable, clears weak tables of such values, and  *)
(* may free what nothing that stays refers to.                             *)
LEMMA AtomicIsCollect ==
  ASSUME IInv, IInv', NoDangling', Atomic
  PROVE  Contract!Collect
<1>1. /\ tobefnz' = Pending /\ finobj' = finobj \ Pending /\ mt' = mt
      /\ Alloc' \subseteq Alloc
      /\ \A x \in Alloc' : refs'[x] = KeptRefs[x]
      /\ keepinvariant /\ Alloc \subseteq Obj
  BY AtomicEffect, HeldUpvaluesAlive DEF Atomic, keepinvariant
<1>2. Contract!StronglyAccessible \subseteq Marked
  BY <1>1, StronglyReachedIsMarked
<1>3. /\ tobefnz \subseteq tobefnz'
      /\ tobefnz' \ tobefnz \subseteq finobj \ Contract!StronglyAccessible
      /\ finobj' = finobj \ tobefnz'
  BY <1>1, <1>2 DEF Pending, ToFinalize
<1>4. Contract!FreeOnlyGarbage
  BY <1>1, OnlyGarbageIsFreed
<1>5. ASSUME NEW o \in Alloc'
      PROVE  /\ refs'[o] \subseteq refs[o]
             /\ refs[o] \ refs'[o] \subseteq
                  (IF o \in WeakTables THEN Obj \ Contract!StronglyAccessible ELSE {})
  <2>1. o \in Obj /\ refs[o] \subseteq Obj /\ refs'[o] = KeptRefs[o]
    BY <1>1 DEF IInv, TypeOK
  <2>2. /\ KeptRefs[o] \subseteq refs[o]
        /\ o \notin WeakTables => KeptRefs[o] = refs[o]
        /\ refs[o] \ KeptRefs[o] \subseteq refs[o] \ Marked
    BY <2>1 DEF KeptRefs, ClearedRefs
  <2> QED
    BY <2>1, <2>2, <1>2
<1>6. \A o \in Obj \ Alloc' : refs'[o] = {}
  BY DEF IInv, FreeIsClean
<1> QED
  BY <1>1, <1>3, <1>4, <1>5, <1>6 DEF Contract!Collect

(* A step of the sweep frees dead objects, which nothing that stays needs. *)
LEMMA SweepIsCollect ==
  ASSUME IInv, IInv', NoDangling', Sweep
  PROVE  Contract!Collect
<1>1. PICK S \in SUBSET unswept :
        /\ refs' = Cut(refs, Freed(S, color))
        /\ allgc' = allgc \ Freed(S, color)
        /\ finobj' = finobj \ Freed(S, color)
        /\ tobefnz' = tobefnz \ Freed(S, color)
        /\ mt' = mt
  BY DEF Sweep, Chunks
<1>2. \A x \in Freed(S, color) : x \in S /\ color[x] = "otherwhite"
  BY DEF Freed
<1>3. /\ TypeOK /\ Alloc \subseteq Obj
      /\ Freed(S, color) \intersect (finobj \union tobefnz) = {}
  BY <1>2, HeldUpvaluesAlive DEF IInv, DeadAreUnreferenced, TypeOK, Alloc
<1>4. /\ finobj' = finobj /\ tobefnz' = tobefnz
      /\ Alloc' = Alloc \ Freed(S, color)
  BY <1>1, <1>3 DEF Alloc
<1>5. \A o \in Alloc' : refs'[o] = refs[o]
  BY <1>1, <1>3, <1>4 DEF Cut, TypeOK
<1>6. \A o \in Obj \ Alloc' : refs'[o] = {}
  BY DEF IInv, FreeIsClean
<1>7. Contract!FreeOnlyGarbage
  BY <1>1, <1>4, OnlyGarbageIsFreed
<1>8. finobj' = finobj \ tobefnz'
  BY <1>3, <1>4 DEF TypeOK
<1> QED
  BY <1>1, <1>4, <1>5, <1>6, <1>7, <1>8 DEF Contract!Collect

(* A full collection that starts in the marking phase has nothing to free. *)
LEMMA StartFullIsUnseen ==
  ASSUME IInv, StartFull
  PROVE  UNCHANGED Contract!vars
<1>1. mt' = mt /\ finobj' = finobj /\ tobefnz' = tobefnz
  BY DEF StartFull
<1>2. refs' = refs /\ allgc' = allgc
  <2>1. CASE keepinvariant
    <3>1. PICK S \in SUBSET allgc :
            /\ allgc' = allgc \ Freed(S, color)
            /\ refs' = Cut(refs, Freed(S, color))
      BY <2>1 DEF StartFull, EnterSweep, ToLive
    <3>2. Freed(S, color) = {}
      BY <2>1 DEF Freed, IInv, DeadAreUnreferenced, keepinvariant, Alloc
    <3> QED
      BY <3>1, <3>2 DEF Cut, IInv, TypeOK
  <2>2. CASE ~keepinvariant
    BY <2>2 DEF StartFull
  <2> QED
    BY <2>1, <2>2
<1> QED
  BY <1>1, <1>2 DEF Contract!vars, Alloc

(* Every step of the collector is one of the contract's, or unseen.        *)
LEMMA CollectorRefines ==
  ASSUME IInv, IInv', NoDangling', Collector
  PROVE  Contract!Next \/ UNCHANGED Contract!vars
<1>1. CASE \/ Restart \/ (\E o \in gray : Propagate(o)) \/ EndPropagate
           \/ NextSweep \/ EndCycle \/ EndStage
  <2>1. UNCHANGED <<refs, mt, allgc, finobj, tobefnz>>
    BY <1>1 DEF Restart, Propagate, EndPropagate, NextSweep, EndCycle, EndStage,
                heap, lists
  <2> QED
    BY <2>1 DEF Contract!vars, Alloc
<1>2. CASE Atomic
  BY <1>2, AtomicIsCollect DEF Contract!Next
<1>3. CASE Sweep
  BY <1>3, SweepIsCollect DEF Contract!Next
<1>4. CASE \E o \in tobefnz : CallFinalizer(o)
  <2>1. PICK o \in tobefnz : CallFinalizer(o)
    BY <1>4
  <2>2. /\ tobefnz' = tobefnz \ {o} /\ mt' = mt /\ finobj' = finobj
        /\ refs' \in {refs, [refs EXCEPT ![MainThread] = @ \union {o}]}
        /\ Alloc' = Alloc
    BY <2>1 DEF CallFinalizer, Alloc
  <2> QED
    BY <2>2 DEF Contract!Finalize, Contract!Next
<1> QED
  BY <1>1, <1>2, <1>3, <1>4 DEF Collector

(* The incremental collector keeps the contract of module HeapContract:    *)
(* whatever its phase, the program sees a heap in which the objects it can *)
(* reach stay, a weak table loses only what cannot be reached strongly,    *)
(* and a finalizer is called once, for an object found unreachable.        *)
THEOREM CollectorImplementsContract == Spec => ImplementsContract
<1>1. Init => Contract!Init
  BY DEF Init, Contract!Init, Alloc
<1>2. /\ IInv /\ IInv' /\ NoDangling' /\ [Next]_vars
      => [Contract!Next]_Contract!vars
  <2> SUFFICES ASSUME IInv, IInv', NoDangling', [Next]_vars
               PROVE  Contract!Next \/ UNCHANGED Contract!vars
    OBVIOUS
  <2>1. CASE UNCHANGED vars
    BY <2>1 DEF vars, Contract!vars, Alloc
  <2> QED
    BY <2>1, ProgramRefines, CollectorRefines, StartFullIsUnseen DEF Next
<1> QED
  BY <1>1, <1>2, Inductive, NothingDangles, PTL DEF Spec, ImplementsContract, Contract!Spec
=============================================================================
