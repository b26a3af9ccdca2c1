-------------------------------- MODULE Heap --------------------------------
(***************************************************************************)
(* Reachability in a finite object graph.  An edge function maps every     *)
(* object to the set of objects it points to.  The lemmas are what the     *)
(* proofs about heaps rest on.                                             *)
(***************************************************************************)
EXTENDS TLAPS

(***************************************************************************)
(* The smallest set of objects of U that holds S and is closed under the   *)
(* edges E.  It is stated as the intersection of all such sets, which is   *)
(* the form the proofs use; what nothing points to need not be in them.    *)
(***************************************************************************)
Closure(S, E, U) ==
  LET Targets == UNION {E[x] : x \in U}
      Closed == {C \in {S \union D : D \in SUBSET ((U \intersect Targets) \ S)} :
                  \A x \in C : E[x] \subseteq C}
  IN  {o \in U : \A C \in Closed : o \in C}

(* The edges of E that leave no object of the set N.                       *)
Cut(E, N) == [o \in DOMAIN E |-> IF o \in N THEN {} ELSE E[o]]

-----------------------------------------------------------------------------
(* A closure holds the objects it starts from.                             *)
LEMMA ClosureContains ==
  ASSUME NEW S, NEW E, NEW U, S \subseteq U
  PROVE  S \subseteq Closure(S, E, U)
BY DEF Closure

(* A closure holds what its members point to.                              *)
LEMMA ClosureClosed ==
  ASSUME NEW S, NEW E, NEW U, NEW x \in Closure(S, E, U), E[x] \subseteq U
  PROVE  E[x] \subseteq Closure(S, E, U)
BY DEF Closure

(* A closure is inside every closed set that holds what it starts from.    *)
LEMMA ClosureLeast ==
  ASSUME NEW S, NEW E, NEW U, NEW C \in SUBSET U, S \subseteq C,
         \A x \in C : E[x] \subseteq C
  PROVE  Closure(S, E, U) \subseteq C
<1> DEFINE Targets == UNION {E[x] : x \in U}
           Pointed == C \intersect (S \union Targets)
<1>1. \A x \in Pointed : E[x] \subseteq Pointed
  OBVIOUS
<1>2. Pointed = S \union (Pointed \ S) /\ Pointed \ S \in SUBSET ((U \intersect Targets) \ S)
  OBVIOUS
<1>3. Pointed \in {S \union D : D \in SUBSET ((U \intersect Targets) \ S)}
  BY <1>2
<1> QED
  BY <1>1, <1>3 DEF Closure
=============================================================================
