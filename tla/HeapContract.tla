---------------------------- MODULE HeapContract ----------------------------
(***************************************************************************)
(* What the collector promises the rest of the interpreter, with no        *)
(* colours, no phases and no lists: the program may follow and change any  *)
(* reference it can reach, and the collector may                           *)
(*   - take an object with a finalizer out of the "to be finalized later"  *)
(*     set once the program cannot reach it any more, and hand it to its   *)
(*     finalizer, once, later;                                             *)
(*   - clear from weak tables the values the program cannot reach strongly;*)
(*   - free what nothing that is still kept can reach.                     *)
(* It is the specification that the collectors of lgc.c implement; the     *)
(* comment at the head of lstate.h's "notes about garbage-collected        *)
(* objects" (allgc, finobj, tobefnz) gives the three sets their meaning.   *)
(***************************************************************************)
EXTENDS Heap

CONSTANTS
  Obj,     \* the identities an object may have
  Fixed,   \* the roots that always exist: the main thread and the registry
  Weak     \* the objects that are weak-value tables

VARIABLES
  alloc,    \* allocated objects
  refs,     \* refs[o]: the objects that o points to
  mt,       \* metatables of the basic types, a root that changes
  finobj,   \* allocated objects whose finalizer has still to be called
  tobefnz   \* objects found unreachable, waiting for their finalizer

vars == <<alloc, refs, mt, finobj, tobefnz>>

Strong == Cut(refs, Weak)
Roots == Fixed \union mt

(* What the program can get hold of: through weak tables too.              *)
Accessible == Closure(Roots, refs, alloc)

(* What it can get hold of even if every weak entry is cleared.            *)
StronglyAccessible == Closure(Roots, Strong, alloc)

Init ==
  /\ alloc = Fixed
  /\ refs = [o \in Obj |-> {}]
  /\ mt = {}
  /\ finobj = {}
  /\ tobefnz = {}

(* A new object appears, held by one that the program can reach.           *)
New ==
  /\ UNCHANGED <<mt, finobj, tobefnz>>
  /\ \E o \in Obj \ alloc :
       /\ alloc' = alloc \union {o}
       /\ \E p \in Accessible :
            refs' = [refs EXCEPT ![p] = @ \union {o}, ![o] = {}]

(* The program rewrites one object.                                        *)
Mutate ==
  /\ UNCHANGED <<alloc, mt, finobj, tobefnz>>
  /\ \E p \in Accessible :
       /\ refs' = [refs EXCEPT ![p] = refs'[p]]
       /\ refs'[p] \subseteq Accessible

(* The metatable of a basic type is replaced.                              *)
SetGlobalMetatable ==
  /\ UNCHANGED <<alloc, refs, finobj, tobefnz>>
  /\ mt' \subseteq Accessible

(* One pending object is given to its finalizer: it is an ordinary object  *)
(* again, and the finalizer may hold it.                                   *)
Finalize ==
  \E o \in tobefnz :
    /\ tobefnz' = tobefnz \ {o}
    /\ \E p \in Fixed : refs' \in {refs, [refs EXCEPT ![p] = @ \union {o}]}
    /\ UNCHANGED <<alloc, mt, finobj>>

(* What disappears is needed by nothing that is left: not by the program,  *)
(* not by an object whose finalizer may still run.                         *)
FreeOnlyGarbage ==
  LET kept == Closure(Roots \union finobj' \union tobefnz', refs', Obj)
  IN  /\ alloc' \subseteq alloc
      /\ kept \subseteq alloc'

(* An object gets a metatable with a finalizer.  The code may sweep a      *)
(* little on the way, so garbage may go in the same step.                  *)
SetFinalizer ==
  /\ UNCHANGED <<mt, tobefnz>>
  /\ \E p \in finobj' \ finobj :
       /\ p \in Accessible \ tobefnz
       /\ finobj' = finobj \union {p}
       /\ \E m \in Accessible :
            refs' = [Cut(refs, alloc \ alloc') EXCEPT ![p] = @ \union {m}]
  /\ FreeOnlyGarbage

(* The collector: weak tables lose values the program could not reach      *)
(* strongly, finalizable objects the program cannot reach become pending,  *)
(* and garbage is freed.  A step of the code may do one or all of them.    *)
Collect ==
  /\ UNCHANGED mt
  /\ tobefnz \subseteq tobefnz'
  /\ tobefnz' \ tobefnz \subseteq finobj \ StronglyAccessible
  /\ finobj' = finobj \ tobefnz'
  /\ FreeOnlyGarbage
  /\ \A o \in alloc' :
       /\ refs'[o] \subseteq refs[o]
       /\ refs[o] \ refs'[o] \subseteq
            (IF o \in Weak THEN Obj \ StronglyAccessible ELSE {})
  /\ \A o \in Obj \ alloc' : refs'[o] = {}

Next ==
  New \/ Mutate \/ SetGlobalMetatable \/ Finalize \/ SetFinalizer \/ Collect

Spec == Init /\ [][Next]_vars
=============================================================================
