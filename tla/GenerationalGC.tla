--------------------------- MODULE GenerationalGC ---------------------------
(***************************************************************************)
(* The generational collector of lgc.c (gckind = KGC_GENMINOR), the mode   *)
(* in which lua.c runs, against the same program as in IncrementalGC.      *)
(* A young collection is one uninterrupted call, so it is one action; what *)
(* can go wrong is not an interleaving inside it but what the program has  *)
(* done to the ages, the borders of the sublists and the gray lists since  *)
(* the last one, barriers, finalizers and full collections included.       *)
(*                                                                         *)
(* The lists 'allgc', 'finobj' and 'tobefnz' are sequences, because the    *)
(* pointers into them (p) cut them into the sublists of one age.  The gray *)
(* lists are sets; 'weak' is part of 'grayagain', since correctgraylists   *)
(* treats them alike.  No program step sees a dead object, so there is one *)
(* white.  Kinds of object are those of IncrementalGC, without strings.    *)
(*                                                                         *)
(* A full collection (fullgen) passes through the incremental mode, where  *)
(* it may call finalizers: 'stage' tells how far it has come.  The growth  *)
(* of memory that makes youngcollection shift to major collections         *)
(* (checkminormajor) is left out: the program has set 'minormajor' to 0.   *)
(***************************************************************************)
EXTENDS Naturals, FiniteSets, SequencesExt, Heap

CONSTANTS
  Obj,          \* identities of objects
  MainThread,   \* the thread that runs the program
  Registry,     \* the registry table
  Kind,         \* Kind[o]: the kind of object o
  NULL,         \* the null pointer
  Joins,        \* does the program call lua_upvaluejoin?
  MaxRefs,      \* bound of the model: most references in the heap
  Heaps         \* bound of the model: objects that may exist together

Kinds == {"thread", "table", "weak", "closure", "upval"}

ASSUME ConstantsAssumption ==
  /\ MainThread \in Obj
  /\ Registry \in Obj
  /\ Kind \in [Obj -> Kinds]
  /\ Kind[MainThread] = "thread"
  /\ Kind[Registry] = "table"
  /\ NULL \notin Obj
  /\ Joins \in BOOLEAN
  /\ MaxRefs \in Nat
  /\ Heaps \subseteq SUBSET Obj

VARIABLES
  refs,        \* refs[o]: the objects o points to ({} when o is not allocated)
  color, age,  \* the bits of o->marked
  allgc, finobj, tobefnz,
  p,           \* p.survival, ...: the pointers into 'allgc' and 'finobj'
  gray, grayagain,
  stage,       \* "minor"; "finish", in callallpendingfinalizers; "callfin" or
               \* "pause", the state of the incremental part of fullgen
  finalizing   \* the object whose finalizer GCTM is running, if any

marks == <<color, age>>
lists == <<allgc, finobj, tobefnz>>
graylists == <<gray, grayagain>>
control == <<stage, finalizing>>
vars == <<refs, color, age, allgc, finobj, tobefnz, p, gray, grayagain,
          stage, finalizing>>

Colors == {"white", "gray", "black"}
Ages == {"new", "survival", "old0", "old1", "old", "touched1", "touched2"}
Stages == {"minor", "finish", "callfin", "pause"}
Pointers == {"survival", "old1", "reallyold", "firstold1",
             "finobjsur", "finobjold1", "finobjrold"}

Alloc == ToSet(allgc) \union ToSet(finobj) \union ToSet(tobefnz)
IsWhite(o) == color[o] = "white"
NonWhite == {o \in Obj : ~IsWhite(o)}
isold(a) == a \notin {"new", "survival"}

Threads == {o \in Obj : Kind[o] = "thread"}
Tables == {o \in Obj : Kind[o] = "table"}
WeakTables == {o \in Obj : Kind[o] = "weak"}
Closures == {o \in Obj : Kind[o] = "closure"}
Upvals == {o \in Obj : Kind[o] = "upval"}

(* A weak table holds its values only weakly.                              *)
StrongRefs == Cut(refs, WeakTables)

-----------------------------------------------------------------------------
(* Lists and the pointers into them *)

(* The elements of a list that are in S, in their order.                   *)
Kept(list, S) ==
  LET kept[n \in 0 .. Len(list)] ==
        IF n = 0 THEN <<>>
        ELSE IF list[n] \in S THEN Append(kept[n - 1], list[n]) ELSE kept[n - 1]
  IN  kept[Len(list)]

Without(list, S) == Kept(list, ToSet(list) \ S)

(* Position of the element that the pointer q designates.                  *)
Place(list, q) ==
  IF q \in ToSet(list) THEN CHOOSE i \in DOMAIN list : list[i] = q ELSE Len(list) + 1

Head1(list) == IF list = <<>> THEN NULL ELSE list[1]

(* The elements a loop from 'from' until 'to' visits.                      *)
Part(list, from, to) ==
  {list[i] : i \in {j \in DOMAIN list : Place(list, from) <= j /\ j < Place(list, to)}}

(* The first element from q on that is not in S.                           *)
FirstOutside(list, q, S) == Head1(Without(SubSeq(list, Place(list, q), Len(list)), S))

NoPointers == [q \in Pointers |-> NULL]

(* All of 'allgc' and 'finobj' is old.                                     *)
AllOld(al, fin) ==
  [q \in Pointers |-> IF q = "firstold1" THEN NULL
                      ELSE IF q \in {"survival", "old1", "reallyold"} THEN Head1(al)
                      ELSE Head1(fin)]

(* The state just after lua_gc(LUA_GCGEN) in an empty program.             *)
Init ==
  /\ refs = [o \in Obj |-> {}]
  /\ color = [o \in Obj |-> IF o = MainThread THEN "gray"
                            ELSE IF o = Registry THEN "black" ELSE "white"]
  /\ age = [o \in Obj |-> IF o \in {MainThread, Registry} THEN "old" ELSE "new"]
  /\ allgc = <<Registry, MainThread>>
  /\ finobj = <<>>
  /\ tobefnz = <<>>
  /\ p = AllOld(allgc, finobj)
  /\ gray = {}
  /\ grayagain = {MainThread}
  /\ stage = "minor"
  /\ finalizing = {}

-----------------------------------------------------------------------------
(* The program *)

(* The program runs between collections and in finalizers.                 *)
Running == stage = "minor" \/ finalizing # {}

(* What the running function can name: its stack and the registry.         *)
Held == {MainThread, Registry} \union refs[MainThread]
HeldUpvalues == (UNION {refs[c] : c \in Held}) \intersect Upvals
HeldTables == Held \intersect Tables

(* Room for one more reference, under the bound of the model.              *)
HasRoom == Cardinality({e \in Obj \X Obj : e[2] \in refs[e[1]]}) < MaxRefs

(* reallymarkobject(v), with what a closed upvalue holds.                  *)
Mark(v) ==
  LET content == {w \in refs[v] : v \in Upvals /\ IsWhite(w)}
  IN  /\ color' = [o \in Obj |-> IF o \in content THEN "gray"
                                 ELSE IF o # v THEN color[o]
                                 ELSE IF v \in Upvals THEN "black" ELSE "gray"]
      /\ gray' = gray \union ({v} \ Upvals) \union content

(* What the barrier marks stays young.                                     *)
FaultyForwardBarrier(o, v) ==
  IF color[o] = "black" /\ IsWhite(v)
    THEN Mark(v) /\ UNCHANGED age
    ELSE UNCHANGED <<marks, gray>>

(* luaC_barrier_: mark v, which becomes old like o, but can still point to *)
(* young objects.                                                          *)
ForwardBarrier(o, v) ==
  IF color[o] = "black" /\ IsWhite(v)
    THEN /\ Mark(v)
         /\ age' = IF isold(age[o]) THEN [age EXCEPT ![v] = "old0"] ELSE age
    ELSE UNCHANGED <<marks, gray>>

(* luaC_barrierback_: o becomes gray, and 'touched1' if it is old.         *)
BackBarrier(o, v) ==
  IF color[o] = "black" /\ IsWhite(v)
    THEN /\ color' = [color EXCEPT ![o] = "gray"]
         /\ age' = IF isold(age[o]) THEN [age EXCEPT ![o] = "touched1"] ELSE age
         /\ grayagain' = grayagain \union {o}
    ELSE UNCHANGED <<marks, grayagain>>

(* The barrier the code runs after storing v in o; threads have none.      *)
Barrier(o, v) ==
  \/ o \in Threads /\ UNCHANGED <<marks, graylists>>
  \/ o \in Tables \union WeakTables /\ BackBarrier(o, v) /\ UNCHANGED gray
  \/ o \in Closures \union Upvals /\ ForwardBarrier(o, v) /\ UNCHANGED grayagain

(* Objects that may be created, under the bound of the model.              *)
Fresh == {o \in Obj \ Alloc : \E H \in Heaps : Alloc \union {o} \subseteq H}

(* luaC_newobj: linked at the front of 'allgc', and pushed on the stack.   *)
New(o) ==
  /\ o \notin Upvals
  /\ refs' = [refs EXCEPT ![MainThread] = @ \union {o}]
  /\ allgc' = <<o>> \o allgc
  /\ UNCHANGED <<marks, finobj, tobefnz, p, graylists, control>>

(* luaF_initupvals: a new upvalue o in the closure c, with a barrier.      *)
NewUpvalue(c, o) ==
  /\ c \in Closures /\ o \in Upvals
  /\ refs' = [refs EXCEPT ![c] = @ \union {o}]
  /\ allgc' = <<o>> \o allgc
  /\ Barrier(c, o)
  /\ UNCHANGED <<finobj, tobefnz, p, control>>

(* Push a value that q holds.                                              *)
Load(q, v) ==
  /\ v \notin Upvals /\ v \notin refs[MainThread]
  /\ refs' = [refs EXCEPT ![MainThread] = @ \union {v}]
  /\ UNCHANGED <<marks, lists, p, graylists, control>>

(* Store a value in a table, a C closure or another thread.                *)
Store(o, v) ==
  /\ o # MainThread /\ o \notin Upvals
  /\ v \notin refs[o]
  /\ refs' = [refs EXCEPT ![o] = @ \union {v}]
  /\ Barrier(o, v)
  /\ UNCHANGED <<lists, p, control>>

(* pushclosure gives a closure an upvalue of the function that creates it: *)
(* unless a collection has just made both old, the closure is white.       *)
(* lua_upvaluejoin gives any closure any upvalue of another.               *)
ShareUpvalue(c, u) ==
  /\ u \notin refs[c]
  /\ Joins \/ IsWhite(c) \/ ~IsWhite(u)
  /\ refs' = [refs EXCEPT ![c] = @ \union {u}]
  /\ Barrier(c, u)
  /\ UNCHANGED <<lists, p, control>>

(* OP_SETUPVAL: a closed upvalue holds one value.                          *)
SetUpvalue(u, v) ==
  /\ refs[u] # {v}
  /\ refs' = [refs EXCEPT ![u] = {v}]
  /\ Barrier(u, v)
  /\ UNCHANGED <<lists, p, control>>

(* A reference from o is overwritten or popped.                            *)
Drop(o, v) ==
  /\ refs' = [refs EXCEPT ![o] = @ \ {v}]
  /\ UNCHANGED <<marks, lists, p, graylists, control>>

(* The pointers are left where they are.                                   *)
FaultyMoved(o) == p

(* correctpointers: a pointer to the object that leaves the list goes to   *)
(* the next one.                                                           *)
Moved(o) ==
  [q \in Pointers |->
     IF q \in {"survival", "old1", "reallyold", "firstold1"} /\ p[q] = o
       THEN FirstOutside(allgc, o, {o}) ELSE p[q]]

(* The object stays in 'allgc'.                                            *)
FaultyUnlinked(o) == allgc

(* 'allgc' without o: "remove 'o' from 'allgc' list".                      *)
Unlinked(o) == Without(allgc, {o})

(* lua_setmetatable on a table o, with a forward barrier; if the metatable *)
(* has __gc, luaC_checkfinalizer moves o to the front of 'finobj'.         *)
SetMetatable(o, m, gc) ==
  /\ gc => o \in ToSet(allgc) \ {Registry}
  /\ refs' = [refs EXCEPT ![o] = @ \union {m}]
  /\ ForwardBarrier(o, m)
  /\ IF gc THEN /\ p' = Moved(o)
                /\ allgc' = Unlinked(o)
                /\ finobj' = <<o>> \o finobj
           ELSE UNCHANGED <<p, allgc, finobj>>
  /\ UNCHANGED <<tobefnz, grayagain, control>>

Program ==
  /\ Running
  /\ \/ /\ HasRoom
        /\ \/ \E o \in Fresh : New(o)
           \/ \E c \in Held, o \in Fresh : NewUpvalue(c, o)
           \/ \E q \in Held \union HeldUpvalues : \E v \in refs[q] : Load(q, v)
           \/ \E o \in Held, v \in Held : Store(o, v)
           \/ \E u \in HeldUpvalues, v \in Held : SetUpvalue(u, v)
           \/ \E o, m \in HeldTables, gc \in BOOLEAN : SetMetatable(o, m, gc)
     \/ \E c \in Held \intersect Closures, u \in HeldUpvalues : ShareUpvalue(c, u)
     \/ \E q \in Held \union HeldUpvalues : \E v \in refs[q] : Drop(q, v)

-----------------------------------------------------------------------------
(* Marking: operators on the set of objects marked so far *)

(* What a traversal from the objects of S visits: S and unmarked objects.  *)
Visited(S, marked) ==
  Closure(S, [o \in Obj |-> StrongRefs[o] \ marked], S \union (Alloc \ marked))

(* Reachable objects are separated too.                                    *)
FaultySeparated(marked, limit) == finobj

(* separatetobefnz: the unmarked objects of 'finobj', which can be only    *)
(* before finobjold1, in their order.                                      *)
Separated(marked, limit) ==
  LET looked == Part(finobj, Head1(finobj), limit)
  IN  Kept(finobj, looked \ marked)

(* clearbyvalues: the visited weak tables lose the values not marked, the  *)
(* resurrected tables those that were not resurrected themselves.          *)
Cleared(visited, marked, resurrected) ==
  [o \in Obj |->
     IF o \in WeakTables \intersect visited THEN refs[o] \intersect marked
     ELSE IF o \in WeakTables \intersect resurrected
       THEN refs[o] \intersect (marked \union resurrected)
     ELSE refs[o]]

-----------------------------------------------------------------------------
(* The young collection *)

(* markold: the objects that are 'old1' become old and are traversed.      *)
Old1 ==
  {o \in Part(allgc, p.firstold1, p.reallyold)
        \union Part(finobj, Head1(finobj), p.finobjrold) \union ToSet(tobefnz) :
     age[o] = "old1"}

(* 'old1' objects are not traversed any more.                              *)
FaultyYoungRoots == gray \union grayagain \union ({MainThread, Registry} \ NonWhite)

(* What the atomic phase starts from.  The black objects that are not in a *)
(* gray list are not visited again.                                        *)
YoungRoots ==
  gray \union grayagain \union ({MainThread, Registry} \ NonWhite)
    \union {o \in Old1 : color[o] = "black"}

(* sweepgen: the age after a sweep.                                        *)
NextAge(a) ==
  CASE a = "new" -> "survival"
    [] a \in {"survival", "old0"} -> "old1"
    [] a = "old1" -> "old"
    [] OTHER -> a

(* genlink and correctgraylist: the age after a visit.                     *)
CorrectedAge(a) ==
  CASE a = "touched1" -> "touched2"
    [] a = "touched2" -> "old"
    [] OTHER -> a

(* What the end of a young collection leaves, given the visited and the    *)
(* resurrected objects and those separated from 'finobj': sweepgen on each *)
(* list, the pointers, correctgraylists.                                   *)
SweepYoung(visited, resurrected, separated) ==
  LET seen == visited \union resurrected
      dead == Alloc \ (NonWhite \union seen)
      fin == Without(finobj, ToSet(separated))
      swept == (Part(allgc, Head1(allgc), p.old1) \ dead)
                 \union Part(fin, Head1(fin), p.finobjold1)
                 \union ToSet(tobefnz \o separated)
      white == dead \union {o \in swept : age[o] = "new"}
      aged == [o \in Obj |-> IF o \in Old1 THEN "old"
                             ELSE IF o \in seen THEN CorrectedAge(age[o])
                             ELSE age[o]]
      watched == {o \in seen \intersect Threads : isold(aged[o])}
  IN  /\ age' = [o \in Obj |-> IF o \in dead THEN "new"
                               ELSE IF o \in swept THEN NextAge(aged[o])
                               ELSE aged[o]]
      /\ color' = [o \in Obj |-> IF o \in white THEN "white"
                                 ELSE IF o \in watched THEN "gray"
                                 ELSE IF o \in seen THEN "black"
                                 ELSE color[o]]
      /\ gray' = {}
      /\ grayagain' = watched \union {o \in seen : age[o] = "touched1"}
      /\ allgc' = Without(allgc, dead)
      /\ finobj' = fin
      /\ tobefnz' = tobefnz \o separated
      /\ p' = [survival   |-> Head1(allgc'),
               old1       |-> FirstOutside(allgc, p.survival, dead),
               reallyold  |-> p.old1,
               firstold1  |-> Head1(Kept(allgc', {o \in swept : NextAge(aged[o]) = "old1"})),
               finobjsur  |-> Head1(fin),
               finobjold1 |-> FirstOutside(finobj, p.finobjsur, ToSet(separated)),
               finobjrold |-> p.finobjold1]

(* youngcollection, up to the finalizers.  (The quantifiers over one       *)
(* element name what TLC is to compute only once.)                         *)
YoungCollection ==
  /\ stage = "minor" /\ finalizing = {}
  /\ \E visited \in {Visited(YoungRoots, NonWhite)} :
       LET marked == NonWhite \union visited
           separated == Separated(marked, p.finobjold1)
       IN  \E resurrected \in {Visited(ToSet(tobefnz \o separated) \ marked, marked)} :
             /\ SweepYoung(visited, resurrected, separated)
             /\ refs' = Cut(Cleared(visited, marked, resurrected),
                            Obj \ (marked \union resurrected))
  /\ stage' = "finish"
  /\ UNCHANGED finalizing

-----------------------------------------------------------------------------
(* Full collections *)

(* One incremental cycle, with nothing marked before, up to its sweep.     *)
FullCycle ==
  \E visited \in {Visited({MainThread, Registry} \union ToSet(tobefnz), {})} :
    LET separated == Separated(visited, NULL)
    IN  \E resurrected \in {Visited(ToSet(separated), visited)} :
          LET dead == Obj \ (visited \union resurrected)
          IN  /\ refs' = Cut(Cleared(visited, visited, resurrected), dead)
              /\ allgc' = Without(allgc, dead)
              /\ finobj' = Without(finobj, ToSet(separated))
              /\ tobefnz' = tobefnz \o separated

(* minor2inc and the incremental sweep: everything is white and new.  The  *)
(* gray lists mean nothing until the next cycle empties them, nor does     *)
(* firstold1, which is left pointing to an object that may be freed, until *)
(* atomic2gen resets it.                                                   *)
AllWhite ==
  /\ color' = [o \in Obj |-> "white"]
  /\ age' = [o \in Obj |-> "new"]
  /\ p' = [NoPointers EXCEPT !.firstold1 = p.firstold1]
  /\ gray' = {} /\ grayagain' = {}

(* atomic2gen: what is left is old; threads go to 'grayagain'.             *)
atomic2gen ==
  LET threads == Alloc' \intersect Threads
  IN  /\ age' = [o \in Obj |-> IF o \in Alloc' THEN "old" ELSE "new"]
      /\ color' = [o \in Obj |-> IF o \in threads THEN "gray"
                                 ELSE IF o \in Alloc' THEN "black" ELSE "white"]
      /\ gray' = {} /\ grayagain' = threads
      /\ p' = AllOld(allgc', finobj')

(* lua_gc(LUA_GCCOLLECT): minor2inc, and entergen up to the finalizers     *)
(* left by an emergency collection.                                        *)
StartFull ==
  /\ stage = "minor" /\ finalizing = {}
  /\ AllWhite
  /\ stage' = "callfin"
  /\ UNCHANGED <<refs, lists, finalizing>>

(* The rest of entergen.                                                   *)
EndFull ==
  /\ \/ stage = "callfin" /\ tobefnz = <<>>
     \/ stage = "pause"
  /\ finalizing = {}
  /\ FullCycle /\ atomic2gen
  /\ stage' = "finish"
  /\ UNCHANGED finalizing

(* luaC_fullgc for a failed allocation: no finalizers are called.  While   *)
(* the finalizers of StartFull run, the mode is the incremental one.       *)
Emergency ==
  /\ Running
  /\ FullCycle
  /\ \/ stage \in {"minor", "finish"} /\ atomic2gen /\ stage' = stage
     \/ stage \in {"callfin", "pause"} /\ AllWhite /\ stage' = "pause"
  /\ UNCHANGED finalizing

-----------------------------------------------------------------------------
(* Finalizers *)

(* udata2finalize does not tell markold of an 'old1' object.               *)
FaultyFirstOld1(o) == p

(* udata2finalize: the object put back in 'allgc' may be the first 'old1'. *)
FirstOld1(o) == IF age[o] = "old1" THEN [p EXCEPT !.firstold1 = o] ELSE p

(* GCTM, with udata2finalize: the object is now first in 'allgc'; if it    *)
(* still has a __gc metamethod, that is called.                            *)
CallFinalizer ==
  /\ stage \in {"finish", "callfin"} /\ finalizing = {} /\ tobefnz # <<>>
  /\ LET o == Head(tobefnz)
     IN  /\ tobefnz' = Tail(tobefnz)
         /\ allgc' = <<o>> \o allgc
         /\ p' = FirstOld1(o)
         /\ \/ finalizing' = {o} /\ refs' = [refs EXCEPT ![MainThread] = @ \union {o}]
            \/ UNCHANGED <<finalizing, refs>>
  /\ UNCHANGED <<marks, finobj, graylists, stage>>

(* The finalizer returns or fails.                                         *)
FinalizerReturns ==
  /\ finalizing # {}
  /\ finalizing' = {}
  /\ refs' \in {refs, [refs EXCEPT ![MainThread] = @ \ finalizing]}
  /\ UNCHANGED <<marks, lists, p, graylists, stage>>

(* callallpendingfinalizers ends.                                          *)
EndFinalizers ==
  /\ stage = "finish" /\ finalizing = {} /\ tobefnz = <<>>
  /\ stage' = "minor"
  /\ UNCHANGED <<refs, marks, lists, p, graylists, finalizing>>

Next ==
  \/ Program
  \/ YoungCollection \/ StartFull \/ EndFull \/ Emergency
  \/ CallFinalizer \/ FinalizerReturns \/ EndFinalizers

Spec == Init /\ [][Next]_vars

-----------------------------------------------------------------------------
(* Properties *)

InUse(q) == q = "firstold1" => stage \in {"minor", "finish"}

(* The variables stay in their types, no object is in two places of the    *)
(* lists, and a pointer in use designates an allocated object.             *)
TypeOK ==
  /\ refs \in [Obj -> SUBSET Obj]
  /\ color \in [Obj -> Colors]
  /\ age \in [Obj -> Ages]
  /\ Len(allgc) + Len(finobj) + Len(tobefnz) = Cardinality(Alloc)
  /\ Alloc \subseteq Obj
  /\ p \in [Pointers -> {NULL} \union Obj]
  /\ \A q \in Pointers : p[q] \in {NULL} \union Alloc \/ ~InUse(q)
  /\ gray \subseteq Obj /\ grayagain \subseteq Obj
  /\ stage \in Stages
  /\ finalizing \subseteq Obj

(* In these stages ages and borders mean something.                        *)
Generational == stage \in {"minor", "finish"}

Needed ==
  Closure({MainThread, Registry} \union ToSet(finobj) \union ToSet(tobefnz), refs, Obj)

(* No use after free: whatever the program, or a finalizer still to be     *)
(* called, can follow references to is allocated.                          *)
NoDangling == Needed \subseteq Alloc

(* What checklist and checkobject of ltests.c assert: the pointers cut     *)
(* each list into parts in this order, every object is old enough for its  *)
(* part, and the colours fit the ages.                                     *)
OldEnough(list, sur, old1, rold) ==
  /\ Place(list, sur) <= Place(list, old1) /\ Place(list, old1) <= Place(list, rold)
  /\ \A o \in Part(list, sur, old1) : age[o] # "new"
  /\ \A o \in Part(list, old1, rold) : isold(age[o]) /\ age[o] # "old0"
  /\ \A o \in Part(list, rold, NULL) : age[o] \in {"old", "touched1", "touched2"}
AgesFitBorders ==
  Generational =>
    /\ OldEnough(allgc, p.survival, p.old1, p.reallyold)
    /\ OldEnough(finobj, p.finobjsur, p.finobjold1, p.finobjrold)

(* What ltests.c asserts of marks: an old object is not white, and black   *)
(* unless 'touched1', 'old0' or a thread; 'touched1' objects are gray; the *)
(* gray lists hold the gray objects and the 'touched2' ones.               *)
MarksFitAges ==
  Generational =>
    /\ \A o \in Alloc : isold(age[o]) =>
         \/ color[o] = "black"
         \/ color[o] = "gray" /\ (age[o] \in {"touched1", "old0"} \/ o \in Threads)
    /\ \A o \in Alloc : age[o] = "touched1" => color[o] = "gray"
    /\ gray \union grayagain =
         {o \in Alloc : color[o] = "gray" \/ age[o] = "touched2"}
    /\ gray \intersect grayagain = {}

(* What lua_checkmemory (ltests.c) asserts of a heap in generational mode: *)
(* ages fit the sublists and marks fit the ages, whatever barriers,        *)
(* finalizers and full collections did in between.                         *)
CheckMemory == AgesFitBorders /\ MarksFitAges

(* lgc.h:125-150: an 'old' object refers to no young object, an 'old1' or  *)
(* 'touched2' object to no new one, so what a young collection does not    *)
(* visit cannot hold anything it frees.                                    *)
OldHoldsNoYoung ==
  Generational =>
    \A o \in Alloc \ Threads, v \in Alloc : v \in refs[o] =>
      /\ age[o] = "old" => isold(age[v])
      /\ age[o] \in {"old1", "touched2"} => age[v] # "new"

(* Every 'old1' object will be found by markold of the next collection.    *)
Old1IsFound ==
  Generational => {o \in Alloc : age[o] = "old1"} \subseteq Old1

(* The heap is always as ltests.c expects it, and its lists share nothing. *)
MemoryIsConsistent == TypeOK /\ CheckMemory

(* A young collection follows all it has to: no old object hides a young   *)
(* one from it.                                                            *)
OldAreFollowed == OldHoldsNoYoung /\ Old1IsFound

(* The collector implements the contract of module HeapContract.           *)
Contract == INSTANCE HeapContract
  WITH alloc <- Alloc, Fixed <- {MainThread, Registry}, Weak <- WeakTables,
       mt <- {}, finobj <- ToSet(finobj), tobefnz <- ToSet(tobefnz)
ImplementsContract == Contract!Spec
=============================================================================
