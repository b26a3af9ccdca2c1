--------------------------- MODULE IncrementalGC ---------------------------
(***************************************************************************)
(* The incremental collector of lgc.c (gckind = KGC_INC) running against a *)
(* program that reads, writes and creates objects between any two of its   *)
(* steps, with finalizers, weak-value tables, user-requested full          *)
(* collections and emergency collections.                                  *)
(*                                                                         *)
(* The collector's lists are sets here: 'allgc', 'finobj', 'tobefnz' and   *)
(* the two gray lists hold the same objects as the code's lists, and what  *)
(* the code takes from the front of a list is taken from anywhere in the   *)
(* set.  'weak', which the code fills in the atomic phase and does not     *)
(* read after it, is part of 'grayagain' here.  'unswept' is the part of   *)
(* the list being swept that the pointer 'sweepgc' has still ahead.        *)
(*                                                                         *)
(* The two whites are named from the collector's point of view: "white" is *)
(* luaC_white(g) and "otherwhite" is otherwhite(g), so that flipping       *)
(* 'currentwhite' exchanges the two names.                                 *)
(*                                                                         *)
(* Kinds of object, by how they are marked and which barrier guards a      *)
(* write to them:                                                          *)
(*   thread   no barrier, revisited in the atomic phase                    *)
(*   table    barrier back (also full userdata with user values)           *)
(*   weak     table with weak values                                       *)
(*   closure  barrier forward (also prototypes)                            *)
(*   upval    closed upvalue: barrier forward, blackened when marked       *)
(*   string   no references, blackened when marked                         *)
(*                                                                         *)
(* A definition named Faulty... is a variant, with a plausible bug, of the *)
(* one that follows it.  No behaviour uses it: it serves to show that a    *)
(* property notices the bug.                                               *)
(***************************************************************************)
EXTENDS Naturals, FiniteSets, Heap

CONSTANTS
  Obj,          \* identities of objects
  MainThread,   \* the thread that runs the program
  Registry,     \* the registry table
  Kind,         \* Kind[o]: the kind of object o
  GCSWEEPMAX,   \* most objects that one sweep step visits
  MaxRefs,      \* bound of the model: most references in the heap
  FullGCs,      \* bound of the model: which full collections happen
  Heaps         \* bound of the model: objects that may exist together

Kinds == {"thread", "table", "weak", "closure", "upval", "string"}

ASSUME ConstantsAssumption ==
  /\ MainThread \in Obj
  /\ Registry \in Obj
  /\ Kind \in [Obj -> Kinds]
  /\ Kind[MainThread] = "thread"
  /\ Kind[Registry] = "table"
  /\ GCSWEEPMAX \in Nat \ {0}
  /\ MaxRefs \in Nat
  /\ FullGCs \subseteq {"user", "emergency"}
  /\ Heaps \subseteq SUBSET Obj

VARIABLES
  refs,        \* refs[o]: the objects o points to ({} when o is not allocated)
  mt,          \* the metatable of one basic type, if it has one: g->mt
  color,       \* color[o]: bits of o->marked
  gcstate,     \* g->gcstate
  allgc, finobj, tobefnz,
  unswept,     \* what g->sweepgc has still to visit
  gray, grayagain,
  finalizing,  \* the object whose finalizer GCTM is running, if any
  user, emerg  \* stages a user-requested / an emergency full GC has to run

heap == <<refs, mt>>
lists == <<allgc, finobj, tobefnz>>
graylists == <<gray, grayagain>>
control == <<finalizing, user, emerg>>
vars == <<refs, mt, color, gcstate, allgc, finobj, tobefnz, unswept,
          gray, grayagain, finalizing, user, emerg>>

Colors == {"white", "otherwhite", "gray", "black"}
SweepStates == {"swpallgc", "swpfinobj", "swptobefnz", "swpend"}
GCStates == {"propagate", "enteratomic", "callfin", "pause"} \union SweepStates

Alloc == allgc \union finobj \union tobefnz
IsWhite(o) == color[o] \in {"white", "otherwhite"}
keepinvariant == gcstate \in {"propagate", "enteratomic"}
issweepphase == gcstate \in SweepStates

Threads == {o \in Obj : Kind[o] = "thread"}
Tables == {o \in Obj : Kind[o] = "table"}
WeakTables == {o \in Obj : Kind[o] = "weak"}
Closures == {o \in Obj : Kind[o] = "closure"}
Upvals == {o \in Obj : Kind[o] = "upval"}
Strings == {o \in Obj : Kind[o] = "string"}

Init ==
  /\ refs = [o \in Obj |-> {}]
  /\ mt = {}
  /\ color = [o \in Obj |-> "white"]
  /\ gcstate = "pause"
  /\ allgc = {MainThread, Registry}
  /\ finobj = {}
  /\ tobefnz = {}
  /\ unswept = {}
  /\ gray = {}
  /\ grayagain = {}
  /\ finalizing = {}
  /\ user = 0
  /\ emerg = 0

-----------------------------------------------------------------------------
(* Marking *)

(* reallymarkobject: the white objects among S, and what the closed        *)
(* upvalues among them hold, since those are visited at once.              *)
ToMark(S) ==
  LET first == {o \in S : IsWhite(o)}
      held == UNION {refs[u] : u \in first \intersect Upvals}
  IN  first \union {o \in held : IsWhite(o)}

BlackWhenMarked == Upvals \union Strings

MarkColor(S, c) ==
  [o \in Obj |-> IF o \notin ToMark(S) THEN c[o]
                 ELSE IF o \in BlackWhenMarked THEN "black" ELSE "gray"]

ToGray(S) == ToMark(S) \ BlackWhenMarked

(* Objects that a traversal of o marks; a weak table holds its values only *)
(* weakly.                                                                 *)
StrongRefs == Cut(refs, WeakTables)

-----------------------------------------------------------------------------
(* Sweeping *)

(* One call of sweeplist visits the objects of S and leaves the others:    *)
(* the dead ones are freed, the rest is white again.                       *)
Freed(S, c) == {o \in S : c[o] = "otherwhite"}
SweepColor(S, c) == [o \in Obj |-> IF o \in S THEN "white" ELSE c[o]]

(* The part of the list L that sweeplist may visit in one step.            *)
Chunks(L, fast) ==
  IF fast \/ Cardinality(L) <= GCSWEEPMAX
    THEN {L}
    ELSE {S \in SUBSET L : Cardinality(S) = GCSWEEPMAX}

(* The part of the list L that sweeptolive visits: up to and including the *)
(* first object that is not dead.                                          *)
ToLive(L, c) ==
  {S \in SUBSET L :
     LET live == S \ Freed(S, c)
     IN  \/ \E o \in live : live = {o}
         \/ live = {} /\ S = L}

(* entersweep, given the colours, lists and references it starts from.     *)
EnterSweep(al, c, r) ==
  \E S \in ToLive(al, c) :
    /\ gcstate' = "swpallgc"
    /\ unswept' = al \ S
    /\ allgc' = al \ Freed(S, c)
    /\ color' = SweepColor(S, c)
    /\ refs' = Cut(r, Freed(S, c))

-----------------------------------------------------------------------------
(* The program *)

(* The program runs unless a collection requested by the program or forced *)
(* by a failed allocation is under way; a finalizer is part of the program.*)
Running == emerg = 0 /\ (finalizing # {} \/ user = 0)

(* What the running function can name: its stack, the registry and what    *)
(* lua_getmetatable pushes.                                                *)
Held == {MainThread, Registry} \union refs[MainThread] \union mt

(* Room for one more reference, under the bound of the model.              *)
HasRoom ==
  Cardinality({e \in Obj \X Obj : e[2] \in refs[e[1]]}) + Cardinality(mt) < MaxRefs

(* luaC_barrier_: mark the object v that the black object o now points to, *)
(* or, while sweeping, whiten o.                                           *)
ForwardBarrier(o, v) ==
  LET hit == color[o] = "black" /\ IsWhite(v)
  IN  \/ ~hit /\ UNCHANGED <<color, gray>>
      \/ /\ hit /\ keepinvariant
         /\ color' = MarkColor({v}, color)
         /\ gray' = gray \union ToGray({v})
      \/ /\ hit /\ ~keepinvariant
         /\ color' = [color EXCEPT ![o] = "white"]
         /\ UNCHANGED gray

(* The barrier is forgotten; the object is not linked in a gray list.      *)
FaultyBackBarrier(o, v) == UNCHANGED <<color, grayagain>>
FaultyBackBarrierUnlinked(o, v) ==
  /\ color' = IF color[o] = "black" /\ IsWhite(v) THEN [color EXCEPT ![o] = "gray"]
                                                 ELSE color
  /\ UNCHANGED grayagain

(* luaC_barrierback_: turn the black object o gray again.                  *)
BackBarrier(o, v) ==
  IF color[o] = "black" /\ IsWhite(v)
    THEN /\ color' = [color EXCEPT ![o] = "gray"]
         /\ grayagain' = grayagain \union {o}
    ELSE UNCHANGED <<color, grayagain>>

(* The barrier the code runs after storing v in o; threads have none.      *)
Barrier(o, v) ==
  \/ o \in Threads /\ UNCHANGED <<color, gray, grayagain>>
  \/ o \in Tables \union WeakTables /\ BackBarrier(o, v) /\ UNCHANGED gray
  \/ o \in Closures \union Upvals /\ ForwardBarrier(o, v) /\ UNCHANGED grayagain

(* luaC_newobj: a white object linked in 'allgc', pushed on the stack or,  *)
(* for an upvalue (luaF_initupvals), stored in the closure p it is for.    *)
New(o, p) ==
  /\ IF o \in Upvals THEN p \in Closures ELSE p = MainThread
  /\ allgc' = allgc \union {o}
  /\ refs' = [refs EXCEPT ![p] = @ \union {o}]
  /\ LET hit == o \in Upvals /\ color[p] = "black"
     IN  IF hit /\ keepinvariant
           THEN color' = [color EXCEPT ![o] = "black"]
           ELSE color' = [color EXCEPT ![o] = "white",
                                       ![p] = IF hit THEN "white" ELSE @]
  /\ UNCHANGED <<mt, gcstate, finobj, tobefnz, unswept, graylists, control>>

(* Push a value that p holds: a table access, OP_GETUPVAL, lua_xmove.      *)
Load(p, v) ==
  /\ v \notin Upvals /\ v \notin refs[MainThread]
  /\ refs' = [refs EXCEPT ![MainThread] = @ \union {v}]
  /\ UNCHANGED <<mt, color, gcstate, lists, unswept, graylists, control>>

(* Store a value in a table, a userdata, a C closure or another thread:    *)
(* lua_rawset, OP_SETTABLE, lua_setiuservalue, lua_setupvalue, lua_xmove.  *)
Store(p, v) ==
  /\ p # MainThread /\ p \notin Upvals \union Strings
  /\ v \notin refs[p]
  /\ refs' = [refs EXCEPT ![p] = @ \union {v}]
  /\ Barrier(p, v)
  /\ UNCHANGED <<mt, gcstate, lists, unswept, control>>

(* OP_SETUPVAL: a closed upvalue holds one value.                          *)
SetUpvalue(u, v) ==
  /\ refs[u] # {v}
  /\ refs' = [refs EXCEPT ![u] = {v}]
  /\ Barrier(u, v)
  /\ UNCHANGED <<mt, gcstate, lists, unswept, control>>

(* pushclosure and lua_upvaluejoin: closure d shares the upvalue u.        *)
ShareUpvalue(d, u) ==
  /\ d \in Closures /\ u \notin refs[d]
  /\ refs' = [refs EXCEPT ![d] = @ \union {u}]
  /\ Barrier(d, u)
  /\ UNCHANGED <<mt, gcstate, lists, unswept, control>>

(* A reference from p is overwritten or popped.                            *)
Drop(p, v) ==
  /\ refs' = [refs EXCEPT ![p] = @ \ {v}]
  /\ UNCHANGED <<mt, color, gcstate, lists, unswept, graylists, control>>

(* lua_setmetatable on a basic type: no barrier.                           *)
SetGlobalMetatable(new) ==
  /\ new # mt
  /\ mt' = new
  /\ UNCHANGED <<refs, color, gcstate, lists, unswept, graylists, control>>

(* An object moved to 'finobj' stays linked in 'allgc'.                    *)
FaultySetFinalizer(o, m) ==
  /\ o \in allgc \ {Registry}
  /\ finobj' = finobj \union {o}
  /\ refs' = [refs EXCEPT ![o] = @ \union {m}]
  /\ ForwardBarrier(o, m)
  /\ UNCHANGED <<mt, gcstate, allgc, tobefnz, unswept, grayagain, control>>

(* 'sweepgc' stays in o->next: the sweep goes on in the list o moved to.   *)
FaultySweepPointer(o, m) ==
  /\ o \in allgc \ {Registry}
  /\ finobj' = finobj \union {o}
  /\ refs' = [refs EXCEPT ![o] = @ \union {m}]
  /\ allgc' = allgc \ {o}
  /\ unswept' = IF gcstate = "swpallgc" /\ o \notin unswept THEN finobj ELSE unswept \ {o}
  /\ IF issweepphase THEN color' = SweepColor({o}, color) /\ UNCHANGED gray
                     ELSE ForwardBarrier(o, m)
  /\ UNCHANGED <<mt, gcstate, tobefnz, grayagain, control>>

(* lua_setmetatable with a metatable m that has __gc on a table o: the     *)
(* barrier, then luaC_checkfinalizer, which moves o from 'allgc' to        *)
(* 'finobj'.  While 'allgc' is being swept it may have to move 'sweepgc'   *)
(* off the field o->next, with sweeptolive.                                *)
SetFinalizer(o, m) ==
  /\ o \in allgc \ {Registry}
  /\ finobj' = finobj \union {o}
  /\ LET r == [refs EXCEPT ![o] = @ \union {m}]
     IN  IF ~issweepphase
           THEN /\ refs' = r
                /\ allgc' = allgc \ {o}
                /\ ForwardBarrier(o, m)
                /\ UNCHANGED unswept
           ELSE /\ \E S \in {{}} \union
                     (IF gcstate = "swpallgc" /\ o \notin unswept
                        THEN ToLive(unswept, color) ELSE {}) :
                     /\ unswept' = unswept \ (S \union {o})
                     /\ allgc' = allgc \ (Freed(S, color) \union {o})
                     /\ refs' = Cut(r, Freed(S, color))
                     /\ color' = SweepColor(S \union {o}, color)
                /\ UNCHANGED gray
  /\ UNCHANGED <<mt, gcstate, tobefnz, grayagain, control>>

(* Upvalues of the closures the running function can name.                 *)
HeldUpvalues == (UNION {refs[c] : c \in Held}) \intersect Upvals
HeldTables == Held \intersect Tables

(* Objects that may be created, under the bound of the model.              *)
Fresh == {o \in Obj \ Alloc : \E H \in Heaps : Alloc \union {o} \subseteq H}

(* Steps that may add a reference, under the bound of the model.           *)
Growth ==
  \/ \E o \in Fresh, p \in Held : New(o, p)
  \/ \E p \in Held \union HeldUpvalues : \E v \in refs[p] : Load(p, v)
  \/ \E p, v \in Held : Store(p, v)
  \/ \E u \in HeldUpvalues, v \in Held : SetUpvalue(u, v)
  \/ \E m \in HeldTables : SetGlobalMetatable({m})
  \/ \E o, m \in HeldTables : SetFinalizer(o, m)

Program ==
  /\ Running
  /\ \/ HasRoom /\ Growth
     \/ \E d \in Held, u \in HeldUpvalues : ShareUpvalue(d, u)
     \/ \E p \in Held \union HeldUpvalues : \E v \in refs[p] : Drop(p, v)
     \/ SetGlobalMetatable({})

-----------------------------------------------------------------------------
(* The collector *)

(* Stages of a full collection (fullinc): 3, run to the pause; 2, run a    *)
(* cycle up to the finalizers; 1, run to the pause again; 0, over.         *)
Target(stage) == IF stage = 2 THEN "callfin" ELSE "pause"

(* An incremental step may be taken whenever the program allocates, except *)
(* inside a finalizer (GCSTPGC); a full collection takes all its steps.    *)
CollectorRuns ==
  /\ emerg = 0 => finalizing = {}
  /\ emerg > 0 => gcstate # Target(emerg)
  /\ emerg = 0 /\ user > 0 => gcstate # Target(user)

(* 'fast' steps: all those of a full collection; those of luaC_step too    *)
(* while the program has set the step multiplier to 0.                     *)
Fast == IF emerg > 0 \/ user > 0 THEN {TRUE} ELSE BOOLEAN

(* restartcollection                                                       *)
Restart ==
  /\ CollectorRuns /\ gcstate = "pause"
  /\ LET roots == {MainThread, Registry} \union mt \union tobefnz
     IN  color' = MarkColor(roots, color) /\ gray' = ToGray(roots)
  /\ grayagain' = {}
  /\ gcstate' = "propagate"
  /\ UNCHANGED <<heap, lists, unswept, control>>

(* propagatemark on the gray object o.                                     *)
Propagate(o) ==
  /\ CollectorRuns /\ gcstate = "propagate" /\ FALSE \in Fast
  /\ LET revisit == o \in Threads \union WeakTables  \* goes to 'grayagain'
     IN  /\ color' = [MarkColor(StrongRefs[o], color) EXCEPT
                        ![o] = IF revisit THEN "gray" ELSE "black"]
         /\ gray' = (gray \ {o}) \union ToGray(StrongRefs[o])
         /\ grayagain' = IF revisit THEN grayagain \union {o} ELSE grayagain
  /\ gcstate' = gcstate
  /\ UNCHANGED <<heap, lists, unswept, control>>

(* The propagation phase ends with an empty gray list, or at once if fast. *)
EndPropagate ==
  /\ CollectorRuns /\ gcstate = "propagate"
  /\ TRUE \in Fast \/ gray = {}
  /\ gcstate' = "enteratomic"
  /\ UNCHANGED <<heap, color, lists, unswept, graylists, control>>

(* What atomic() leaves, part by part.                                     *)
NonWhite == {o \in Obj : ~IsWhite(o)}

(* propagateall from the roots and both gray lists: black objects are not  *)
(* traversed again.                                                        *)
Marked ==
  LET black == {o \in Obj : color[o] = "black"}
      start == {MainThread, Registry} \union mt \union gray \union grayagain
  IN  NonWhite \union Closure(start, Cut(StrongRefs, black), Obj)

(* Objects to be finalized are marked, what they hold is not.              *)
FaultyResurrected(pending, marked) == pending

(* markbeingfnz, given what is marked so far, and the propagation from the *)
(* pending objects.                                                        *)
Resurrected(pending, marked) == Closure(pending, Cut(StrongRefs, marked), Obj)

(* Clearing a weak table marks the strings in it.                          *)
WeakStrings(W) == (UNION {refs[w] : w \in W \intersect WeakTables}) \intersect Strings

(* Weak tables are not cleared.                                            *)
FaultyClearedRefs(marked, resurrected) == refs

(* clearbyvalues: the first pass, before separating, decides for the weak  *)
(* tables reached from the roots; the second for the resurrected ones.     *)
ClearedRefs(marked, resurrected) ==
  [o \in Obj |->
     IF o \notin WeakTables \/ o \notin marked \union resurrected THEN refs[o]
     ELSE refs[o] \intersect
            (Strings \union marked \union (IF o \in marked THEN {} ELSE resurrected))]

(* Reachable objects are separated too.                                    *)
FaultyToFinalize(marked) == finobj

(* separatetobefnz takes the unmarked objects of 'finobj'.                 *)
ToFinalize(marked) == finobj \ marked

(* The current white is not flipped.                                       *)
FaultyFlippedColor(all) ==
  [o \in Obj |-> IF o \in all THEN IF o \in WeakTables THEN "gray" ELSE "black"
                 ELSE color[o]]

(* The colours after the marks and the flip of 'currentwhite'.  A weak     *)
(* table stays gray, in one of the lists.                                  *)
FlippedColor(all) ==
  [o \in Obj |->
     IF o \in all THEN IF o \in WeakTables THEN "gray" ELSE "black"
     ELSE IF o \notin Alloc THEN color[o]
     ELSE IF color[o] = "white" THEN "otherwhite" ELSE "white"]

(* The step from 'enteratomic': atomic(), with separatetobefnz, then       *)
(* entersweep.  (A quantifier over one element names what TLC is to        *)
(* compute only once.)                                                     *)
Atomic ==
  /\ CollectorRuns /\ gcstate = "enteratomic"
  /\ \E marked \in {Marked} :
       LET pending == tobefnz \union ToFinalize(marked)
       IN  \E resurrected \in {Resurrected(pending, marked)} :
             LET all == marked \union resurrected \union WeakStrings(marked \union resurrected)
             IN  /\ tobefnz' = pending
                 /\ finobj' = finobj \ pending
                 /\ gray' = {}
                 /\ grayagain' = all \intersect WeakTables
                 /\ EnterSweep(allgc, FlippedColor(all), ClearedRefs(marked, resurrected))
  /\ UNCHANGED <<mt, control>>

(* sweepstep with something left to visit.                                 *)
Sweep ==
  /\ CollectorRuns /\ unswept # {}
  /\ \E fast \in Fast : \E S \in Chunks(unswept, fast) :
       /\ unswept' = unswept \ S
       /\ color' = SweepColor(S, color)
       /\ refs' = Cut(refs, Freed(S, color))
       /\ allgc' = allgc \ Freed(S, color)
       /\ finobj' = finobj \ Freed(S, color)
       /\ tobefnz' = tobefnz \ Freed(S, color)
  /\ UNCHANGED <<mt, gcstate, graylists, control>>

(* 'finobj' is not swept.                                                  *)
FaultyNextSweep ==
  /\ CollectorRuns /\ issweepphase /\ unswept = {}
  /\ \/ gcstate = "swpallgc" /\ gcstate' = "swptobefnz" /\ unswept' = tobefnz
     \/ gcstate = "swptobefnz" /\ gcstate' = "swpend" /\ unswept' = {}
     \/ gcstate = "swpend" /\ gcstate' = "callfin" /\ unswept' = {}
  /\ UNCHANGED <<heap, color, lists, graylists, control>>

(* sweepstep at the end of a list, and the step from 'swpend'.             *)
NextSweep ==
  /\ CollectorRuns /\ issweepphase /\ unswept = {}
  /\ \/ gcstate = "swpallgc" /\ gcstate' = "swpfinobj" /\ unswept' = finobj
     \/ gcstate = "swpfinobj" /\ gcstate' = "swptobefnz" /\ unswept' = tobefnz
     \/ gcstate = "swptobefnz" /\ gcstate' = "swpend" /\ unswept' = {}
     \/ gcstate = "swpend" /\ gcstate' = "callfin" /\ unswept' = {}
  /\ UNCHANGED <<heap, color, lists, graylists, control>>

(* An object whose finalizer is called stays in 'tobefnz'.                 *)
FaultyCallFinalizer(o) ==
  /\ CollectorRuns /\ gcstate = "callfin" /\ emerg = 0
  /\ finalizing' = {o}
  /\ refs' = [refs EXCEPT ![MainThread] = @ \union {o}]
  /\ UNCHANGED <<mt, color, gcstate, lists, unswept, graylists, user, emerg>>

(* GCTM: udata2finalize moves an object back to 'allgc'; if it still has a *)
(* __gc metamethod, the finalizer is called with the object on the stack.  *)
CallFinalizer(o) ==
  /\ CollectorRuns /\ gcstate = "callfin" /\ emerg = 0
  /\ tobefnz' = tobefnz \ {o}
  /\ allgc' = allgc \union {o}
  /\ \/ /\ finalizing' = {o}
        /\ refs' = [refs EXCEPT ![MainThread] = @ \union {o}]
     \/ UNCHANGED <<refs, finalizing>>
  /\ UNCHANGED <<mt, color, gcstate, finobj, unswept, graylists, user, emerg>>

(* The finalizer returns or fails: its argument is popped.  (Another       *)
(* reference to it may be elsewhere in the stack.)                         *)
FinalizerReturns ==
  /\ Running /\ finalizing # {}
  /\ finalizing' = {}
  /\ refs' \in {refs, [refs EXCEPT ![MainThread] = @ \ finalizing]}
  /\ UNCHANGED <<mt, color, gcstate, lists, unswept, graylists, user, emerg>>

(* An emergency collection waits for the finalizers.                       *)
FaultyEndCycle ==
  /\ CollectorRuns /\ gcstate = "callfin" /\ tobefnz = {}
  /\ gcstate' = "pause"
  /\ UNCHANGED <<heap, color, lists, unswept, graylists, control>>

(* The step from 'callfin' that ends a cycle.                              *)
EndCycle ==
  /\ CollectorRuns /\ gcstate = "callfin"
  /\ tobefnz = {} \/ emerg > 0
  /\ gcstate' = "pause"
  /\ UNCHANGED <<heap, color, lists, unswept, graylists, control>>

(* A full collection carries on with the cycle under way.                  *)
FaultyStartFull ==
  /\ Running
  /\ \/ "user" \in FullGCs /\ finalizing = {} /\ user' = 2 /\ emerg' = 0
     \/ "emergency" \in FullGCs /\ emerg' = 2 /\ user' = user
  /\ UNCHANGED <<heap, color, gcstate, lists, unswept, graylists, finalizing>>

(* luaC_fullgc starts: if objects may be black, everything is swept first. *)
StartFull ==
  /\ Running
  /\ \/ /\ "user" \in FullGCs                \* lua_gc(LUA_GCCOLLECT)
        /\ finalizing = {} /\ user' = 3 /\ emerg' = 0
     \/ /\ "emergency" \in FullGCs           \* tryagain
        /\ emerg' = 3 /\ user' = user
  /\ IF keepinvariant THEN EnterSweep(allgc, color, refs)
                      ELSE UNCHANGED <<refs, color, gcstate, allgc, unswept>>
  /\ UNCHANGED <<mt, finobj, tobefnz, graylists, finalizing>>

(* luaC_runtilstate returns: the next stage of the full collection.        *)
EndStage ==
  /\ \/ emerg > 0 /\ gcstate = Target(emerg) /\ emerg' = emerg - 1 /\ user' = user
     \/ /\ emerg = 0 /\ finalizing = {} /\ user > 0
        /\ gcstate = Target(user) /\ user' = user - 1 /\ emerg' = 0
  /\ UNCHANGED <<heap, color, gcstate, lists, unswept, graylists, finalizing>>

Collector ==
  \/ Restart
  \/ \E o \in gray : Propagate(o)
  \/ EndPropagate \/ Atomic \/ Sweep \/ NextSweep
  \/ \E o \in tobefnz : CallFinalizer(o)
  \/ EndCycle \/ EndStage

Next == Program \/ Collector \/ FinalizerReturns \/ StartFull

Spec == Init /\ [][Next]_vars

-----------------------------------------------------------------------------
(* Properties *)

(* The variables stay in their types: the three lists of objects are       *)
(* disjoint, an upvalue is held by closures only and never by another      *)
(* upvalue, strings refer to nothing.                                      *)
TypeOK ==
  /\ refs \in [Obj -> SUBSET Obj]
  /\ mt \in SUBSET Tables
  /\ color \in [Obj -> Colors]
  /\ gcstate \in GCStates
  /\ allgc \subseteq Obj /\ finobj \subseteq Tables /\ tobefnz \subseteq Tables
  /\ allgc \intersect finobj = {}
  /\ (allgc \union finobj) \intersect tobefnz = {}
  /\ unswept \subseteq Obj /\ gray \subseteq Obj /\ grayagain \subseteq Obj
  /\ finalizing \subseteq Obj
  /\ user \in 0..3 /\ emerg \in 0..3
  /\ \A o \in Obj : refs[o] \intersect Upvals # {} => o \in Closures
  /\ \A o \in Strings : refs[o] = {}

(* Everything that must stay: what the program or a finalizer can reach.   *)
Needed ==
  Closure({MainThread, Registry} \union mt \union finobj \union tobefnz, refs, Obj)

(* No use after free: whatever the program, or a finalizer still to be     *)
(* called, can follow references to is allocated, at every interleaving of *)
(* collector steps with reads, writes and allocations.                     *)
NoDangling == Needed \subseteq Alloc

(* The main invariant of lgc.h:51-58: while the collector marks, no black  *)
(* object points to a white one, whatever the program stores meanwhile.    *)
TriColor ==
  keepinvariant =>
    \A o \in Alloc : color[o] = "black" => \A v \in refs[o] : ~IsWhite(v)

(* While the collector marks, the gray objects are exactly those in the    *)
(* gray lists, each in one (the count that lua_checkmemory of ltests.c     *)
(* makes): a gray object outside every list would never be traversed, and  *)
(* one in two lists would break the chain of 'gclist' fields.              *)
GraysListed ==
  keepinvariant =>
    /\ gray \union grayagain = {o \in Alloc : color[o] = "gray"}
    /\ gray \intersect grayagain = {}

(* After the flip, a dead object waits in the unswept part of 'allgc' and  *)
(* nothing that will survive points to it; finalizable objects are never   *)
(* dead.                                                                   *)
DeadAreUnreferenced ==
  /\ \A o \in Alloc :
       color[o] = "otherwhite" => gcstate = "swpallgc" /\ o \in unswept /\ o \in allgc
  /\ \A o \in Alloc : color[o] # "otherwhite" =>
       \A v \in refs[o] : v \in Alloc /\ color[v] # "otherwhite"

(* When the sweep is over every object is white again, so that the barrier *)
(* asserts of lgc.c:246 and lgc.c:261 hold and the next cycle starts from a *)
(* clean heap.                                                             *)
CycleEndsWhite ==
  gcstate \in {"swpend", "callfin", "pause"} => \A o \in Alloc : color[o] = "white"

(* While the collector marks, no barrier, root or list lets it miss an     *)
(* object: black never points to white, and gray is always listed.         *)
MarksAreSound == TriColor /\ GraysListed

(* What a sweep frees nothing alive refers to, and what it passes is ready *)
(* for the next cycle.                                                     *)
SweepIsSound == DeadAreUnreferenced /\ CycleEndsWhite

(* A full collection leaves no garbage: when it reaches the finalizers of  *)
(* the cycle it ran, even started in the middle of a cycle with black      *)
(* garbage, every object left is needed.                                   *)
FullCollectionComplete ==
  (emerg = 2 \/ (emerg = 0 /\ user = 2)) /\ gcstate = "callfin"
    => Alloc \subseteq Needed

(* The collector implements the contract of module HeapContract.           *)
Contract == INSTANCE HeapContract
  WITH alloc <- Alloc, Fixed <- {MainThread, Registry}, Weak <- WeakTables
ImplementsContract == Contract!Spec

-----------------------------------------------------------------------------
(* Fairness: a program that keeps allocating keeps paying debt with        *)
(* collector steps, and finalizers return.                                 *)
FairSpec ==
  /\ Spec
  /\ WF_vars(Collector)
  /\ WF_vars(FinalizerReturns)

(* Garbage with no finalizer does not stay for ever: it is freed, unless   *)
(* it becomes reachable again through a finalizer.                         *)
GarbageIsFreed ==
  \A o \in Obj \ {MainThread, Registry} :
    (o \in Alloc /\ o \notin Needed) ~> (o \notin Alloc \/ o \in Needed)

(* Every finalizer that was called returns: what weak fairness of its      *)
(* return does not give, as each emergency collection in it interrupts it. *)
FinalizersReturn == (finalizing # {}) ~> (finalizing = {})

(* A full collection that a failed allocation forced ends, whatever the    *)
(* finalizers do; one that the program asked for, which calls finalizers   *)
(* and is interrupted by the emergency collections in them, ends if the    *)
(* finalizers return (luaC_fullgc, fullinc).                               *)
FullCollectionEnds ==
  /\ (emerg > 0) ~> (emerg = 0)
  /\ FinalizersReturn => ((user > 0) ~> (user = 0))
=============================================================================
