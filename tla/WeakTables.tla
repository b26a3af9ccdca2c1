----------------------------- MODULE WeakTables -----------------------------
(***************************************************************************)
(* How the collector marks and clears tables with weak keys and values     *)
(* (lgc.c), in an incremental cycle during which the program goes on       *)
(* changing tables and its stack.                                          *)
(*                                                                         *)
(* Ephemeron tables keep a value only if its key is reachable by other     *)
(* means, so that marking has to go back and forth between them until      *)
(* nothing changes.  Finalizers bring objects back to life after weak      *)
(* values were cleared and before weak keys are.                           *)
(*                                                                         *)
(* The heap is a running thread, tables with an array and a hash part and  *)
(* a fixed mode, userdata without user values and strings.  IncrementalGC  *)
(* has the rest of the cycle, and the colours of its sweep.                *)
(***************************************************************************)
EXTENDS Naturals, FiniteSets, SequencesExt, Functions

CONSTANTS
  Tables, Leaves, Strings,
  MAXWRITES          \* bound: writes of the program during the cycle

Modes == {"strong", "weakvalue", "ephemeron", "allweak"}
Thread == "thread"
nil == "nil"
DeadKey == "dead"
WeakTablesConstants ==
  /\ Cardinality(Tables \cup Leaves \cup Strings) = Cardinality(Tables) + Cardinality(Leaves) + Cardinality(Strings)
  /\ {Thread, nil, DeadKey} \cap (Tables \cup Leaves \cup Strings) = {} /\ MAXWRITES \in Nat

Objects == {Thread} \cup Tables \cup Leaves \cup Strings

VARIABLE G           \* the heap and the collector

-----------------------------------------------------------------------------
(* Lists and marks.  Lists grow at their heads.                            *)

IsWhite(g, o) == o \in Objects /\ g.color[o] = "white"
NonWhite(g) == {o \in Objects : g.color[o] # "white"}

linkgclist(g, o, list) == [g EXCEPT ![list] = <<o>> \o @, !.color[o] = "gray"]

reallymarkobject(g, o) ==
  IF o \in Strings \cup Leaves THEN [g EXCEPT !.color[o] = "black"] ELSE linkgclist(g, o, "gray")
markobject(g, o) == IF IsWhite(g, o) THEN reallymarkobject(g, o) ELSE g

Empty(n) == n.val = nil
gckeyN(n) == IF n.key = DeadKey THEN nil ELSE n.key
clearkey(n) == IF n.key = nil THEN n ELSE [n EXCEPT !.key = DeadKey]
setempty(n) == [n EXCEPT !.val = nil]

(* iscleared tells whether a key or value can be cleared, and marks it if  *)
(* it is a string, which never is.                                         *)
KeepString(g, o) == IF o \in Strings THEN markobject(g, o) ELSE g

iscleared(g, o) == o \notin Strings /\ IsWhite(g, o)

-----------------------------------------------------------------------------
(* Traversals.  r is a collector with what a traversal found on its way.   *)

Node(g, t, i) == g.hash[t][i]
ClearEmpty(g, t, i) == IF Empty(Node(g, t, i)) THEN [g EXCEPT !.hash[t][i] = clearkey(@)] ELSE g
Indices(g, t) == [i \in DOMAIN g.hash[t] |-> i]

traversearray(g, t) ==
  [g |-> FoldLeft(markobject, g, g.array[t]),
   marked |-> \E o \in ToSet(g.array[t]) : IsWhite(g, o)]

WeakValueNode(t, r, i) ==
  LET n == Node(r.g, t, i)
      marked == markobject(r.g, n.key)
  IN  IF Empty(n) THEN [r EXCEPT !.g = ClearEmpty(r.g, t, i)]
      ELSE IF r.hasclears THEN [r EXCEPT !.g = marked]
      ELSE [g |-> KeepString(marked, n.val), hasclears |-> iscleared(marked, n.val)]

traverseweakvalue(g, t) ==
  LET r == FoldLeft(LAMBDA s, i : WeakValueNode(t, s, i), [g |-> g, hasclears |-> g.array[t] # <<>>], Indices(g, t))
  IN  linkgclist(r.g, t, IF g.gcstate = "atomic" /\ r.hasclears THEN "weak" ELSE "grayagain")

EphemeronNode(t, r, i) ==
  LET n == Node(r.g, t, i)
      kept == KeepString(r.g, n.key)
  IN  IF Empty(n) THEN [r EXCEPT !.g = ClearEmpty(r.g, t, i)]
      ELSE IF iscleared(r.g, n.key)
      THEN [r EXCEPT !.hasclears = TRUE, !.hasww = @ \/ IsWhite(r.g, n.val)]
      ELSE [r EXCEPT !.g = markobject(kept, n.val), !.marked = @ \/ IsWhite(kept, n.val)]

LinkedEphemeron(r, t) ==
  [r EXCEPT !.g = CASE @.gcstate = "propagate" -> linkgclist(@, t, "grayagain")
                    [] @.gcstate = "atomic" /\ r.hasww -> linkgclist(@, t, "ephemeron")
                    [] @.gcstate = "atomic" /\ ~r.hasww /\ r.hasclears -> linkgclist(@, t, "allweak")
                    [] OTHER -> @]
traverseephemeron(g, t, inv) ==
  LinkedEphemeron(FoldLeft(LAMBDA s, i : EphemeronNode(t, s, i), traversearray(g, t) @@ [hasclears |-> FALSE, hasww |-> FALSE],
                           IF inv THEN Reverse(Indices(g, t)) ELSE Indices(g, t)), t)

StrongNode(t, g, i) ==
  LET n == Node(g, t, i)
  IN  IF Empty(n) THEN ClearEmpty(g, t, i) ELSE markobject(markobject(g, n.key), n.val)

traversestrongtable(g, t) == FoldLeft(LAMBDA s, i : StrongNode(t, s, i), traversearray(g, t).g, Indices(g, t))

traversetable(g, t) ==
  CASE g.mode[t] = "weakvalue" -> traverseweakvalue(g, t)
    [] g.mode[t] = "ephemeron" -> traverseephemeron(g, t, FALSE).g
    [] g.mode[t] = "allweak" -> linkgclist(g, t, "allweak")
    [] g.mode[t] = "strong" -> traversestrongtable(g, t)

traversethread(g) ==
  LET linked == IF g.gcstate = "propagate" THEN linkgclist(g, Thread, "grayagain") ELSE g
  IN  FoldLeft(markobject, linked, SetToSeq(g.stack))

propagatemark(g) ==
  LET o == Head(g.gray)
      black == [g EXCEPT !.gray = Tail(@), !.color[o] = "black"]
  IN  IF o = Thread THEN traversethread(black) ELSE traversetable(black, o)

RECURSIVE propagateall(_)
propagateall(g) == IF g.gray = <<>> THEN g ELSE propagateall(propagatemark(g))

(* Tables that this round links again in the list belong to the next.      *)
Visited(r, e) == IF e.marked THEN [g |-> propagateall(e.g), changed |-> TRUE] ELSE [r EXCEPT !.g = e.g]
ConvergeTable(inv, r, t) == Visited(r, traverseephemeron([r.g EXCEPT !.color[t] = "black"], t, inv))

(* Only what was marked in the last table visited counts.                  *)
RECURSIVE Faultyconvergeephemerons(_, _)
Faultyconvergeephemerons(g, inv) ==
  LET r == FoldLeft(LAMBDA s, t : ConvergeTable(inv, [s EXCEPT !.changed = FALSE], t),
                    [g |-> [g EXCEPT !.ephemeron = <<>>], changed |-> FALSE], g.ephemeron)
  IN  IF r.changed THEN Faultyconvergeephemerons(r.g, ~inv) ELSE r.g

RECURSIVE convergeephemerons(_, _)
convergeephemerons(g, inv) ==
  LET r == FoldLeft(LAMBDA s, t : ConvergeTable(inv, s, t),
                    [g |-> [g EXCEPT !.ephemeron = <<>>], changed |-> FALSE], g.ephemeron)
  IN  IF r.changed THEN convergeephemerons(r.g, ~inv) ELSE r.g

-----------------------------------------------------------------------------
(* Clearing                                                                *)

ClearNodeByKey(t, g, i) ==
  LET k == gckeyN(Node(g, t, i))
      removed == IF iscleared(g, k) THEN [g EXCEPT !.hash[t][i] = setempty(@)] ELSE KeepString(g, k)
  IN  ClearEmpty(removed, t, i)

clearbykeys(g, list) ==
  FoldLeft(LAMBDA s, t : FoldLeft(LAMBDA r, i : ClearNodeByKey(t, r, i), s, Indices(s, t)), g, list)

ClearNodeByValue(t, g, i) ==
  LET v == Node(g, t, i).val
      removed == IF iscleared(g, v) THEN [g EXCEPT !.hash[t][i] = setempty(@)] ELSE KeepString(g, v)
  IN  ClearEmpty(removed, t, i)

ClearArray(g, t) ==
  LET kept == FoldLeft(KeepString, g, g.array[t])
  IN  [kept EXCEPT !.array[t] = [i \in DOMAIN @ |-> IF iscleared(g, g.array[t][i]) THEN nil ELSE g.array[t][i]]]

clearbyvalues(g, list) ==
  FoldLeft(LAMBDA s, t : FoldLeft(LAMBDA r, i : ClearNodeByValue(t, r, i), ClearArray(s, t), Indices(s, t)), g, list)

(* What was linked in a list after it was orig.                            *)
Since(list, orig) == SubSeq(list, 1, Len(list) - Len(orig))

separatetobefnz(g) ==
  [g EXCEPT !.tobefnz = @ \o SelectSeq(g.finobj, LAMBDA o : IsWhite(g, o)),
            !.finobj = SelectSeq(@, LAMBDA o : ~IsWhite(g, o))]
markbeingfnz(g) == FoldLeft(markobject, g, g.tobefnz)

MarkedStrong(g) ==
  LET entered == [g EXCEPT !.grayagain = <<>>, !.gcstate = "atomic"]
  IN  convergeephemerons(propagateall([propagateall(markobject(entered, Thread)) EXCEPT !.gray = g.grayagain]), FALSE)

(* Clearing when all that is strongly reachable is marked, and again when  *)
(* the objects that are back for their finalizers are.                     *)
ClearStrong(g) == clearbyvalues(clearbyvalues(g, g.weak), g.allweak)
ClearKeys(g) == clearbykeys(clearbykeys(g, g.ephemeron), g.allweak)
ClearBack(strong, g) ==
  clearbyvalues(clearbyvalues(ClearKeys(g), Since(g.weak, strong.weak)), Since(g.allweak, strong.allweak))

BringBack(g) == convergeephemerons(propagateall(markbeingfnz(separatetobefnz(g))), FALSE)
FinishAtomic(strong) == ClearBack(strong, BringBack(ClearStrong(strong)))
atomic(g) == FinishAtomic(MarkedStrong(g))

-----------------------------------------------------------------------------
(* The program.  It can get at whatever links of any mode lead to.         *)

Links(g, t) == ToSet(g.array[t]) \cup UNION {{n.key, n.val} : n \in {m \in ToSet(g.hash[t]) : ~Empty(m)}}
RECURSIVE Reached(_, _)
Reached(g, from) ==
  LET more == from \cup (UNION {Links(g, t) : t \in from \cap Tables} \cap Objects)
  IN  IF more = from THEN from ELSE Reached(g, more)
Available(g) == Reached(g, g.stack)

barrierback(g, t, v) == IF g.color[t] = "black" /\ IsWhite(g, v) THEN linkgclist(g, t, "grayagain") ELSE g

Writes == G.gcstate = "propagate" /\ G.writes < MAXWRITES
Wrote(g) == G' = [g EXCEPT !.writes = @ + 1]

(* A new key goes to a node without a value, if no node has it (newkey).   *)
HasKey(t, k) == \E i \in DOMAIN G.hash[t] : Node(G, t, i).key = k
NewKey(t, i, k, v) ==
  /\ Empty(Node(G, t, i)) /\ ~HasKey(t, k)
  /\ Wrote(barrierback(barrierback([G EXCEPT !.hash[t][i] = [key |-> k, val |-> v]], t, k), t, v))

SetField(t, i, v) ==
  /\ gckeyN(Node(G, t, i)) # nil
  /\ Wrote(barrierback([G EXCEPT !.hash[t][i].val = v], t, v))

SetStack(s) == Wrote([G EXCEPT !.stack = s])

Program ==
  /\ Writes
  /\ \/ \E t \in Available(G) \cap Tables : \E i \in DOMAIN G.hash[t] :
          \E v \in Available(G) \cup {nil} :
            \/ SetField(t, i, v)
            \/ v # nil /\ \E k \in Available(G) : NewKey(t, i, k, v)
     \/ \E o \in Available(G) : SetStack(G.stack \cup {o}) \/ SetStack(G.stack \ {o})

-----------------------------------------------------------------------------
(* A cycle begins with the thread marked (restartcollection).              *)
restartcollection(heap) ==
  markobject(heap @@ [color |-> [o \in Objects |-> "white"], gray |-> <<>>, grayagain |-> <<>>, weak |-> <<>>,
                      ephemeron |-> <<>>, allweak |-> <<>>, tobefnz |-> <<>>, gcstate |-> "propagate", writes |-> 0], Thread)

Propagate == G.gcstate = "propagate" /\ G.gray # <<>> /\ G' = propagatemark(G)

(* The atomic phase may begin before all is propagated (singlestep, fast). *)
Atomic == G.gcstate = "propagate" /\ G' = atomic(G)

Next == Program \/ Propagate \/ Atomic

-----------------------------------------------------------------------------
(* What the manual promises (2.5.4).  An ephemeron table makes a value     *)
(* reachable if its key is; strings are values, never removed.             *)

Strong(g, t, seen) ==
  LET nodes == {n \in ToSet(g.hash[t]) : ~Empty(n)}
      array == ToSet(g.array[t])
  IN  CASE g.mode[t] = "strong" -> array \cup {n.key : n \in nodes} \cup {n.val : n \in nodes}
        [] g.mode[t] = "weakvalue" -> {n.key : n \in nodes}
        [] g.mode[t] = "ephemeron" -> array \cup {n.val : n \in {m \in nodes : m.key \in seen \cup Strings}}
        [] g.mode[t] = "allweak" -> {}
RECURSIVE Reachable(_, _)
Reachable(g, seen) ==
  LET more == seen \cup (UNION {Strong(g, t, seen) : t \in seen \cap Tables} \cap Objects)
  IN  IF more = seen THEN seen ELSE Reachable(g, more)
StronglyReachable(g) == Reachable(g, {Thread} \cup g.stack)

(* Whenever the atomic phase begins, it marks all that is reachable, and   *)
(* all that finalizers will need; if the program did not interfere it      *)
(* marks nothing else (but strings of weak tables).                        *)
MarksReachable(g, after) ==
  LET needed == Reachable(g, {Thread} \cup g.stack \cup ToSet(after.tobefnz))
  IN  /\ (needed \ Strings) \cup g.stack \subseteq NonWhite(after)
      /\ g.writes = 0 => NonWhite(after) \subseteq needed \cup Strings
      /\ ToSet(after.tobefnz) \cap StronglyReachable(g) = {}

(* No table that stays refers to what will be freed.                       *)
NoDeadEntries(after) ==
  \A t \in Tables \cap NonWhite(after) : \A o \in Links(after, t) : ~IsWhite(after, o)

(* An entry stays if its key and its value are reachable, or its key is    *)
(* only waiting for its finalizer; a weak value that waits for its         *)
(* finalizer is gone before that runs.                                     *)
EntriesStay(g, after) ==
  LET kept == StronglyReachable(g) \cup Strings
      waiting == ToSet(after.tobefnz)
  IN  \A t \in Tables \cap StronglyReachable(g) : \A i \in DOMAIN g.hash[t] :
        LET n == Node(g, t, i) IN
        ~Empty(n) =>
          /\ n.val \in kept /\ n.key \in kept \cup waiting => Node(after, t, i) = n
          /\ g.mode[t] = "ephemeron" /\ n.key \in waiting => Node(after, t, i) = n
          /\ g.mode[t] \in {"weakvalue", "allweak"} /\ n.val \in waiting => Empty(Node(after, t, i))

(* Weak tables lose exactly what dies, in whatever order tables are        *)
(* visited and whatever the program does until the atomic phase            *)
(* (convergeephemerons, clearbykeys, clearbyvalues).                       *)
AtomicPhaseIsRight ==
  G.gcstate = "propagate" /\ G'.gcstate = "atomic" =>
    MarksReachable(G, G') /\ NoDeadEntries(G') /\ EntriesStay(G, G')
=============================================================================
