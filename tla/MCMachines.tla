----------------------------- MODULE MCMachines -----------------------------
(***************************************************************************)
(* Parts of the runtime whose state matters over many steps and that do    *)
(* not interact: each behaviour is one of one of them, on a small          *)
(* instance, while the others rest.  The references are those of the       *)
(* extended module, the other parts are instances.                         *)
(***************************************************************************)
EXTENDS References, TLC

VARIABLES
  machine,
  L,                                                        \* Stack
  looping, given, ra, step, control, k,                     \* NumericFor
  raw, metatable, flags,                                    \* Metamethods
  B, stack, box, tbc, blocks, result, added, phase, bad,    \* Buffers
  G                                                         \* WeakTables

stackvars == L
loopvars == <<looping, given, ra, step, control, k>>
metavars == <<raw, metatable, flags>>
buffervars == <<B, stack, box, tbc, blocks, result, added, phase, bad>>
weakvars == G
allvars == <<machine, stackvars, loopvars, metavars, buffervars, vars, weakvars>>

Stacks == INSTANCE Stack WITH LUA_MINSTACK <- 2, MAXSTACK <- 7, STACKERRSPACE <- 8, EXTRA_STACK <- 5, MAXDELTA <- 2,
                              MemoryFails <- TRUE, MAXFRAMES <- 3, LARGE <- 4, MAXOPEN <- 2
Looping == INSTANCE NumericFor WITH NBITS <- 4, NBM <- 2, MAXEXP <- 4, Ignored <- {}, pc <- looping
(* The handler of a write is no table, a function, or the second table.    *)
Fields == "__index" :> {0, 1, 2, 8} @@ "__newindex" :> {0, 2, 8} @@ "__eq" :> {0, 8} @@ "1" :> {0, 9}
Meta == INSTANCE Metamethods WITH Tables <- {1, 2}, TypeMetatable <- [o \in {7} |-> 2], Nil <- 0, Fn <- 8, Number <- 9,
                                  Names <- {"__index", "__newindex", "__eq"}, Values <- Fields, MAXTAGLOOP <- 2
Buffer == INSTANCE Buffers WITH LUAL_BUFFERSIZE <- 2, LUAI_MAXSHORTLEN <- 3, MAX_SIZE <- 9, MAXADDS <- 5,
                                Pieces <- {<<1>>, <<2, 2>>, <<3, 4, 5>>, <<>>}
Weak == INSTANCE WeakTables WITH Tables <- {"t1", "t2"}, Leaves <- {"u", "v", "w", "z"}, Strings <- {"s"}, MAXWRITES <- 2

ASSUME /\ Stacks!StackConstants /\ Meta!MetamethodsConstants
       /\ Buffer!BuffersConstants /\ ReferencesConstants /\ Weak!WeakTablesConstants

Integer(v) == [t |-> "int", n |-> v]
Float(v) == [t |-> "flt", n |-> v]
Text(vs) == [t |-> "str", n |-> vs]
Arguments ==
  {Integer(n) : n \in Looping!LuaInteger} \cup {Float(f) : f \in Looping!LuaFloat}
    \cup {Text({v}) : v \in {Integer(2), Float(3), Float(Looping!INF)}} \cup {Text({})}
StartLoop == \E first, limit, by \in Arguments : Looping!StartFor(first, limit, by)

(* Heaps with two weak tables: entries of one that depend on the other,    *)
(* chains of ephemerons within one and across two, strings, an array, and  *)
(* objects and tables with finalizers.                                     *)
N(key, val) == [key |-> key, val |-> val]
Heap(mode1, hash1, array1, mode2, hash2, roots, finobj) ==
  [mode |-> "t1" :> mode1 @@ "t2" :> mode2, hash |-> "t1" :> hash1 @@ "t2" :> hash2,
   array |-> "t1" :> array1 @@ "t2" :> <<>>, stack |-> roots, finobj |-> finobj]
Dependent ==
  {Heap(mode1, <<n1>>, <<>>, mode2, <<n2>>, roots, finobj) :
     mode1 \in Weak!Modes, n1 \in {N("u", "v"), N("v", "u"), N("t2", "v"), N("v", "t2"), N(Weak!nil, Weak!nil)},
     mode2 \in {"ephemeron", "weakvalue"}, n2 \in {N("u", "t1"), N("v", "u"), N(Weak!nil, Weak!nil)},
     roots \in {{"t1"}, {"t1", "v"}}, finobj \in {<<>>, <<"u">>, <<"t2">>}}
Crossing ==
  {Heap(mode1, <<n1, n2>>, array1, "ephemeron", <<N("v", "t1")>>, {"t1", "t2"}, <<"u">>) :
     mode1 \in {"strong", "ephemeron", "allweak"}, n1 \in {N("u", "t2"), N("t2", "v"), N("v", "u")},
     n2 \in {N("u", "s"), N("s", "v")}, array1 \in {<<>>, <<"v">>}}
Chains ==
  {Heap("ephemeron", chain, <<>>, "ephemeron", <<N("z", "z")>>, {"t1", "t2", "u"}, finobj) :
     finobj \in {<<>>, <<"z">>},
     chain \in {c \in [1 .. 3 -> {N("u", "v"), N("v", "w"), N("w", "s")}] : \A i, j \in 1 .. 3 : c[i] = c[j] => i = j}}
StartCycle == \E heap \in Dependent \cup Crossing \cup Chains : G = Weak!restartcollection(heap)

MCInit ==
  /\ machine \in {"stack", "loop", "meta", "buffer", "refs", "weak"}
  /\ Init /\ Stacks!Init /\ Meta!Init /\ Buffer!Init
  /\ IF machine = "loop" THEN StartLoop ELSE Looping!StartFor(Integer(1), Integer(1), Integer(1))
  /\ IF machine = "weak" THEN StartCycle ELSE G = <<>>

(* A loop ends, and the marking of a cycle.                                *)
Ended ==
  /\ \/ machine = "loop" /\ looping \in {"out", "error"}
     \/ machine = "weak" /\ G.gcstate = "atomic"
  /\ UNCHANGED allvars

MCNext ==
  \/ machine = "stack" /\ Stacks!Next /\ UNCHANGED <<machine, loopvars, metavars, buffervars, vars, weakvars>>
  \/ machine = "loop" /\ Looping!ForLoop /\ UNCHANGED <<machine, stackvars, metavars, buffervars, vars, weakvars>>
  \/ machine = "meta" /\ Meta!Next /\ UNCHANGED <<machine, stackvars, loopvars, buffervars, vars, weakvars>>
  \/ machine = "buffer" /\ Buffer!Next /\ UNCHANGED <<machine, stackvars, loopvars, metavars, vars, weakvars>>
  \/ machine = "refs" /\ Next /\ UNCHANGED <<machine, stackvars, loopvars, metavars, buffervars, weakvars>>
  \/ machine = "weak" /\ Weak!Next /\ UNCHANGED <<machine, stackvars, loopvars, metavars, buffervars, vars>>
  \/ Ended

MCSpec == MCInit /\ [][MCNext]_allvars
-----------------------------------------------------------------------------
(* When the stack moves, every pointer into it follows; values arrive      *)
(* where they are expected, the size stays bounded through errors in error *)
(* handling and shrinking; open upvalues are in order with one for a slot, *)
(* and the list of variables to be closed holds exactly what is pending    *)
(* (ldo.c, lfunc.c).                                                       *)
StackIsWhole ==
  machine = "stack" => Stacks!SizeIsBounded /\ Stacks!PointersFollow /\ Stacks!ValuesArrive /\ Stacks!ListsAreComplete

(* A numeric for runs its body for exactly the values from the first to    *)
(* the limit, over the whole range of integers and of floats, and raises   *)
(* an error exactly if a value is no number or the step is zero (forprep,  *)
(* forlimit, floatforloop).                                                *)
LoopsRunTheirRange == machine = "loop" => Looping!LoopsRunTheirRange

(* A metamethod that a table remembers to lack is lacking, so that every   *)
(* access follows the chain of metatables the manual gives (ltm.c, lvm.c). *)
AccessesMean == machine = "meta" => Meta!AbsenceIsTrue /\ Meta!AccessesMean

(* The blocks of a string buffer have one owner each through errors at any *)
(* point, and its result is what was added (lauxlib.c).                    *)
BuffersAreOwned == machine = "buffer" => Buffer!BlocksAreOwned /\ Buffer!BufferIsWhole

(* Weak tables lose exactly what dies, in whatever order tables are        *)
(* visited and whatever the program does until the atomic phase            *)
(* (convergeephemerons, clearbykeys, clearbyvalues).                       *)
EphemeronsConverge == [][machine = "weak" => Weak!AtomicPhaseIsRight]_G
=============================================================================
