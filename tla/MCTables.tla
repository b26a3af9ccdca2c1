------------------------------ MODULE MCTables ------------------------------
(* The structures with chains of collisions that grow and shrink while the *)
(* collector may run: the string table and a table of the program; and a   *)
(* table whose length is asked for.  A behaviour is one of one of them,    *)
(* while the others rest.                                                  *)
EXTENDS StringTable, TLC

CONSTANTS
  s1, s2, s3,    \* strings, and
  A, B, C,       \* contents whose hashes collide modulo 4 and modulo 2
  o1,            \* an object used as key
  IntKey, Object, Value, nil, Bits, MAXASIZE, LIMFORLAST, WeakValues, InitSizes, Failing,
  Structures     \* of "strings", "table", "sequence": those the run looks at

HashABC == [c \in Content |-> IF c = A THEN 5 ELSE IF c = B THEN 1 ELSE 6]
Symmetric == Permutations(Str)
Address == [o \in Object |-> 2]
Sizes == {<<0, 0>>, <<6, 0>>, <<8, 1>>, <<0, 4>>}

VARIABLES structure, t, resize, alive, walk
tablevars == <<t, resize, alive, walk>>

Tables == INSTANCE Table WITH Hash <- Address

(* A sequence in an array of 16, where the hint for the length moves, or   *)
(* in a hash part of 8, where the search for a border doubles its index up *)
(* to the largest integer, 31.  It is neither weak nor traversed.          *)
SequenceSizes == {<<16, 0>>, <<0, 8>>}
ArrayKey == {8, 9, 12, 13, 31}
HashKey == {1, 2, 4, 8, 16, 31}
Sequence == INSTANCE Table
  WITH Hash <- [o \in {} |-> 0], IntKey <- ArrayKey \union HashKey, Object <- {}, Bits <- 6,
       MAXASIZE <- 16, WeakValues <- FALSE, InitSizes <- SequenceSizes, Failing <- FALSE

ASSUME Tables!TableConstants /\ Sequence!TableConstants

MCInit ==
  /\ structure \in Structures
  /\ Init
  /\ IF structure = "sequence" THEN Sequence!Init
     ELSE Tables!Init /\ (structure = "strings" => t.alimit = 0 /\ t.dummy)

(* Bound: the keys that are used while the sequence is in the one part or  *)
(* the other.                                                              *)
SequenceNext ==
  \/ \E k \in IF Len(t.array) = 16 THEN ArrayKey ELSE HashKey :
       \/ \E v \in alive \union {nil} : Sequence!Assign(k, v)
       \/ Sequence!Read(k)
  \/ Sequence!Length \/ Sequence!NewHashPart \/ Sequence!NewArrayPart

MCNext ==
  \/ structure = "strings" /\ Next /\ UNCHANGED <<structure, tablevars>>
  \/ structure = "table" /\ Tables!Next /\ UNCHANGED <<structure, vars>>
  \/ structure = "sequence" /\ SequenceNext /\ UNCHANGED <<structure, vars>>

MCSpec == MCInit /\ [][MCNext]_<<structure, vars, tablevars>>
-----------------------------------------------------------------------------
(* In a table, every element is found from its main position, whatever     *)
(* chains, hint and parts went through.                                    *)
NodesAreFound ==
  /\ structure = "table" => Tables!NodesAreFound
  /\ structure = "sequence" => Sequence!NodesAreFound

(* The length of a table is a boundary (luaH_getn).                        *)
LengthIsBoundary ==
  /\ structure = "table" => Tables!LengthIsBoundary
  /\ structure = "sequence" => Sequence!LengthIsBoundary

(* A traversal visits every entry that stays once (luaH_next).             *)
WalkVisitsAllOnce == structure = "table" => Tables!WalkVisitsAllOnce

(* A table is a map, also through failed resizes (luaH_resize), and a      *)
(* resize has room for every key and the new one (rehash).                 *)
ActsAsMap ==
  [][/\ structure = "table" => Tables!MapStep /\ Tables!ResizeStep
     /\ structure = "sequence" => Sequence!MapStep /\ Sequence!ResizeStep]_<<t, alive, resize>>

(* No value that was freed is in a table.  With two values and a weak      *)
(* table that shrinks, one may be (MCTables_weak.cfg).                     *)
NoFreedValue == structure = "table" => Tables!NoFreedValue
=============================================================================
