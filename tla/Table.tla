-------------------------------- MODULE Table --------------------------------
(***************************************************************************)
(* Tables (ltable.c): an array part and a hash part with chained collisions *)
(* inside the vector of nodes, resized when a new key finds no free node.  *)
(*                                                                         *)
(* A resize allocates up to two blocks.  Each allocation may fail, or run  *)
(* the collector, which marks the keys of empty entries as dead and, in a  *)
(* table with weak values, removes entries.  All else is one step.         *)
(*                                                                         *)
(* Integers have Bits bits.  Float keys are left out: those with integral  *)
(* values are turned into integers before anything else is done with them. *)
(***************************************************************************)
EXTENDS Integers, FiniteSets, SequencesExt, Bitwise, TLC

CONSTANTS
  IntKey,       \* the integers used as keys
  Object,       \* collectable objects used as keys, hashed by address
  Hash,         \* their addresses
  Value,        \* values other than nil; collectable objects if WeakValues
  nil,
  Bits,         \* bits of an integer
  MAXASIZE,     \* largest array part
  LIMFORLAST,   \* larger hash parts have a 'lastfree'
  WeakValues,
  InitSizes,    \* bound of the model: sizes the table is created with
  Failing       \* bound of the model: allocations may fail

MaxInteger == 2 ^ (Bits - 1) - 1
Key == IntKey \union Object

TableConstants ==
  /\ Bits \in Nat \ {0} /\ IntKey \subseteq -(MaxInteger + 1) .. MaxInteger
  /\ Object \intersect IntKey = {} /\ nil \notin Value \union Key
  /\ Hash \in [Object -> Nat]
  /\ MAXASIZE \in 0 .. MaxInteger - 1 /\ LIMFORLAST \in Nat
  /\ WeakValues \in BOOLEAN /\ Failing \in BOOLEAN
  /\ InitSizes \subseteq (0 .. MAXASIZE) \X Nat

VARIABLES
  t,        \* the table
  resize,   \* a resize under way, or NoResize
  alive,    \* values that the collector has not freed
  walk      \* a traversal with 'next', or NoWalk

vars == <<t, resize, alive, walk>>

-----------------------------------------------------------------------------
(* Representation.  A table has array: its array part; alimit and real,    *)
(* the hint for its length; node: the nodes, numbered from 0; dummy; and   *)
(* lastfree.  A node has key, dead, val and next.                          *)

Log2Ceil(n) == CHOOSE l \in 0 .. n : 2 ^ l >= n /\ \A m \in 0 .. l - 1 : 2 ^ m < n
IsPow2(n) == n = 0 \/ n = 2 ^ Log2Ceil(n)
Unsigned(i) == i % 2 ^ Bits

EmptyNode == [key |-> nil, dead |-> FALSE, val |-> nil, next |-> 0]

(* setnodevector                                                           *)
NodeVector(n) ==
  LET size == IF n = 0 THEN 1 ELSE 2 ^ Log2Ceil(n)
  IN  [node |-> [i \in 0 .. size - 1 |-> EmptyNode], dummy |-> n = 0, lastfree |-> size]

WithHash(tb, h) == [tb EXCEPT !.node = h.node, !.dummy = h.dummy, !.lastfree = h.lastfree]
HashPart(tb) == [node |-> tb.node, dummy |-> tb.dummy, lastfree |-> tb.lastfree]

SizeNode(tb) == Cardinality(DOMAIN tb.node)
Nodes(tb) == {i \in DOMAIN tb.node : tb.node[i].val # nil}

(* luaH_realasize computes the size of the array from the hint.            *)
RealSize(tb) == IF tb.real \/ IsPow2(tb.alimit) THEN tb.alimit ELSE 2 ^ Log2Ceil(tb.alimit)

(* hashint and hashpointer                                                 *)
MainPosition(tb, k) ==
  LET n == IF SizeNode(tb) = 1 THEN 1 ELSE SizeNode(tb) - 1
  IN  (IF k \in Object THEN Hash[k] ELSE Unsigned(k)) % n

(* getgeneric, getintfromhash: the node of the chain of k that holds k, or *)
(* -1.  A dead key equals the object that it was.                          *)
Position(tb, k, deadok) ==
  LET from[i \in DOMAIN tb.node] ==
        IF tb.node[i].key = k /\ (tb.node[i].dead => deadok) THEN i
        ELSE IF tb.node[i].next = 0 THEN -1 ELSE from[i + tb.node[i].next]
  IN  from[MainPosition(tb, k)]

-----------------------------------------------------------------------------
(* Reading *)

(* keyinarray: beyond the hint, the bits of the key tell whether it is in  *)
(* the array.                                                              *)
InArray(tb, k) ==
  \/ Unsigned(k - 1) < tb.alimit
  \/ /\ ~tb.real
     /\ Unsigned(k - 1) - (Unsigned(k - 1) & Unsigned(tb.alimit - 1)) < tb.alimit

(* A key found in the array beyond the hint becomes the hint.              *)
Hinted(tb, k) ==
  IF InArray(tb, k) /\ Unsigned(k - 1) >= tb.alimit THEN [tb EXCEPT !.alimit = k] ELSE tb

Get(tb, k) ==
  IF k \in IntKey /\ InArray(tb, k) THEN tb.array[k]
  ELSE LET i == Position(tb, k, FALSE) IN IF i = -1 THEN nil ELSE tb.node[i].val

Contents(tb) == [k \in Key |-> Get(tb, k)]

-----------------------------------------------------------------------------
(* Writing *)

(* getfreepos: the node, or -1, and where 'lastfree' is left.              *)
FreePosition(tb) ==
  LET haslast == SizeNode(tb) > 2 ^ LIMFORLAST
      free == {i \in DOMAIN tb.node : tb.node[i].key = nil /\ (haslast => i < tb.lastfree)}
      f == IF tb.dummy \/ free = {} THEN -1 ELSE CHOOSE i \in free : \A j \in free : j <= i
  IN  [pos |-> f, lastfree |-> IF ~haslast THEN tb.lastfree ELSE IF f = -1 THEN 0 ELSE f]

Place(tb, i, k, v) ==
  [tb EXCEPT !.node[i] = [@ EXCEPT !.key = k, !.dead = FALSE, !.val = v]]

(* The node before mp in the chain that it is in.                          *)
Previous(tb, mp) ==
  LET from[i \in DOMAIN tb.node] ==
        LET n == i + tb.node[i].next IN IF n = mp THEN i ELSE from[n]
  IN  from[MainPosition(tb, tb.node[mp].key)]

(* The colliding node at mp is not where its hash says: it goes to f.      *)
MoveColliding(tb, mp, f) ==
  LET p == Previous(tb, mp)
      nx == tb.node[mp].next
  IN  [tb EXCEPT !.node[p].next = f - p,
                 !.node[f] = [tb.node[mp] EXCEPT !.next = IF nx = 0 THEN 0 ELSE nx + mp - f],
                 !.node[mp] = [tb.node[mp] EXCEPT !.next = 0, !.val = nil]]

(* The rest of the chain is lost.                                          *)
FaultyChainFree(tb, mp, f) == [tb EXCEPT !.node[mp].next = f - mp]

(* The colliding node is where its hash says: f joins its chain.           *)
ChainFree(tb, mp, f) ==
  LET nx == tb.node[mp].next
  IN  [tb EXCEPT !.node[f].next = IF nx = 0 THEN @ ELSE mp + nx - f,
                 !.node[mp].next = f - mp]

(* The dummy node is free.                                                 *)
FaultyTaken(tb, k) == tb.node[MainPosition(tb, k)].val # nil

(* luaH_newkey, when it does not need to grow the table.                   *)
Taken(tb, k) == tb.dummy \/ tb.node[MainPosition(tb, k)].val # nil
NeedsRehash(tb, k) == Taken(tb, k) /\ FreePosition(tb).pos = -1

(* The new node joins the colliding one, wherever that one is.             *)
FaultyNewKey(tb, k, v) ==
  LET mp == MainPosition(tb, k)
      f == FreePosition(tb)
      lf == [tb EXCEPT !.lastfree = f.lastfree]
  IN  IF ~Taken(tb, k) THEN Place(tb, mp, k, v)
      ELSE Place(ChainFree(lf, mp, f.pos), f.pos, k, v)

NewKey(tb, k, v) ==
  LET mp == MainPosition(tb, k)
      f == FreePosition(tb)
      lf == [tb EXCEPT !.lastfree = f.lastfree]
  IN  IF ~Taken(tb, k) THEN Place(tb, mp, k, v)
      ELSE IF MainPosition(tb, tb.node[mp].key) # mp
             THEN Place(MoveColliding(lf, mp, f.pos), mp, k, v)
             ELSE Place(ChainFree(lf, mp, f.pos), f.pos, k, v)

(* luaH_set finds the key, in the array or in the hash part...             *)
HasSlot(tb, k) == (k \in IntKey /\ InArray(tb, k)) \/ Position(tb, k, FALSE) # -1

SetSlot(tb, k, v) ==
  IF k \in IntKey /\ InArray(tb, k) THEN [Hinted(tb, k) EXCEPT !.array[k] = v]
  ELSE [tb EXCEPT !.node[Position(tb, k, FALSE)].val = v]

(* ... or inserts it.  A resized table must have room (ResizeStep): here it*)
(* would lose the key, where the code would resize it again.               *)
Set(tb, k, v) ==
  IF HasSlot(tb, k) THEN SetSlot(tb, k, v)
  ELSE IF v = nil \/ NeedsRehash(tb, k) THEN tb
  ELSE NewKey(tb, k, v)

-----------------------------------------------------------------------------
(* Length *)

(* The search returns the other end.                                       *)
FaultyBinSearch(absent, i, j) ==
  LET at[p \in (0 .. MaxInteger) \X (0 .. MaxInteger)] ==
        LET m == (p[1] + p[2]) \div 2
        IN  IF p[2] - p[1] <= 1 THEN p[2]
            ELSE IF m \in absent THEN at[<<p[1], m>>] ELSE at[<<m, p[2]>>]
  IN  at[<<i, j>>]

(* hash_search and binsearch: a boundary between i, present, and j, absent. *)
BinSearch(absent, i, j) ==
  LET at[p \in (0 .. MaxInteger) \X (0 .. MaxInteger)] ==
        LET m == (p[1] + p[2]) \div 2
        IN  IF p[2] - p[1] <= 1 THEN p[1]
            ELSE IF m \in absent THEN at[<<p[1], m>>] ELSE at[<<m, p[2]>>]
  IN  at[<<i, j>>]

(* The largest integer is returned without a look at whether it is there.  *)
FaultyHashSearch(tb, limit) ==
  LET absent == (1 .. MaxInteger) \ {tb.node[i].key : i \in Nodes(tb)}
      between[i \in 1 .. MaxInteger] ==
        IF i > MaxInteger \div 2 THEN <<MaxInteger, MaxInteger>>
        ELSE IF 2 * i \in absent THEN <<i, 2 * i>> ELSE between[2 * i]
      ends == between[IF limit = 0 THEN 1 ELSE limit]
  IN  BinSearch(absent, ends[1], ends[2])

(* hash_search doubles an index that is present until one is absent; the   *)
(* last is the largest integer.                                            *)
HashSearch(tb, limit) ==
  LET absent == (1 .. MaxInteger) \ {tb.node[i].key : i \in Nodes(tb)}
      between[i \in 1 .. MaxInteger] ==
        LET j == IF i <= MaxInteger \div 2 THEN 2 * i ELSE MaxInteger
        IN  IF j \in absent THEN <<i, j>>
            ELSE IF i > MaxInteger \div 2 THEN <<j, j>> ELSE between[j]
      ends == between[IF limit = 0 THEN 1 ELSE limit]
  IN  BinSearch(absent, ends[1], ends[2])

(* Whatever the size is, the hint may change.                              *)
FaultyIsPow2RealSize(tb) == TRUE

(* ispow2realasize: otherwise, another hint would tell another size.       *)
IsPow2RealSize(tb) == ~tb.real \/ IsPow2(tb.alimit)

(* luaH_getn: a boundary, and the table with its new hint.                 *)
Getn(tb) ==
  LET limit == tb.alimit
      size == RealSize(tb)
      absent == {i \in 1 .. size : tb.array[i] = nil}
      result(n, hint) ==
        [n |-> n, tb |-> IF hint THEN [tb EXCEPT !.alimit = n, !.real = FALSE] ELSE tb]
  IN  IF limit > 0 /\ limit \in absent
        THEN IF limit >= 2 /\ limit - 1 \notin absent
               THEN result(limit - 1, IsPow2RealSize(tb) /\ ~IsPow2(limit - 1))
               ELSE LET b == BinSearch(absent, 0, limit)
                    IN  result(b, IsPow2RealSize(tb) /\ b > size \div 2)
      ELSE IF size # limit /\ limit + 1 \in absent THEN result(limit, FALSE)
      ELSE IF size # limit /\ size \in absent THEN result(BinSearch(absent, limit, size), TRUE)
      ELSE IF \E i \in Nodes(tb) : tb.node[i].key = size + 1
             THEN result(HashSearch(tb, size), FALSE)
             ELSE result(size, FALSE)

-----------------------------------------------------------------------------
(* Traversal *)

(* findindex: array entries come before nodes; -1 if next fails.           *)
FindIndex(tb, k) ==
  IF k = nil THEN 0
  ELSE IF k \in IntKey /\ k \in 1 .. RealSize(tb) THEN k
  ELSE LET i == Position(tb, k, TRUE) IN IF i = -1 THEN -1 ELSE i + 1 + RealSize(tb)

(* luaH_next: the key after k, or nil.                                     *)
NextKey(tb, k) ==
  LET asize == RealSize(tb)
      present(i) == IF i < asize THEN tb.array[i + 1] # nil ELSE i - asize \in Nodes(tb)
      ahead == {i \in FindIndex(tb, k) .. asize + SizeNode(tb) - 1 : present(i)}
      i == CHOOSE i \in ahead : \A j \in ahead : i <= j
  IN  IF ahead = {} THEN nil ELSE IF i < asize THEN i + 1 ELSE tb.node[i - asize].key

-----------------------------------------------------------------------------
(* The program *)

NoResize == [at |-> "no"]
NoWalk == [at |-> "no"]

Init ==
  /\ \E s \in InitSizes :
       t = WithHash([array |-> [i \in 1 .. s[1] |-> nil], alimit |-> s[1], real |-> TRUE,
                     node |-> <<>>, dummy |-> TRUE, lastfree |-> 0], NodeVector(s[2]))
  /\ resize = NoResize
  /\ alive = Value
  /\ walk = NoWalk

Present(tb) == {k \in Key : Get(tb, k) # nil}

(* A traversal owes no visit to an entry that was removed.                 *)
Owed(tb) == IF walk = NoWalk THEN walk ELSE [walk EXCEPT !.owed = @ \intersect Present(tb)]

WithRealSize(tb) == [tb EXCEPT !.alimit = RealSize(tb), !.real = TRUE]

(* The new key is not counted.                                             *)
FaultyNewSizes(tb, ek) ==
  LET ints == {k \in Present(tb) \union {ek} : k \in IntKey /\ k \in 1 .. MAXASIZE}
      fits == {i \in 0 .. Bits : /\ Cardinality(ints) > 2 ^ i \div 2
                                 /\ Cardinality(ints \intersect 1 .. 2 ^ i) > 2 ^ i \div 2}
      asize == IF fits = {} THEN 0 ELSE 2 ^ (CHOOSE i \in fits : \A j \in fits : j <= i)
  IN  <<asize, Cardinality(Present(tb) \ (1 .. asize))>>

(* rehash: the new sizes of the two parts, with room for key ek.           *)
NewSizes(tb, ek) ==
  LET ints == {k \in Present(tb) \union {ek} : k \in IntKey /\ k \in 1 .. MAXASIZE}
      fits == {i \in 0 .. Bits : /\ Cardinality(ints) > 2 ^ i \div 2
                                 /\ Cardinality(ints \intersect 1 .. 2 ^ i) > 2 ^ i \div 2}
      asize == IF fits = {} THEN 0 ELSE 2 ^ (CHOOSE i \in fits : \A j \in fits : j <= i)
  IN  <<asize, Cardinality(Present(tb)) + 1 - Cardinality(ints \intersect 1 .. asize)>>

(* t[k] = v.  A program may not add keys during a traversal.               *)
Assign(k, v) ==
  /\ resize = NoResize
  /\ walk # NoWalk => k \in Present(t)
  /\ IF ~HasSlot(t, k) /\ v # nil /\ NeedsRehash(t, k)
       THEN LET sizes == NewSizes(t, k)
            IN  /\ t' = WithRealSize([t EXCEPT !.lastfree = FreePosition(t).lastfree])
                /\ resize' = [at |-> "hash", key |-> k, val |-> v,
                              asize |-> sizes[1], hsize |-> sizes[2]]
       ELSE t' = Set(t, k, v) /\ UNCHANGED resize
  /\ walk' = Owed(t')
  /\ UNCHANGED alive

(* luaH_resize                                                             *)

(* The elements that do not fit are forgotten.                             *)
FaultyOldSlice(h) == h

(* The elements of the array that the smaller array has no room for.       *)
OldSlice(h) ==
  LET pretended == [WithHash(t, h) EXCEPT !.alimit = resize.asize]
      put(tb, i) == IF t.array[i] = nil THEN tb ELSE Set(tb, i, t.array[i])
  IN  HashPart(FoldLeft(put, pretended,
                        [n \in 1 .. Len(t.array) - resize.asize |-> resize.asize + n]))

NewHashPart ==
  /\ resize.at = "hash"
  /\ resize' = [at |-> "array", key |-> resize.key, val |-> resize.val,
                asize |-> resize.asize, new |-> OldSlice(NodeVector(resize.hsize))]
  /\ UNCHANGED <<t, alive, walk>>

(* What the old hash part has is inserted last, then the new key.          *)
Resized ==
  LET a == [i \in 1 .. resize.asize |-> IF i <= Len(t.array) THEN t.array[i] ELSE nil]
      base == [WithHash(t, resize.new) EXCEPT !.array = a, !.alimit = resize.asize]
      put(tb, i) == IF i \in Nodes(t) THEN Set(tb, t.node[i].key, t.node[i].val) ELSE tb
      all == FoldLeft(put, base, [n \in 1 .. SizeNode(t) |-> n - 1])
  IN  Set(all, resize.key, resize.val)

NewArrayPart ==
  /\ resize.at = "array"
  /\ t' = Resized
  /\ resize' = NoResize
  /\ UNCHANGED <<alive, walk>>

(* Allocations: of the nodes, unless there are none; of the array, unless  *)
(* it has the size it had or none.                                         *)
Allocating ==
  \/ resize.at = "hash" /\ resize.hsize > 0
  \/ resize.at = "array" /\ resize.asize \notin {0, Len(t.array)}

(* The allocation fails: the table is as before.                           *)
AllocationFails ==
  /\ Failing /\ Allocating
  /\ resize' = NoResize
  /\ UNCHANGED <<t, alive, walk>>

(* A read changes the hint.                                                *)
Read(k) ==
  /\ resize = NoResize
  /\ t' = Hinted(t, k)
  /\ UNCHANGED <<resize, alive, walk>>

Length ==
  /\ resize = NoResize
  /\ t' = Getn(t).tb
  /\ UNCHANGED <<resize, alive, walk>>

StartWalk ==
  /\ resize = NoResize /\ walk = NoWalk
  /\ walk' = [at |-> "key", key |-> nil, owed |-> Present(t)]
  /\ UNCHANGED <<t, resize, alive>>

NextEntry ==
  /\ walk # NoWalk /\ resize = NoResize /\ FindIndex(t, walk.key) # -1
  /\ LET k == NextKey(t, walk.key)
     IN  walk' = IF k = nil THEN NoWalk
                 ELSE [walk EXCEPT !.key = k, !.owed = @ \ {k}]
  /\ UNCHANGED <<t, resize, alive>>

EndWalk ==
  /\ walk # NoWalk
  /\ walk' = NoWalk
  /\ UNCHANGED <<t, resize, alive>>

-----------------------------------------------------------------------------
(* The collector *)

(* clearkey leaves the key of an empty node in place, as dead; if it       *)
(* removed the key, chains and traversals would break.                     *)
FaultyClearKeys(node) ==
  [i \in DOMAIN node |->
     IF node[i].val = nil /\ node[i].key \in Object THEN [node[i] EXCEPT !.key = nil] ELSE node[i]]

ClearKeys(node) ==
  [i \in DOMAIN node |->
     IF node[i].val = nil /\ node[i].key \in Object THEN [node[i] EXCEPT !.dead = TRUE] ELSE node[i]]

(* A collection frees the values D and clears them from a weak table.  The *)
(* program holds what it is storing.                                       *)
Collect(D) ==
  LET left(v) == IF v \in D THEN nil ELSE v
  IN  /\ resize = NoResize \/ (Allocating /\ resize.val \notin D)
      /\ alive' = alive \ D
      /\ t' = [t EXCEPT !.array = [i \in DOMAIN @ |-> left(@[i])],
                        !.node = ClearKeys([i \in DOMAIN @ |-> [@[i] EXCEPT !.val = left(@)]])]
      /\ walk' = Owed(t')
      /\ UNCHANGED resize

-----------------------------------------------------------------------------
Next ==
  \/ \E k \in Key, v \in alive \union {nil} : Assign(k, v)
  \/ \E k \in IntKey : Read(k)
  \/ NewHashPart \/ NewArrayPart \/ AllocationFails
  \/ Length \/ StartWalk \/ NextEntry \/ EndWalk
  \/ \E D \in SUBSET alive : (WeakValues \/ D = {}) /\ Collect(D)

Spec == Init /\ [][Next]_vars

-----------------------------------------------------------------------------
(* Properties *)

(* Links between nodes stay inside the vector, whose size is a power of    *)
(* two; the dummy vector is never written.                                 *)
TypeOK ==
  /\ \A i \in DOMAIN t.array : t.array[i] \in Value \union {nil}
  /\ DOMAIN t.node = 0 .. SizeNode(t) - 1 /\ IsPow2(SizeNode(t))
  /\ \A i \in DOMAIN t.node : /\ t.node[i].key \in Key \union {nil}
                              /\ t.node[i].val \in Value \union {nil}
                              /\ i + t.node[i].next \in DOMAIN t.node
  /\ t.dummy => t.node = (0 :> EmptyNode)

(* However reads and lengths move the hint, it still tells the size of the *)
(* array, which every access, resize and collection computes from it.      *)
HintTellsSize == RealSize(t) = Len(t.array)

(* Every element is found from its main position.                          *)
KeysAreFound ==
  /\ \A i \in Nodes(t) : Position(t, t.node[i].key, FALSE) = i
  /\ \A i \in Nodes(t) : t.node[i].key \in IntKey => ~InArray(t, t.node[i].key)

(* ltable.c: if an element is not in its main position, then the colliding *)
(* element is in its own main position.                                    *)
CollidersAreHome ==
  \A i \in Nodes(t) :
    LET mp == MainPosition(t, t.node[i].key)
    IN  mp # i => MainPosition(t, t.node[mp].key) = mp

(* The chains and the two parts hold together: every access, resize and    *)
(* collection finds what an insertion put there.                           *)
NodesAreFound == TypeOK /\ HintTellsSize /\ KeysAreFound /\ CollidersAreHome

(* The length is a boundary.                                               *)
LengthIsBoundary ==
  resize = NoResize =>
    LET n == Getn(t).n
    IN  /\ n = 0 \/ Get(t, n) # nil
        /\ n = MaxInteger \/ Get(t, n + 1) = nil

(* A traversal during which fields are assigned and cleared, and the       *)
(* collector runs, visits each entry that stays, and once: the next entry  *)
(* is one that it owes a visit, it does not end before all are paid, and   *)
(* next does not fail with "invalid key".                                  *)
WalkVisitsAllOnce ==
  walk # NoWalk /\ resize = NoResize =>
    /\ FindIndex(t, walk.key) # -1
    /\ LET k == NextKey(t, walk.key) IN IF k = nil THEN walk.owed = {} ELSE k \in walk.owed

(* Nothing the collector freed is left in the table, or put back.          *)
NoFreedValue == \A k \in Key : Get(t, k) \in alive \union {nil}

MapStep ==
  \E before \in {Contents(t)}, after \in {Contents(t)'} :
    \/ \E k \in Key, v \in alive \union {nil} : after = [before EXCEPT ![k] = v]
    \/ after = [k \in Key |-> IF before[k] \in alive' THEN before[k] ELSE nil]
ResizeStep ==
  resize # NoResize /\ resize' = NoResize /\ t' # t =>
    Contents(t)' = [Contents(t) EXCEPT ![resize.key] = resize.val]

(* A table is a map: a step changes the value of one key, or removes what  *)
(* the collector frees.  In particular a resize, whether it succeeds or    *)
(* fails, loses, copies and exchanges nothing, and the sizes it computes   *)
(* have room for every key, the new one included: no element is dropped    *)
(* and no second resize is needed.                                         *)
ActsAsMap == [][MapStep /\ ResizeStep]_<<t, alive, resize>>
=============================================================================
