------------------------- MODULE StringTableProofs -------------------------
(***************************************************************************)
(* Proofs about StringTable for every set of strings, every hash function, *)
(* every table size and every choice of failing allocations but one: the   *)
(* lists of the table are exact, no contents exist twice, and what the     *)
(* program and the cache of luaS_new hold is alive.                        *)
(*                                                                         *)
(* None of the three is inductive.  The invariant IInv adds where the      *)
(* strings are while a smaller table is being allocated (Placed), what     *)
(* internshrstr knows after its search and may still use after the         *)
(* allocations that follow (CreatesNew), that only allocated strings are   *)
(* dead (DeadAreAllocated), and that no emergency collection can start     *)
(* while the upper half of the table is empty (ShrinkIsSafe).  The last    *)
(* holds in incremental mode because singlestep has set 'gcstopem', and    *)
(* in generational mode only if that allocation never fails: this is the   *)
(* hypothesis of the theorems.                                             *)
(***************************************************************************)
EXTENDS StringTable, FiniteSetTheorems, TLAPS

(* The hypothesis: the reallocation of luaS_resize to a smaller size does  *)
(* not fail in a young collection (lgc.c, checkSizes from finishgencycle). *)
YoungShrinkSucceeds == "young shrink" \notin Failures

(* The size that gives the list of a string.                               *)
Lists == IF at = "shrink" THEN size \div 2 ELSE size

(* Every string, and nothing else, is in the list of its hash.             *)
InList(A, n, i) == {s \in A : lmod(HashOf(s), n) = i}
Placed ==
  /\ Lists \in 1 .. MaxSize
  /\ \A i \in 0 .. MaxSize - 1 : chain[i] = InList(Allocated, Lists, i)

CountIsExact == nuse = Cardinality(Allocated)

(* What internshrstr knows while it waits for an allocation.               *)
CreatesNew ==
  /\ at \in {"grow", "create"} => \A s \in Allocated : content[s] # key
  /\ at = "grow" => 2 * size \in 1 .. MaxSize
  /\ at = "create" => list = lmod(Hash[key], size)

DeadAreAllocated == \A s \in Str : Dead(s) => s \in Allocated

(* Emergency collections meet a table whose strings are where luaS_remove  *)
(* searches for them.                                                      *)
ShrinkIsSafe == at = "shrink" => tried \/ gckind = "generational"

IInv ==
  /\ TypeOK
  /\ Placed
  /\ CountIsExact
  /\ FreesFindTheirString
  /\ Interned
  /\ CreatesNew
  /\ HeldIsAlive
  /\ CacheIsAlive
  /\ DeadAreAllocated
  /\ ShrinkIsSafe

-----------------------------------------------------------------------------
(* Lemmas about the operators of the model *)

LEMMA MaxSizeIsNat == MaxSize \in Nat
BY StringConstants

LEMMA Sizes == InitSize \in 1 .. MaxSize /\ 0 \in 0 .. MaxSize - 1
<1>1. InitSize \in Nat \ {0} /\ MaxSize \in Nat /\ InitSize <= MaxSize
  BY StringConstants
<1> QED
  BY <1>1

LEMMA CacheLenIsPositive == CacheLen \in Nat /\ CacheLen > 0
<1>1. CacheLen \in Nat \ {0}
  BY StringConstants
<1> QED
  BY <1>1

LEMMA SizeIsNat ==
  ASSUME NEW n \in 1 .. MaxSize
  PROVE  n \in Nat /\ n > 0 /\ n <= MaxSize
BY MaxSizeIsNat

(* lmod gives a list of the table.                                         *)
LEMMA ModRange ==
  ASSUME NEW h \in Nat, NEW n \in 1 .. MaxSize
  PROVE  lmod(h, n) \in 0 .. n - 1 /\ lmod(h, n) \in 0 .. MaxSize - 1
<1>1. n \in Nat /\ n > 0 /\ n <= MaxSize /\ MaxSize \in Nat
  BY MaxSizeIsNat, SizeIsNat
<1>2. h % n \in 0 .. n - 1
  BY <1>1
<1> QED
  BY <1>1, <1>2 DEF lmod

(* A table that is too big for its strings has lists after it shrinks.     *)
LEMMA HalfOfTooBig ==
  ASSUME size \in 1 .. MaxSize, NEW n \in Nat, TooBig(n)
  PROVE  size \div 2 \in 1 .. MaxSize
BY MaxSizeIsNat DEF TooBig

LEMMA HashIsNat ==
  ASSUME TypeOK, NEW s \in Allocated
  PROVE  HashOf(s) \in Nat
BY StringConstants DEF TypeOK, HashOf

(* Moving strings that are in the lists of one size gives the lists of the *)
(* other, whether the table grows or shrinks.                              *)
LEMMA RehashPlaces ==
  ASSUME TypeOK, NEW A \in SUBSET Allocated,
         NEW m \in 1 .. MaxSize, NEW n \in 1 .. MaxSize,
         NEW ch, \A i \in 0 .. MaxSize - 1 : ch[i] = InList(A, m, i)
  PROVE  Rehash(m, n, ch) = [i \in 0 .. MaxSize - 1 |-> InList(A, n, i)]
<1> DEFINE moved == UNION {ch[i] : i \in 0 .. m - 1}
<1>1. moved \subseteq A
  BY MaxSizeIsNat DEF InList
<1>2. A \subseteq moved
  <2> SUFFICES ASSUME NEW s \in A PROVE s \in moved
    OBVIOUS
  <2>1. HashOf(s) \in Nat
    BY HashIsNat
  <2> DEFINE i == lmod(HashOf(s), m)
  <2>2. i \in 0 .. m - 1 /\ i \in 0 .. MaxSize - 1
    BY <2>1, ModRange
  <2>3. s \in ch[i]
    BY <2>2 DEF InList
  <2> QED
    BY <2>2, <2>3
<1>3. moved = A
  BY <1>1, <1>2
<1> QED
  BY <1>3 DEF Rehash, InList

(* Removing strings from lists that are exact leaves exact lists.          *)
LEMMA UnlinkedPlaces ==
  ASSUME TypeOK, Placed, at # "shrink", NEW D \in SUBSET Allocated
  PROVE  /\ Unlinked(D) = [i \in 0 .. MaxSize - 1 |-> InList(Allocated \ D, size, i)]
         /\ NotFound(D) = {}
<1>1. \A i \in 0 .. MaxSize - 1 : chain[i] = InList(Allocated, size, i)
  BY DEF Placed, Lists
<1>2. \A i \in 0 .. MaxSize - 1 :
        {s \in chain[i] : s \notin D \/ lmod(HashOf(s), size) # i}
          = InList(Allocated \ D, size, i)
  BY <1>1 DEF InList
<1>3. ASSUME NEW s \in D PROVE s \in chain[lmod(HashOf(s), size)]
  <2>1. lmod(HashOf(s), size) \in 0 .. MaxSize - 1
    BY HashIsNat, ModRange DEF TypeOK
  <2> QED
    BY <1>1, <2>1 DEF InList
<1> QED
  BY <1>2, <1>3 DEF Unlinked, NotFound

(* The count stays exact when strings are freed.                           *)
LEMMA FreeCounts ==
  ASSUME TypeOK, CountIsExact, NEW D \in SUBSET Allocated
  PROVE  /\ nuse - Cardinality(D) = Cardinality(Allocated \ D)
         /\ Cardinality(Allocated \ D) \in Nat
<1>1. IsFiniteSet(Allocated)
  BY FS_Subset, StringConstants DEF TypeOK
<1>2. IsFiniteSet(D) /\ IsFiniteSet(Allocated \ D)
  BY <1>1, FS_Subset
<1>3. Cardinality(Allocated \ D) = Cardinality(Allocated) - Cardinality(Allocated \cap D)
  BY <1>1, FS_Difference
<1>4. Allocated \cap D = D
  OBVIOUS
<1> QED
  BY <1>2, <1>3, <1>4, FS_CardinalityType DEF CountIsExact

-----------------------------------------------------------------------------
LEMMA InitIInv == Init => IInv
<1> SUFFICES ASSUME Init PROVE IInv
  OBVIOUS
<1> USE DEF Init
<1>1. Allocated = {} /\ (CHOOSE c \in Content : TRUE) \in Content
  BY StringConstants DEF Allocated
<1>2. TypeOK
  BY <1>1, Sizes, StringConstants DEF TypeOK
<1>3. Placed
  <2>1. Lists = InitSize /\ InitSize \in 1 .. MaxSize
    BY Sizes DEF Lists
  <2> QED
    BY <1>1, <2>1 DEF Placed, InList
<1>4. CountIsExact
  BY <1>1, FS_EmptySet DEF CountIsExact
<1>5. FreesFindTheirString /\ Interned /\ CreatesNew /\ HeldIsAlive /\ CacheIsAlive
        /\ DeadAreAllocated /\ ShrinkIsSafe
  BY <1>1 DEF FreesFindTheirString, Interned, CreatesNew, HeldIsAlive, CacheIsAlive,
              DeadAreAllocated, Dead, ShrinkIsSafe
<1> QED
  BY <1>2, <1>3, <1>4, <1>5 DEF IInv

(* The conjuncts of IInv that are about the table and the waiting call.    *)
TableInv == Placed /\ CountIsExact /\ FreesFindTheirString /\ Interned /\ CreatesNew

(* The conjuncts about what is alive.                                      *)
AliveInv == HeldIsAlive /\ CacheIsAlive /\ DeadAreAllocated

(* Steps that touch neither keep what is said of them.                     *)
LEMMA TableUnchanged ==
  ASSUME TableInv, UNCHANGED <<table, call, missed>>
  PROVE  TableInv'
BY DEF TableInv, Placed, CountIsExact, FreesFindTheirString, Interned, CreatesNew, Lists,
       Allocated, InList, HashOf, table, call

LEMMA AliveUnchanged ==
  ASSUME AliveInv, UNCHANGED <<content, color, held, cache>>
  PROVE  AliveInv'
BY DEF AliveInv, HeldIsAlive, CacheIsAlive, DeadAreAllocated, Dead, Allocated

(* The first entries of the cache move one place: they were alive before.  *)
LEMMA ShiftedIsAlive ==
  ASSUME TypeOK, CacheIsAlive
  PROVE  /\ Shifted \in [1 .. CacheLen -> Str \union {memerrmsg}]
         /\ \A j \in 1 .. CacheLen : Shifted[j] # memerrmsg =>
              Shifted[j] \in Allocated /\ ~Dead(Shifted[j])
<1>1. \A j \in 1 .. CacheLen : 1 \in 1 .. CacheLen /\ (j # 1 => j - 1 \in 1 .. CacheLen)
  BY CacheLenIsPositive
<1> QED
  BY <1>1 DEF TypeOK, CacheIsAlive, Shifted

LEMMA CacheHitKeeps ==
  ASSUME IInv, NEW c \in Content, CacheHit(c)
  PROVE  IInv'
<1> USE DEF CacheHit
<1>1. PICK s \in Hits(c) : held' = held \union {s}
  OBVIOUS
<1>2. PICK j \in 1 .. CacheLen : s = cache[j] /\ s # memerrmsg
  BY <1>1 DEF Hits
<1>3. s \in Allocated /\ ~Dead(s) /\ s \in Str
  BY <1>2 DEF IInv, CacheIsAlive, TypeOK
<1>4. TypeOK'
  BY <1>1, <1>3 DEF IInv, TypeOK, Allocated, table, gc, call
<1>5. AliveInv'
  BY <1>1, <1>3 DEF IInv, AliveInv, HeldIsAlive, CacheIsAlive, DeadAreAllocated, Dead,
                    Allocated, table
<1>6. TableInv' /\ ShrinkIsSafe'
  BY TableUnchanged DEF IInv, TableInv, ShrinkIsSafe, gc, call
<1> QED
  BY <1>4, <1>5, <1>6 DEF IInv, AliveInv, TableInv

(* A dead string that is found is alive again before it is handed out.     *)
LEMMA ReuseKeeps ==
  ASSUME IInv, NEW c \in Content, NEW new \in BOOLEAN, Reuse(c, new)
  PROVE  IInv'
<1> USE DEF Reuse
<1> DEFINE row == IF new THEN Shifted ELSE cache
<1>1. PICK s \in Matches(c) : color' = Resurrect(s) /\ Return(s, row, new)
  OBVIOUS
<1>2. s \in Allocated /\ s \in Str
  <2>1. lmod(Hash[c], size) \in 0 .. MaxSize - 1
    BY ModRange, StringConstants DEF IInv, TypeOK
  <2> QED
    BY <2>1 DEF Matches, IInv, TypeOK, Placed, InList
<1>3. /\ row \in [1 .. CacheLen -> Str \union {memerrmsg}]
      /\ \A j \in 1 .. CacheLen : row[j] # memerrmsg => row[j] \in Allocated /\ ~Dead(row[j])
  BY ShiftedIsAlive DEF IInv, CacheIsAlive, TypeOK
<1> HIDE DEF row
<1>4. color' \in [Str -> {"white", "otherwhite", "black"}]
      /\ \A t \in Str : Dead(t)' => t # s /\ Dead(t)
  BY <1>1, <1>2 DEF Resurrect, Dead, IInv, TypeOK
<1>5. /\ cache' \in [1 .. CacheLen -> Str \union {memerrmsg}]
      /\ \A j \in 1 .. CacheLen : cache'[j] = row[j] \/ cache'[j] = s
  BY <1>1, <1>2, <1>3 DEF Return
<1>6. TypeOK'
  BY <1>1, <1>2, <1>4, <1>5 DEF Return, IInv, TypeOK, Allocated, table, gc, call
<1>7. AliveInv'
  <2>1. HeldIsAlive'
    BY <1>1, <1>2, <1>4 DEF Return, IInv, TypeOK, HeldIsAlive, Dead, Allocated, table
  <2>2. CacheIsAlive'
    BY <1>2, <1>3, <1>4, <1>5 DEF IInv, CacheIsAlive, TypeOK, Allocated, table
  <2>3. DeadAreAllocated'
    BY <1>4 DEF IInv, DeadAreAllocated, Allocated, table
  <2> QED
    BY <2>1, <2>2, <2>3 DEF AliveInv
<1>8. TableInv' /\ ShrinkIsSafe'
  BY TableUnchanged DEF IInv, TableInv, ShrinkIsSafe, gc, call
<1> QED
  BY <1>6, <1>7, <1>8 DEF IInv, AliveInv, TableInv

(* The search found nothing: no string has these contents.                 *)
LEMMA StartCreateKeeps ==
  ASSUME IInv, NEW c \in Content, NEW new \in BOOLEAN, StartCreate(c, new)
  PROVE  IInv'
<1> USE DEF StartCreate
<1>1. size \in 1 .. MaxSize /\ lmod(Hash[c], size) \in 0 .. MaxSize - 1
  BY ModRange, StringConstants DEF IInv, TypeOK
<1>2. \A s \in Allocated : content[s] # c
  BY <1>1 DEF IInv, Placed, Lists, Matches, InList, HashOf
<1>3. ASSUME size <= MaxSize \div 2 PROVE 2 * size \in 1 .. MaxSize
  BY <1>1, <1>3, MaxSizeIsNat
<1>4. TypeOK'
  BY <1>1, ShiftedIsAlive DEF IInv, TypeOK, Allocated, table, gc
<1>5. Placed' /\ CountIsExact' /\ FreesFindTheirString' /\ Interned' /\ ShrinkIsSafe'
  BY DEF IInv, Placed, CountIsExact, FreesFindTheirString, Interned, ShrinkIsSafe, Lists,
         Allocated, InList, HashOf, table
<1>6. CreatesNew'
  BY <1>2, <1>3 DEF CreatesNew, Allocated, table
<1>7. HeldIsAlive' /\ DeadAreAllocated'
  BY DEF IInv, HeldIsAlive, DeadAreAllocated, Dead, Allocated, table
<1>8. CacheIsAlive'
  BY ShiftedIsAlive DEF IInv, CacheIsAlive, Dead, Allocated, table
<1> QED
  BY <1>4, <1>5, <1>6, <1>7, <1>8 DEF IInv

LEMMA GrownKeeps ==
  ASSUME IInv, Grown
  PROVE  IInv'
<1> USE DEF Grown
<1>1. size \in 1 .. MaxSize /\ 2 * size \in 1 .. MaxSize
  BY DEF IInv, TypeOK, CreatesNew
<1>2. chain' = [i \in 0 .. MaxSize - 1 |-> InList(Allocated, 2 * size, i)]
  <2>1. \A i \in 0 .. MaxSize - 1 : chain[i] = InList(Allocated, size, i)
    BY DEF IInv, Placed, Lists
  <2>2. TypeOK
    BY DEF IInv
  <2> QED
    BY <1>1, <2>1, <2>2, RehashPlaces
<1>3. lmod(Hash[key], 2 * size) \in 0 .. MaxSize - 1
  BY <1>1, ModRange, StringConstants DEF IInv, TypeOK
<1>4. TypeOK'
  BY <1>1, <1>2, <1>3 DEF IInv, TypeOK, Allocated, InList, gc
<1>5. Placed'
  BY <1>1, <1>2 DEF Placed, Lists, Allocated, InList, HashOf
<1>6. CountIsExact' /\ FreesFindTheirString' /\ Interned' /\ CreatesNew' /\ ShrinkIsSafe'
  BY DEF IInv, CountIsExact, FreesFindTheirString, Interned, CreatesNew, ShrinkIsSafe,
         Allocated
<1>7. AliveInv'
  BY AliveUnchanged DEF IInv, AliveInv
<1> QED
  BY <1>4, <1>5, <1>6, <1>7 DEF IInv, AliveInv

LEMMA NotGrownKeeps ==
  ASSUME IInv, NotGrown
  PROVE  IInv'
<1> USE DEF NotGrown
<1>1. lmod(Hash[key], size) \in 0 .. MaxSize - 1
  BY ModRange, StringConstants DEF IInv, TypeOK
<1>2. TypeOK'
  BY <1>1 DEF IInv, TypeOK, Allocated, table, gc
<1>3. Placed' /\ CountIsExact' /\ FreesFindTheirString' /\ Interned' /\ CreatesNew'
        /\ ShrinkIsSafe'
  BY DEF IInv, Placed, CountIsExact, FreesFindTheirString, Interned, CreatesNew,
         ShrinkIsSafe, Lists, Allocated, InList, HashOf, table
<1>4. AliveInv'
  BY AliveUnchanged DEF IInv, AliveInv, table
<1> QED
  BY <1>2, <1>3, <1>4 DEF IInv, AliveInv

(* The string is linked in the list computed before the allocation, which  *)
(* is still the list of its hash, and its contents are still new.          *)
LEMMA CreatedKeeps ==
  ASSUME IInv, Created
  PROVE  IInv'
<1> USE DEF Created
<1>1. PICK s \in Str \ Allocated :
        /\ content' = [t \in Allocated \union {s} |-> IF t = s THEN key ELSE content[t]]
        /\ chain' = [chain EXCEPT ![list] = @ \union {s}]
        /\ color' = [color EXCEPT ![s] = "white"]
        /\ Return(s, cache, cached)
  OBVIOUS
<1>2. Allocated' = Allocated \union {s}
  BY <1>1 DEF Allocated
<1>3. \A t \in Allocated : content'[t] = content[t]
  BY <1>1
<1>4. content'[s] = key
  BY <1>1
<1>5. TypeOK'
  <2>1. /\ Allocated' \subseteq Str /\ \A t \in Allocated' : content'[t] \in Content
        /\ chain' \in [0 .. MaxSize - 1 -> SUBSET Str]
    BY <1>1, <1>2, <1>3, <1>4 DEF IInv, TypeOK
  <2>2. color' \in [Str -> {"white", "otherwhite", "black"}] /\ held' \subseteq Str
    BY <1>1 DEF IInv, TypeOK, Return
  <2>3. cache' \in [1 .. CacheLen -> Str \union {memerrmsg}]
    BY <1>1 DEF IInv, TypeOK, Return
  <2>4. nuse' \in Nat
    BY DEF IInv, TypeOK
  <2> QED
    BY <2>1, <2>2, <2>3, <2>4 DEF IInv, TypeOK, gc
<1>6. Placed'
  <2>1. list = lmod(Hash[key], size) /\ Lists = size /\ Lists' = size
    BY DEF IInv, CreatesNew, Lists
  <2>2. \A i \in 0 .. MaxSize - 1 :
          chain'[i] = {t \in Allocated \union {s} : lmod(Hash[content'[t]], size) = i}
    BY <1>1, <1>3, <1>4, <2>1 DEF IInv, TypeOK, Placed, InList, HashOf
  <2> QED
    BY <1>2, <2>1, <2>2 DEF IInv, Placed, InList, HashOf
<1>7. CountIsExact'
  <2>1. IsFiniteSet(Allocated)
    BY FS_Subset, StringConstants DEF IInv, TypeOK
  <2>2. Cardinality(Allocated \union {s}) = Cardinality(Allocated) + 1
    BY <2>1, FS_AddElement
  <2> QED
    BY <1>2, <2>2 DEF IInv, CountIsExact
<1>8. Interned'
  BY <1>2, <1>3, <1>4 DEF IInv, Interned, CreatesNew
<1>9. HeldIsAlive' /\ DeadAreAllocated'
  BY <1>1, <1>2 DEF IInv, TypeOK, HeldIsAlive, DeadAreAllocated, Dead, Return
<1>10. CacheIsAlive'
  <2>1. \A j \in 1 .. CacheLen : cache'[j] = cache[j] \/ cache'[j] = s
    BY <1>1 DEF IInv, TypeOK, Return
  <2> QED
    BY <1>1, <1>2, <2>1 DEF IInv, TypeOK, CacheIsAlive, Dead
<1>11. FreesFindTheirString' /\ CreatesNew' /\ ShrinkIsSafe'
  BY DEF IInv, FreesFindTheirString, CreatesNew, ShrinkIsSafe
<1> QED
  BY <1>5, <1>6, <1>7, <1>8, <1>9, <1>10, <1>11 DEF IInv

LEMMA NotCreatedKeeps ==
  ASSUME IInv, NotCreated
  PROVE  IInv'
<1> USE DEF NotCreated
<1>1. TypeOK'
  BY DEF IInv, TypeOK, Allocated, table, gc
<1>2. Placed' /\ CountIsExact' /\ FreesFindTheirString' /\ Interned' /\ CreatesNew'
        /\ ShrinkIsSafe'
  BY DEF IInv, Placed, CountIsExact, FreesFindTheirString, Interned, CreatesNew,
         ShrinkIsSafe, Lists, Allocated, InList, HashOf, table
<1>3. AliveInv'
  BY AliveUnchanged DEF IInv, AliveInv, table
<1> QED
  BY <1>1, <1>2, <1>3 DEF IInv, AliveInv

LEMMA ReleaseKeeps ==
  ASSUME IInv, NEW s \in held, Release(s)
  PROVE  IInv'
<1> USE DEF Release
<1>1. TypeOK'
  BY DEF IInv, TypeOK, Allocated, table, gc, call
<1>2. TableInv' /\ ShrinkIsSafe'
  BY TableUnchanged DEF IInv, TableInv, ShrinkIsSafe, gc, call
<1>3. AliveInv'
  BY DEF IInv, AliveInv, HeldIsAlive, CacheIsAlive, DeadAreAllocated, Dead, Allocated, table
<1> QED
  BY <1>1, <1>2, <1>3 DEF IInv, AliveInv, TableInv

-----------------------------------------------------------------------------
(* The collector *)

LEMMA RestartKeeps ==
  ASSUME IInv, Restart
  PROVE  IInv'
<1> USE DEF Restart
<1>1. TypeOK'
  BY DEF IInv, TypeOK, Allocated, table, call
<1>2. TableInv' /\ ShrinkIsSafe'
  BY TableUnchanged DEF IInv, TableInv, ShrinkIsSafe, call
<1>3. AliveInv'
  BY AliveUnchanged DEF IInv, AliveInv, table
<1> QED
  BY <1>1, <1>2, <1>3 DEF IInv, AliveInv, TableInv

LEMMA MarkKeeps ==
  ASSUME IInv, NEW s \in held, Mark(s)
  PROVE  IInv'
<1> USE DEF Mark
<1>1. TypeOK'
  BY DEF IInv, TypeOK, Allocated, table, gc, call
<1>2. TableInv' /\ ShrinkIsSafe'
  BY TableUnchanged DEF IInv, TableInv, ShrinkIsSafe, gc, call
<1>3. \A t \in Str : Dead(t)' => Dead(t)
  BY DEF IInv, TypeOK, Dead
<1>4. AliveInv'
  BY <1>3 DEF IInv, TypeOK, AliveInv, HeldIsAlive, CacheIsAlive, DeadAreAllocated,
              Allocated, table
<1> QED
  BY <1>1, <1>2, <1>4 DEF IInv, AliveInv, TableInv

(* Everything held is marked, and the cache keeps nothing unmarked.        *)
LEMMA AtomicKeeps ==
  ASSUME IInv, Atomic
  PROVE  IInv'
<1> USE DEF Atomic
<1> DEFINE marked == held \union {s \in Allocated : color[s] = "black"}
<1>1. /\ cache' = ClearCache(marked)
      /\ color' = [s \in Str |-> IF s \in marked THEN "black"
                                 ELSE IF s \in Allocated THEN "otherwhite" ELSE "white"]
  OBVIOUS
<1>2. held \subseteq marked /\ marked \subseteq Allocated /\ Allocated \subseteq Str
  BY DEF IInv, TypeOK, HeldIsAlive
<1> HIDE DEF marked
<1>3. /\ cache' \in [1 .. CacheLen -> Str \union {memerrmsg}]
      /\ \A j \in 1 .. CacheLen : cache'[j] # memerrmsg => cache'[j] \in marked
  BY <1>1 DEF IInv, TypeOK, ClearCache
<1>4. \A s \in Str : Dead(s)' => s \in Allocated \ marked
  BY <1>1 DEF Dead
<1>5. TypeOK'
  BY <1>1, <1>2, <1>3 DEF IInv, TypeOK, Allocated, table, call
<1>6. TableInv' /\ ShrinkIsSafe'
  BY TableUnchanged DEF IInv, TableInv, ShrinkIsSafe, call
<1>7. AliveInv'
  BY <1>2, <1>3, <1>4 DEF AliveInv, HeldIsAlive, CacheIsAlive, DeadAreAllocated,
                          Allocated, table
<1> QED
  BY <1>5, <1>6, <1>7 DEF IInv, AliveInv, TableInv

(* Freeing strings that nobody holds, at a time when all are in the list   *)
(* of their hash: what is left is as it was, and none is looked for in     *)
(* vain.                                                                   *)
LEMMA FreeKeeps ==
  ASSUME IInv, at # "shrink", NEW D \in SUBSET Allocated, Free(D)
  PROVE  /\ Allocated' = Allocated \ D
         /\ \A s \in Allocated \ D : content'[s] = content[s] /\ content'[s] \in Content
         /\ Unlinked(D) = [i \in 0 .. MaxSize - 1 |-> InList(Allocated \ D, size, i)]
         /\ missed' = {} /\ FreesFindTheirString'
         /\ CountIsExact' /\ nuse' \in Nat
         /\ Interned'
<1> USE DEF Free
<1>1. Allocated' = Allocated \ D
  BY DEF Allocated
<1>2. \A s \in Allocated \ D : content'[s] = content[s] /\ content'[s] \in Content
  BY DEF IInv, TypeOK
<1>3. Unlinked(D) = [i \in 0 .. MaxSize - 1 |-> InList(Allocated \ D, size, i)]
      /\ NotFound(D) = {}
  BY UnlinkedPlaces DEF IInv
<1>4. missed' = {} /\ FreesFindTheirString'
  BY <1>3 DEF IInv, FreesFindTheirString
<1>5. CountIsExact' /\ nuse' \in Nat
  <2>1. nuse - Cardinality(D) = Cardinality(Allocated \ D) /\ Cardinality(Allocated \ D) \in Nat
    BY FreeCounts DEF IInv
  <2>2. nuse' = Cardinality(Allocated \ D)
    BY <2>1
  <2> QED
    BY <1>1, <2>1, <2>2 DEF CountIsExact
<1>6. Interned'
  BY <1>1, <1>2 DEF IInv, Interned
<1> QED
  BY <1>1, <1>2, <1>3, <1>4, <1>5, <1>6

(* The sweep frees a dead string: it is neither held nor in the cache.     *)
LEMMA SweepKeeps ==
  ASSUME IInv, NEW s \in unswept, Sweep(s)
  PROVE  IInv'
<1> USE DEF Sweep
<1>1. s \in Str /\ at = "idle"
  BY DEF IInv, TypeOK
<1>2. color' \in [Str -> {"white", "otherwhite", "black"}]
      /\ \A t \in Str : Dead(t)' => Dead(t) /\ t # s
  BY <1>1 DEF IInv, TypeOK, Dead
<1>3. CASE Dead(s)
  <2>1. {s} \subseteq Allocated /\ s \notin held /\ \A j \in 1 .. CacheLen : cache[j] # s
    BY <1>1, <1>3, StringConstants DEF IInv, DeadAreAllocated, HeldIsAlive, CacheIsAlive
  <2>2. /\ Allocated' = Allocated \ {s}
        /\ \A t \in Allocated \ {s} : content'[t] = content[t] /\ content'[t] \in Content
        /\ chain' = [i \in 0 .. MaxSize - 1 |-> InList(Allocated \ {s}, size, i)]
        /\ missed' = {} /\ FreesFindTheirString'
        /\ CountIsExact' /\ nuse' \in Nat
        /\ Interned'
    BY <1>1, <1>3, <2>1, FreeKeeps
  <2>3. TypeOK'
    <3>1. chain' \in [0 .. MaxSize - 1 -> SUBSET Str]
      BY <2>2 DEF IInv, TypeOK, InList
    <3> QED
      BY <1>2, <2>2, <3>1 DEF IInv, TypeOK, call
  <2>4. Placed'
    <3>1. Lists' = size /\ size \in 1 .. MaxSize
      BY <1>1 DEF IInv, TypeOK, Lists, call
    <3> QED
      BY <2>2, <3>1 DEF Placed, InList, HashOf
  <2>5. CreatesNew' /\ ShrinkIsSafe'
    BY <1>1 DEF CreatesNew, ShrinkIsSafe, call
  <2>6. AliveInv'
    BY <1>1, <1>2, <2>1, <2>2
    DEF IInv, TypeOK, AliveInv, HeldIsAlive, CacheIsAlive, DeadAreAllocated
  <2> QED
    BY <2>2, <2>3, <2>4, <2>5, <2>6 DEF IInv, AliveInv
<1>4. CASE ~Dead(s)
  <2>1. UNCHANGED <<table, call, missed>>
    BY <1>4 DEF table
  <2>2. TypeOK'
    BY <1>2, <2>1 DEF IInv, TypeOK, Allocated, table, call
  <2>3. TableInv' /\ ShrinkIsSafe'
    BY <2>1, TableUnchanged DEF IInv, TableInv, ShrinkIsSafe, call
  <2>4. AliveInv'
    BY <1>2, <2>1 DEF IInv, TypeOK, AliveInv, HeldIsAlive, CacheIsAlive, DeadAreAllocated,
                      Allocated, table
  <2> QED
    BY <2>2, <2>3, <2>4 DEF IInv, AliveInv, TableInv
<1> QED
  BY <1>3, <1>4

(* checkSizes, on lists that are exact: they stay exact, for the smaller   *)
(* size if that is being allocated.                                        *)
LEMMA CheckSizesKeeps ==
  ASSUME TypeOK, at = "idle", NEW A \in SUBSET Allocated, NEW n \in Nat, NEW em \in BOOLEAN,
         NEW ch, ch = [i \in 0 .. MaxSize - 1 |-> InList(A, size, i)],
         Allocated' = A, \A s \in A : content'[s] = content[s], size' = size,
         CheckSizes(n, ch, em)
  PROVE  /\ Placed' /\ chain' \in [0 .. MaxSize - 1 -> SUBSET Str]
         /\ at' \in {"idle", "shrink"} /\ tried' \in BOOLEAN
         /\ (at' = "shrink" => tried' = em)
<1> DEFINE n2 == IF TooBig(n) THEN size \div 2 ELSE size
<1>1. size \in 1 .. MaxSize /\ n2 \in 1 .. MaxSize
  BY HalfOfTooBig DEF TypeOK
<1>2. chain' = [i \in 0 .. MaxSize - 1 |-> InList(A, n2, i)]
  <2>1. CASE TooBig(n)
    <3>1. chain' = Rehash(size, size \div 2, ch)
      BY <2>1 DEF CheckSizes
    <3>2. \A i \in 0 .. MaxSize - 1 : ch[i] = InList(A, size, i)
      OBVIOUS
    <3>3. size \div 2 \in 1 .. MaxSize
      BY <1>1, <2>1
    <3>4. Rehash(size, size \div 2, ch) = [i \in 0 .. MaxSize - 1 |-> InList(A, size \div 2, i)]
      BY <1>1, <3>2, <3>3, RehashPlaces
    <3> QED
      BY <2>1, <3>1, <3>4
  <2>2. CASE ~TooBig(n)
    BY <2>2 DEF CheckSizes
  <2> QED
    BY <2>1, <2>2
<1>3. Lists' = n2 /\ at' \in {"idle", "shrink"} /\ tried' \in BOOLEAN
        /\ (at' = "shrink" => tried' = em)
  BY DEF CheckSizes, Lists, TypeOK
<1> HIDE DEF n2
<1>4. Placed'
  BY <1>1, <1>2, <1>3 DEF Placed, InList, HashOf
<1>5. chain' \in [0 .. MaxSize - 1 -> SUBSET Str]
  <2>1. \A i \in 0 .. MaxSize - 1 : InList(A, n2, i) \in SUBSET Str
    BY DEF InList, TypeOK
  <2> QED
    BY <1>2, <2>1
<1> QED
  BY <1>3, <1>4, <1>5

(* At the end of an incremental sweep 'gcstopem' is set.                   *)
LEMMA EndSweepKeeps ==
  ASSUME IInv, EndSweep
  PROVE  IInv'
<1> USE DEF EndSweep
<1>1. \A i \in 0 .. MaxSize - 1 : chain[i] = InList(Allocated, size, i)
  BY DEF IInv, Placed, Lists
<1>2. chain = [i \in 0 .. MaxSize - 1 |-> InList(Allocated, size, i)]
  BY <1>1 DEF IInv, TypeOK
<1>3. Allocated' = Allocated /\ \A s \in Allocated : content'[s] = content[s]
  BY DEF Allocated
<1>4. /\ Placed' /\ chain' \in [0 .. MaxSize - 1 -> SUBSET Str]
      /\ at' \in {"idle", "shrink"} /\ tried' \in BOOLEAN
      /\ (at' = "shrink" => tried' = TRUE)
  BY <1>2, <1>3, CheckSizesKeeps DEF IInv, TypeOK
<1>5. TypeOK'
  BY <1>3, <1>4 DEF IInv, TypeOK
<1>6. CountIsExact' /\ FreesFindTheirString' /\ Interned' /\ CreatesNew' /\ ShrinkIsSafe'
  BY <1>3, <1>4 DEF IInv, CountIsExact, FreesFindTheirString, Interned, CreatesNew,
                    ShrinkIsSafe
<1>7. AliveInv'
  BY AliveUnchanged DEF IInv, AliveInv
<1> QED
  BY <1>4, <1>5, <1>6, <1>7 DEF IInv, AliveInv

LEMMA ShrunkKeeps ==
  ASSUME IInv, Shrunk
  PROVE  IInv'
<1> USE DEF Shrunk
<1>1. size' = Lists /\ Lists \in 1 .. MaxSize /\ Lists' = Lists
  BY DEF IInv, Placed, Lists
<1>2. TypeOK'
  BY <1>1 DEF IInv, TypeOK, Allocated, gc
<1>3. Placed' /\ CountIsExact' /\ FreesFindTheirString' /\ Interned' /\ CreatesNew'
        /\ ShrinkIsSafe'
  BY <1>1 DEF IInv, Placed, CountIsExact, FreesFindTheirString, Interned, CreatesNew,
              ShrinkIsSafe, Allocated, InList, HashOf
<1>4. AliveInv'
  BY AliveUnchanged DEF IInv, AliveInv
<1> QED
  BY <1>2, <1>3, <1>4 DEF IInv, AliveInv

(* The strings go back to the lists of the present size.                   *)
LEMMA NotShrunkKeeps ==
  ASSUME IInv, NotShrunk
  PROVE  IInv'
<1> USE DEF NotShrunk
<1>1. size \in 1 .. MaxSize /\ size \div 2 \in 1 .. MaxSize
      /\ \A i \in 0 .. MaxSize - 1 : chain[i] = InList(Allocated, size \div 2, i)
  BY DEF IInv, TypeOK, Placed, Lists
<1>2. chain' = [i \in 0 .. MaxSize - 1 |-> InList(Allocated, size, i)]
  <2>1. TypeOK
    BY DEF IInv
  <2> QED
    BY <1>1, <2>1, RehashPlaces
<1>3. TypeOK'
  BY <1>2 DEF IInv, TypeOK, Allocated, InList, gc
<1>4. Placed'
  BY <1>1, <1>2 DEF Placed, Lists, Allocated, InList, HashOf
<1>5. CountIsExact' /\ FreesFindTheirString' /\ Interned' /\ CreatesNew' /\ ShrinkIsSafe'
  BY DEF IInv, CountIsExact, FreesFindTheirString, Interned, CreatesNew, ShrinkIsSafe,
         Allocated
<1>6. AliveInv'
  BY AliveUnchanged DEF IInv, AliveInv
<1> QED
  BY <1>3, <1>4, <1>5, <1>6 DEF IInv, AliveInv

(* An emergency collection while a string is being created, or the table   *)
(* is about to grow: it frees strings, none with the contents wanted.      *)
LEMMA EmergencyKeeps ==
  ASSUME YoungShrinkSucceeds, IInv, Emergency
  PROVE  IInv'
<1> USE DEF Emergency, FullCollection
<1> DEFINE D == Allocated \ held
<1>1. at # "shrink"
  BY DEF IInv, ShrinkIsSafe, MayFail, YoungShrinkSucceeds
<1>2. /\ Allocated' = Allocated \ D
      /\ \A s \in Allocated \ D : content'[s] = content[s] /\ content'[s] \in Content
      /\ chain' = [i \in 0 .. MaxSize - 1 |-> InList(Allocated \ D, size, i)]
      /\ missed' = {} /\ FreesFindTheirString'
      /\ CountIsExact' /\ nuse' \in Nat
      /\ Interned'
  BY <1>1, FreeKeeps
<1>3. held \subseteq Allocated \ D /\ held \subseteq Str
  BY DEF IInv, HeldIsAlive, TypeOK
<1>4. /\ cache' \in [1 .. CacheLen -> Str \union {memerrmsg}]
      /\ \A j \in 1 .. CacheLen : cache'[j] # memerrmsg => cache'[j] \in held
  BY DEF IInv, TypeOK, ClearCache
<1>5. color' \in [Str -> {"white", "otherwhite", "black"}] /\ \A s \in Str : ~Dead(s)'
  BY DEF Dead
<1> HIDE DEF D
<1>6. TypeOK'
  <2>1. chain' \in [0 .. MaxSize - 1 -> SUBSET Str]
    BY <1>2 DEF IInv, TypeOK, InList
  <2> QED
    BY <1>2, <1>4, <1>5, <2>1 DEF IInv, TypeOK
<1>7. Placed'
  <2>1. Lists' = size /\ size \in 1 .. MaxSize
    BY <1>1 DEF IInv, TypeOK, Lists
  <2> QED
    BY <1>2, <2>1 DEF Placed, InList, HashOf
<1>8. CreatesNew' /\ ShrinkIsSafe'
  BY <1>1, <1>2 DEF IInv, CreatesNew, ShrinkIsSafe
<1>9. AliveInv'
  BY <1>2, <1>3, <1>4, <1>5 DEF AliveInv, HeldIsAlive, CacheIsAlive, DeadAreAllocated
<1> QED
  BY <1>2, <1>6, <1>7, <1>8, <1>9 DEF IInv, AliveInv

(* A collection in generational mode, which may go on to shrink the table. *)
LEMMA CollectGenKeeps ==
  ASSUME IInv, at = "idle", NEW D \in SUBSET (Allocated \ held),
         NEW old \in SUBSET (Allocated \ D), CollectGen(D, old),
         gckind' = "generational", gckind' \in Modes, UNCHANGED <<gcstate, unswept>>
  PROVE  IInv'
<1> USE DEF CollectGen
<1>1. /\ Allocated' = Allocated \ D
      /\ \A s \in Allocated \ D : content'[s] = content[s] /\ content'[s] \in Content
      /\ Unlinked(D) = [i \in 0 .. MaxSize - 1 |-> InList(Allocated \ D, size, i)]
      /\ missed' = {} /\ FreesFindTheirString'
      /\ CountIsExact' /\ nuse' \in Nat
      /\ Interned'
  BY FreeKeeps
<1>2. nuse - Cardinality(D) \in Nat
  BY <1>1 DEF Free
<1>3. /\ Placed' /\ chain' \in [0 .. MaxSize - 1 -> SUBSET Str]
      /\ at' \in {"idle", "shrink"} /\ tried' \in BOOLEAN
  BY <1>1, <1>2, CheckSizesKeeps DEF IInv
<1>4. held \subseteq Allocated \ D
  BY DEF IInv, HeldIsAlive
<1>5. /\ cache' \in [1 .. CacheLen -> Str \union {memerrmsg}]
      /\ \A j \in 1 .. CacheLen : cache'[j] # memerrmsg => cache'[j] \in Allocated \ D
  BY DEF IInv, TypeOK, ClearCache
<1>6. color' \in [Str -> {"white", "otherwhite", "black"}] /\ \A s \in Str : ~Dead(s)'
  BY DEF Dead
<1>7. TypeOK'
  BY <1>1, <1>3, <1>5, <1>6 DEF IInv, TypeOK
<1>8. CreatesNew' /\ ShrinkIsSafe'
  BY <1>3 DEF CreatesNew, ShrinkIsSafe
<1>9. AliveInv'
  <2>1. held' = held /\ held \subseteq Str /\ Allocated' \subseteq Str
    BY <1>1 DEF IInv, TypeOK
  <2>2. HeldIsAlive' /\ DeadAreAllocated'
    BY <1>1, <1>4, <1>6, <2>1 DEF HeldIsAlive, DeadAreAllocated
  <2>3. CacheIsAlive'
    BY <1>1, <1>5, <1>6, <2>1 DEF CacheIsAlive
  <2> QED
    BY <2>2, <2>3 DEF AliveInv
<1> QED
  BY <1>1, <1>3, <1>7, <1>8, <1>9 DEF IInv, AliveInv

LEMMA YoungCollectionKeeps ==
  ASSUME IInv, YoungCollection
  PROVE  IInv'
BY CollectGenKeeps DEF YoungCollection, IInv, TypeOK, gc

LEMMA EnterGenerationalKeeps ==
  ASSUME IInv, EnterGenerational
  PROVE  IInv'
<1>1. held \in SUBSET (Allocated \ (Allocated \ held))
  BY DEF IInv, HeldIsAlive
<1> QED
  BY <1>1, CollectGenKeeps DEF EnterGenerational

LEMMA EnterIncrementalKeeps ==
  ASSUME IInv, EnterIncremental
  PROVE  IInv'
<1> USE DEF EnterIncremental
<1>1. TypeOK'
  BY StringConstants DEF IInv, TypeOK, Allocated, table, call
<1>2. TableInv' /\ ShrinkIsSafe'
  BY TableUnchanged DEF IInv, TableInv, ShrinkIsSafe, call
<1>3. AliveInv'
  BY AliveUnchanged DEF IInv, AliveInv, table
<1> QED
  BY <1>1, <1>2, <1>3 DEF IInv, AliveInv, TableInv

-----------------------------------------------------------------------------
LEMMA NextKeeps ==
  ASSUME YoungShrinkSucceeds, IInv, [Next]_vars
  PROVE  IInv'
<1>1. CASE Program
  BY <1>1, CacheHitKeeps, ReuseKeeps, StartCreateKeeps, GrownKeeps, NotGrownKeeps,
     CreatedKeeps, NotCreatedKeeps, ReleaseKeeps DEF Program
<1>2. CASE Collector
  BY <1>2, RestartKeeps, MarkKeeps, AtomicKeeps, SweepKeeps, EndSweepKeeps, ShrunkKeeps,
     NotShrunkKeeps, EmergencyKeeps, YoungCollectionKeeps, EnterGenerationalKeeps,
     EnterIncrementalKeeps DEF Collector
<1>3. CASE UNCHANGED vars
  <2>1. TypeOK' /\ TableInv' /\ AliveInv' /\ ShrinkIsSafe'
    BY <1>3, TableUnchanged, AliveUnchanged
    DEF IInv, TypeOK, TableInv, AliveInv, ShrinkIsSafe, Allocated, vars, table, gc, call
  <2> QED
    BY <2>1 DEF IInv, TableInv, AliveInv
<1> QED
  BY <1>1, <1>2, <1>3 DEF Next

LEMMA Invariance ==
  ASSUME YoungShrinkSucceeds
  PROVE  Spec => []IInv
<1>1. IInv /\ [Next]_vars => IInv'
  BY NextKeeps
<1> QED
  BY InitIInv, <1>1, PTL DEF Spec

(* Outside the allocation of a smaller table, the lists of the present     *)
(* size hold exactly the allocated strings, the count is theirs, and every *)
(* string that was freed was found in its list: luaS_resize, luaS_remove   *)
(* and internshrstr, for every hash function and whatever else fails.      *)
THEOREM ListsStayExact ==
  ASSUME YoungShrinkSucceeds
  PROVE  Spec => []ListsAreExact
<1>1. IInv => ListsAreExact
  BY DEF IInv, ListsAreExact, InItsList, Placed, Lists, CountIsExact, InList
<1> QED
  BY Invariance, <1>1, PTL

(* No contents exist twice, so that strings may be compared by address     *)
(* (eqshrstr), although a collection may run between the search of         *)
(* internshrstr and the creation of the string.                            *)
THEOREM StringsAreInterned ==
  ASSUME YoungShrinkSucceeds
  PROVE  Spec => []Interned
<1>1. IInv => Interned
  BY DEF IInv
<1> QED
  BY Invariance, <1>1, PTL

(* A string that internshrstr or the cache of luaS_new hands out is        *)
(* allocated and no sweep under way will free it.                          *)
THEOREM HandedOutStayAlive ==
  ASSUME YoungShrinkSucceeds
  PROVE  Spec => []HandedOutAreAlive
<1>1. IInv => HandedOutAreAlive
  BY DEF IInv, HandedOutAreAlive
<1> QED
  BY Invariance, <1>1, PTL
=============================================================================
