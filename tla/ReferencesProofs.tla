-------------------------- MODULE ReferencesProofs --------------------------
(***************************************************************************)
(* ReferencesHold for any number of objects and any size of the table: a   *)
(* reference gives its object until it is freed, and no index is lost or   *)
(* used twice.                                                             *)
(*                                                                         *)
(* ReferencesHold speaks of the indices found by following the free list.  *)
(* The inductive invariant names that list: there is a sequence of         *)
(* distinct indices, none of them held, that starts at t[1], follows the   *)
(* slots, ends with 0 and with the held indices makes up the table.        *)
(***************************************************************************)
EXTENDS References, FiniteSetTheorems, TLAPS

(* f lists the free indices, from the head t[1] to the 0 that ends it.     *)
IsFreeList(f, k) ==
  /\ k \in Nat \ {0} /\ f \in [1 .. k -> Nat]
  /\ f[1] = t[1] /\ f[k] = 0
  /\ \A i \in 1 .. k - 1 : f[i] \in 2 .. Len(t) /\ f[i + 1] = t[f[i]] /\ f[i] \notin DOMAIN held
  /\ \A i, j \in 1 .. k : f[i] = f[j] => i = j
  /\ \A x \in 2 .. Len(t) : x \in DOMAIN held \/ \E i \in 1 .. k - 1 : f[i] = x

Element == Nat \cup Referents

HeldInTable ==
  /\ DOMAIN held \subseteq 2 .. Len(t)
  /\ \A r \in DOMAIN held : t[r] = held[r] /\ held[r] \in Referents

IInv ==
  /\ t \in Seq(Element) /\ Len(t) <= MAXREFS
  /\ HeldInTable
  /\ Initialized => \E k, f : IsFreeList(f, k)

-----------------------------------------------------------------------------
(* Every set of numbers with a member has a least one.                     *)
LEMMA LeastNumber ==
  ASSUME NEW m \in Nat, NEW S \in SUBSET (1 .. m), S # {}
  PROVE  \E x \in S : \A y \in S : x <= y
<1> DEFINE Initials == {1 .. x : x \in S}
           R == StrictSubsetOrdering(1 .. m)
<1>1. Initials \subseteq FiniteSubsetsOf(1 .. m) /\ Initials # {}
  <2>1. \A x \in S : 1 .. x \subseteq 1 .. m /\ IsFiniteSet(1 .. x)
    BY FS_Interval
  <2> QED
    BY <2>1 DEF FiniteSubsetsOf
<1>2. IsWellFoundedOn(R, FiniteSubsetsOf(1 .. m))
  BY FS_StrictSubsetOrderingWellFounded
<1>3. \E x \in Initials : \A y \in Initials : <<y, x>> \notin R
  <2> HIDE DEF Initials, R
  <2> QED
    BY <1>1, <1>2, WFMin
<1>4. PICK x \in S : \A y \in S : <<1 .. y, 1 .. x>> \notin R
  BY <1>3
<1>5. ASSUME NEW y \in S, y < x
      PROVE  FALSE
  <2>1. /\ 1 .. y \subseteq 1 .. m /\ 1 .. x \subseteq 1 .. m
        /\ 1 .. y \subseteq 1 .. x /\ x \in 1 .. x /\ x \notin 1 .. y
    BY <1>5
  <2>2. <<1 .. y, 1 .. x>> \in R
    BY <2>1 DEF StrictSubsetOrdering
  <2> QED
    BY <2>2, <1>4
<1>6. \A y \in S : x <= y
  BY <1>5
<1> QED
  BY <1>6

(* Distinct numbers from 1 to n are at most n.                             *)
LEMMA NoRoomForMore ==
  ASSUME NEW m \in Nat, NEW n \in Nat, NEW h \in [1 .. m -> 1 .. n],
         \A i, j \in 1 .. m : h[i] = h[j] => i = j
  PROVE  m <= n
<1>1. IsFiniteSet(1 .. n) /\ IsFiniteSet(1 .. m)
  BY FS_Interval
<1>2. Cardinality(1 .. n) = n /\ Cardinality(1 .. m) = m
  <2>1. \A b \in Nat : Cardinality(1 .. b) = IF 1 > b THEN 0 ELSE b - 1 + 1
    BY FS_Interval
  <2> QED
    BY <2>1
<1>3. h \in Injection(1 .. m, 1 .. n)
  BY DEF Injection, IsInjective
<1>4. Cardinality(1 .. m) <= Cardinality(1 .. n)
  BY <1>1, <1>3, FS_Injection
<1> QED
  BY <1>2, <1>4

-----------------------------------------------------------------------------
(* What following the slots finds is the free list.                        *)
LEMMA FreeListIsListed ==
  ASSUME IInv, Initialized, ReferencesConstants,
         NEW k, NEW f, IsFreeList(f, k)
  PROVE  FreeList = {f[i] : i \in 1 .. k - 1}
<1> DEFINE last == MAXREFS + 1
           follow(a, n) == IF n = 1 THEN t[1]
                           ELSE IF a[n - 1] \in 1 .. Len(t) THEN t[a[n - 1]] ELSE 0
           at == CHOOSE at : at = [n \in 1 .. last |-> follow(at, n)]
           g == [n \in 1 .. last |-> IF n <= k THEN f[n] ELSE 0]
<1>1. FreeList = {at[n] : n \in DOMAIN at} \ {0}
  BY DEF FreeList
<1>2. /\ k \in Nat \ {0} /\ f \in [1 .. k -> Nat] /\ f[1] = t[1] /\ f[k] = 0
      /\ \A i \in 1 .. k - 1 : f[i] \in 2 .. Len(t) /\ f[i + 1] = t[f[i]]
      /\ \A i, j \in 1 .. k : f[i] = f[j] => i = j
      /\ Len(t) \in Nat /\ Len(t) <= MAXREFS /\ MAXREFS \in Nat \ {0}
  BY DEF IsFreeList, IInv, ReferencesConstants
<1>3. k <= last
  <2>1. /\ k - 1 \in Nat /\ \A i \in 1 .. k - 1 : i \in 1 .. k /\ f[i] \in 1 .. Len(t)
    BY <1>2
  <2> DEFINE h == [i \in 1 .. k - 1 |-> f[i]]
  <2>2. /\ h \in [1 .. k - 1 -> 1 .. Len(t)]
        /\ \A i, j \in 1 .. k - 1 : h[i] = h[j] => i = j
    BY <2>1, <1>2
  <2>4. Len(t) \in Nat
    BY <1>2
  <2> HIDE DEF h, at, g, follow, last
  <2>3. k - 1 <= Len(t)
    BY <2>1, <2>2, <2>4, NoRoomForMore
  <2> QED
    BY <2>3, <1>2 DEF last
<1>4. g = [n \in 1 .. last |-> follow(g, n)]
  <2>1. \A n \in 1 .. last : g[n] = follow(g, n)
    <3> SUFFICES ASSUME NEW n \in 1 .. last PROVE g[n] = follow(g, n)
      OBVIOUS
    <3>1. CASE n = 1
      BY <3>1, <1>2
    <3>2. CASE n # 1 /\ n <= k
      <4>1. n - 1 \in 1 .. k - 1 /\ n - 1 \in 1 .. last /\ n - 1 + 1 = n
        BY <3>2, <1>2
      <4>2. g[n - 1] = f[n - 1] /\ g[n] = f[n]
        BY <4>1, <3>2, <1>2
      <4>3. f[n - 1] \in 1 .. Len(t) /\ f[n] = t[f[n - 1]]
        BY <4>1, <1>2
      <4> QED
        BY <3>2, <4>2, <4>3
    <3>3. CASE n > k
      <4>1. n - 1 \in 1 .. last /\ n # 1
        BY <3>3, <1>2
      <4>2. g[n - 1] = 0 /\ g[n] = 0
        BY <4>1, <3>3, <1>2
      <4> QED
        BY <4>1, <4>2, <1>2
    <3> QED
      BY <3>1, <3>2, <3>3, <1>2
  <2> QED
    BY <2>1
<1>5. at = [n \in 1 .. last |-> follow(at, n)]
  BY <1>4
<1> HIDE DEF at, g
<1>6. \A n \in 1 .. last : at[n] = g[n]
  <2> DEFINE Differ == {n \in 1 .. last : at[n] # g[n]}
  <2> SUFFICES ASSUME Differ # {} PROVE FALSE
    OBVIOUS
  <2>1. PICK n \in Differ : \A y \in Differ : n <= y
    <3>1. Differ \in SUBSET (1 .. last) /\ last \in Nat
      BY <1>2
    <3> HIDE DEF Differ, last
    <3> QED
      BY <3>1, LeastNumber
  <2>2. at[n] = follow(at, n) /\ g[n] = follow(g, n) /\ n \in 1 .. last
    BY <1>4, <1>5
  <2>3. n # 1
    BY <2>2
  <2>4. n - 1 \in 1 .. last /\ ~(n <= n - 1)
    BY <2>2, <2>3, <1>2
  <2>5. at[n - 1] = g[n - 1]
    BY <2>1, <2>4
  <2> QED
    BY <2>2, <2>5
<1>7. FreeList = {g[n] : n \in 1 .. last} \ {0}
  <2>1. DOMAIN at = 1 .. last
    BY <1>5
  <2> QED
    BY <1>1, <1>6, <2>1
<1>8. \A n \in 1 .. last : g[n] = IF n <= k THEN f[n] ELSE 0
  BY DEF g
<1>9. \A n \in 1 .. k : f[n] # 0 <=> n \in 1 .. k - 1
  BY <1>2
<1>10. 1 .. k - 1 \subseteq 1 .. last /\ \A n \in 1 .. last : n <= k => n \in 1 .. k
  BY <1>2, <1>3
<1>11. \A n \in 1 .. k - 1 : n <= k /\ n \in 1 .. k
  BY <1>2
<1> QED
  BY <1>7, <1>8, <1>9, <1>10, <1>11

(* The invariant implies the property.                                     *)
LEMMA HoldsByInvariant ==
  ASSUME IInv, ReferencesConstants
  PROVE  ReferencesHold
<1> SUFFICES ASSUME Initialized
             PROVE  /\ \A r \in DOMAIN held : t[r] = held[r]
                    /\ FreeList \cap DOMAIN held = {}
                    /\ DOMAIN t = {1} \cup DOMAIN held \cup FreeList
  BY DEF ReferencesHold
<1>1. PICK k, f : IsFreeList(f, k)
  BY DEF IInv
<1>2. FreeList = {f[i] : i \in 1 .. k - 1}
  BY <1>1, FreeListIsListed
<1>3. DOMAIN t = 1 .. Len(t) /\ Len(t) \in Nat /\ Len(t) # 0
  BY DEF IInv, Initialized
<1>4. 1 .. Len(t) = {1} \cup (2 .. Len(t))
  BY <1>3
<1> QED
  BY <1>1, <1>2, <1>3, <1>4 DEF IsFreeList, IInv, HeldInTable

-----------------------------------------------------------------------------
(* The invariant holds at first.                                           *)
LEMMA InitIInv == ReferencesConstants /\ Init => IInv
BY DEF Init, IInv, HeldInTable, Initialized, Element, ReferencesConstants

(* A reference that is freed becomes the head of the list.                 *)
LEMMA UnrefPreserves ==
  ASSUME ReferencesConstants, IInv, NEW ref \in DOMAIN held, luaL_unref(ref)
  PROVE  IInv'
<1>1. /\ t \in Seq(Element) /\ Len(t) \in Nat /\ Len(t) <= MAXREFS /\ MAXREFS \in Nat
      /\ ref \in 2 .. Len(t) /\ DOMAIN held \subseteq 2 .. Len(t)
      /\ \A r \in DOMAIN held : t[r] = held[r] /\ held[r] \in Referents
      /\ DOMAIN t = 1 .. Len(t) /\ Initialized
  BY DEF IInv, HeldInTable, ReferencesConstants, Initialized
<1>2. PICK k, f : IsFreeList(f, k)
  BY <1>1 DEF IInv
<1>3. /\ k \in Nat \ {0} /\ f \in [1 .. k -> Nat] /\ f[1] = t[1] /\ f[k] = 0
      /\ \A i \in 1 .. k - 1 : f[i] \in 2 .. Len(t) /\ f[i + 1] = t[f[i]] /\ f[i] \notin DOMAIN held
      /\ \A i, j \in 1 .. k : f[i] = f[j] => i = j
      /\ \A x \in 2 .. Len(t) : x \in DOMAIN held \/ \E i \in 1 .. k - 1 : f[i] = x
  BY <1>2 DEF IsFreeList
<1>4. /\ t' = [t EXCEPT ![ref] = t[1], ![1] = ref]
      /\ held' = [r \in DOMAIN held \ {ref} |-> held[r]]
  BY DEF luaL_unref
<1>5. /\ Len(t') = Len(t) /\ t'[ref] = t[1] /\ t'[1] = ref
      /\ \A x \in 1 .. Len(t) : x # ref /\ x # 1 => t'[x] = t[x]
      /\ t' \in Seq(Element)
  <2>1. ref \in Element /\ t[1] \in Element /\ ref # 1 /\ 1 \in 1 .. Len(t) /\ ref \in 1 .. Len(t)
    BY <1>1 DEF Element
  <2> QED
    BY <2>1, <1>1, <1>4
<1>6. HeldInTable'
  <2>1. DOMAIN held' = DOMAIN held \ {ref} /\ \A r \in DOMAIN held' : held'[r] = held[r]
    BY <1>4
  <2> QED
    BY <2>1, <1>1, <1>5 DEF HeldInTable
<1> DEFINE g == [i \in 1 .. k + 1 |-> IF i = 1 THEN ref ELSE f[i - 1]]
<1>7. /\ g \in [1 .. k + 1 -> Nat] /\ g[1] = ref /\ g[k + 1] = 0 /\ k + 1 \in Nat \ {0}
      /\ \A i \in 1 .. k : i + 1 \in 1 .. k + 1 /\ g[i + 1] = f[i]
      /\ \A i \in 1 .. k + 1 : i = 1 \/ (i - 1 \in 1 .. k /\ g[i] = f[i - 1])
  <2>1. \A i \in 1 .. k + 1 : i = 1 \/ i - 1 \in 1 .. k
    BY <1>3
  <2>2. \A i \in 1 .. k : i + 1 \in 1 .. k + 1 /\ i + 1 # 1 /\ i + 1 - 1 = i
    BY <1>3
  <2>3. ref \in Nat /\ 1 \in 1 .. k + 1 /\ k \in 1 .. k /\ k + 1 \in Nat \ {0}
    BY <1>1, <1>3
  <2> QED
    BY <2>1, <2>2, <2>3, <1>3
<1> HIDE DEF g
<1>8. \A i \in 1 .. k : f[i] # ref
  BY <1>1, <1>3
<1>9. ASSUME NEW i \in 1 .. k
      PROVE  /\ g[i] \in 2 .. Len(t') /\ g[i + 1] = t'[g[i]] /\ g[i] \notin DOMAIN held'
  <2>1. CASE i = 1
    <3>1. g[2] = f[1]
      BY <1>3, <1>7
    <3> QED
      BY <2>1, <3>1, <1>1, <1>3, <1>4, <1>5, <1>7
  <2>2. CASE i # 1
    <3>1. i - 1 \in 1 .. k - 1 /\ g[i] = f[i - 1] /\ g[i + 1] = f[i] /\ i - 1 + 1 = i
      BY <2>2, <1>3, <1>7
    <3>2. f[i - 1] \in 2 .. Len(t) /\ f[i] = t[f[i - 1]] /\ f[i - 1] \notin DOMAIN held
      BY <3>1, <1>3
    <3>3. f[i - 1] # ref /\ f[i - 1] # 1 /\ f[i - 1] \in 1 .. Len(t)
      BY <3>1, <3>2, <1>1
    <3> QED
      BY <3>1, <3>2, <3>3, <1>4, <1>5
  <2> QED
    BY <2>1, <2>2
<1>10. ASSUME NEW i \in 1 .. k + 1, NEW j \in 1 .. k + 1, g[i] = g[j]
       PROVE  i = j
  <2>1. CASE i = 1 /\ j # 1
    BY <2>1, <1>7, <1>8, <1>10
  <2>2. CASE i # 1 /\ j = 1
    BY <2>2, <1>7, <1>8, <1>10
  <2>3. CASE i # 1 /\ j # 1
    <3>1. i - 1 \in 1 .. k /\ j - 1 \in 1 .. k /\ f[i - 1] = f[j - 1]
      BY <2>3, <1>7, <1>10
    <3>2. i - 1 = j - 1
      BY <3>1, <1>3
    <3> QED
      BY <3>2, <1>3
  <2> QED
    BY <2>1, <2>2, <2>3
<1>11. \A x \in 2 .. Len(t') : x \in DOMAIN held' \/ \E i \in 1 .. k : g[i] = x
  <2> SUFFICES ASSUME NEW x \in 2 .. Len(t'), x \notin DOMAIN held'
               PROVE  \E i \in 1 .. k : g[i] = x
    OBVIOUS
  <2>1. CASE x = ref
    BY <2>1, <1>3, <1>7
  <2>2. CASE x # ref
    <3>1. PICK i \in 1 .. k - 1 : f[i] = x
      BY <2>2, <1>3, <1>4, <1>5
    <3>2. i + 1 \in 1 .. k /\ i \in 1 .. k
      BY <1>3
    <3> QED
      BY <3>1, <3>2, <1>7
  <2> QED
    BY <2>1, <2>2
<1> DEFINE m == k + 1
<1>12. /\ m \in Nat \ {0} /\ m - 1 = k /\ g \in [1 .. m -> Nat] /\ g[1] = t'[1] /\ g[m] = 0
       /\ \A i, j \in 1 .. m : g[i] = g[j] => i = j
  BY <1>3, <1>5, <1>7, <1>10
<1> HIDE DEF m
<1>13. IsFreeList(g, m)'
  <2>1. \A i \in 1 .. m - 1 :
           g[i] \in 2 .. Len(t') /\ g[i + 1] = t'[g[i]] /\ g[i] \notin DOMAIN held'
    BY <1>9, <1>12
  <2>2. \A x \in 2 .. Len(t') : x \in DOMAIN held' \/ \E i \in 1 .. m - 1 : g[i] = x
    BY <1>11, <1>12
  <2> QED
    BY <1>12, <2>1, <2>2 DEF IsFreeList
<1> QED
  BY <1>1, <1>5, <1>6, <1>13 DEF IInv

(* A new reference takes the head of the list, or a new index when the     *)
(* list is empty; a failure leaves an initialized table.                   *)
LEMMA RefPreserves ==
  ASSUME ReferencesConstants, IInv, NEW o \in Referents, luaL_ref(o)
  PROVE  IInv'
<1>1. /\ t \in Seq(Element) /\ Len(t) \in Nat /\ Len(t) <= MAXREFS /\ MAXREFS \in Nat \ {0}
      /\ DOMAIN held \subseteq 2 .. Len(t)
      /\ \A r \in DOMAIN held : t[r] = held[r] /\ held[r] \in Referents
      /\ DOMAIN t = 1 .. Len(t)
      /\ Initialized <=> Len(t) # 0
  BY DEF IInv, HeldInTable, ReferencesConstants, Initialized
<1> DEFINE list == IF Initialized THEN t ELSE <<0>>
       Walks(f, k) ==
         /\ k \in Nat \ {0} /\ f \in [1 .. k -> Nat] /\ f[1] = list[1] /\ f[k] = 0
         /\ \A i \in 1 .. k - 1 : f[i] \in 2 .. Len(list) /\ f[i + 1] = list[f[i]] /\ f[i] \notin DOMAIN held
         /\ \A i, j \in 1 .. k : f[i] = f[j] => i = j
         /\ \A x \in 2 .. Len(list) : x \in DOMAIN held \/ \E i \in 1 .. k - 1 : f[i] = x
<1>2. PICK k, f : Walks(f, k)
  <2>1. CASE Initialized
    <3>1. list = t
      BY <2>1
    <3>2. PICK k, f : IsFreeList(f, k)
      BY <2>1 DEF IInv
    <3>3. Walks(f, k)
      <4> HIDE DEF list
      <4> QED
        BY <3>1, <3>2 DEF IsFreeList
    <3> HIDE DEF Walks
    <3> QED
      BY <3>3
  <2>2. CASE ~Initialized
    <3>1. 1 .. 1 - 1 = {} /\ 2 .. 1 = {}
      OBVIOUS
    <3>2. Walks(<<0>>, 1)
      BY <2>2, <3>1
    <3> HIDE DEF Walks
    <3> QED
      BY <3>2
  <2> QED
    BY <2>1, <2>2
<1>3. /\ list \in Seq(Element) /\ Len(list) \in Nat \ {0} /\ Len(list) <= MAXREFS
      /\ DOMAIN held \subseteq 2 .. Len(list)
      /\ \A r \in DOMAIN held : list[r] = held[r] /\ held[r] \in Referents
  <2>1. CASE Initialized
    BY <2>1, <1>1
  <2>2. CASE ~Initialized
    <3>1. DOMAIN held = {}
      <4>1. Len(t) = 0
        BY <2>2, <1>1
      <4>2. 2 .. 0 = {}
        OBVIOUS
      <4> QED
        BY <4>1, <4>2, <1>1
    <3>2. 0 \in Element /\ <<0>> \in Seq(Element) /\ Len(<<0>>) = 1
      BY DEF Element
    <3> QED
      BY <2>2, <3>1, <3>2, <1>1
  <2> QED
    BY <2>1, <2>2
<1> DEFINE ref == IF list[1] # 0 THEN list[1] ELSE Len(list) + 1
           next == IF list[1] # 0 THEN [[list EXCEPT ![1] = list[ref]] EXCEPT ![ref] = o]
                                  ELSE Append(list, o)
<1>4. /\ ref <= MAXREFS
      /\ \/ /\ t' = next
            /\ held' = [r \in DOMAIN held \cup {ref} |-> IF r = ref THEN o ELSE held[r]]
         \/ list[1] = 0 /\ t' = list /\ UNCHANGED held
  BY DEF luaL_ref, Unlinked
<1> HIDE DEF list
<1>5. CASE list[1] = 0 /\ t' = list /\ UNCHANGED held
  <2>1. HeldInTable'
    BY <1>5, <1>3 DEF HeldInTable
  <2>2. IsFreeList(f, k)'
    BY <1>5, <1>2 DEF IsFreeList
  <2> QED
    BY <1>5, <1>3, <2>1, <2>2 DEF IInv
<1>6. CASE /\ list[1] = 0 /\ t' = next
           /\ held' = [r \in DOMAIN held \cup {ref} |-> IF r = ref THEN o ELSE held[r]]
  <2>1. k = 1
    BY <1>2, <1>6
  <2>2. /\ ref = Len(list) + 1 /\ Len(t') = ref /\ t'[ref] = o
        /\ \A x \in 1 .. Len(list) : t'[x] = list[x]
        /\ t' \in Seq(Element)
    BY <1>3, <1>6 DEF Element
  <2>3. /\ DOMAIN held' = DOMAIN held \cup {ref} /\ held'[ref] = o
        /\ \A r \in DOMAIN held : r # ref /\ held'[r] = held[r] /\ r \in 1 .. Len(list)
    BY <1>3, <1>6, <2>2
  <2>4. HeldInTable'
    BY <1>3, <2>2, <2>3 DEF HeldInTable
  <2>5. \A x \in 2 .. Len(t') : x \in DOMAIN held'
    <3>1. \A x \in 2 .. Len(list) : x \in DOMAIN held
      BY <1>2, <2>1
    <3> QED
      BY <3>1, <1>3, <2>2, <2>3
  <2>6. t'[1] = f[1] /\ 1 .. k - 1 = {}
    BY <1>2, <1>3, <2>1, <2>2
  <2>7. IsFreeList(f, k)'
    BY <1>2, <2>5, <2>6 DEF IsFreeList
  <2> QED
    BY <1>4, <2>2, <2>4, <2>7 DEF IInv
<1>7. CASE /\ list[1] # 0 /\ t' = next
           /\ held' = [r \in DOMAIN held \cup {ref} |-> IF r = ref THEN o ELSE held[r]]
  <2>1. /\ k - 1 \in Nat \ {0} /\ 1 \in 1 .. k - 1
        /\ ref = f[1] /\ ref \in 2 .. Len(list) /\ ref \notin DOMAIN held
        /\ list[ref] = f[2]
    <3>1. k # 1
      BY <1>2, <1>7
    <3>2. k - 1 \in Nat \ {0} /\ 1 \in 1 .. k - 1 /\ 1 + 1 = 2
      BY <3>1, <1>2
    <3> QED
      BY <3>2, <1>2, <1>7
  <2> HIDE DEF ref
  <2>2. /\ Len(t') = Len(list) /\ t'[ref] = o /\ t'[1] = f[2]
        /\ \A x \in 1 .. Len(list) : x # ref /\ x # 1 => t'[x] = list[x]
        /\ t' \in Seq(Element)
    <3>1. /\ o \in Element /\ f[2] \in Element /\ ref # 1
          /\ 1 \in 1 .. Len(list) /\ ref \in 1 .. Len(list)
      BY <1>2, <1>3, <2>1 DEF Element
    <3>2. t' = [[list EXCEPT ![1] = f[2]] EXCEPT ![ref] = o]
      BY <1>7, <2>1
    <3> QED
      BY <3>1, <3>2, <1>3
  <2>3. /\ DOMAIN held' = DOMAIN held \cup {ref} /\ held'[ref] = o
        /\ \A r \in DOMAIN held : r # ref /\ r # 1 /\ held'[r] = held[r] /\ r \in 1 .. Len(list)
    BY <1>3, <1>7, <2>1
  <2>4. HeldInTable'
    BY <1>3, <2>1, <2>2, <2>3 DEF HeldInTable
  <2> DEFINE g == [i \in 1 .. k - 1 |-> f[i + 1]]
             m == k - 1
  <2>5. \A i \in 1 .. m : i + 1 \in 1 .. k /\ i \in 1 .. k
    BY <1>2
  <2>6. /\ m \in Nat \ {0} /\ m + 1 = k /\ g \in [1 .. m -> Nat]
        /\ \A i \in 1 .. m : g[i] = f[i + 1]
        /\ m \in 1 .. m /\ 1 \in 1 .. m
    BY <1>2, <2>1, <2>5
  <2> HIDE DEF g, m
  <2>7. g[1] = t'[1] /\ g[m] = 0
    <3>1. g[1] = f[1 + 1] /\ g[m] = f[k]
      BY <2>6
    <3> QED
      BY <3>1, <2>2, <1>2
  <2>8. ASSUME NEW i \in 1 .. m - 1
        PROVE  g[i] \in 2 .. Len(t') /\ g[i + 1] = t'[g[i]] /\ g[i] \notin DOMAIN held'
    <3>1. /\ i + 1 \in 1 .. k - 1 /\ i \in 1 .. m /\ i + 1 \in 1 .. m /\ i + 1 # 1
          /\ i + 1 \in 1 .. k /\ 1 \in 1 .. k
      BY <2>6, <1>2
    <3>2. /\ f[i + 1] \in 2 .. Len(list) /\ f[i + 1 + 1] = list[f[i + 1]]
          /\ f[i + 1] \notin DOMAIN held /\ f[i + 1] # f[1]
      BY <3>1, <1>2
    <3>3. f[i + 1] # ref /\ f[i + 1] # 1 /\ f[i + 1] \in 1 .. Len(list)
      BY <3>2, <2>1, <1>3
    <3>4. g[i] = f[i + 1] /\ g[i + 1] = f[i + 1 + 1]
      BY <3>1, <2>6
    <3> QED
      BY <3>2, <3>3, <3>4, <2>2, <2>3
  <2>9. \A i, j \in 1 .. m : g[i] = g[j] => i = j
    <3>1. \A i, j \in 1 .. m : g[i] = g[j] => i + 1 = j + 1
      BY <2>5, <2>6, <1>2
    <3> QED
      BY <3>1, <2>6
  <2>10. \A x \in 2 .. Len(t') : x \in DOMAIN held' \/ \E i \in 1 .. m - 1 : g[i] = x
    <3> SUFFICES ASSUME NEW x \in 2 .. Len(t'), x \notin DOMAIN held'
                 PROVE  \E i \in 1 .. m - 1 : g[i] = x
      OBVIOUS
    <3>1. x # ref /\ x \notin DOMAIN held /\ x \in 2 .. Len(list)
      BY <2>2, <2>3
    <3>2. PICK i \in 1 .. k - 1 : f[i] = x
      BY <3>1, <1>2
    <3>3. i # 1
      BY <3>1, <3>2, <2>1
    <3>4. i - 1 \in 1 .. m - 1 /\ i - 1 \in 1 .. m /\ i - 1 + 1 = i
      BY <3>3, <2>6, <1>2
    <3>5. g[i - 1] = x
      BY <3>2, <3>4, <2>6
    <3> QED
      BY <3>4, <3>5
  <2>11. IsFreeList(g, m)'
    BY <2>6, <2>7, <2>8, <2>9, <2>10 DEF IsFreeList
  <2> QED
    BY <1>3, <2>2, <2>4, <2>11 DEF IInv
<1> QED
  BY <1>4, <1>5, <1>6, <1>7

(* A reference gives its object until it is freed, whatever others are     *)
(* made and freed meanwhile and whether or not memory runs out, and every  *)
(* index is held or free (luaL_ref, luaL_unref), for any number of objects *)
(* and references.                                                         *)
THEOREM ReferencesAlwaysHold ==
  ASSUME ReferencesConstants
  PROVE  Spec => []ReferencesHold
<1>1. Init => IInv
  BY InitIInv
<1>2. IInv /\ [Next]_vars => IInv'
  <2>1. ASSUME IInv, UNCHANGED vars PROVE IInv'
    <3>1. t' = t /\ held' = held
      BY <2>1 DEF vars
    <3>2. Initialized' = Initialized /\ HeldInTable' = HeldInTable
      BY <3>1 DEF Initialized, HeldInTable
    <3>3. \A k, f : IsFreeList(f, k)' <=> IsFreeList(f, k)
      BY <3>1 DEF IsFreeList
    <3> QED
      BY <2>1, <3>1, <3>2, <3>3 DEF IInv
  <2> QED
    BY <2>1, RefPreserves, UnrefPreserves DEF Next
<1>3. IInv => ReferencesHold
  BY HoldsByInvariant
<1> QED
  BY <1>1, <1>2, <1>3, PTL DEF Spec
=============================================================================
