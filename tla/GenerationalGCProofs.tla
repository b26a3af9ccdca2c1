------------------------ MODULE GenerationalGCProofs ------------------------
(***************************************************************************)
(* Proofs about GenerationalGC for every heap, every number of objects and *)
(* every bound: nothing in use is freed, the assertions of ltests.c, and   *)
(* the contract of HeapContract.                                           *)
(*                                                                         *)
(* None of these is inductive.  What makes them so is (1) that after each  *)
(* collection every border, survival, old1 or reallyold, has only objects  *)
(* behind it that are old enough (Borders), also when barriers age an      *)
(* object, a finalizer takes one out of a list or puts it back; (2) that   *)
(* the white objects are the young ones (YoungAreWhite), so that an old    *)
(* object whose references are all marked need not be visited; (3) that    *)
(* the objects that are black and will not be visited again, 'old' or      *)
(* 'old0', refer to marked objects only (OldHoldsNoYoung, BlackIsDone);    *)
(* and (4) that what is not black waits in a gray list (MarksFitAges,      *)
(* GrayAreGray).                                                           *)
(*                                                                         *)
(* All theorems assume ~Joins, that the program does not call              *)
(* lua_upvaluejoin: with it OldHoldsNoYoung is violated.                   *)
(***************************************************************************)
EXTENDS GenerationalGC, FiniteSetTheorems, SequenceTheorems, WellFoundedInduction,
        TLAPS

-----------------------------------------------------------------------------
(* The lists and the pointers into them: what Kept, Without, Place, Part   *)
(* and FirstOutside return, for every list without repetitions.  They are  *)
(* the object lists of lgc.c, so they are lists of objects; what a pointer *)
(* stands for is From, the part of the list that begins with it.           *)

(* A set of numbers has a least one: the induction of the recursive Kept.  *)
LEMMA LeastNumber ==
  ASSUME NEW S \in SUBSET Nat, S # {}
  PROVE  \E x \in S : \A y \in S : x <= y
<1> DEFINE less == {e \in Nat \X Nat : e[1] < e[2]}
<1>1. IsWellFoundedOn(less, Nat)
  BY NatLessThanWellFounded DEF OpToRel
<1>2. PICK x \in S : \A y \in S : <<y, x>> \notin less
  <2> HIDE DEF less
  <2> QED
    BY <1>1, WFMin
<1>3. \A y \in S : ~(y < x)
  BY <1>2
<1> QED
  BY <1>3


(* g[n] is what Kept takes from the first n elements.                      *)
Collects(g, list, S) ==
  /\ g \in [0 .. Len(list) -> Seq(Obj)]
  /\ g[0] = <<>>
  /\ \A n \in 1 .. Len(list) :
       g[n] = IF list[n] \in S THEN Append(g[n - 1], list[n]) ELSE g[n - 1]

(* The recursive function of Kept is well defined.                         *)
LEMMA KeptRecursion ==
  ASSUME NEW list \in Seq(Obj), NEW S
  PROVE  \E g : Collects(g, list, S) /\ Kept(list, S) = g[Len(list)]
<1> DEFINE Rec(g, m) ==
      /\ g \in [0 .. m -> Seq(Obj)]
      /\ g[0] = <<>>
      /\ \A n \in 1 .. m : g[n] = IF list[n] \in S THEN Append(g[n - 1], list[n]) ELSE g[n - 1]
    Bad == {m \in 0 .. Len(list) : ~ \E g : Rec(g, m)}
<1>0. /\ Len(list) \in Nat /\ \A n \in 1 .. Len(list) : list[n] \in Obj
  BY LenProperties, ElementOfSeq
<1>1. Bad = {}
  <2> SUFFICES ASSUME Bad # {} PROVE FALSE
    OBVIOUS
  <2>1. Bad \in SUBSET Nat
    BY <1>0
  <2> HIDE DEF Bad
  <2>2. PICK m \in Bad : \A y \in Bad : m <= y
    BY <2>1, LeastNumber
  <2>3. m \in 0 .. Len(list) /\ ~ \E g : Rec(g, m)
    BY <2>2 DEF Bad
  <2>4. m # 0
    <3>1. Rec([n \in 0 .. 0 |-> <<>>], 0)
      BY EmptySeq
    <3> HIDE DEF Rec
    <3> QED
      BY <3>1, <2>3
  <2>5. m - 1 \in 0 .. Len(list) /\ m - 1 \notin Bad
    BY <2>2, <2>3, <2>4, <2>1, <1>0
  <2>6. PICK g : Rec(g, m - 1)
    <3> HIDE DEF Rec
    <3> QED
      BY <2>5 DEF Bad
  <2> DEFINE h == [n \in 0 .. m |->
                     IF n < m THEN g[n]
                     ELSE IF list[m] \in S THEN Append(g[m - 1], list[m]) ELSE g[m - 1]]
  <2>7. Rec(h, m)
    <3>1. /\ g[m - 1] \in Seq(Obj) /\ list[m] \in Obj
          /\ Append(g[m - 1], list[m]) \in Seq(Obj)
      BY <2>6, <2>3, <2>4, <1>0, AppendProperties
    <3>2. h \in [0 .. m -> Seq(Obj)]
      <4>1. \A n \in 0 .. m : n < m => g[n] \in Seq(Obj)
        BY <2>6, <2>3, <2>4, <1>0
      <4> HIDE DEF Rec
      <4> QED
        BY <4>1, <3>1
    <3>3. h[0] = <<>>
      BY <2>6, <2>3, <2>4, <1>0
    <3>4. ASSUME NEW n \in 1 .. m
          PROVE  h[n] = IF list[n] \in S THEN Append(h[n - 1], list[n]) ELSE h[n - 1]
      <4>1. n \in 0 .. m /\ n - 1 \in 0 .. m /\ n - 1 < m
        BY <3>4, <2>3, <1>0
      <4>2. h[n - 1] = g[n - 1]
        BY <4>1
      <4>3. CASE n = m
        BY <4>1, <4>2, <4>3
      <4>4. CASE n # m
        <5>1. n < m /\ n \in 1 .. m - 1
          BY <4>4, <3>4, <2>3, <1>0
        <5>2. h[n] = g[n]
          BY <5>1, <4>1
        <5> QED
          BY <5>1, <5>2, <4>2, <2>6
      <4> QED
        BY <4>3, <4>4
    <3> HIDE DEF h
    <3> QED
      BY <3>2, <3>3, <3>4
  <2> HIDE DEF Rec
  <2> QED
    BY <2>7, <2>3
<1>2. PICK g : Rec(g, Len(list))
  <2>1. Len(list) \in 0 .. Len(list)
    BY <1>0
  <2> HIDE DEF Rec
  <2> QED
    BY <1>1, <2>1
<1> DEFINE Step(f) == [n \in 0 .. Len(list) |->
                         IF n = 0 THEN <<>>
                         ELSE IF list[n] \in S THEN Append(f[n - 1], list[n]) ELSE f[n - 1]]
           k == CHOOSE f : f = Step(f)
<1>3. g = Step(g)
  <2>1. ASSUME NEW n \in 0 .. Len(list) PROVE g[n] = Step(g)[n]
    <3>1. CASE n = 0
      BY <3>1, <1>2, <1>0
    <3>2. CASE n # 0
      <4>1. n \in 1 .. Len(list)
        BY <3>2, <2>1, <1>0
      <4> QED
        BY <4>1, <3>2, <1>2
    <3> QED
      BY <3>1, <3>2
  <2> HIDE DEF Step
  <2>2. g \in [0 .. Len(list) -> Seq(Obj)]
    BY <1>2
  <2>3. Step(g) = [n \in 0 .. Len(list) |-> Step(g)[n]]
    BY DEF Step
  <2>4. g = [n \in 0 .. Len(list) |-> g[n]]
    BY <2>2
  <2> QED
    BY <2>1, <2>3, <2>4
<1>4. k = Step(k)
  <2> HIDE DEF Step
  <2> QED
    BY <1>3
<1>5. Kept(list, S) = k[Len(list)]
  BY DEF Kept
<1>6. k \in [0 .. Len(list) -> Seq(Obj)]
  <2> DEFINE Odd == {n \in 0 .. Len(list) : k[n] \notin Seq(Obj)}
  <2>1. Odd \in SUBSET Nat
    BY <1>0
  <2>2. Odd = {}
    <3> SUFFICES ASSUME Odd # {} PROVE FALSE
      OBVIOUS
    <3> HIDE DEF Odd
    <3>1. PICK m \in Odd : \A y \in Odd : m <= y
      BY <2>1, LeastNumber
    <3>2. m \in 0 .. Len(list) /\ k[m] \notin Seq(Obj)
      BY <3>1 DEF Odd
    <3>3. k[m] = Step(k)[m]
      BY <1>4
    <3> HIDE DEF k
    <3>4. CASE m = 0
      <4>1. k[m] = <<>>
        BY <3>3, <3>4, <3>2
      <4> QED
        BY <4>1, <3>2, EmptySeq
    <3>5. CASE m # 0
      <4>1. m - 1 \in 0 .. Len(list) /\ m - 1 \notin Odd /\ m \in 1 .. Len(list)
        BY <3>1, <3>2, <3>5, <2>1, <1>0
      <4>2. k[m - 1] \in Seq(Obj)
        BY <4>1 DEF Odd
      <4>3. Append(k[m - 1], list[m]) \in Seq(Obj)
        BY <4>1, <4>2, <1>0, AppendProperties
      <4> QED
        BY <3>3, <3>5, <3>2, <4>2, <4>3
    <3> QED
      BY <3>4, <3>5
  <2>3. k = [n \in 0 .. Len(list) |-> k[n]]
    <3>1. Step(k) = [n \in 0 .. Len(list) |-> Step(k)[n]]
      OBVIOUS
    <3> HIDE DEF Step, k
    <3> QED
      BY <3>1, <1>4
  <2> HIDE DEF k
  <2>4. \A n \in 0 .. Len(list) : k[n] \in Seq(Obj)
    BY <2>2
  <2> HIDE DEF Odd
  <2> QED
    BY <2>3, <2>4
<1>7. Collects(k, list, S)
  <2> HIDE DEF k
  <2>1. \A n \in 0 .. Len(list) : k[n] = Step(k)[n]
    BY <1>4
  <2>2. k[0] = <<>>
    BY <2>1, <1>0
  <2>3. ASSUME NEW n \in 1 .. Len(list)
        PROVE  k[n] = IF list[n] \in S THEN Append(k[n - 1], list[n]) ELSE k[n - 1]
    <3>1. n \in 0 .. Len(list) /\ n # 0
      BY <1>0
    <3> QED
      BY <2>1, <3>1
  <2> QED
    BY <1>6, <2>2, <2>3 DEF Collects
<1> HIDE DEF k
<1> QED
  BY <1>5, <1>7

(* The elements of a list by their positions.                              *)
LEMMA ToSetIs ==
  ASSUME NEW list \in Seq(Obj)
  PROVE  /\ Len(list) \in Nat /\ DOMAIN list = 1 .. Len(list)
         /\ ToSet(list) = {list[i] : i \in 1 .. Len(list)}
         /\ \A i \in 1 .. Len(list) : list[i] \in Obj /\ list[i] \in ToSet(list)
         /\ ToSet(list) \subseteq Obj
         /\ \A o \in ToSet(list) : \E i \in 1 .. Len(list) : list[i] = o
BY LenProperties, ElementOfSeq DEF ToSet

(* Kept has the members of the list that are in S, in their order.         *)
LEMMA KeptFacts ==
  ASSUME NEW list \in Seq(Obj), NEW S
  PROVE  /\ Kept(list, S) \in Seq(Obj)
         /\ ToSet(Kept(list, S)) = ToSet(list) \intersect S
         /\ \A a, b \in 1 .. Len(Kept(list, S)) : a < b =>
              \E i, j \in 1 .. Len(list) :
                i < j /\ list[i] = Kept(list, S)[a] /\ list[j] = Kept(list, S)[b]
<1>1. PICK g : Collects(g, list, S) /\ Kept(list, S) = g[Len(list)]
  BY KeptRecursion
<1>2. /\ Len(list) \in Nat
      /\ \A n \in 1 .. Len(list) : list[n] \in Obj
      /\ ToSet(list) = {list[i] : i \in 1 .. Len(list)}
  BY ToSetIs
<1> DEFINE Sub(n) == {list[i] : i \in 1 .. n} \intersect S
           Ordered(s, n) ==
             \A a, b \in 1 .. Len(s) : a < b =>
               \E i, j \in 1 .. n : i < j /\ list[i] = s[a] /\ list[j] = s[b]
           Good(n) == ToSet(g[n]) = Sub(n) /\ Ordered(g[n], n)
           Bad == {n \in 0 .. Len(list) : ~Good(n)}
<1>3. g[0] = <<>> /\ g \in [0 .. Len(list) -> Seq(Obj)]
  BY <1>1 DEF Collects
<1>4. \A n \in 1 .. Len(list) :
        g[n] = IF list[n] \in S THEN Append(g[n - 1], list[n]) ELSE g[n - 1]
  BY <1>1 DEF Collects
<1>5. Good(0)
  <2>1. Len(<<>>) = 0 /\ ToSet(<<>>) = {}
    BY DEF ToSet
  <2>2. 1 .. 0 = {}
    OBVIOUS
  <2> QED
    BY <2>1, <2>2, <1>3
<1>6. ASSUME NEW n \in 1 .. Len(list), Good(n - 1)
      PROVE  Good(n)
  <2>1. n - 1 \in 0 .. Len(list) /\ g[n - 1] \in Seq(Obj) /\ list[n] \in Obj
    BY <1>3, <1>2
  <2>2. Len(g[n - 1]) \in Nat
    BY <2>1, LenProperties
  <2>3. CASE list[n] \notin S
    <3>1. g[n] = g[n - 1]
      BY <1>4, <2>3
    <3>2. Sub(n) = Sub(n - 1)
      <4>1. \A i \in 1 .. n : i = n \/ i \in 1 .. n - 1
        OBVIOUS
      <4>2. \A i \in 1 .. n - 1 : i \in 1 .. n
        OBVIOUS
      <4> QED
        BY <4>1, <4>2, <2>3
    <3>3. Ordered(g[n], n)
      <4>1. \A i \in 1 .. n - 1 : i \in 1 .. n
        OBVIOUS
      <4> QED
        BY <3>1, <4>1, <1>6
    <3> HIDE DEF Sub, Ordered
    <3> QED
      BY <3>1, <3>2, <3>3, <1>6
  <2>4. CASE list[n] \in S
    <3> DEFINE s == g[n - 1]
               r == Append(s, list[n])
    <3>1. g[n] = r
      BY <1>4, <2>4
    <3>2. /\ r \in Seq(Obj) /\ Len(r) = Len(s) + 1 /\ r[Len(s) + 1] = list[n]
          /\ \A i \in 1 .. Len(s) : r[i] = s[i]
      BY <2>1, AppendProperties
    <3>3. ToSet(r) = ToSet(s) \union {list[n]}
      <4> HIDE DEF r, s
      <4>1. ToSet(r) = {r[i] : i \in 1 .. Len(s) + 1}
        BY <3>2, ToSetIs
      <4>2. ToSet(s) = {s[i] : i \in 1 .. Len(s)}
        <5>1. s \in Seq(Obj)
          BY <2>1 DEF s
        <5> QED
          BY <5>1, ToSetIs
      <4>3. Len(s) \in Nat
        BY <2>2 DEF s
      <4>4. \A i \in 1 .. Len(s) + 1 : i = Len(s) + 1 \/ i \in 1 .. Len(s)
        BY <4>3
      <4>5. Len(s) + 1 \in 1 .. Len(s) + 1 /\ \A i \in 1 .. Len(s) : i \in 1 .. Len(s) + 1
        BY <4>3
      <4> QED
        BY <4>1, <4>2, <4>4, <4>5, <3>2
    <3>4. Sub(n) = Sub(n - 1) \union {list[n]}
      <4>1. \A i \in 1 .. n : i = n \/ i \in 1 .. n - 1
        OBVIOUS
      <4>2. n \in 1 .. n /\ \A i \in 1 .. n - 1 : i \in 1 .. n
        OBVIOUS
      <4> QED
        BY <4>1, <4>2, <2>4
    <3>5. Ordered(r, n)
      <4> SUFFICES ASSUME NEW a \in 1 .. Len(r), NEW b \in 1 .. Len(r), a < b
                   PROVE  \E i, j \in 1 .. n : i < j /\ list[i] = r[a] /\ list[j] = r[b]
        OBVIOUS
      <4> HIDE DEF r
      <4>1. a \in 1 .. Len(s) /\ r[a] = s[a]
        BY <3>2, <2>2
      <4>2. CASE b \in 1 .. Len(s)
        <5>1. PICK i, j \in 1 .. n - 1 : i < j /\ list[i] = s[a] /\ list[j] = s[b]
          BY <4>1, <4>2, <1>6
        <5>2. i \in 1 .. n /\ j \in 1 .. n
          OBVIOUS
        <5> QED
          BY <5>1, <5>2, <4>1, <4>2, <3>2
      <4>3. CASE b = Len(s) + 1
        <5>1. s[a] \in ToSet(s)
          BY <4>1, <2>1, ToSetIs
        <5>2. s[a] \in Sub(n - 1)
          BY <5>1, <1>6
        <5>3. PICK i \in 1 .. n - 1 : list[i] = s[a]
          BY <5>2
        <5>4. i \in 1 .. n /\ n \in 1 .. n /\ i < n
          OBVIOUS
        <5>5. list[i] = r[a] /\ list[n] = r[b]
          BY <5>3, <4>1, <4>3, <3>2
        <5> QED
          BY <5>4, <5>5
      <4> QED
        BY <4>2, <4>3, <3>2, <2>2
    <3>6. ToSet(s) = Sub(n - 1)
      BY <1>6
    <3> HIDE DEF r, s, Sub, Ordered
    <3> QED
      BY <3>1, <3>3, <3>4, <3>5, <3>6
  <2> QED
    BY <2>3, <2>4
<1>7. Bad = {}
  <2> HIDE DEF Good
  <2> SUFFICES ASSUME Bad # {} PROVE FALSE
    OBVIOUS
  <2>1. Bad \in SUBSET Nat
    BY <1>2
  <2>2. PICK m \in Bad : \A y \in Bad : m <= y
    <3> HIDE DEF Bad
    <3> QED
      BY <2>1, LeastNumber
  <2>3. m # 0
    BY <2>2, <1>5
  <2>4. m \in 1 .. Len(list) /\ m - 1 \in 0 .. Len(list) /\ m - 1 < m
    BY <2>2, <2>3, <1>2
  <2>5. Good(m - 1)
    BY <2>2, <2>4
  <2> QED
    BY <2>2, <2>4, <2>5, <1>6
<1>8. Len(list) \in 0 .. Len(list)
  BY <1>2
<1>9. Good(Len(list))
  BY <1>7, <1>8
<1>10. Kept(list, S) \in Seq(Obj) /\ Kept(list, S) = g[Len(list)]
  BY <1>1, <1>3, <1>8
<1>11. Sub(Len(list)) = ToSet(list) \intersect S
  BY <1>2
<1> QED
  BY <1>9, <1>10, <1>11

-----------------------------------------------------------------------------
(* Pointers into a list                                                    *)

(* The part of a list that begins with q.                                  *)
From(list, q) == {list[i] : i \in {j \in DOMAIN list : Place(list, q) <= j}}

(* No element is twice in the list.                                        *)
Distinct(list) == \A i, j \in DOMAIN list : list[i] = list[j] => i = j

(* Place is the position of an element, or the end of the list.            *)
LEMMA PlaceFacts ==
  ASSUME NEW list \in Seq(Obj), Distinct(list)
  PROVE  /\ \A q : q \in ToSet(list) => Place(list, q) \in 1 .. Len(list) /\ list[Place(list, q)] = q
         /\ \A i \in 1 .. Len(list) : Place(list, list[i]) = i
         /\ \A q : q \notin ToSet(list) => Place(list, q) = Len(list) + 1
<1>1. /\ DOMAIN list = 1 .. Len(list)
      /\ \A i \in 1 .. Len(list) : list[i] \in ToSet(list)
      /\ \A o \in ToSet(list) : \E i \in 1 .. Len(list) : list[i] = o
  BY ToSetIs
<1>2. ASSUME NEW q, q \in ToSet(list)
      PROVE  Place(list, q) \in 1 .. Len(list) /\ list[Place(list, q)] = q
  <2>1. Place(list, q) = CHOOSE i \in DOMAIN list : list[i] = q
    BY <1>2 DEF Place
  <2>2. \E i \in DOMAIN list : list[i] = q
    BY <1>1, <1>2
  <2>3. /\ (CHOOSE i \in DOMAIN list : list[i] = q) \in DOMAIN list
        /\ list[CHOOSE i \in DOMAIN list : list[i] = q] = q
    BY <2>2
  <2> QED
    BY <1>1, <2>1, <2>3
<1>3. ASSUME NEW i \in 1 .. Len(list) PROVE Place(list, list[i]) = i
  BY <1>1, <1>2 DEF Distinct
<1>4. ASSUME NEW q, q \notin ToSet(list) PROVE Place(list, q) = Len(list) + 1
  BY <1>4 DEF Place
<1> QED
  BY <1>2, <1>3, <1>4

(* What a pointer designates, and what follows it, by position.            *)
LEMMA FromFacts ==
  ASSUME NEW list \in Seq(Obj), Distinct(list)
  PROVE  /\ \A q : From(list, q) \subseteq ToSet(list)
         /\ \A q : \A o \in ToSet(list) :
              o \in From(list, q) <=> Place(list, q) <= Place(list, o)
         /\ \A q : q \in ToSet(list) => q \in From(list, q)
         /\ \A q : q \notin ToSet(list) => From(list, q) = {}
         /\ \A q : Place(list, q) \in 1 .. Len(list) + 1
<1>1. /\ DOMAIN list = 1 .. Len(list) /\ Len(list) \in Nat
      /\ \A i \in 1 .. Len(list) : list[i] \in ToSet(list)
  BY ToSetIs
<1>2. /\ \A q : q \in ToSet(list) => Place(list, q) \in 1 .. Len(list) /\ list[Place(list, q)] = q
      /\ \A i \in 1 .. Len(list) : Place(list, list[i]) = i
      /\ \A q : q \notin ToSet(list) => Place(list, q) = Len(list) + 1
  BY PlaceFacts
<1>3. \A q : From(list, q) \subseteq ToSet(list)
  BY <1>1 DEF From
<1>4. ASSUME NEW q, NEW o \in ToSet(list)
      PROVE  o \in From(list, q) <=> Place(list, q) <= Place(list, o)
  <2>1. Place(list, o) \in DOMAIN list /\ list[Place(list, o)] = o
    BY <1>1, <1>2
  <2>2. ASSUME o \in From(list, q) PROVE Place(list, q) <= Place(list, o)
    <3>1. PICK i \in DOMAIN list : Place(list, q) <= i /\ list[i] = o
      BY <2>2 DEF From
    <3> QED
      BY <3>1, <1>1, <1>2
  <2>3. ASSUME Place(list, q) <= Place(list, o) PROVE o \in From(list, q)
    BY <2>1, <2>3 DEF From
  <2> QED
    BY <2>2, <2>3
<1>5. \A q : Place(list, q) \in 1 .. Len(list) + 1
  <2> SUFFICES ASSUME NEW q PROVE Place(list, q) \in 1 .. Len(list) + 1
    OBVIOUS
  <2>1. CASE q \in ToSet(list)
    BY <2>1, <1>2, <1>1
  <2>2. CASE q \notin ToSet(list)
    BY <2>2, <1>2, <1>1
  <2> QED
    BY <2>1, <2>2
<1>6. ASSUME NEW q, q \in ToSet(list) PROVE q \in From(list, q)
  BY <1>4, <1>5, <1>6, <1>1
<1>7. ASSUME NEW q, q \notin ToSet(list) PROVE From(list, q) = {}
  <2>1. \A j \in DOMAIN list : ~(Len(list) + 1 <= j)
    BY <1>1
  <2>2. Place(list, q) = Len(list) + 1
    BY <1>7, <1>2
  <2> QED
    BY <2>1, <2>2 DEF From
<1> QED
  BY <1>3, <1>4, <1>5, <1>6, <1>7

(* The parts of a list, and the order of the pointers into it, from what   *)
(* follows each pointer.                                                   *)
LEMMA PartIs ==
  ASSUME NEW list \in Seq(Obj), Distinct(list), NEW a, NEW b
  PROVE  /\ Part(list, a, b) = From(list, a) \ From(list, b)
         /\ From(list, b) \subseteq From(list, a) => Place(list, a) <= Place(list, b)
<1>1. /\ DOMAIN list = 1 .. Len(list) /\ Len(list) \in Nat
      /\ \A i \in 1 .. Len(list) : list[i] \in ToSet(list)
      /\ \A o \in ToSet(list) : \E i \in 1 .. Len(list) : list[i] = o
  BY ToSetIs
<1>2. /\ \A i \in 1 .. Len(list) : Place(list, list[i]) = i
      /\ \A q : q \notin ToSet(list) => Place(list, q) = Len(list) + 1
  BY PlaceFacts
<1>3. /\ \A q : From(list, q) \subseteq ToSet(list)
      /\ \A q : \A o \in ToSet(list) :
           o \in From(list, q) <=> Place(list, q) <= Place(list, o)
      /\ \A q : q \in ToSet(list) => q \in From(list, q)
      /\ \A q : Place(list, q) \in 1 .. Len(list) + 1
  BY FromFacts
<1>4. Place(list, a) \in Int /\ Place(list, b) \in Int /\ Place(list, a) <= Len(list) + 1
  BY <1>1, <1>3
<1>5. ASSUME NEW i \in 1 .. Len(list)
      PROVE  /\ list[i] \in From(list, a) <=> Place(list, a) <= i
             /\ list[i] \in From(list, b) <=> ~(i < Place(list, b))
  BY <1>1, <1>2, <1>3, <1>4
<1>6. Part(list, a, b) = From(list, a) \ From(list, b)
  <2>1. Part(list, a, b) = {list[i] : i \in {j \in 1 .. Len(list) : Place(list, a) <= j /\ j < Place(list, b)}}
    BY <1>1 DEF Part
  <2>2. ASSUME NEW o \in Part(list, a, b) PROVE o \in From(list, a) \ From(list, b)
    BY <2>1, <1>5
  <2>3. ASSUME NEW o \in From(list, a) \ From(list, b) PROVE o \in Part(list, a, b)
    <3>1. PICK i \in 1 .. Len(list) : list[i] = o
      BY <1>1, <1>3
    <3>2. Place(list, a) <= i /\ i < Place(list, b)
      BY <3>1, <1>5
    <3> QED
      BY <2>1, <3>1, <3>2
  <2> QED
    BY <2>2, <2>3
<1>7. ASSUME From(list, b) \subseteq From(list, a) PROVE Place(list, a) <= Place(list, b)
  <2>1. CASE b \in ToSet(list)
    BY <2>1, <1>3, <1>7
  <2>2. CASE b \notin ToSet(list)
    BY <2>2, <1>2, <1>4
  <2> QED
    BY <2>1, <2>2
<1> QED
  BY <1>6, <1>7

(* All of a list follows its head, and nothing follows the null pointer.   *)
LEMMA HeadFacts ==
  ASSUME NEW list \in Seq(Obj), Distinct(list), NULL \notin Obj
  PROVE  /\ From(list, Head1(list)) = ToSet(list)
         /\ From(list, NULL) = {}
         /\ Head1(list) \in {NULL} \union ToSet(list)
<1>1. /\ Len(list) \in Nat /\ ToSet(list) \subseteq Obj
      /\ \A i \in 1 .. Len(list) : list[i] \in ToSet(list)
      /\ \A o \in ToSet(list) : \E i \in 1 .. Len(list) : list[i] = o
  BY ToSetIs
<1>2. /\ \A q : From(list, q) \subseteq ToSet(list)
      /\ \A q : \A o \in ToSet(list) :
           o \in From(list, q) <=> Place(list, q) <= Place(list, o)
      /\ \A q : q \notin ToSet(list) => From(list, q) = {}
      /\ \A q : Place(list, q) \in 1 .. Len(list) + 1
  BY FromFacts
<1>3. From(list, NULL) = {}
  BY <1>1, <1>2
<1>4. CASE list = <<>>
  <2>1. ToSet(list) = {} /\ Head1(list) = NULL
    BY <1>4 DEF ToSet, Head1
  <2> QED
    BY <2>1, <1>3
<1>5. CASE list # <<>>
  <2>1. 1 \in 1 .. Len(list) /\ Head1(list) = list[1]
    BY <1>5, EmptySeq DEF Head1
  <2>2. Place(list, Head1(list)) = 1
    BY <2>1, PlaceFacts
  <2>3. \A o \in ToSet(list) : Place(list, Head1(list)) <= Place(list, o)
    BY <2>2, <1>1, <1>2
  <2> QED
    BY <2>1, <2>3, <1>1, <1>2, <1>3
<1> QED
  BY <1>4, <1>5

-----------------------------------------------------------------------------
(* Sublists                                                                *)

(* A list in another one, in the same order. *)
Sublist(K, list) ==
  \A a, b \in DOMAIN K : a < b =>
    \E i, j \in DOMAIN list : i < j /\ list[i] = K[a] /\ list[j] = K[b]

(* A sublist has its elements once, in the order of the list, and keeps    *)
(* what follows each pointer to one of them.                               *)
LEMMA SublistFacts ==
  ASSUME NEW list \in Seq(Obj), Distinct(list),
         NEW K \in Seq(Obj), ToSet(K) \subseteq ToSet(list), Sublist(K, list)
  PROVE  /\ Distinct(K)
         /\ \A x, o \in ToSet(K) :
              Place(K, x) <= Place(K, o) <=> Place(list, x) <= Place(list, o)
         /\ \A q : q \in ToSet(K) \/ q \notin ToSet(list) =>
              From(K, q) = From(list, q) \intersect ToSet(K)
<1>1. /\ DOMAIN list = 1 .. Len(list) /\ Len(list) \in Nat
      /\ DOMAIN K = 1 .. Len(K) /\ Len(K) \in Nat
      /\ \A i \in 1 .. Len(K) : K[i] \in ToSet(K)
  BY ToSetIs
<1>2. \A i \in 1 .. Len(list) : Place(list, list[i]) = i
  BY PlaceFacts
<1>3. ASSUME NEW a \in 1 .. Len(K), NEW b \in 1 .. Len(K), a < b
      PROVE  Place(list, K[a]) < Place(list, K[b])
  <2>1. PICK i, j \in 1 .. Len(list) : i < j /\ list[i] = K[a] /\ list[j] = K[b]
    BY <1>1, <1>3 DEF Sublist
  <2> QED
    BY <2>1, <1>2
<1>4. \A o \in ToSet(list) : Place(list, o) \in 1 .. Len(list)
  BY PlaceFacts
<1>5. Distinct(K)
  <2> SUFFICES ASSUME NEW a \in 1 .. Len(K), NEW b \in 1 .. Len(K), K[a] = K[b]
               PROVE  a = b
    BY <1>1 DEF Distinct
  <2>1. Place(list, K[a]) \in 1 .. Len(list)
    BY <1>1, <1>4
  <2>2. ~(a < b)
    <3>1. ASSUME a < b PROVE FALSE
      <4>1. Place(list, K[a]) < Place(list, K[b])
        BY <3>1, <1>3
      <4> QED
        BY <4>1, <2>1
    <3> QED
      BY <3>1
  <2>3. ~(b < a)
    <3>1. ASSUME b < a PROVE FALSE
      <4>1. Place(list, K[b]) < Place(list, K[a])
        BY <3>1, <1>3
      <4> QED
        BY <4>1, <2>1
    <3> QED
      BY <3>1
  <2> QED
    BY <2>2, <2>3
<1>6. /\ \A q : q \in ToSet(K) => Place(K, q) \in 1 .. Len(K) /\ K[Place(K, q)] = q
      /\ \A i \in 1 .. Len(K) : Place(K, K[i]) = i
  BY <1>5, PlaceFacts
<1>7. ASSUME NEW x \in ToSet(K), NEW o \in ToSet(K)
      PROVE  Place(K, x) <= Place(K, o) <=> Place(list, x) <= Place(list, o)
  <2>1. PICK a, b \in 1 .. Len(K) : /\ a = Place(K, x) /\ b = Place(K, o)
                                    /\ K[a] = x /\ K[b] = o
    BY <1>6
  <2>2. Place(list, x) \in Int /\ Place(list, o) \in Int
    BY <1>4
  <2>3. CASE a < b
    BY <2>1, <2>2, <2>3, <1>3
  <2>4. CASE a = b
    BY <2>1, <2>2, <2>4
  <2>5. CASE b < a
    BY <2>1, <2>2, <2>5, <1>3
  <2> QED
    BY <2>3, <2>4, <2>5
<1>8. ASSUME NEW q, q \in ToSet(K) \/ q \notin ToSet(list)
      PROVE  From(K, q) = From(list, q) \intersect ToSet(K)
  <2>1. /\ From(K, q) \subseteq ToSet(K)
        /\ \A o \in ToSet(K) : o \in From(K, q) <=> Place(K, q) <= Place(K, o)
        /\ q \notin ToSet(K) => From(K, q) = {}
    BY <1>5, FromFacts
  <2>2. /\ \A o \in ToSet(list) : o \in From(list, q) <=> Place(list, q) <= Place(list, o)
        /\ q \notin ToSet(list) => From(list, q) = {}
    BY FromFacts
  <2>3. CASE q \in ToSet(K)
    BY <2>1, <2>2, <2>3, <1>7
  <2>4. CASE q \notin ToSet(list)
    BY <2>1, <2>2, <2>4
  <2> QED
    BY <2>3, <2>4, <1>8
<1> QED
  BY <1>5, <1>7, <1>8

(* Kept takes a sublist.                                                   *)
LEMMA KeptIsSublist ==
  ASSUME NEW list \in Seq(Obj), NEW S
  PROVE  /\ Kept(list, S) \in Seq(Obj)
         /\ ToSet(Kept(list, S)) = ToSet(list) \intersect S
         /\ Sublist(Kept(list, S), list)
<1>1. Kept(list, S) \in Seq(Obj)
  BY KeptFacts
<1>2. DOMAIN list = 1 .. Len(list) /\ DOMAIN Kept(list, S) = 1 .. Len(Kept(list, S))
  BY <1>1, LenProperties
<1>3. ASSUME NEW a \in DOMAIN Kept(list, S), NEW b \in DOMAIN Kept(list, S), a < b
      PROVE  \E i, j \in DOMAIN list :
               i < j /\ list[i] = Kept(list, S)[a] /\ list[j] = Kept(list, S)[b]
  <2>1. PICK i, j \in 1 .. Len(list) :
               i < j /\ list[i] = Kept(list, S)[a] /\ list[j] = Kept(list, S)[b]
    BY <1>2, <1>3, KeptFacts
  <2> QED
    BY <1>2, <2>1
<1>4. ToSet(Kept(list, S)) = ToSet(list) \intersect S
  BY KeptFacts
<1> QED
  BY <1>1, <1>3, <1>4 DEF Sublist

(* What is taken from a list leaves the order of the rest.                 *)
LEMMA WithoutFacts ==
  ASSUME NEW list \in Seq(Obj), Distinct(list), NEW S
  PROVE  /\ Without(list, S) \in Seq(Obj)
         /\ Distinct(Without(list, S))
         /\ ToSet(Without(list, S)) = ToSet(list) \ S
         /\ \A q : q \notin S \/ q \notin ToSet(list) =>
              From(Without(list, S), q) = From(list, q) \ S
<1> DEFINE K == Kept(list, ToSet(list) \ S)
<1>1. K \in Seq(Obj) /\ ToSet(K) = ToSet(list) \ S /\ Sublist(K, list)
  BY KeptIsSublist
<1> HIDE DEF K
<1>2. /\ Distinct(K)
      /\ \A q : q \in ToSet(K) \/ q \notin ToSet(list) =>
            From(K, q) = From(list, q) \intersect ToSet(K)
  BY <1>1, SublistFacts
<1>3. \A q : From(list, q) \subseteq ToSet(list)
  BY FromFacts
<1>4. Without(list, S) = K
  BY DEF Without, K
<1>5. ASSUME NEW q, q \notin S \/ q \notin ToSet(list)
      PROVE  From(K, q) = From(list, q) \ S
  <2>1. From(K, q) = From(list, q) \intersect ToSet(K)
    BY <1>5, <1>1, <1>2
  <2> QED
    BY <2>1, <1>1, <1>3
<1> QED
  BY <1>1, <1>2, <1>4, <1>5

(* The head of a sublist comes first in the list.                          *)
LEMMA HeadOfSublist ==
  ASSUME NEW list \in Seq(Obj), Distinct(list), NULL \notin Obj,
         NEW K \in Seq(Obj), ToSet(K) \subseteq ToSet(list), Sublist(K, list)
  PROVE  /\ ToSet(K) = {} => Head1(K) = NULL
         /\ ToSet(K) # {} => Head1(K) \in ToSet(K)
         /\ ToSet(K) \subseteq From(list, Head1(K))
<1>1. /\ Distinct(K)
      /\ \A q : q \in ToSet(K) \/ q \notin ToSet(list) =>
              From(K, q) = From(list, q) \intersect ToSet(K)
  BY SublistFacts
<1>2. From(K, Head1(K)) = ToSet(K) /\ Head1(K) \in {NULL} \union ToSet(K)
  BY <1>1, HeadFacts
<1>3. ToSet(list) \subseteq Obj
  BY ToSetIs
<1>4. From(K, Head1(K)) = From(list, Head1(K)) \intersect ToSet(K)
  BY <1>1, <1>2, <1>3
<1>5. From(K, NULL) = {}
  BY <1>1, HeadFacts
<1> QED
  BY <1>2, <1>4, <1>5

(* What is left of a list after its first elements.                        *)
LEMMA RestIsSublist ==
  ASSUME NEW list \in Seq(Obj), Distinct(list), NEW q
  PROVE  LET rest == SubSeq(list, Place(list, q), Len(list))
         IN  rest \in Seq(Obj) /\ ToSet(rest) = From(list, q) /\ Sublist(rest, list)
<1> DEFINE m == Place(list, q)
           n == Len(list)
           rest == SubSeq(list, m, n)
<1>1. /\ DOMAIN list = 1 .. n /\ n \in Nat
      /\ \A i \in 1 .. n : list[i] \in Obj
  BY ToSetIs
<1>2. m \in 1 .. n + 1
  BY FromFacts
<1>3. /\ rest \in Seq(Obj)
      /\ Len(rest) = IF m <= n THEN n - m + 1 ELSE 0
      /\ \A i \in 1 .. n - m + 1 : rest[i] = list[m + i - 1]
  <2>1. m \in Int /\ n \in Int /\ \A i \in m .. n : list[i] \in Obj
    BY <1>1, <1>2
  <2> HIDE DEF m, n
  <2> QED
    BY <2>1, SubSeqProperties
<1> HIDE DEF m, n, rest
<1>4. Len(rest) = n - m + 1
  BY <1>1, <1>2, <1>3
<1>5. /\ DOMAIN rest = 1 .. n - m + 1
      /\ ToSet(rest) = {rest[i] : i \in 1 .. n - m + 1}
  BY <1>3, <1>4, ToSetIs
<1>6. ToSet(rest) = From(list, q)
  <2>1. From(list, q) = {list[i] : i \in {j \in 1 .. n : m <= j}}
    BY <1>1 DEF From, m
  <2>2. \A i \in 1 .. n - m + 1 : m + i - 1 \in {j \in 1 .. n : m <= j}
    BY <1>1, <1>2
  <2>3. \A j \in {j \in 1 .. n : m <= j} :
          j - m + 1 \in 1 .. n - m + 1 /\ m + (j - m + 1) - 1 = j
    BY <1>1, <1>2
  <2>4. ASSUME NEW o \in ToSet(rest) PROVE o \in From(list, q)
    BY <2>1, <2>2, <2>4, <1>3, <1>5
  <2>5. ASSUME NEW o \in From(list, q) PROVE o \in ToSet(rest)
    <3>1. PICK j \in 1 .. n : m <= j /\ list[j] = o
      BY <2>1, <2>5
    <3>2. rest[j - m + 1] = o /\ j - m + 1 \in 1 .. n - m + 1
      BY <2>3, <3>1, <1>3
    <3> QED
      BY <3>2, <1>5
  <2> QED
    BY <2>4, <2>5
<1>7. Sublist(rest, list)
  <2> SUFFICES ASSUME NEW a \in 1 .. n - m + 1, NEW b \in 1 .. n - m + 1, a < b
               PROVE  \E i, j \in 1 .. n : i < j /\ list[i] = rest[a] /\ list[j] = rest[b]
    BY <1>1, <1>5 DEF Sublist
  <2>1. /\ m + a - 1 \in 1 .. n /\ m + b - 1 \in 1 .. n /\ m + a - 1 < m + b - 1
    BY <1>1, <1>2
  <2>2. list[m + a - 1] = rest[a] /\ list[m + b - 1] = rest[b]
    BY <1>3
  <2> QED
    BY <2>1, <2>2
<1> QED
  BY <1>3, <1>6, <1>7 DEF rest, m, n

(* A pointer that moves past what leaves the list keeps what follows it.   *)
LEMMA FirstOutsideFacts ==
  ASSUME NEW list \in Seq(Obj), Distinct(list), NULL \notin Obj, NEW q, NEW S
  PROVE  /\ FirstOutside(list, q, S) \in {NULL} \union (ToSet(list) \ S)
         /\ From(Without(list, S), FirstOutside(list, q, S)) = From(list, q) \ S
<1> DEFINE rest == SubSeq(list, Place(list, q), Len(list))
           f == FirstOutside(list, q, S)
           left == Without(rest, S)
<1>1. rest \in Seq(Obj) /\ ToSet(rest) = From(list, q) /\ Sublist(rest, list)
  BY RestIsSublist
<1>2. From(list, q) \subseteq ToSet(list) /\ ToSet(list) \subseteq Obj
  BY FromFacts, ToSetIs
<1>3. f = Head1(left)
  BY DEF FirstOutside
<1> HIDE DEF rest, f
<1>4. /\ Distinct(rest)
      /\ \A x, o \in ToSet(rest) :
           Place(rest, x) <= Place(rest, o) <=> Place(list, x) <= Place(list, o)
  BY <1>1, <1>2, SublistFacts
<1>5. left \in Seq(Obj) /\ ToSet(left) = From(list, q) \ S /\ Sublist(left, rest)
  <2>1. left \in Seq(Obj) /\ ToSet(left) = ToSet(rest) \ S
    BY <1>1, <1>4, WithoutFacts
  <2>2. Sublist(left, rest)
    BY <1>1, KeptIsSublist DEF Without
  <2> QED
    BY <1>1, <2>1, <2>2
<1> HIDE DEF left
<1>6. /\ ToSet(left) = {} => f = NULL
      /\ ToSet(left) # {} => f \in ToSet(left)
      /\ ToSet(left) \subseteq From(rest, f)
  BY <1>1, <1>3, <1>4, <1>5, HeadOfSublist
<1>7. f \in {NULL} \union (ToSet(list) \ S)
  BY <1>2, <1>5, <1>6
<1>8. f \notin S \/ f \notin ToSet(list)
  BY <1>2, <1>7
<1>9. From(Without(list, S), f) = From(list, f) \ S
  BY <1>8, WithoutFacts
<1>10. From(list, f) \ S = From(list, q) \ S
  <2>1. CASE ToSet(left) = {}
    <3>1. From(list, f) = {}
      BY <2>1, <1>2, <1>6, HeadFacts
    <3> QED
      BY <3>1, <2>1, <1>5
  <2>2. CASE ToSet(left) # {}
    <3>1. f \in ToSet(left) /\ f \in ToSet(rest) /\ f \in ToSet(list)
      BY <2>2, <1>1, <1>2, <1>5, <1>6
    <3>2. /\ \A o \in ToSet(list) : o \in From(list, f) <=> Place(list, f) <= Place(list, o)
          /\ \A o \in ToSet(list) : o \in From(list, q) <=> Place(list, q) <= Place(list, o)
          /\ \A x : Place(list, x) \in 1 .. Len(list) + 1
      BY FromFacts
    <3>3. \A o \in ToSet(rest) : o \in From(rest, f) <=> Place(rest, f) <= Place(rest, o)
      BY <1>1, <1>4, FromFacts
    <3>4. From(list, f) \subseteq ToSet(list)
      BY FromFacts
    <3>5. Place(list, q) <= Place(list, f)
      BY <3>1, <3>2, <1>1
    <3>6. ASSUME NEW o \in From(list, f) PROVE o \in From(list, q)
      <4>1. Place(list, f) <= Place(list, o) /\ o \in ToSet(list)
        BY <3>2, <3>4, <3>6
      <4>2. Place(list, q) <= Place(list, o)
        BY <3>2, <3>5, <4>1
      <4> QED
        BY <3>2, <4>1, <4>2
    <3>7. ASSUME NEW o \in From(list, q) \ S PROVE o \in From(list, f)
      <4>1. o \in ToSet(left) /\ o \in ToSet(rest) /\ o \in ToSet(list)
        BY <1>1, <1>2, <1>5, <3>7
      <4>2. Place(rest, f) <= Place(rest, o)
        BY <1>6, <3>3, <4>1
      <4>3. Place(list, f) <= Place(list, o)
        BY <1>4, <3>1, <4>1, <4>2
      <4> QED
        BY <3>2, <4>1, <4>3
    <3> QED
      BY <3>6, <3>7
  <2> QED
    BY <2>1, <2>2
<1> QED
  BY <1>7, <1>9, <1>10 DEF f

-----------------------------------------------------------------------------
(* Lists that grow and shrink at their ends                                *)

(* A new element at the front of a list.                                   *)
LEMMA ConsFacts ==
  ASSUME NEW list \in Seq(Obj), Distinct(list), NEW o \in Obj, o \notin ToSet(list)
  PROVE  /\ <<o>> \o list \in Seq(Obj)
         /\ Distinct(<<o>> \o list)
         /\ ToSet(<<o>> \o list) = {o} \union ToSet(list)
         /\ \A q : q # o => From(<<o>> \o list, q) = From(list, q)
         /\ From(<<o>> \o list, o) = {o} \union ToSet(list)
<1> DEFINE L == <<o>> \o list
           n == Len(list)
<1>1. /\ DOMAIN list = 1 .. n /\ n \in Nat
      /\ ToSet(list) = {list[i] : i \in 1 .. n}
      /\ \A i \in 1 .. n : list[i] \in ToSet(list)
  BY ToSetIs
<1>2. /\ L \in Seq(Obj) /\ Len(L) = n + 1 /\ L[1] = o
      /\ \A i \in 2 .. n + 1 : L[i] = list[i - 1]
  <2>1. <<o>> \in Seq(Obj) /\ Len(<<o>>) = 1 /\ <<o>>[1] = o
    OBVIOUS
  <2>2. /\ <<o>> \o list \in Seq(Obj)
        /\ Len(<<o>> \o list) = Len(<<o>>) + Len(list)
        /\ \A i \in 1 .. Len(<<o>>) + Len(list) : (<<o>> \o list)[i] =
                     IF i <= Len(<<o>>) THEN <<o>>[i] ELSE list[i - Len(<<o>>)]
    BY <2>1, ConcatProperties
  <2> QED
    BY <2>1, <2>2, <1>1
<1> HIDE DEF L, n
<1>3. /\ DOMAIN L = 1 .. n + 1
      /\ ToSet(L) = {L[i] : i \in 1 .. n + 1}
      /\ \A x \in ToSet(L) : \E i \in 1 .. n + 1 : L[i] = x
  BY <1>2, ToSetIs
<1>4. ToSet(L) = {o} \union ToSet(list)
  <2>1. ASSUME NEW x \in ToSet(L) PROVE x \in {o} \union ToSet(list)
    <3>1. PICK i \in 1 .. n + 1 : L[i] = x
      BY <1>3
    <3>2. i = 1 \/ (i \in 2 .. n + 1 /\ i - 1 \in 1 .. n)
      BY <1>1
    <3> QED
      BY <3>1, <3>2, <1>1, <1>2
  <2>2. ASSUME NEW x \in ToSet(list) PROVE x \in ToSet(L)
    <3>1. PICK i \in 1 .. n : list[i] = x
      BY <1>1
    <3>2. i + 1 \in 2 .. n + 1 /\ i + 1 \in 1 .. n + 1 /\ (i + 1) - 1 = i
      BY <1>1
    <3> QED
      BY <3>1, <3>2, <1>2, <1>3
  <2>3. o \in ToSet(L)
    <3>1. 1 \in 1 .. n + 1
      BY <1>1
    <3> QED
      BY <3>1, <1>2, <1>3
  <2> QED
    BY <2>1, <2>2, <2>3
<1>5. Distinct(L)
  <2> SUFFICES ASSUME NEW i \in 1 .. n + 1, NEW j \in 1 .. n + 1, L[i] = L[j]
               PROVE  i = j
    BY <1>3 DEF Distinct
  <2>1. /\ i = 1 \/ (i \in 2 .. n + 1 /\ i - 1 \in 1 .. n)
        /\ j = 1 \/ (j \in 2 .. n + 1 /\ j - 1 \in 1 .. n)
    BY <1>1
  <2>2. CASE i = 1 \/ j = 1
    BY <2>1, <2>2, <1>1, <1>2
  <2>3. CASE i # 1 /\ j # 1
    <3>1. list[i - 1] = list[j - 1] /\ i - 1 \in 1 .. n /\ j - 1 \in 1 .. n
      BY <2>1, <2>3, <1>2
    <3>2. i - 1 = j - 1
      BY <3>1, <1>1 DEF Distinct
    <3> QED
      BY <3>2
  <2> QED
    BY <2>2, <2>3
<1>6. Sublist(list, L)
  <2>1. ASSUME NEW a \in DOMAIN list, NEW b \in DOMAIN list, a < b
        PROVE  \E i, j \in DOMAIN L : i < j /\ L[i] = list[a] /\ L[j] = list[b]
    <3>1. /\ a + 1 \in 1 .. n + 1 /\ b + 1 \in 1 .. n + 1 /\ a + 1 < b + 1
          /\ a + 1 \in 2 .. n + 1 /\ b + 1 \in 2 .. n + 1
          /\ (a + 1) - 1 = a /\ (b + 1) - 1 = b
      <4>1. a \in 1 .. n /\ b \in 1 .. n /\ n \in Nat
        BY <1>1
      <4> QED
        BY <4>1, <2>1
    <3>2. L[a + 1] = list[a] /\ L[b + 1] = list[b]
      BY <3>1, <1>2
    <3> QED
      BY <3>1, <3>2, <1>3
  <2> QED
    BY <2>1 DEF Sublist
<1>7. /\ \A x \in ToSet(L) : Place(L, x) \in 1 .. n + 1 /\ L[Place(L, x)] = x
      /\ \A i \in 1 .. n + 1 : Place(L, L[i]) = i
  BY <1>2, <1>5, PlaceFacts
<1>8. Place(L, o) = 1
  <2>1. 1 \in 1 .. n + 1
    BY <1>1
  <2> QED
    BY <2>1, <1>2, <1>7
<1>9. /\ \A q : \A x \in ToSet(L) : x \in From(L, q) <=> Place(L, q) <= Place(L, x)
      /\ \A q : From(L, q) \subseteq ToSet(L)
      /\ \A q : q \notin ToSet(L) => From(L, q) = {}
  BY <1>2, <1>5, FromFacts
<1>10. From(L, o) = ToSet(L)
  BY <1>4, <1>7, <1>8, <1>9
<1>11. ASSUME NEW q, q # o PROVE From(L, q) = From(list, q)
  <2>1. From(list, q) = From(L, q) \intersect ToSet(list)
    BY <1>2, <1>4, <1>5, <1>6, <1>11, SublistFacts
  <2>2. CASE q \notin ToSet(L)
    BY <2>1, <2>2, <1>9
  <2>3. CASE q \in ToSet(L)
    <3>1. Place(L, q) # 1
      BY <2>3, <1>2, <1>7, <1>11
    <3>2. ~(Place(L, q) <= Place(L, o))
      BY <2>3, <3>1, <1>7, <1>8
    <3>3. o \notin From(L, q)
      BY <3>2, <1>4, <1>9
    <3> QED
      BY <2>1, <3>3, <1>4, <1>9
  <2> QED
    BY <2>2, <2>3
<1> QED
  BY <1>2, <1>4, <1>5, <1>10, <1>11 DEF L

(* One list after another.                                                 *)
LEMMA ConcatFacts ==
  ASSUME NEW s \in Seq(Obj), NEW t \in Seq(Obj), Distinct(s), Distinct(t),
         ToSet(s) \intersect ToSet(t) = {}
  PROVE  /\ s \o t \in Seq(Obj)
         /\ Distinct(s \o t)
         /\ ToSet(s \o t) = ToSet(s) \union ToSet(t)
<1> DEFINE L == s \o t
           m == Len(s)
           n == Len(t)
<1>1. /\ DOMAIN s = 1 .. m /\ m \in Nat /\ DOMAIN t = 1 .. n /\ n \in Nat
      /\ ToSet(s) = {s[i] : i \in 1 .. m} /\ ToSet(t) = {t[i] : i \in 1 .. n}
      /\ \A i \in 1 .. m : s[i] \in ToSet(s)
      /\ \A i \in 1 .. n : t[i] \in ToSet(t)
  BY ToSetIs
<1>2. /\ L \in Seq(Obj) /\ Len(L) = m + n
      /\ \A i \in 1 .. m + n : L[i] = IF i <= m THEN s[i] ELSE t[i - m]
  BY ConcatProperties
<1> HIDE DEF L, m, n
<1>3. /\ DOMAIN L = 1 .. m + n
      /\ ToSet(L) = {L[i] : i \in 1 .. m + n}
  BY <1>2, ToSetIs
<1>4. ASSUME NEW i \in 1 .. m + n
      PROVE  \/ i \in 1 .. m /\ L[i] = s[i]
             \/ ~(i \in 1 .. m) /\ i - m \in 1 .. n /\ L[i] = t[i - m]
  BY <1>1, <1>2
<1>5. ToSet(L) = ToSet(s) \union ToSet(t)
  <2>1. ASSUME NEW x \in ToSet(L) PROVE x \in ToSet(s) \union ToSet(t)
    BY <2>1, <1>1, <1>3, <1>4
  <2>2. ASSUME NEW i \in 1 .. m PROVE s[i] \in ToSet(L)
    <3>1. i \in 1 .. m + n /\ i <= m
      BY <1>1
    <3> QED
      BY <3>1, <1>2, <1>3
  <2>3. ASSUME NEW i \in 1 .. n PROVE t[i] \in ToSet(L)
    <3>1. i + m \in 1 .. m + n /\ ~(i + m <= m) /\ (i + m) - m = i
      BY <1>1
    <3> QED
      BY <3>1, <1>2, <1>3
  <2> QED
    BY <2>1, <2>2, <2>3, <1>1
<1>6. Distinct(L)
  <2> SUFFICES ASSUME NEW i \in 1 .. m + n, NEW j \in 1 .. m + n, L[i] = L[j]
               PROVE  i = j
    BY <1>3 DEF Distinct
  <2>1. CASE i \in 1 .. m /\ j \in 1 .. m
    <3>1. s[i] = s[j]
      BY <2>1, <1>4
    <3> QED
      BY <3>1, <2>1, <1>1 DEF Distinct
  <2>2. CASE ~(i \in 1 .. m) /\ ~(j \in 1 .. m)
    <3>1. t[i - m] = t[j - m] /\ i - m \in 1 .. n /\ j - m \in 1 .. n
      BY <2>2, <1>4
    <3>2. i - m = j - m
      BY <3>1, <1>1 DEF Distinct
    <3> QED
      BY <3>2, <1>1
  <2>3. CASE (i \in 1 .. m /\ ~(j \in 1 .. m)) \/ (~(i \in 1 .. m) /\ j \in 1 .. m)
    BY <2>3, <1>1, <1>4
  <2> QED
    BY <2>1, <2>2, <2>3
<1> QED
  BY <1>2, <1>5, <1>6 DEF L

(* A list without its first element.                                       *)
LEMMA TailFacts ==
  ASSUME NEW list \in Seq(Obj), Distinct(list), list # <<>>
  PROVE  /\ Head(list) \in ToSet(list)
         /\ Tail(list) \in Seq(Obj)
         /\ Distinct(Tail(list))
         /\ ToSet(Tail(list)) = ToSet(list) \ {Head(list)}
<1> DEFINE T == Tail(list)
           n == Len(list)
<1>1. /\ DOMAIN list = 1 .. n /\ n \in Nat \ {0}
      /\ ToSet(list) = {list[i] : i \in 1 .. n}
  BY ToSetIs, EmptySeq
<1>2. /\ T \in Seq(Obj) /\ Len(T) = n - 1
      /\ \A i \in 1 .. n - 1 : T[i] = list[i + 1]
      /\ Head(list) = list[1]
  BY HeadTailProperties
<1> HIDE DEF T, n
<1>3. DOMAIN T = 1 .. n - 1 /\ ToSet(T) = {T[i] : i \in 1 .. n - 1}
  BY <1>1, <1>2, ToSetIs
<1>4. \A i \in 1 .. n - 1 : i + 1 \in 1 .. n /\ i + 1 # 1
  BY <1>1
<1>5. 1 \in 1 .. n
  BY <1>1
<1>6. Distinct(T)
  <2> SUFFICES ASSUME NEW i \in 1 .. n - 1, NEW j \in 1 .. n - 1, T[i] = T[j]
               PROVE  i = j
    BY <1>3 DEF Distinct
  <2>1. i + 1 = j + 1
    BY <1>1, <1>2, <1>4 DEF Distinct
  <2> QED
    BY <2>1
<1>7. ToSet(T) = ToSet(list) \ {list[1]}
  <2>1. ASSUME NEW i \in 1 .. n - 1 PROVE T[i] \in ToSet(list) \ {list[1]}
    <3>1. T[i] = list[i + 1] /\ i + 1 \in 1 .. n /\ i + 1 # 1
      BY <1>2, <1>4
    <3>2. list[i + 1] # list[1]
      BY <3>1, <1>1, <1>5 DEF Distinct
    <3>3. list[i + 1] \in ToSet(list)
      BY <3>1, <1>1
    <3> QED
      BY <3>1, <3>2, <3>3
  <2>2. ASSUME NEW i \in 1 .. n, list[i] # list[1] PROVE list[i] \in ToSet(T)
    <3>1. i - 1 \in 1 .. n - 1 /\ (i - 1) + 1 = i
      BY <2>2, <1>1
    <3>2. T[i - 1] = list[i]
      BY <3>1, <1>2
    <3> QED
      BY <3>1, <3>2, <1>3
  <2> QED
    BY <2>1, <2>2, <1>1, <1>3
<1> QED
  BY <1>1, <1>2, <1>5, <1>6, <1>7 DEF T

(* A list is as long as it has members.                                    *)
LEMMA LengthIs ==
  ASSUME NEW list \in Seq(Obj), Distinct(list)
  PROVE  IsFiniteSet(ToSet(list)) /\ Cardinality(ToSet(list)) = Len(list)
<1> DEFINE n == Len(list)
<1>1. /\ DOMAIN list = 1 .. n /\ n \in Nat /\ list \in [1 .. n -> Obj]
      /\ ToSet(list) = {list[i] : i \in 1 .. n}
      /\ \A i \in 1 .. n : list[i] \in ToSet(list)
  BY ToSetIs, LenProperties
<1>2. list \in Bijection(1 .. n, ToSet(list))
  <2>1. list \in [1 .. n -> ToSet(list)]
    BY <1>1
  <2>2. \A a, b \in 1 .. n : list[a] = list[b] => a = b
    BY <1>1 DEF Distinct
  <2>3. \A o \in ToSet(list) : \E i \in 1 .. n : list[i] = o
    BY <1>1
  <2> HIDE DEF n
  <2> QED
    BY <2>1, <2>2, <2>3 DEF Bijection, Injection, Surjection, IsInjective
<1>3. IsFiniteSet(1 .. n) /\ Cardinality(1 .. n) = n
  <2>1. 1 \in Int /\ n \in Int
    BY <1>1
  <2>2. IsFiniteSet(1 .. n) /\ Cardinality(1 .. n) = IF 1 > n THEN 0 ELSE n - 1 + 1
    BY <2>1, FS_Interval
  <2> QED
    BY <2>2, <1>1
<1> QED
  BY <1>2, <1>3, FS_Bijection DEF ExistsBijection

-----------------------------------------------------------------------------
(* The invariant                                                           *)

(* An object is in one list, once.                                         *)
ListsAreLists ==
  /\ allgc \in Seq(Obj) /\ finobj \in Seq(Obj) /\ tobefnz \in Seq(Obj)
  /\ Distinct(allgc) /\ Distinct(finobj) /\ Distinct(tobefnz)
  /\ ToSet(allgc) \intersect ToSet(finobj) = {}
  /\ ToSet(allgc) \intersect ToSet(tobefnz) = {}
  /\ ToSet(finobj) \intersect ToSet(tobefnz) = {}

Types ==
  /\ refs \in [Obj -> SUBSET Obj]
  /\ color \in [Obj -> Colors]
  /\ age \in [Obj -> Ages]
  /\ stage \in Stages
  /\ finalizing \subseteq Obj

AllgcPointers == {"survival", "old1", "reallyold"}
FinobjPointers == {"finobjsur", "finobjold1", "finobjrold"}

(* A pointer designates an object of its list, or is null; 'firstold1' is  *)
(* stale in the middle of a full collection.                               *)
PointersInLists ==
  /\ p \in [Pointers -> {NULL} \union Obj]
  /\ \A q \in AllgcPointers : p[q] \in {NULL} \union ToSet(allgc)
  /\ \A q \in FinobjPointers : p[q] \in {NULL} \union ToSet(finobj)
  /\ Generational => p.firstold1 \in {NULL} \union ToSet(allgc)

(* What an object that is not allocated looks like.                        *)
FreeIsClean ==
  \A o \in Obj \ Alloc : refs[o] = {} /\ color[o] = "white" /\ age[o] = "new"

(* What is allocated refers to allocated objects only.                     *)
EdgesAlive == \A o \in Obj : refs[o] \subseteq Alloc

(* Where upvalues and objects with finalizers are.                         *)
KindsInPlace ==
  /\ {MainThread, Registry} \subseteq ToSet(allgc)
  /\ \A o \in Obj \ Closures : refs[o] \intersect Upvals = {}
  /\ (ToSet(finobj) \union ToSet(tobefnz)) \intersect Upvals = {}

(* Between the halves of a full collection nothing has an age.             *)
NoAges ==
  ~Generational =>
    /\ \A o \in Obj : color[o] = "white" /\ age[o] = "new"
    /\ gray = {} /\ grayagain = {}

(* What follows each pointer is old enough, and follows the pointer before *)
(* it in age.  All 'old1' objects of 'allgc' follow 'firstold1'.            *)
OldEnoughFrom(list, sur, old1, rold) ==
  /\ From(list, rold) \subseteq From(list, old1) /\ From(list, old1) \subseteq From(list, sur)
  /\ \A o \in From(list, sur) : age[o] # "new"
  /\ \A o \in From(list, old1) : isold(age[o]) /\ age[o] # "old0"
  /\ \A o \in From(list, rold) : age[o] \in {"old", "touched1", "touched2"}
Borders ==
  Generational =>
    /\ OldEnoughFrom(allgc, p.survival, p.old1, p.reallyold)
    /\ OldEnoughFrom(finobj, p.finobjsur, p.finobjold1, p.finobjrold)
    /\ \A o \in ToSet(allgc) : age[o] = "old1" => o \in From(allgc, p.firstold1)

(* The marks of the last collection stay on what it made old.              *)
YoungAreWhite == Generational => \A o \in Obj : color[o] = "white" <=> ~isold(age[o])

(* What a young collection will not visit again.                           *)
BlackIsDone ==
  Generational =>
    \A o \in Alloc : color[o] = "black" =>
      /\ o \in Threads => age[o] = "old1"
      /\ age[o] = "old0" => refs[o] \subseteq NonWhite

(* Black objects wait in 'grayagain' only.                                 *)
GrayAreGray == Generational => \A o \in gray : color[o] = "gray"

HeapInv ==
  /\ FreeIsClean /\ EdgesAlive /\ NoAges
  /\ MarksFitAges /\ YoungAreWhite /\ BlackIsDone /\ OldHoldsNoYoung
  /\ GrayAreGray

ListInv == ListsAreLists /\ PointersInLists /\ Borders

IInv == Types /\ HeapInv /\ ListInv /\ KindsInPlace

(* What ConstantsAssumption says of the kinds of object.                   *)
LEMMA Constants ==
  /\ MainThread \in Threads /\ Registry \in Tables /\ NULL \notin Obj
  /\ Threads \subseteq Obj /\ Tables \subseteq Obj /\ WeakTables \subseteq Obj
  /\ Closures \subseteq Obj /\ Upvals \subseteq Obj
  /\ Tables \intersect WeakTables = {} /\ Tables \intersect Closures = {}
  /\ Tables \intersect Threads = {} /\ Tables \intersect Upvals = {}
  /\ Threads \intersect Closures = {} /\ Threads \intersect Upvals = {}
  /\ WeakTables \intersect Closures = {} /\ WeakTables \intersect Upvals = {}
  /\ WeakTables \intersect Threads = {} /\ Closures \intersect Upvals = {}
BY ConstantsAssumption DEF Threads, Tables, WeakTables, Closures, Upvals

(* Storing v in o, which no barrier notices, keeps the invariant.          *)
LEMMA StoreUnmarked ==
  ASSUME Types, HeapInv, Alloc \subseteq Alloc', Alloc' \subseteq Obj,
         NEW o \in Alloc', NEW v \in Alloc',
         refs' \in [Obj -> SUBSET Obj],
         \A x \in Obj \ {o} : refs'[x] = refs[x], refs'[o] \subseteq refs[o] \union {v},
         UNCHANGED stage, UNCHANGED <<marks, graylists>>,
         o \in Threads \/ color[o] # "black" \/ ~IsWhite(v)
  PROVE  HeapInv'
<1> USE DEF HeapInv, Types, marks, graylists, Generational
<1>1. FreeIsClean'
  BY DEF FreeIsClean
<1>2. EdgesAlive'
  BY DEF EdgesAlive
<1>3. NoAges'
  BY DEF NoAges
<1>4. YoungAreWhite'
  BY DEF YoungAreWhite, isold
<1>5. MarksFitAges'
  BY DEF MarksFitAges, isold, FreeIsClean
<1>6. BlackIsDone'
  BY DEF BlackIsDone, NonWhite, IsWhite, FreeIsClean
<1>7. OldHoldsNoYoung'
  <2> SUFFICES ASSUME Generational, NEW x \in Alloc' \ Threads, NEW w \in Alloc', w \in refs'[x]
               PROVE  /\ age[x] = "old" => isold(age[w])
                      /\ age[x] \in {"old1", "touched2"} => age[w] # "new"
    BY DEF OldHoldsNoYoung
  <2>1. CASE w \in refs[x]
    <3>1. x \in Alloc /\ w \in Alloc
      BY <2>1 DEF FreeIsClean, EdgesAlive
    <3> QED
      BY <2>1, <3>1 DEF OldHoldsNoYoung
  <2>2. CASE w \notin refs[x]
    <3>1. x = o /\ w = v
      BY <2>2
    <3>2. CASE age[o] \in {"old", "old1", "touched2"}
      <4>1. color[o] = "black"
        BY <3>1, <3>2 DEF FreeIsClean, MarksFitAges, isold
      <4>2. isold(age[v])
        BY <4>1, <3>1 DEF YoungAreWhite, IsWhite
      <4> QED
        BY <3>1, <4>2 DEF isold
    <3>3. CASE age[o] \notin {"old", "old1", "touched2"}
      BY <3>1, <3>3
    <3> QED
      BY <3>2, <3>3
  <2> QED
    BY <2>1, <2>2
<1>8. GrayAreGray'
  BY DEF GrayAreGray
<1> QED
  BY <1>1, <1>2, <1>3, <1>4, <1>5, <1>6, <1>7, <1>8

(* A table that is black becomes gray: what it holds is traversed again.   *)
LEMMA StoreBack ==
  ASSUME Types, HeapInv, Alloc \subseteq Alloc', Alloc' \subseteq Obj,
         NEW o \in Alloc', NEW v \in Alloc',
         refs' \in [Obj -> SUBSET Obj],
         \A x \in Obj \ {o} : refs'[x] = refs[x], refs'[o] \subseteq refs[o] \union {v},
         UNCHANGED stage, o \notin Threads, color[o] = "black", IsWhite(v),
         BackBarrier(o, v), UNCHANGED gray
  PROVE  /\ Types' => HeapInv'
         /\ age' = [age EXCEPT ![o] = "touched1"]
         /\ color' = [color EXCEPT ![o] = "gray"]
<1> USE DEF HeapInv, Types, Generational
<1>0. o \in Obj /\ v \in Obj /\ o \in Alloc /\ Generational /\ isold(age[o])
  BY DEF FreeIsClean, NoAges, YoungAreWhite
<1>1. /\ age' = [age EXCEPT ![o] = "touched1"]
      /\ color' = [color EXCEPT ![o] = "gray"]
      /\ grayagain' = grayagain \union {o}
  BY <1>0 DEF BackBarrier
<1>2. FreeIsClean'
  BY <1>0, <1>1 DEF FreeIsClean
<1>3. EdgesAlive'
  BY DEF EdgesAlive
<1>4. NoAges'
  BY <1>0 DEF NoAges
<1>5. YoungAreWhite'
  BY <1>0, <1>1 DEF YoungAreWhite, isold
<1>6. MarksFitAges'
  <2>1. \A x \in Alloc' : x # o => age'[x] = age[x] /\ color'[x] = color[x]
    BY <1>1
  <2>2. age'[o] = "touched1" /\ color'[o] = "gray"
    BY <1>0, <1>1
  <2>3. \A x \in Alloc' \ Alloc : color[x] = "white" /\ age[x] = "new"
    BY DEF FreeIsClean
  <2>4. o \notin gray
    BY <1>0 DEF GrayAreGray
  <2> QED
    BY <1>0, <1>1, <2>1, <2>2, <2>3, <2>4 DEF MarksFitAges, isold
<1>7. BlackIsDone'
  BY <1>0, <1>1 DEF BlackIsDone, NonWhite, IsWhite, FreeIsClean
<1>8. OldHoldsNoYoung'
  <2> SUFFICES ASSUME NEW x \in Alloc' \ Threads, NEW w \in Alloc', w \in refs'[x]
               PROVE  /\ age'[x] = "old" => isold(age'[w])
                      /\ age'[x] \in {"old1", "touched2"} => age'[w] # "new"
    BY DEF OldHoldsNoYoung
  <2>1. CASE x = o
    BY <2>1, <1>0, <1>1
  <2>2. CASE x # o
    <3>1. w \in refs[x] /\ age'[x] = age[x] /\ x \in Alloc /\ w \in Alloc
      BY <2>2, <1>1 DEF FreeIsClean, EdgesAlive
    <3>2. age'[w] \in {age[w], "touched1"}
      BY <1>1, <3>1
    <3> QED
      BY <1>0, <3>1, <3>2 DEF OldHoldsNoYoung, isold
  <2> QED
    BY <2>1, <2>2
<1>9. GrayAreGray'
  BY <1>0, <1>1 DEF GrayAreGray, MarksFitAges
<1> QED
  BY <1>1, <1>2, <1>3, <1>4, <1>5, <1>6, <1>7, <1>8, <1>9

(* What a black object is given is marked, and becomes old.                *)
LEMMA StoreForward ==
  ASSUME Types, HeapInv, Alloc \subseteq Alloc', Alloc' \subseteq Obj,
         NEW o \in Alloc', NEW v \in Alloc',
         refs' \in [Obj -> SUBSET Obj],
         \A x \in Obj \ {o} : refs'[x] = refs[x], refs'[o] \subseteq refs[o] \union {v},
         UNCHANGED stage, o \notin Threads, color[o] = "black", IsWhite(v),
         v \in Upvals => refs[v] = {},
         ForwardBarrier(o, v), UNCHANGED grayagain
  PROVE  /\ Types' => HeapInv'
         /\ age' = [age EXCEPT ![v] = "old0"]
         /\ color' = [color EXCEPT ![v] = IF v \in Upvals THEN "black" ELSE "gray"]
<1> USE DEF HeapInv, Types, Generational
<1>0. /\ o \in Obj /\ v \in Obj /\ o \in Alloc /\ Generational /\ isold(age[o])
      /\ ~isold(age[v]) /\ v # o
  BY DEF FreeIsClean, NoAges, YoungAreWhite, IsWhite
<1>1. /\ age' = [age EXCEPT ![v] = "old0"]
      /\ color' = [color EXCEPT ![v] = IF v \in Upvals THEN "black" ELSE "gray"]
      /\ gray' = gray \union ({v} \ Upvals)
  <2>1. Mark(v) /\ age' = [age EXCEPT ![v] = "old0"]
    BY <1>0 DEF ForwardBarrier
  <2>2. {w \in refs'[v] : v \in Upvals /\ IsWhite(w)} = {} /\ {w \in refs[v] : v \in Upvals /\ IsWhite(w)} = {}
    BY <1>0
  <2> QED
    BY <1>0, <2>1, <2>2 DEF Mark
<1>2. FreeIsClean'
  BY <1>0, <1>1 DEF FreeIsClean
<1>3. EdgesAlive'
  BY DEF EdgesAlive
<1>4. NoAges'
  BY <1>0 DEF NoAges
<1>5. YoungAreWhite'
  BY <1>0, <1>1 DEF YoungAreWhite, isold
<1>6. MarksFitAges'
  <2>1. \A x \in Alloc' : x # v => age'[x] = age[x] /\ color'[x] = color[x]
    BY <1>1
  <2>2. age'[v] = "old0" /\ color'[v] = IF v \in Upvals THEN "black" ELSE "gray"
    BY <1>0, <1>1
  <2>3. \A x \in Alloc' \ Alloc : color[x] = "white" /\ age[x] = "new"
    BY DEF FreeIsClean
  <2>4. v \notin gray /\ v \notin grayagain
    <3>1. ~(color[v] = "gray" \/ age[v] = "touched2")
      BY <1>0 DEF IsWhite, isold
    <3> QED
      BY <3>1, <1>0 DEF MarksFitAges
  <2> QED
    BY <1>0, <1>1, <2>1, <2>2, <2>3, <2>4 DEF MarksFitAges, isold
<1>7. BlackIsDone'
  <2> SUFFICES ASSUME NEW x \in Alloc', color'[x] = "black"
               PROVE  /\ x \in Threads => age'[x] = "old1"
                      /\ age'[x] = "old0" => refs'[x] \subseteq NonWhite'
    BY DEF BlackIsDone
  <2>1. NonWhite \subseteq NonWhite' /\ v \in NonWhite'
    BY <1>0, <1>1 DEF NonWhite, IsWhite
  <2>2. CASE x = v
    <3>1. v \in Upvals /\ refs'[v] = {}
      BY <2>2, <1>0, <1>1
    <3> QED
      BY <2>2, <3>1, Constants
  <2>3. CASE x # v
    <3>1. color[x] = "black" /\ age'[x] = age[x] /\ x \in Alloc
      BY <2>3, <1>0, <1>1 DEF FreeIsClean
    <3>2. refs'[x] \subseteq refs[x] \union {v}
      BY <1>0
    <3> QED
      BY <2>1, <3>1, <3>2, <1>0 DEF BlackIsDone
  <2> QED
    BY <2>2, <2>3
<1>8. OldHoldsNoYoung'
  <2> SUFFICES ASSUME NEW x \in Alloc' \ Threads, NEW w \in Alloc', w \in refs'[x]
               PROVE  /\ age'[x] = "old" => isold(age'[w])
                      /\ age'[x] \in {"old1", "touched2"} => age'[w] # "new"
    BY DEF OldHoldsNoYoung
  <2>0. age'[v] = "old0" /\ \A y \in Obj : y # v => age'[y] = age[y]
    BY <1>0, <1>1
  <2>1. CASE w = v
    BY <2>0, <2>1 DEF isold
  <2>2. CASE w # v
    <3>1. w \in refs[x] /\ x \in Alloc /\ w \in Alloc /\ age'[w] = age[w]
      BY <2>0, <2>2 DEF FreeIsClean, EdgesAlive
    <3>2. age'[x] = "old0" \/ age'[x] = age[x]
      BY <2>0
    <3> QED
      BY <1>0, <3>1, <3>2 DEF OldHoldsNoYoung
  <2> QED
    BY <2>1, <2>2
<1>9. GrayAreGray'
  <2> SUFFICES ASSUME NEW x \in gray' PROVE color'[x] = "gray"
    BY DEF GrayAreGray
  <2>1. CASE x = v
    BY <2>1, <1>0, <1>1 DEF MarksFitAges, IsWhite, isold
  <2>2. CASE x # v
    <3>1. x \in gray /\ x \in Alloc
      BY <2>2, <1>0, <1>1 DEF MarksFitAges
    <3> QED
      BY <2>2, <3>1, <1>0, <1>1 DEF GrayAreGray
  <2> QED
    BY <2>1, <2>2
<1> QED
  BY <1>1, <1>2, <1>3, <1>4, <1>5, <1>6, <1>7, <1>8, <1>9

-----------------------------------------------------------------------------
(* The steps of the program                                                *)

(* What a barrier may do to ages.                                          *)
AgesRise ==
  \A x \in Obj : \/ age'[x] = age[x]
                 \/ age'[x] = "old0" /\ ~isold(age[x])
                 \/ age'[x] = "touched1" /\ isold(age[x])

(* Storing v in o with the barrier of its kind keeps the invariant of the  *)
(* heap: no barrier, luaC_barrierback_ or luaC_barrier_.                   *)
LEMMA StoreKeeps ==
  ASSUME Types, HeapInv, Alloc \subseteq Alloc', Alloc' \subseteq Obj,
         NEW o \in Alloc', NEW v \in Alloc',
         refs' \in [Obj -> SUBSET Obj],
         \A x \in Obj \ {o} : refs'[x] = refs[x], refs'[o] \subseteq refs[o] \union {v},
         UNCHANGED stage, finalizing' \subseteq Obj,
         color[o] = "black" /\ IsWhite(v) /\ v \in Upvals => refs[v] = {},
         \/ o \in Threads /\ UNCHANGED <<marks, graylists>>
         \/ o \notin Threads /\ BackBarrier(o, v) /\ UNCHANGED gray
         \/ o \notin Threads /\ ForwardBarrier(o, v) /\ UNCHANGED grayagain
  PROVE  Types' /\ HeapInv' /\ AgesRise
<1>0. /\ color \in [Obj -> Colors] /\ age \in [Obj -> Ages] /\ stage' \in Stages
      /\ o \in Obj /\ v \in Obj
  BY DEF Types
<1>1. CASE o \in Threads \/ color[o] # "black" \/ ~IsWhite(v)
  <2>1. UNCHANGED <<marks, graylists>>
    <3>1. o \in Threads \/ ~(color[o] = "black" /\ IsWhite(v))
      BY <1>1
    <3> QED
      BY <3>1 DEF BackBarrier, ForwardBarrier, marks, graylists
  <2>2. HeapInv'
    BY <1>1, <2>1, StoreUnmarked
  <2>3. color' = color /\ age' = age
    BY <2>1 DEF marks
  <2> QED
    BY <1>0, <2>2, <2>3 DEF Types, AgesRise
<1>2. CASE /\ o \notin Threads /\ color[o] = "black" /\ IsWhite(v)
           /\ BackBarrier(o, v) /\ UNCHANGED gray
  <2>1. /\ Types' => HeapInv'
        /\ age' = [age EXCEPT ![o] = "touched1"]
        /\ color' = [color EXCEPT ![o] = "gray"]
    BY <1>2, StoreBack
  <2>2. isold(age[o])
    BY <1>0, <1>2 DEF HeapInv, YoungAreWhite, NoAges
  <2>3. Types'
    BY <1>0, <2>1 DEF Types, Colors, Ages
  <2> QED
    BY <1>0, <2>1, <2>2, <2>3 DEF AgesRise
<1>3. CASE /\ o \notin Threads /\ color[o] = "black" /\ IsWhite(v)
           /\ ForwardBarrier(o, v) /\ UNCHANGED grayagain
  <2>1. /\ Types' => HeapInv'
        /\ age' = [age EXCEPT ![v] = "old0"]
        /\ color' = [color EXCEPT ![v] = IF v \in Upvals THEN "black" ELSE "gray"]
    BY <1>3, StoreForward
  <2>2. ~isold(age[v])
    BY <1>0, <1>3 DEF HeapInv, YoungAreWhite, NoAges, IsWhite
  <2>3. Types'
    BY <1>0, <2>1 DEF Types, Colors, Ages
  <2> QED
    BY <1>0, <2>1, <2>2, <2>3 DEF AgesRise
<1> QED
  BY <1>1, <1>2, <1>3

(* The borders stay where they are when the lists keep what follows them.  *)
LEMMA BordersKept ==
  ASSUME Types, ListsAreLists, Borders, AgesRise, UNCHANGED stage,
         HeapInv, allgc' \in Seq(Obj), NEW D, NEW N,
         ToSet(allgc') \subseteq (ToSet(allgc) \union N) \ D,
         \A x \in N : age'[x] # "old1",
         Generational => \A q \in AllgcPointers \union {"firstold1"} :
                             From(allgc', p'[q]) = From(allgc, p[q]) \ D,
         \A q \in FinobjPointers : From(finobj', p'[q]) = From(finobj, p[q])
  PROVE  Borders'
<1> SUFFICES ASSUME Generational
             PROVE  /\ OldEnoughFrom(allgc, p.survival, p.old1, p.reallyold)'
                    /\ OldEnoughFrom(finobj, p.finobjsur, p.finobjold1, p.finobjrold)'
                    /\ \A o \in ToSet(allgc') : age'[o] = "old1" => o \in From(allgc', p'.firstold1)
  BY DEF Borders, Generational
<1>1. /\ OldEnoughFrom(allgc, p.survival, p.old1, p.reallyold)
      /\ OldEnoughFrom(finobj, p.finobjsur, p.finobjold1, p.finobjrold)
      /\ \A o \in ToSet(allgc) : age[o] = "old1" => o \in From(allgc, p.firstold1)
  BY DEF Borders
<1>2. /\ From(allgc', p'.survival) = From(allgc, p.survival) \ D
      /\ From(allgc', p'.old1) = From(allgc, p.old1) \ D
      /\ From(allgc', p'.reallyold) = From(allgc, p.reallyold) \ D
      /\ From(allgc', p'.firstold1) = From(allgc, p.firstold1) \ D
  BY DEF AllgcPointers
<1>3. /\ From(finobj', p'.finobjsur) = From(finobj, p.finobjsur)
      /\ From(finobj', p'.finobjold1) = From(finobj, p.finobjold1)
      /\ From(finobj', p'.finobjrold) = From(finobj, p.finobjrold)
  BY DEF FinobjPointers
<1>4. /\ \A q : From(allgc, q) \subseteq Obj /\ From(finobj, q) \subseteq Obj
      /\ ToSet(allgc') \subseteq Obj
  BY FromFacts, ToSetIs DEF ListsAreLists
<1>5. \A x \in Obj : /\ age[x] # "new" => age'[x] # "new"
                     /\ isold(age[x]) => isold(age'[x])
                     /\ isold(age[x]) /\ age[x] # "old0" => age'[x] # "old0"
                     /\ age[x] \in {"old", "touched1", "touched2"} =>
                          age'[x] \in {"old", "touched1", "touched2"}
                     /\ age'[x] = "old1" => age[x] = "old1"
  BY DEF AgesRise, isold
<1>6. OldEnoughFrom(allgc, p.survival, p.old1, p.reallyold)'
  BY <1>1, <1>2, <1>4, <1>5 DEF OldEnoughFrom
<1>7. OldEnoughFrom(finobj, p.finobjsur, p.finobjold1, p.finobjrold)'
  BY <1>1, <1>3, <1>4, <1>5 DEF OldEnoughFrom
<1> QED
  BY <1>1, <1>2, <1>4, <1>5, <1>6, <1>7

(* The lists hold objects.                                                 *)
LEMMA AllocFacts ==
  ASSUME Types, ListsAreLists
  PROVE  Alloc \subseteq Obj
BY ToSetIs DEF ListsAreLists, Alloc

(* What the running function can name is allocated.                        *)
LEMMA HeldAlive ==
  ASSUME IInv
  PROVE  /\ Alloc \subseteq Obj
         /\ MainThread \in Alloc
         /\ Held \subseteq Alloc /\ Held \intersect Upvals = {}
         /\ HeldUpvalues \subseteq Alloc \intersect Upvals
         /\ \A q \in Held \union HeldUpvalues : refs[q] \subseteq Alloc
<1>1. Alloc \subseteq Obj
  BY AllocFacts DEF IInv, ListInv
<1>2. {MainThread, Registry} \subseteq Alloc /\ {MainThread, Registry} \subseteq Obj
  BY <1>1 DEF IInv, KindsInPlace, Alloc
<1>3. \A q \in Obj : refs[q] \subseteq Alloc
  BY DEF IInv, HeapInv, EdgesAlive
<1>4. Held \subseteq Alloc
  BY <1>2, <1>3 DEF Held
<1>5. MainThread \in Obj \ Closures /\ MainThread \notin Upvals /\ Registry \notin Upvals
  BY <1>2, Constants
<1>6. refs[MainThread] \intersect Upvals = {}
  BY <1>5 DEF IInv, KindsInPlace
<1>7. Held \intersect Upvals = {}
  BY <1>5, <1>6 DEF Held
<1>8. HeldUpvalues \subseteq Alloc \intersect Upvals
  BY <1>1, <1>3, <1>4 DEF HeldUpvalues
<1> QED
  BY <1>1, <1>2, <1>3, <1>4, <1>7, <1>8

(* A step that only changes references, with the barrier it needs.         *)
LEMMA StoreStep ==
  ASSUME IInv, NEW o \in Alloc, NEW v \in Alloc,
         UNCHANGED <<lists, p, stage>>, finalizing' \subseteq Obj,
         refs' \in [Obj -> SUBSET Obj],
         \A x \in Obj \ {o} : refs'[x] = refs[x], refs'[o] \subseteq refs[o] \union {v},
         v \in Upvals => o \in Closures /\ (IsWhite(o) \/ ~IsWhite(v)),
         \/ o \in Threads /\ UNCHANGED <<marks, graylists>>
         \/ o \notin Threads /\ BackBarrier(o, v) /\ UNCHANGED gray
         \/ o \notin Threads /\ ForwardBarrier(o, v) /\ UNCHANGED grayagain
  PROVE  IInv'
<1>1. /\ allgc' = allgc /\ finobj' = finobj /\ tobefnz' = tobefnz /\ p' = p
      /\ Alloc' = Alloc /\ stage' = stage
  BY DEF lists, Alloc
<1>2. Alloc \subseteq Obj
  BY HeldAlive
<1>3. Types' /\ HeapInv' /\ AgesRise
  <2>1. color[o] = "black" /\ IsWhite(v) /\ v \in Upvals => refs[v] = {}
    BY DEF IsWhite
  <2>2. Types /\ HeapInv /\ Alloc \subseteq Alloc' /\ Alloc' \subseteq Obj /\ o \in Alloc' /\ v \in Alloc'
    BY <1>1, <1>2 DEF IInv
  <2> QED
    BY <1>1, <2>1, <2>2, StoreKeeps
<1>4. ListInv'
  <2>1. ListsAreLists' /\ PointersInLists'
    BY <1>1 DEF IInv, ListInv, ListsAreLists, PointersInLists, Generational
  <2>2. Borders'
    <3> DEFINE none == {}
    <3>1. /\ Types /\ ListsAreLists /\ Borders /\ HeapInv /\ allgc' \in Seq(Obj)
          /\ ToSet(allgc') \subseteq (ToSet(allgc) \union none) \ none
          /\ \A x \in none : age'[x] # "old1"
          /\ Generational => \A q \in AllgcPointers \union {"firstold1"} :
               From(allgc', p'[q]) = From(allgc, p[q]) \ none
          /\ \A q \in FinobjPointers : From(finobj', p'[q]) = From(finobj, p[q])
      BY <1>1 DEF IInv, ListInv, ListsAreLists
    <3> HIDE DEF none
    <3> QED
      BY <1>1, <1>3, <3>1, BordersKept
  <2> QED
    BY <2>1, <2>2 DEF ListInv
<1>5. KindsInPlace'
  <2>1. \A x \in Obj \ Closures : refs'[x] \intersect Upvals = {}
    BY <1>2 DEF IInv, KindsInPlace
  <2> QED
    BY <1>1, <2>1 DEF IInv, KindsInPlace
<1> QED
  BY <1>3, <1>4, <1>5 DEF IInv

(* A push of a value that some object holds.                               *)
LEMMA LoadPreserves ==
  ASSUME IInv, NEW q \in Held \union HeldUpvalues, NEW v \in refs[q], Load(q, v)
  PROVE  IInv'
<1>1. /\ MainThread \in Alloc /\ v \in Alloc /\ MainThread \in Threads
      /\ v \in Obj /\ MainThread \in Obj
  BY HeldAlive, Constants
<1>2. /\ refs' = [refs EXCEPT ![MainThread] = @ \union {v}] /\ v \notin Upvals
      /\ UNCHANGED <<lists, p, stage, finalizing>> /\ UNCHANGED <<marks, graylists>>
  BY DEF Load, control, marks, graylists
<1>3. refs \in [Obj -> SUBSET Obj] /\ finalizing \subseteq Obj
  BY DEF IInv, Types
<1> QED
  BY <1>1, <1>2, <1>3, StoreStep

(* A store in a table, a C closure or a coroutine, with its barrier.       *)
LEMMA StorePreserves ==
  ASSUME IInv, NEW o \in Held, NEW v \in Held, Store(o, v)
  PROVE  IInv'
<1>1. o \in Alloc /\ v \in Alloc /\ v \notin Upvals /\ o \in Obj /\ v \in Obj
  BY HeldAlive
<1>2. /\ refs' = [refs EXCEPT ![o] = @ \union {v}]
      /\ UNCHANGED <<lists, p, stage, finalizing>>
      /\ \/ o \in Threads /\ UNCHANGED <<marks, graylists>>
         \/ o \notin Threads /\ BackBarrier(o, v) /\ UNCHANGED gray
         \/ o \notin Threads /\ ForwardBarrier(o, v) /\ UNCHANGED grayagain
  BY Constants DEF Store, Barrier, control
<1>3. refs \in [Obj -> SUBSET Obj] /\ finalizing \subseteq Obj
  BY DEF IInv, Types
<1> QED
  BY <1>1, <1>2, <1>3, StoreStep

(* A closure gets an upvalue of its creator, and the barrier finds nothing *)
(* to mark.                                                                *)
LEMMA ShareUpvaluePreserves ==
  ASSUME IInv, ~Joins, NEW c \in Held \intersect Closures, NEW u \in HeldUpvalues,
         ShareUpvalue(c, u)
  PROVE  IInv'
<1>1. c \in Alloc /\ u \in Alloc /\ c \in Obj /\ u \in Obj
  BY HeldAlive
<1>2. /\ refs' = [refs EXCEPT ![c] = @ \union {u}]
      /\ UNCHANGED <<lists, p, stage, finalizing>>
      /\ IsWhite(c) \/ ~IsWhite(u)
      /\ c \notin Threads /\ ForwardBarrier(c, u) /\ UNCHANGED grayagain
  BY Constants DEF ShareUpvalue, Barrier, control
<1>3. refs \in [Obj -> SUBSET Obj] /\ finalizing \subseteq Obj
  BY DEF IInv, Types
<1> QED
  BY <1>1, <1>2, <1>3, StoreStep

(* OP_SETUPVAL, with its forward barrier.                                  *)
LEMMA SetUpvaluePreserves ==
  ASSUME IInv, NEW u \in HeldUpvalues, NEW v \in Held, SetUpvalue(u, v)
  PROVE  IInv'
<1>1. u \in Alloc /\ v \in Alloc /\ v \notin Upvals /\ u \in Upvals /\ u \in Obj /\ v \in Obj
  BY HeldAlive
<1>2. /\ refs' = [refs EXCEPT ![u] = {v}]
      /\ UNCHANGED <<lists, p, stage, finalizing>>
      /\ u \notin Threads /\ ForwardBarrier(u, v) /\ UNCHANGED grayagain
  BY <1>1, Constants DEF SetUpvalue, Barrier, control
<1>3. refs \in [Obj -> SUBSET Obj] /\ finalizing \subseteq Obj
  BY DEF IInv, Types
<1> QED
  BY <1>1, <1>2, <1>3, StoreStep

(* References are lost.                                                    *)
LEMMA LosePreserves ==
  ASSUME IInv, NEW o \in Alloc,
         refs' \in [Obj -> SUBSET Obj],
         \A x \in Obj \ {o} : refs'[x] = refs[x], refs'[o] \subseteq refs[o],
         UNCHANGED <<marks, lists, p, graylists, stage>>, finalizing' \subseteq Obj
  PROVE  IInv'
<1>1. /\ allgc' = allgc /\ finobj' = finobj /\ tobefnz' = tobefnz /\ p' = p
      /\ Alloc' = Alloc /\ stage' = stage /\ age' = age /\ color' = color
  BY DEF lists, marks, Alloc
<1>2. Alloc \subseteq Obj /\ o \in Obj
  BY HeldAlive
<1>3. HeapInv'
  <2>1. color[o] # "black" \/ ~IsWhite(o)
    BY DEF IsWhite
  <2> QED
    BY <1>1, <1>2, <2>1, StoreUnmarked DEF IInv
<1>4. Types' /\ AgesRise
  BY <1>1 DEF IInv, Types, AgesRise
<1>5. ListInv'
  BY <1>1 DEF IInv, ListInv, ListsAreLists, PointersInLists, Generational, Borders, OldEnoughFrom
<1>6. KindsInPlace'
  BY <1>1, <1>2 DEF IInv, KindsInPlace
<1> QED
  BY <1>3, <1>4, <1>5, <1>6 DEF IInv

(* A new object at the front of 'allgc'.                                   *)
LEMMA NewKeepsLists ==
  ASSUME IInv, NEW o \in Obj \ Alloc, AgesRise,
         allgc' = <<o>> \o allgc, UNCHANGED <<finobj, tobefnz, p, stage>>
  PROVE  ListInv' /\ Alloc' = Alloc \union {o}
<1>1. /\ allgc \in Seq(Obj) /\ Distinct(allgc) /\ o \in Obj
      /\ o \notin ToSet(allgc) /\ o \notin ToSet(finobj) /\ o \notin ToSet(tobefnz)
  BY DEF IInv, ListInv, ListsAreLists, Alloc
<1>2. /\ allgc' \in Seq(Obj) /\ Distinct(allgc')
      /\ ToSet(allgc') = {o} \union ToSet(allgc)
      /\ \A q : q # o => From(allgc', q) = From(allgc, q)
  BY <1>1, ConsFacts
<1>3. ListsAreLists'
  BY <1>1, <1>2 DEF IInv, ListInv, ListsAreLists
<1>4. PointersInLists'
  BY <1>2 DEF IInv, ListInv, PointersInLists, Generational
<1>5. Borders'
  <2> DEFINE none == {}
             N == {o}
  <2>1. o # NULL
    BY Constants
  <2>2. Generational => \A q \in AllgcPointers \union {"firstold1"} :
          From(allgc', p'[q]) = From(allgc, p[q]) \ none
    <3>1. Generational => \A q \in AllgcPointers \union {"firstold1"} : p[q] # o
      BY <1>1, <2>1 DEF IInv, ListInv, PointersInLists
    <3> QED
      BY <1>2, <3>1
  <2>3. \A x \in N : age'[x] # "old1"
    <3>1. age[o] = "new"
      BY DEF IInv, HeapInv, FreeIsClean
    <3> QED
      BY <3>1 DEF AgesRise
  <2>4. /\ ToSet(allgc') \subseteq (ToSet(allgc) \union N) \ none
        /\ \A q \in FinobjPointers : From(finobj', p'[q]) = From(finobj, p[q])
        /\ Types /\ ListsAreLists /\ Borders /\ HeapInv
    BY <1>2 DEF IInv, ListInv
  <2> HIDE DEF none, N
  <2> QED
    BY <1>2, <2>2, <2>3, <2>4, BordersKept
<1> QED
  BY <1>2, <1>3, <1>4, <1>5 DEF ListInv, Alloc

(* A new object is one more, in front of 'allgc'.                          *)
LEMMA NewGrowsAlloc ==
  ASSUME IInv, NEW o \in Obj \ Alloc,
         allgc' = <<o>> \o allgc, UNCHANGED <<finobj, tobefnz>>
  PROVE  Alloc' = Alloc \union {o} /\ ToSet(allgc) \subseteq ToSet(allgc')
<1>1. allgc \in Seq(Obj) /\ Distinct(allgc) /\ o \in Obj /\ o \notin ToSet(allgc)
  BY DEF IInv, ListInv, ListsAreLists, Alloc
<1>2. ToSet(allgc') = {o} \union ToSet(allgc)
  BY <1>1, ConsFacts
<1> QED
  BY <1>2 DEF Alloc

(* luaC_newobj: the object is new and white.                               *)
LEMMA NewPreserves ==
  ASSUME IInv, NEW o \in Fresh, New(o)
  PROVE  IInv'
<1>1. o \in Obj \ Alloc
  BY DEF Fresh
<1>2. /\ refs' = [refs EXCEPT ![MainThread] = @ \union {o}] /\ o \notin Upvals
      /\ allgc' = <<o>> \o allgc /\ UNCHANGED <<finobj, tobefnz, p, stage, finalizing>>
      /\ UNCHANGED <<marks, graylists>>
  BY DEF New, control
<1>3. MainThread \in Alloc /\ MainThread \in Obj /\ MainThread \in Threads /\ Alloc \subseteq Obj
  BY HeldAlive, Constants
<1>4. AgesRise
  BY <1>2 DEF AgesRise, marks
<1>5. ListInv' /\ Alloc' = Alloc \union {o}
  BY <1>1, <1>2, <1>4, NewKeepsLists
<1>6. refs \in [Obj -> SUBSET Obj] /\ finalizing \subseteq Obj
  BY DEF IInv, Types
<1>7. Types' /\ HeapInv'
  <2>1. /\ Types /\ HeapInv /\ Alloc \subseteq Alloc' /\ Alloc' \subseteq Obj
        /\ MainThread \in Alloc' /\ o \in Alloc'
    BY <1>1, <1>3, <1>5 DEF IInv
  <2>2. /\ refs' \in [Obj -> SUBSET Obj]
        /\ \A x \in Obj \ {MainThread} : refs'[x] = refs[x]
        /\ refs'[MainThread] \subseteq refs[MainThread] \union {o}
    BY <1>1, <1>2, <1>3, <1>6
  <2> QED
    BY <1>2, <1>3, <1>6, <2>1, <2>2, StoreKeeps
<1>8. KindsInPlace'
  <2>1. ToSet(allgc) \subseteq ToSet(allgc')
    BY <1>1, <1>2, NewGrowsAlloc
  <2>2. \A x \in Obj \ Closures : refs'[x] \intersect Upvals = {}
    BY <1>2, <1>3, <1>6 DEF IInv, KindsInPlace
  <2> QED
    BY <1>2, <2>1, <2>2 DEF IInv, KindsInPlace
<1> QED
  BY <1>5, <1>7, <1>8 DEF IInv

(* luaF_initupvals: a new upvalue in an old closure is marked at once.     *)
LEMMA NewUpvaluePreserves ==
  ASSUME IInv, NEW c \in Held, NEW o \in Fresh, NewUpvalue(c, o)
  PROVE  IInv'
<1>1. o \in Obj \ Alloc
  BY DEF Fresh
<1>2. /\ refs' = [refs EXCEPT ![c] = @ \union {o}] /\ o \in Upvals /\ c \in Closures
      /\ allgc' = <<o>> \o allgc /\ UNCHANGED <<finobj, tobefnz, p, stage, finalizing>>
      /\ c \notin Threads /\ ForwardBarrier(c, o) /\ UNCHANGED grayagain
  BY Constants DEF NewUpvalue, Barrier, control
<1>3. c \in Alloc /\ c \in Obj /\ Alloc \subseteq Obj
  BY HeldAlive
<1>4. Alloc' = Alloc \union {o}
  BY <1>1, <1>2, NewGrowsAlloc
<1>6. refs \in [Obj -> SUBSET Obj] /\ finalizing \subseteq Obj /\ refs[o] = {}
  BY <1>1 DEF IInv, Types, HeapInv, FreeIsClean
<1>7. Types' /\ HeapInv' /\ AgesRise
  <2>1. /\ Types /\ HeapInv /\ Alloc \subseteq Alloc' /\ Alloc' \subseteq Obj
        /\ c \in Alloc' /\ o \in Alloc'
    BY <1>1, <1>3, <1>4 DEF IInv
  <2>2. /\ refs' \in [Obj -> SUBSET Obj]
        /\ \A x \in Obj \ {c} : refs'[x] = refs[x]
        /\ refs'[c] \subseteq refs[c] \union {o}
    BY <1>1, <1>2, <1>3, <1>6
  <2> QED
    BY <1>2, <1>3, <1>6, <2>1, <2>2, StoreKeeps
<1>5. ListInv'
  BY <1>1, <1>2, <1>7, NewKeepsLists
<1>8. KindsInPlace'
  <2>1. ToSet(allgc) \subseteq ToSet(allgc')
    BY <1>1, <1>2, NewGrowsAlloc
  <2>2. \A x \in Obj \ Closures : refs'[x] \intersect Upvals = {}
    BY <1>2, <1>3, <1>6 DEF IInv, KindsInPlace
  <2> QED
    BY <1>2, <2>1, <2>2 DEF IInv, KindsInPlace
<1> QED
  BY <1>5, <1>7, <1>8 DEF IInv

(* The object moves from 'allgc' to 'finobj'.                              *)
LEMMA MoveKeepsLists ==
  ASSUME IInv, NEW o \in ToSet(allgc), AgesRise,
         p' = Moved(o), allgc' = Unlinked(o), finobj' = <<o>> \o finobj,
         UNCHANGED <<tobefnz, stage>>
  PROVE  /\ ListInv' /\ Alloc' = Alloc
         /\ ToSet(allgc') = ToSet(allgc) \ {o} /\ ToSet(finobj') = {o} \union ToSet(finobj)
<1>1. /\ allgc \in Seq(Obj) /\ Distinct(allgc) /\ o \in Obj
      /\ finobj \in Seq(Obj) /\ Distinct(finobj)
      /\ o \notin ToSet(finobj) /\ o \notin ToSet(tobefnz)
  BY ToSetIs DEF IInv, ListInv, ListsAreLists
<1>2. NULL \notin Obj
  BY Constants
<1>3. /\ allgc' \in Seq(Obj) /\ Distinct(allgc')
      /\ ToSet(allgc') = ToSet(allgc) \ {o}
      /\ \A q : q # o => From(allgc', q) = From(allgc, q) \ {o}
  <2>1. \A q : q # o => q \notin {o}
    OBVIOUS
  <2> QED
    BY <1>1, <2>1, WithoutFacts DEF Unlinked
<1>4. /\ FirstOutside(allgc, o, {o}) \in {NULL} \union ToSet(allgc')
      /\ From(allgc', FirstOutside(allgc, o, {o})) = From(allgc, o) \ {o}
  <2>1. /\ FirstOutside(allgc, o, {o}) \in {NULL} \union (ToSet(allgc) \ {o})
        /\ From(Without(allgc, {o}), FirstOutside(allgc, o, {o})) = From(allgc, o) \ {o}
    BY <1>1, <1>2, FirstOutsideFacts
  <2> QED
    BY <2>1, <1>3 DEF Unlinked
<1>5. /\ finobj' \in Seq(Obj) /\ Distinct(finobj')
      /\ ToSet(finobj') = {o} \union ToSet(finobj)
      /\ \A q : q # o => From(finobj', q) = From(finobj, q)
  BY <1>1, ConsFacts
<1>6. /\ p \in [Pointers -> {NULL} \union Obj]
      /\ \A q \in AllgcPointers : p[q] \in {NULL} \union ToSet(allgc)
      /\ \A q \in FinobjPointers : p[q] \in {NULL} \union ToSet(finobj)
      /\ Generational => p.firstold1 \in {NULL} \union ToSet(allgc)
  BY DEF IInv, ListInv, PointersInLists
<1>7. /\ \A q \in AllgcPointers \union {"firstold1"} :
            p'[q] = IF p[q] = o THEN FirstOutside(allgc, o, {o}) ELSE p[q]
      /\ \A q \in FinobjPointers : p'[q] = p[q]
  BY DEF Moved, AllgcPointers, FinobjPointers, Pointers
<1>8. ToSet(allgc') \subseteq Obj
  BY <1>3, ToSetIs
<1>9. ListsAreLists'
  BY <1>1, <1>3, <1>5 DEF IInv, ListInv, ListsAreLists
<1>10. PointersInLists'
  <2>1. p' \in [Pointers -> {NULL} \union Obj]
    BY <1>4, <1>6, <1>8 DEF Moved
  <2>2. \A q \in AllgcPointers : p'[q] \in {NULL} \union ToSet(allgc')
    BY <1>3, <1>4, <1>6, <1>7
  <2>3. Generational' => p'.firstold1 \in {NULL} \union ToSet(allgc')
    BY <1>3, <1>4, <1>6, <1>7 DEF Generational
  <2>4. \A q \in FinobjPointers : p'[q] \in {NULL} \union ToSet(finobj')
    BY <1>5, <1>6, <1>7
  <2> QED
    BY <2>1, <2>2, <2>3, <2>4 DEF PointersInLists
<1>11. Borders'
  <2> DEFINE none == {}
             D == {o}
  <2>1. \A q \in AllgcPointers \union {"firstold1"} :
          From(allgc', p'[q]) = From(allgc, p[q]) \ D
    BY <1>3, <1>4, <1>7
  <2>2. \A q \in FinobjPointers : From(finobj', p'[q]) = From(finobj, p[q])
    BY <1>1, <1>2, <1>5, <1>6, <1>7
  <2>3. /\ ToSet(allgc') \subseteq (ToSet(allgc) \union none) \ D
        /\ \A x \in none : age'[x] # "old1"
        /\ Types /\ ListsAreLists /\ Borders /\ HeapInv
    BY <1>3 DEF IInv, ListInv
  <2> HIDE DEF none, D
  <2> QED
    BY <1>3, <2>1, <2>2, <2>3, BordersKept
<1> QED
  BY <1>3, <1>5, <1>9, <1>10, <1>11 DEF ListInv, Alloc

(* lua_setmetatable, with luaC_checkfinalizer when there is a __gc.        *)
LEMMA SetMetatablePreserves ==
  ASSUME IInv, NEW o \in HeldTables, NEW m \in HeldTables, NEW gc \in BOOLEAN,
         SetMetatable(o, m, gc)
  PROVE  IInv'
<1>1. /\ o \in Alloc /\ m \in Alloc /\ o \in Obj /\ m \in Obj
      /\ m \notin Upvals /\ o \notin Threads /\ o \in Tables
      /\ MainThread # o
  BY HeldAlive, Constants DEF HeldTables
<1>2. /\ refs' = [refs EXCEPT ![o] = @ \union {m}]
      /\ ForwardBarrier(o, m) /\ UNCHANGED <<grayagain, tobefnz, stage, finalizing>>
  BY DEF SetMetatable, control
<1>3. refs \in [Obj -> SUBSET Obj] /\ finalizing \subseteq Obj
  BY DEF IInv, Types
<1>4. /\ refs' \in [Obj -> SUBSET Obj]
      /\ \A x \in Obj \ {o} : refs'[x] = refs[x]
      /\ refs'[o] \subseteq refs[o] \union {m}
  BY <1>1, <1>2, <1>3
<1>5. CASE ~gc
  <2>1. UNCHANGED <<lists, p>>
    BY <1>2, <1>5 DEF SetMetatable, lists
  <2> QED
    BY <1>1, <1>2, <1>3, <1>4, <2>1, StoreStep
<1>6. CASE gc
  <2>1. /\ o \in ToSet(allgc) \ {Registry}
        /\ p' = Moved(o) /\ allgc' = Unlinked(o) /\ finobj' = <<o>> \o finobj
    BY <1>6 DEF SetMetatable
  <2>2. Alloc' = Alloc
    <3>1. ToSet(allgc') = ToSet(allgc) \ {o}
      BY <2>1, WithoutFacts DEF IInv, ListInv, ListsAreLists, Unlinked
    <3>2. ToSet(finobj') = {o} \union ToSet(finobj)
      BY <1>1, <2>1, ConsFacts DEF IInv, ListInv, ListsAreLists
    <3> QED
      BY <1>2, <2>1, <3>1, <3>2 DEF Alloc
  <2>3. Types' /\ HeapInv' /\ AgesRise
    <3>1. /\ Types /\ HeapInv /\ Alloc \subseteq Alloc' /\ Alloc' \subseteq Obj
          /\ o \in Alloc' /\ m \in Alloc'
      BY <1>1, <2>2, HeldAlive DEF IInv
    <3> QED
      BY <1>1, <1>2, <1>3, <1>4, <3>1, StoreKeeps
  <2>4. /\ ListInv' /\ ToSet(allgc') = ToSet(allgc) \ {o}
        /\ ToSet(finobj') = {o} \union ToSet(finobj)
    BY <1>2, <2>1, <2>3, MoveKeepsLists
  <2>5. KindsInPlace'
    <3>1. \A x \in Obj \ Closures : refs'[x] \intersect Upvals = {}
      BY <1>1, <1>4 DEF IInv, KindsInPlace
    <3> QED
      BY <1>1, <1>2, <2>1, <2>4, <3>1, Constants DEF IInv, KindsInPlace
  <2> QED
    BY <2>3, <2>4, <2>5 DEF IInv
<1> QED
  BY <1>5, <1>6

-----------------------------------------------------------------------------
(* Finalizers                                                              *)

(* A reference is overwritten or popped.                                   *)
LEMMA DropPreserves ==
  ASSUME IInv, NEW q \in Held \union HeldUpvalues, NEW v \in refs[q], Drop(q, v)
  PROVE  IInv'
<1>1. q \in Alloc /\ q \in Obj
  BY HeldAlive
<1>2. /\ refs' = [refs EXCEPT ![q] = @ \ {v}]
      /\ UNCHANGED <<marks, lists, p, graylists, stage, finalizing>>
  BY DEF Drop, control, marks, lists, graylists
<1>3. refs \in [Obj -> SUBSET Obj] /\ finalizing \subseteq Obj
  BY DEF IInv, Types
<1> QED
  BY <1>1, <1>2, <1>3, LosePreserves

(* A finalizer returns: the program may lose the object.                   *)
LEMMA FinalizerReturnsPreserves ==
  ASSUME IInv, FinalizerReturns
  PROVE  IInv'
<1>1. MainThread \in Alloc /\ MainThread \in Obj
  BY HeldAlive
<1>2. /\ refs' \in {refs, [refs EXCEPT ![MainThread] = @ \ finalizing]}
      /\ finalizing' = {}
      /\ UNCHANGED <<marks, lists, p, graylists, stage>>
  BY DEF FinalizerReturns, marks, lists, graylists
<1>3. refs \in [Obj -> SUBSET Obj]
  BY DEF IInv, Types
<1> QED
  BY <1>1, <1>2, <1>3, LosePreserves

(* callallpendingfinalizers ends.                                          *)
LEMMA EndFinalizersPreserves ==
  ASSUME IInv, EndFinalizers
  PROVE  IInv'
<1>1. /\ refs' = refs /\ color' = color /\ age' = age /\ p' = p /\ finalizing' = finalizing
      /\ allgc' = allgc /\ finobj' = finobj /\ tobefnz' = tobefnz
      /\ gray' = gray /\ grayagain' = grayagain
      /\ Generational /\ Generational' /\ stage' \in Stages
  BY DEF EndFinalizers, marks, lists, graylists, Generational, Stages
<1>2. Alloc' = Alloc /\ NonWhite' = NonWhite
  BY <1>1 DEF Alloc, NonWhite, IsWhite
<1>3. HeapInv'
  BY <1>1, <1>2 DEF IInv, HeapInv, FreeIsClean, EdgesAlive, NoAges, MarksFitAges,
                    YoungAreWhite, BlackIsDone, OldHoldsNoYoung, GrayAreGray
<1>4. ListInv'
  BY <1>1 DEF IInv, ListInv, ListsAreLists, PointersInLists, Borders, OldEnoughFrom
<1>5. Types' /\ KindsInPlace'
  BY <1>1 DEF IInv, Types, KindsInPlace
<1> QED
  BY <1>3, <1>4, <1>5 DEF IInv

(* GCTM with udata2finalize: an 'old1' object that goes back to the front  *)
(* of 'allgc' becomes the first that markold visits.                       *)
LEMMA CallFinalizerPreserves ==
  ASSUME IInv, CallFinalizer
  PROVE  IInv'
<1> DEFINE o == Head(tobefnz)
<1>1. /\ allgc \in Seq(Obj) /\ Distinct(allgc)
      /\ tobefnz \in Seq(Obj) /\ Distinct(tobefnz) /\ tobefnz # <<>>
  BY DEF IInv, ListInv, ListsAreLists, CallFinalizer
<1>2. /\ o \in ToSet(tobefnz) /\ tobefnz' \in Seq(Obj) /\ Distinct(tobefnz')
      /\ ToSet(tobefnz') = ToSet(tobefnz) \ {o}
  <2>1. tobefnz' = Tail(tobefnz)
    BY DEF CallFinalizer
  <2> QED
    BY <1>1, <2>1, TailFacts
<1>3. /\ allgc' = <<o>> \o allgc /\ p' = FirstOld1(o)
      /\ \/ finalizing' = {o} /\ refs' = [refs EXCEPT ![MainThread] = @ \union {o}]
         \/ UNCHANGED <<finalizing, refs>>
      /\ UNCHANGED <<marks, finobj, graylists, stage>>
  BY DEF CallFinalizer, marks, graylists
<1> HIDE DEF o
<1>4. o \in Obj /\ o \notin ToSet(allgc) /\ o \notin ToSet(finobj) /\ o # NULL
  BY <1>1, <1>2, ToSetIs, Constants DEF IInv, ListInv, ListsAreLists
<1>5. /\ allgc' \in Seq(Obj) /\ Distinct(allgc')
      /\ ToSet(allgc') = {o} \union ToSet(allgc)
      /\ \A q : q # o => From(allgc', q) = From(allgc, q)
      /\ From(allgc', o) = {o} \union ToSet(allgc)
  BY <1>1, <1>3, <1>4, ConsFacts
<1>6. Alloc' = Alloc
  BY <1>2, <1>3, <1>5 DEF Alloc
<1>7. /\ MainThread \in Alloc /\ MainThread \in Threads /\ MainThread \in Obj
      /\ o \in Alloc /\ Alloc \subseteq Obj
  BY <1>2, HeldAlive, Constants DEF Alloc
<1>8. Types' /\ HeapInv' /\ AgesRise
  <2>1. refs \in [Obj -> SUBSET Obj] /\ finalizing \subseteq Obj
    BY DEF IInv, Types
  <2>2. /\ refs' \in [Obj -> SUBSET Obj]
        /\ \A x \in Obj \ {MainThread} : refs'[x] = refs[x]
        /\ refs'[MainThread] \subseteq refs[MainThread] \union {o}
        /\ finalizing' \subseteq Obj
    BY <1>3, <1>4, <1>7, <2>1
  <2>3. /\ Types /\ HeapInv /\ Alloc \subseteq Alloc' /\ Alloc' \subseteq Obj
        /\ MainThread \in Alloc' /\ o \in Alloc'
        /\ ~(color[MainThread] = "black" /\ IsWhite(o) /\ o \in Upvals)
    BY <1>2, <1>6, <1>7 DEF IInv, KindsInPlace
  <2> QED
    BY <1>3, <1>7, <2>2, <2>3, StoreKeeps
<1>9. ListsAreLists'
  BY <1>2, <1>3, <1>4, <1>5 DEF IInv, ListInv, ListsAreLists
<1>10. /\ p \in [Pointers -> {NULL} \union Obj]
       /\ \A q \in AllgcPointers : p[q] \in {NULL} \union ToSet(allgc)
       /\ \A q \in FinobjPointers : p[q] \in {NULL} \union ToSet(finobj)
       /\ Generational => p.firstold1 \in {NULL} \union ToSet(allgc)
  BY DEF IInv, ListInv, PointersInLists
<1>11. /\ p' \in [Pointers -> {NULL} \union Obj]
       /\ \A q \in AllgcPointers \union FinobjPointers : p'[q] = p[q]
       /\ p'.firstold1 = IF age[o] = "old1" THEN o ELSE p.firstold1
  BY <1>3, <1>4, <1>10 DEF FirstOld1, Pointers, AllgcPointers, FinobjPointers
<1>12. PointersInLists'
  BY <1>3, <1>5, <1>10, <1>11 DEF PointersInLists, Generational
<1>13. Borders'
  <2>1. CASE age[o] # "old1"
    <3> DEFINE none == {}
               N == {o}
    <3>1. Generational => \A q \in AllgcPointers \union {"firstold1"} :
            From(allgc', p'[q]) = From(allgc, p[q]) \ none
      BY <1>4, <1>5, <1>10, <1>11, <2>1
    <3>2. \A x \in N : age'[x] # "old1"
      BY <1>3, <2>1 DEF marks
    <3>3. /\ ToSet(allgc') \subseteq (ToSet(allgc) \union N) \ none
          /\ \A q \in FinobjPointers : From(finobj', p'[q]) = From(finobj, p[q])
          /\ Types /\ ListsAreLists /\ Borders /\ HeapInv /\ UNCHANGED stage
      BY <1>3, <1>5, <1>11 DEF IInv, ListInv
    <3> HIDE DEF none, N
    <3> QED
      BY <1>5, <1>8, <3>1, <3>2, <3>3, BordersKept
  <2>2. CASE age[o] = "old1"
    <3>1. From(allgc', p'.firstold1) = ToSet(allgc')
      BY <1>5, <1>11, <2>2
    <3>2. /\ From(allgc', p'.survival) = From(allgc, p.survival)
          /\ From(allgc', p'.old1) = From(allgc, p.old1)
          /\ From(allgc', p'.reallyold) = From(allgc, p.reallyold)
      BY <1>4, <1>5, <1>10, <1>11 DEF AllgcPointers
    <3>3. /\ p'.finobjsur = p.finobjsur /\ p'.finobjold1 = p.finobjold1
          /\ p'.finobjrold = p.finobjrold /\ finobj' = finobj
          /\ age' = age /\ stage' = stage
      BY <1>3, <1>11 DEF FinobjPointers, marks
    <3> QED
      BY <3>1, <3>2, <3>3 DEF IInv, ListInv, Borders, OldEnoughFrom, Generational
  <2> QED
    BY <2>1, <2>2
<1>14. KindsInPlace'
  <2>1. \A x \in Obj \ Closures : refs'[x] \intersect Upvals = {}
    BY <1>2, <1>3, <1>7 DEF IInv, KindsInPlace, Types
  <2> QED
    BY <1>2, <1>3, <1>5, <2>1 DEF IInv, KindsInPlace
<1> QED
  BY <1>8, <1>9, <1>12, <1>13, <1>14 DEF IInv, ListInv

-----------------------------------------------------------------------------
(* Full collections                                                        *)

(* What a traversal visits, S and objects not marked before, and whatever  *)
(* the visited objects hold strongly is then visited or marked.            *)
LEMMA VisitedFacts ==
  ASSUME IInv, NEW S \in SUBSET Alloc, NEW M
  PROVE  /\ S \subseteq Visited(S, M)
         /\ Visited(S, M) \subseteq S \union (Alloc \ M)
         /\ \A x \in Visited(S, M) \ WeakTables : refs[x] \subseteq Visited(S, M) \union M
<1> DEFINE E == [o \in Obj |-> StrongRefs[o] \ M]
           U == S \union (Alloc \ M)
           V == Closure(S, E, U)
<1>0. Visited(S, M) = V
  BY DEF Visited
<1>1. refs \in [Obj -> SUBSET Obj] /\ Alloc \subseteq Obj /\ \A x \in Obj : refs[x] \subseteq Alloc
  BY HeldAlive DEF IInv, Types, HeapInv, EdgesAlive
<1>2. S \subseteq V
  BY ClosureContains
<1>3. V \subseteq U
  BY DEF Closure
<1>4. ASSUME NEW x \in V \ WeakTables PROVE refs[x] \subseteq V \union M
  <2>1. x \in Obj
    BY <1>1, <1>3
  <2>2. E[x] = refs[x] \ M
    BY <1>1, <1>4, <2>1 DEF StrongRefs, Cut
  <2>3. E[x] \subseteq U
    BY <2>2, <1>1, <2>1
  <2> HIDE DEF E, U
  <2>4. E[x] \subseteq V
    BY <2>3, <1>4, ClosureClosed
  <2> QED
    BY <2>2, <2>4
<1> HIDE DEF V
<1> QED
  BY <1>0, <1>2, <1>3, <1>4

(* separatetobefnz and the lists it changes.                               *)
LEMMA SeparatedFacts ==
  ASSUME ListsAreLists, NEW M, NEW limit
  PROVE  LET separated == Separated(M, limit)
         IN  /\ separated \in Seq(Obj)
             /\ ToSet(separated) = (ToSet(finobj) \ From(finobj, limit)) \ M
             /\ tobefnz \o separated \in Seq(Obj) /\ Distinct(tobefnz \o separated)
             /\ ToSet(tobefnz \o separated) = ToSet(tobefnz) \union ToSet(separated)
<1> DEFINE looked == Part(finobj, Head1(finobj), limit)
           separated == Separated(M, limit)
<1>1. /\ finobj \in Seq(Obj) /\ Distinct(finobj) /\ tobefnz \in Seq(Obj) /\ Distinct(tobefnz)
      /\ ToSet(finobj) \intersect ToSet(tobefnz) = {}
  BY DEF ListsAreLists
<1>2. looked = ToSet(finobj) \ From(finobj, limit)
  <2>1. From(finobj, Head1(finobj)) = ToSet(finobj)
    BY <1>1, Constants, HeadFacts
  <2>2. looked = From(finobj, Head1(finobj)) \ From(finobj, limit)
    BY <1>1, PartIs
  <2> QED
    BY <2>1, <2>2
<1>3. separated = Kept(finobj, looked \ M)
  BY DEF Separated
<1> HIDE DEF looked, separated
<1>4. /\ separated \in Seq(Obj) /\ ToSet(separated) = ToSet(finobj) \intersect (looked \ M)
      /\ Sublist(separated, finobj)
  BY <1>1, <1>3, KeptIsSublist
<1>5. Distinct(separated)
  BY <1>1, <1>4, SublistFacts
<1>6. ToSet(tobefnz) \intersect ToSet(separated) = {}
  BY <1>1, <1>4
<1>7. /\ tobefnz \o separated \in Seq(Obj) /\ Distinct(tobefnz \o separated)
      /\ ToSet(tobefnz \o separated) = ToSet(tobefnz) \union ToSet(separated)
  BY <1>1, <1>4, <1>5, <1>6, ConcatFacts
<1> QED
  BY <1>2, <1>4, <1>7 DEF separated

(* The lists and references that a collection leaves.                      *)
Swept ==
  /\ refs' \in [Obj -> SUBSET Obj]
  /\ \A x \in Obj : refs'[x] \subseteq refs[x] \intersect Alloc'
  /\ \A x \in Obj \ Alloc' : refs'[x] = {}
  /\ ListsAreLists'
  /\ {MainThread, Registry} \subseteq ToSet(allgc')
  /\ ToSet(finobj') \union ToSet(tobefnz') \subseteq ToSet(finobj) \union ToSet(tobefnz)

(* What the collection marked before it called for finalizers, and how the *)
(* contract's variables change with it.                                    *)
Separates(marked) ==
  /\ marked \subseteq Alloc /\ {MainThread, Registry} \subseteq marked
  /\ \A x \in marked : StrongRefs[x] \subseteq marked
  /\ ToSet(tobefnz) \subseteq ToSet(tobefnz')
  /\ ToSet(tobefnz') \ ToSet(tobefnz) \subseteq ToSet(finobj) \ marked
  /\ ToSet(finobj') = ToSet(finobj) \ ToSet(tobefnz')
  /\ Alloc' \subseteq Alloc
  /\ \A x \in Alloc' : x \notin WeakTables => refs'[x] = refs[x]
  /\ \A x \in Alloc' : refs[x] \ refs'[x] \subseteq Obj \ marked

(* Objects and references that survive: the marked ones, where the visited *)
(* ones among them hold nothing else.                                      *)
LEMMA SweepsWell ==
  ASSUME IInv, NEW dead, NEW separated \in Seq(Obj),
         ToSet(separated) \subseteq ToSet(finobj),
         tobefnz \o separated \in Seq(Obj), Distinct(tobefnz \o separated),
         ToSet(tobefnz \o separated) = ToSet(tobefnz) \union ToSet(separated),
         allgc' = Without(allgc, dead),
         finobj' = Without(finobj, ToSet(separated)),
         tobefnz' = tobefnz \o separated
  PROVE  /\ ListsAreLists'
         /\ ToSet(allgc') = ToSet(allgc) \ dead
         /\ ToSet(finobj') = ToSet(finobj) \ ToSet(separated)
         /\ ToSet(tobefnz') = ToSet(tobefnz) \union ToSet(separated)
         /\ ToSet(finobj') \union ToSet(tobefnz') = ToSet(finobj) \union ToSet(tobefnz)
<1>1. /\ finobj \in Seq(Obj) /\ Distinct(finobj) /\ allgc \in Seq(Obj) /\ Distinct(allgc)
  BY DEF IInv, ListInv, ListsAreLists
<1>2. /\ allgc' \in Seq(Obj) /\ Distinct(allgc') /\ ToSet(allgc') = ToSet(allgc) \ dead
  BY <1>1, WithoutFacts
<1>3. /\ finobj' \in Seq(Obj) /\ Distinct(finobj')
      /\ ToSet(finobj') = ToSet(finobj) \ ToSet(separated)
  BY <1>1, WithoutFacts
<1>4. /\ tobefnz' \in Seq(Obj) /\ Distinct(tobefnz')
      /\ ToSet(tobefnz') = ToSet(tobefnz) \union ToSet(separated)
  OBVIOUS
<1> QED
  BY <1>2, <1>3, <1>4 DEF IInv, ListInv, ListsAreLists

(* A full cycle frees what it did not mark, and no list, weak table or     *)
(* resurrected object refers to what it freed.                             *)
LEMMA FullCycleSweeps ==
  ASSUME IInv, FullCycle
  PROVE  Swept /\ \E marked : Separates(marked)
<1> DEFINE roots == {MainThread, Registry} \union ToSet(tobefnz)
           visited == Visited(roots, {})
           separated == Separated(visited, NULL)
           resurrected == Visited(ToSet(separated), visited)
           live == visited \union resurrected
<1>1. /\ refs' = Cut(Cleared(visited, visited, resurrected), Obj \ live)
      /\ allgc' = Without(allgc, Obj \ live)
      /\ finobj' = Without(finobj, ToSet(separated))
      /\ tobefnz' = tobefnz \o separated
  BY DEF FullCycle
<1>2. /\ Alloc \subseteq Obj /\ {MainThread, Registry} \subseteq Alloc
      /\ {MainThread, Registry} \subseteq ToSet(allgc)
      /\ ListsAreLists /\ refs \in [Obj -> SUBSET Obj]
      /\ \A x \in Obj : refs[x] \subseteq Alloc
  BY HeldAlive DEF IInv, ListInv, Types, KindsInPlace, Held, HeapInv, EdgesAlive
<1>3. roots \subseteq Alloc
  BY <1>2 DEF Alloc
<1> HIDE DEF roots
<1>4. /\ roots \subseteq visited /\ visited \subseteq Alloc
      /\ \A x \in visited \ WeakTables : refs[x] \subseteq visited
  <2>1. /\ roots \subseteq Visited(roots, {})
        /\ Visited(roots, {}) \subseteq roots \union (Alloc \ {})
        /\ \A x \in Visited(roots, {}) \ WeakTables : refs[x] \subseteq Visited(roots, {}) \union {}
    BY <1>3, VisitedFacts
  <2> QED
    BY <1>3, <2>1
<1> HIDE DEF visited
<1>5. /\ separated \in Seq(Obj)
      /\ ToSet(separated) = ToSet(finobj) \ visited
      /\ tobefnz \o separated \in Seq(Obj) /\ Distinct(tobefnz \o separated)
      /\ ToSet(tobefnz \o separated) = ToSet(tobefnz) \union ToSet(separated)
  <2>1. From(finobj, NULL) = {}
    BY <1>2, HeadFacts, Constants DEF ListsAreLists
  <2> QED
    BY <1>2, <2>1, SeparatedFacts
<1> HIDE DEF separated
<1>6. /\ ToSet(separated) \subseteq resurrected /\ resurrected \subseteq Alloc
      /\ \A x \in resurrected \ WeakTables : refs[x] \subseteq live
  <2>1. ToSet(separated) \subseteq Alloc
    BY <1>5 DEF Alloc
  <2>2. /\ ToSet(separated) \subseteq resurrected
        /\ resurrected \subseteq ToSet(separated) \union (Alloc \ visited)
        /\ \A x \in resurrected \ WeakTables : refs[x] \subseteq resurrected \union visited
    BY <2>1, VisitedFacts
  <2> QED
    BY <2>1, <2>2
<1> HIDE DEF resurrected
<1>7. live \subseteq Alloc /\ live \subseteq Obj
  BY <1>2, <1>4, <1>6
<1>8. /\ ListsAreLists'
      /\ ToSet(allgc') = ToSet(allgc) \ (Obj \ live)
      /\ ToSet(finobj') \union ToSet(tobefnz') = ToSet(finobj) \union ToSet(tobefnz)
  BY <1>1, <1>5, SweepsWell
<1>9. Alloc' = live
  <2>1. ToSet(finobj) \union ToSet(tobefnz) \subseteq live
    BY <1>4, <1>5, <1>6 DEF roots
  <2>2. ToSet(allgc) \subseteq Obj
    BY <1>2 DEF Alloc
  <2> QED
    BY <1>7, <1>8, <2>1, <2>2 DEF Alloc
<1>10. ASSUME NEW x \in Obj
       PROVE  /\ refs'[x] \subseteq refs[x] \intersect live
              /\ x \notin live => refs'[x] = {}
  <2>1. CASE x \notin live
    BY <1>1, <2>1 DEF Cut, Cleared
  <2>2. CASE x \in live /\ x \notin WeakTables
    <3>1. refs'[x] = refs[x]
      BY <1>1, <2>2 DEF Cut, Cleared
    <3> QED
      BY <2>2, <3>1, <1>4, <1>6
  <2>3. CASE x \in live /\ x \in WeakTables
    <3>1. \/ refs'[x] = refs[x] \intersect visited
          \/ refs'[x] = refs[x] \intersect (visited \union resurrected)
      BY <1>1, <2>3 DEF Cut, Cleared
    <3> QED
      BY <2>3, <3>1
  <2> QED
    BY <2>1, <2>2, <2>3
<1>11. refs' \in [Obj -> SUBSET Obj]
  <2>1. refs' = [x \in Obj |-> refs'[x]]
    BY <1>1 DEF Cut, Cleared
  <2>2. \A x \in Obj : refs'[x] \in SUBSET Obj
    BY <1>7, <1>10
  <2> QED
    BY <2>1, <2>2
<1>12. {MainThread, Registry} \subseteq ToSet(allgc')
  BY <1>2, <1>4, <1>8 DEF roots
<1>13. Swept
  <2> HIDE DEF live
  <2> QED
    BY <1>8, <1>9, <1>10, <1>11, <1>12 DEF Swept
<1>14. ASSUME NEW x \in live
       PROVE  /\ x \notin WeakTables => refs'[x] = refs[x]
              /\ refs[x] \ refs'[x] \subseteq Obj \ visited
  <2>1. x \in Obj /\ refs[x] \subseteq Obj
    BY <1>2, <1>7
  <2>2. \/ x \notin WeakTables /\ refs'[x] = refs[x]
        \/ refs'[x] = refs[x] \intersect visited
        \/ refs'[x] = refs[x] \intersect (visited \union resurrected)
        \/ refs'[x] = refs[x]
    BY <1>1, <1>14, <2>1 DEF Cut, Cleared
  <2>3. x \notin WeakTables => refs'[x] = refs[x]
    BY <1>1, <1>14, <2>1 DEF Cut, Cleared
  <2> QED
    BY <2>1, <2>2, <2>3
<1>15. /\ ToSet(tobefnz') = ToSet(tobefnz) \union ToSet(separated)
       /\ ToSet(finobj') = ToSet(finobj) \ ToSet(separated)
  BY <1>1, <1>5, SweepsWell
<1>16. ToSet(finobj') = ToSet(finobj) \ ToSet(tobefnz')
  BY <1>2, <1>15 DEF ListsAreLists
<1>17. \A x \in visited : StrongRefs[x] \subseteq visited
  BY <1>2, <1>4, Constants DEF StrongRefs, Cut
<1>18. Separates(visited)
  <2> HIDE DEF live
  <2> QED
    BY <1>4, <1>5, <1>7, <1>9, <1>14, <1>15, <1>16, <1>17 DEF Separates, roots
<1> QED
  BY <1>13, <1>18

(* After atomic2gen everything is old.                                     *)
LEMMA atomic2genEstablishes ==
  ASSUME IInv, Swept, atomic2gen, Generational', stage' \in Stages, UNCHANGED finalizing
  PROVE  IInv'
<1> DEFINE threads == Alloc' \intersect Threads
<1>1. /\ age' = [o \in Obj |-> IF o \in Alloc' THEN "old" ELSE "new"]
      /\ color' = [o \in Obj |-> IF o \in threads THEN "gray"
                                 ELSE IF o \in Alloc' THEN "black" ELSE "white"]
      /\ gray' = {} /\ grayagain' = threads
      /\ p' = AllOld(allgc', finobj')
  BY DEF atomic2gen
<1>2. /\ refs' \in [Obj -> SUBSET Obj]
      /\ \A x \in Obj : refs'[x] \subseteq refs[x] \intersect Alloc'
      /\ \A x \in Obj \ Alloc' : refs'[x] = {}
      /\ ListsAreLists'
      /\ {MainThread, Registry} \subseteq ToSet(allgc')
      /\ ToSet(finobj') \union ToSet(tobefnz') \subseteq ToSet(finobj) \union ToSet(tobefnz)
  BY DEF Swept
<1>3. /\ allgc' \in Seq(Obj) /\ Distinct(allgc') /\ finobj' \in Seq(Obj) /\ Distinct(finobj')
      /\ ToSet(allgc') \subseteq Alloc' /\ ToSet(finobj') \subseteq Alloc' /\ Alloc' \subseteq Obj
  BY <1>2, ToSetIs DEF ListsAreLists, Alloc
<1>4. \A x \in Alloc' : /\ age'[x] = "old"
                        /\ color'[x] = IF x \in Threads THEN "gray" ELSE "black"
  BY <1>1, <1>3
<1>5. \A x \in Obj \ Alloc' : age'[x] = "new" /\ color'[x] = "white"
  BY <1>1
<1>6. Types'
  BY <1>1, <1>2 DEF IInv, Types, Colors, Ages
<1>7. HeapInv'
  <2>1. FreeIsClean' /\ EdgesAlive' /\ NoAges'
    BY <1>2, <1>5 DEF FreeIsClean, EdgesAlive, NoAges
  <2>2. MarksFitAges'
    BY <1>1, <1>3, <1>4, <1>5 DEF MarksFitAges, isold
  <2>3. YoungAreWhite'
    BY <1>4, <1>5 DEF YoungAreWhite, isold
  <2>4. BlackIsDone'
    BY <1>4 DEF BlackIsDone
  <2>5. OldHoldsNoYoung'
    BY <1>4 DEF OldHoldsNoYoung, isold
  <2>6. GrayAreGray'
    BY <1>1 DEF GrayAreGray
  <2> QED
    BY <2>1, <2>2, <2>3, <2>4, <2>5, <2>6 DEF HeapInv
<1>8. /\ From(allgc', Head1(allgc')) = ToSet(allgc')
      /\ Head1(allgc') \in {NULL} \union ToSet(allgc')
      /\ From(finobj', Head1(finobj')) = ToSet(finobj')
      /\ Head1(finobj') \in {NULL} \union ToSet(finobj')
  BY <1>3, Constants, HeadFacts
<1>9. /\ p' \in [Pointers -> {NULL} \union Obj]
      /\ p'.survival = Head1(allgc') /\ p'.old1 = Head1(allgc') /\ p'.reallyold = Head1(allgc')
      /\ p'.finobjsur = Head1(finobj') /\ p'.finobjold1 = Head1(finobj')
      /\ p'.finobjrold = Head1(finobj') /\ p'.firstold1 = NULL
  BY <1>1, <1>3, <1>8 DEF AllOld, Pointers
<1>10. PointersInLists'
  BY <1>8, <1>9 DEF PointersInLists, AllgcPointers, FinobjPointers
<1>11. Borders'
  <2>1. OldEnoughFrom(allgc, p.survival, p.old1, p.reallyold)'
    BY <1>3, <1>4, <1>8, <1>9 DEF OldEnoughFrom, isold
  <2>2. OldEnoughFrom(finobj, p.finobjsur, p.finobjold1, p.finobjrold)'
    BY <1>3, <1>4, <1>8, <1>9 DEF OldEnoughFrom, isold
  <2> QED
    BY <1>3, <1>4, <2>1, <2>2 DEF Borders
<1>12. KindsInPlace'
  BY <1>2 DEF IInv, KindsInPlace
<1> QED
  BY <1>2, <1>6, <1>7, <1>10, <1>11, <1>12 DEF IInv, ListInv

(* In the middle of a full collection everything is white.                 *)
LEMMA AllWhiteEstablishes ==
  ASSUME IInv, Swept, AllWhite, ~Generational', stage' \in Stages, UNCHANGED finalizing
  PROVE  IInv'
<1>1. /\ color' = [o \in Obj |-> "white"] /\ age' = [o \in Obj |-> "new"]
      /\ p' = [NoPointers EXCEPT !.firstold1 = p.firstold1]
      /\ gray' = {} /\ grayagain' = {}
  BY DEF AllWhite
<1>2. /\ refs' \in [Obj -> SUBSET Obj]
      /\ \A x \in Obj : refs'[x] \subseteq refs[x] \intersect Alloc'
      /\ \A x \in Obj \ Alloc' : refs'[x] = {}
      /\ ListsAreLists'
      /\ {MainThread, Registry} \subseteq ToSet(allgc')
      /\ ToSet(finobj') \union ToSet(tobefnz') \subseteq ToSet(finobj) \union ToSet(tobefnz)
  BY DEF Swept
<1>3. Types'
  BY <1>1, <1>2 DEF IInv, Types, Colors, Ages
<1>4. HeapInv'
  BY <1>1, <1>2 DEF HeapInv, FreeIsClean, EdgesAlive, NoAges, MarksFitAges, YoungAreWhite,
                    BlackIsDone, OldHoldsNoYoung, GrayAreGray
<1>5. PointersInLists'
  <2>1. p \in [Pointers -> {NULL} \union Obj]
    BY DEF IInv, ListInv, PointersInLists
  <2>2. /\ p' \in [Pointers -> {NULL} \union Obj]
        /\ \A q \in AllgcPointers \union FinobjPointers : p'[q] = NULL
    BY <1>1, <2>1 DEF NoPointers, Pointers, AllgcPointers, FinobjPointers
  <2> QED
    BY <2>2 DEF PointersInLists
<1>6. Borders'
  BY DEF Borders
<1>7. KindsInPlace'
  BY <1>2 DEF IInv, KindsInPlace
<1> QED
  BY <1>2, <1>3, <1>4, <1>5, <1>6, <1>7 DEF IInv, ListInv

(* minor2inc, up to the finalizers of entergen.                            *)
LEMMA StartFullPreserves ==
  ASSUME IInv, StartFull
  PROVE  IInv'
<1>1. /\ AllWhite /\ refs' = refs /\ allgc' = allgc /\ finobj' = finobj /\ tobefnz' = tobefnz
      /\ finalizing' = finalizing /\ ~Generational' /\ stage' \in Stages
  BY DEF StartFull, lists, Generational, Stages
<1>2. Alloc' = Alloc
  BY <1>1 DEF Alloc
<1>3. Swept
  BY <1>1, <1>2 DEF Swept, IInv, Types, HeapInv, EdgesAlive, FreeIsClean, ListInv,
                    ListsAreLists, KindsInPlace
<1> QED
  BY <1>1, <1>3, AllWhiteEstablishes

(* The cycle of entergen, with atomic2gen.                                 *)
LEMMA EndFullPreserves ==
  ASSUME IInv, EndFull
  PROVE  IInv'
<1>1. /\ FullCycle /\ atomic2gen /\ UNCHANGED finalizing
      /\ Generational' /\ stage' \in Stages
  BY DEF EndFull, Generational, Stages
<1> QED
  BY <1>1, FullCycleSweeps, atomic2genEstablishes

(* luaC_fullgc for a failed allocation, in either mode.                    *)
LEMMA EmergencyPreserves ==
  ASSUME IInv, Emergency
  PROVE  IInv'
<1>1. FullCycle /\ UNCHANGED finalizing /\ Swept
  BY FullCycleSweeps DEF Emergency
<1>2. CASE stage \in {"minor", "finish"} /\ atomic2gen /\ stage' = stage
  <2>1. Generational' /\ stage' \in Stages
    BY <1>2 DEF Generational, Stages
  <2> QED
    BY <1>1, <1>2, <2>1, atomic2genEstablishes
<1>3. CASE AllWhite /\ stage' = "pause"
  <2>1. ~Generational' /\ stage' \in Stages
    BY <1>3 DEF Generational, Stages
  <2> QED
    BY <1>1, <1>3, <2>1, AllWhiteEstablishes
<1> QED
  BY <1>2, <1>3 DEF Emergency

-----------------------------------------------------------------------------
(* Young collections                                                       *)

(* markold finds the 'old1' objects, and no others.                        *)
LEMMA OldOnesFacts ==
  ASSUME IInv, Generational
  PROVE  Old1 = {o \in Alloc : age[o] = "old1"}
<1>0. Borders /\ ListsAreLists
  BY DEF IInv, ListInv
<1>1. /\ allgc \in Seq(Obj) /\ Distinct(allgc) /\ finobj \in Seq(Obj) /\ Distinct(finobj)
  BY <1>0 DEF ListsAreLists
<1>2. /\ Part(allgc, p.firstold1, p.reallyold)
           = From(allgc, p.firstold1) \ From(allgc, p.reallyold)
      /\ Part(finobj, Head1(finobj), p.finobjrold)
           = From(finobj, Head1(finobj)) \ From(finobj, p.finobjrold)
      /\ From(finobj, Head1(finobj)) = ToSet(finobj)
      /\ From(allgc, p.firstold1) \subseteq ToSet(allgc)
  BY <1>1, PartIs, HeadFacts, FromFacts, Constants
<1>3. /\ \A o \in ToSet(allgc) : age[o] = "old1" => o \in From(allgc, p.firstold1)
      /\ \A o \in From(allgc, p.reallyold) : age[o] \in {"old", "touched1", "touched2"}
      /\ \A o \in From(finobj, p.finobjrold) : age[o] \in {"old", "touched1", "touched2"}
  BY <1>0 DEF Borders, OldEnoughFrom
<1> QED
  BY <1>2, <1>3 DEF Old1, Alloc

(* What a young collection starts from is enough: a marked object that is  *)
(* not visited again is black, no thread, and holds marked objects only.   *)
LEMMA YoungFacts ==
  ASSUME IInv, stage = "minor"
  PROVE  /\ Old1 = {o \in Alloc : age[o] = "old1"}
         /\ NonWhite \subseteq Alloc /\ YoungRoots \subseteq Alloc
         /\ gray \union grayagain \subseteq YoungRoots
         /\ {MainThread, Registry} \subseteq NonWhite \union YoungRoots
         /\ \A x \in NonWhite \ YoungRoots :
              /\ x \notin Threads /\ color[x] = "black" /\ age[x] \in {"old", "old0"}
              /\ refs[x] \subseteq NonWhite
<1>0. /\ Generational /\ Alloc \subseteq Obj /\ {MainThread, Registry} \subseteq Alloc
      /\ Types /\ ListsAreLists /\ Borders /\ HeapInv
  BY HeldAlive DEF IInv, ListInv, Generational, Held
<1>1. Old1 = {o \in Alloc : age[o] = "old1"}
  BY <1>0, OldOnesFacts
<1>2. NonWhite \subseteq Alloc
  BY <1>0 DEF HeapInv, FreeIsClean, NonWhite, IsWhite
<1>3. gray \union grayagain = {o \in Alloc : color[o] = "gray" \/ age[o] = "touched2"}
  BY <1>0 DEF HeapInv, MarksFitAges
<1>4. YoungRoots \subseteq Alloc /\ gray \union grayagain \subseteq YoungRoots
  BY <1>0, <1>1, <1>3 DEF YoungRoots
<1>5. {MainThread, Registry} \subseteq NonWhite \union YoungRoots
  BY DEF YoungRoots
<1>6. ASSUME NEW x \in NonWhite \ YoungRoots
      PROVE  /\ x \notin Threads /\ color[x] = "black" /\ age[x] \in {"old", "old0"}
             /\ refs[x] \subseteq NonWhite
  <2>1. x \in Alloc /\ x \in Obj /\ color[x] # "white" /\ isold(age[x]) /\ age[x] \in Ages
    BY <1>0, <1>2 DEF HeapInv, YoungAreWhite, NonWhite, IsWhite, Types
  <2>2. color[x] # "gray" /\ age[x] # "touched2"
    BY <1>3, <1>4, <2>1
  <2>3. color[x] = "black" /\ age[x] # "touched1"
    BY <1>0, <2>1, <2>2 DEF HeapInv, MarksFitAges
  <2>4. age[x] # "old1"
    BY <1>1, <2>1, <2>3 DEF YoungRoots
  <2>5. age[x] \in {"old", "old0"}
    BY <2>1, <2>2, <2>3, <2>4 DEF Ages, isold
  <2>6. x \notin Threads /\ (age[x] = "old0" => refs[x] \subseteq NonWhite)
    BY <1>0, <2>1, <2>3, <2>4 DEF HeapInv, BlackIsDone
  <2>7. age[x] = "old" => refs[x] \subseteq NonWhite
    <3> SUFFICES ASSUME age[x] = "old", NEW v \in refs[x] PROVE v \in NonWhite
      OBVIOUS
    <3>1. v \in Alloc /\ v \in Obj
      BY <1>0, <2>1 DEF HeapInv, EdgesAlive
    <3>2. isold(age[v])
      BY <1>0, <2>1, <2>6, <3>1 DEF HeapInv, OldHoldsNoYoung
    <3> QED
      BY <1>0, <3>1, <3>2 DEF HeapInv, YoungAreWhite, NonWhite, IsWhite
  <2> QED
    BY <2>3, <2>5, <2>6, <2>7
<1> QED
  BY <1>1, <1>2, <1>4, <1>5, <1>6

(* The age after a young collection of an object that survives it.         *)
OlderAge(a) ==
  CASE a = "new" -> "survival"
    [] a \in {"survival", "old0"} -> "old1"
    [] a = "touched1" -> "touched2"
    [] OTHER -> "old"

(* The marks that a young collection leaves.                               *)
Aged ==
  /\ NonWhite \subseteq Alloc'
  /\ age' \in [Obj -> Ages] /\ color' \in [Obj -> Colors]
  /\ \A x \in Alloc' :
       /\ age'[x] = OlderAge(age[x])
       /\ color'[x] = IF age[x] = "new" THEN "white"
                      ELSE IF x \in Threads /\ isold(age[x]) THEN "gray" ELSE "black"
  /\ \A x \in Obj \ Alloc' : age'[x] = "new" /\ color'[x] = "white"
  /\ gray' = {}
  /\ grayagain' = {x \in Alloc' : (x \in Threads /\ isold(age[x])) \/ age[x] = "touched1"}

(* With the marks that sweepgen and correctgraylists leave, the heap       *)
(* satisfies its invariant again.                                          *)
LEMMA AgedHeap ==
  ASSUME IInv, Swept, Aged, Generational, Generational'
  PROVE  HeapInv'
<1>1. /\ \A x \in Obj : refs'[x] \subseteq refs[x] \intersect Alloc'
      /\ \A x \in Obj \ Alloc' : refs'[x] = {}
      /\ Alloc' \subseteq Obj
  BY ToSetIs DEF Swept, ListsAreLists, Alloc
<1>2. Types /\ HeapInv /\ Alloc \subseteq Obj
  BY HeldAlive DEF IInv
<1>3. \A x \in Alloc' : age[x] \in Ages
  BY <1>1, <1>2 DEF Types
<1>4. FreeIsClean' /\ EdgesAlive' /\ NoAges'
  BY <1>1 DEF Aged, FreeIsClean, EdgesAlive, NoAges
<1>5. YoungAreWhite'
  BY <1>3 DEF Aged, YoungAreWhite, OlderAge, isold, Ages
<1>6. MarksFitAges'
  BY <1>3 DEF Aged, MarksFitAges, OlderAge, isold, Ages
<1>7. BlackIsDone'
  BY <1>3 DEF Aged, BlackIsDone, OlderAge, isold, Ages
<1>8. OldHoldsNoYoung'
  <2> SUFFICES ASSUME NEW x \in Alloc' \ Threads, NEW v \in Alloc', v \in refs'[x]
               PROVE  /\ age'[x] = "old" => isold(age'[v])
                      /\ age'[x] \in {"old1", "touched2"} => age'[v] # "new"
    BY DEF OldHoldsNoYoung
  <2>1. v \in refs[x] /\ v \in Obj /\ x \in Obj
    BY <1>1
  <2>2. x \in Alloc /\ v \in Alloc
    BY <1>2, <2>1 DEF HeapInv, FreeIsClean, EdgesAlive
  <2>3. age[x] \in {"old", "old1", "touched2"} => age[v] # "new"
    BY <1>2, <2>1, <2>2 DEF HeapInv, OldHoldsNoYoung, isold
  <2>4. age'[v] # "new" /\ (age[v] # "new" => isold(age'[v]))
    BY <1>3 DEF Aged, OlderAge, isold, Ages
  <2>5. age'[x] = "old" => age[x] \in {"old", "old1", "touched2"}
    BY <1>3 DEF Aged, OlderAge, Ages
  <2> QED
    BY <2>3, <2>4, <2>5
<1>9. GrayAreGray'
  BY DEF Aged, GrayAreGray
<1> QED
  BY <1>4, <1>5, <1>6, <1>7, <1>8, <1>9 DEF HeapInv

(* The pointers of a list after a young collection: what was behind the    *)
(* border of an age is behind the border of the next one.                  *)
LEMMA YoungBorders ==
  ASSUME NEW list \in Seq(Obj), Distinct(list), NEW dead,
         NEW sur, NEW old1, NEW rold,
         OldEnoughFrom(list, sur, old1, rold),
         old1 \in {NULL} \union ToSet(list), old1 \notin dead \intersect ToSet(list),
         \A x \in ToSet(list) \ dead : age[x] \in Ages /\ age'[x] = OlderAge(age[x])
  PROVE  LET left == Without(list, dead)
             moved == FirstOutside(list, sur, dead)
         IN  /\ From(left, old1) \subseteq From(left, moved)
             /\ From(left, moved) \subseteq From(left, Head1(left))
             /\ \A x \in From(left, Head1(left)) : age'[x] # "new"
             /\ \A x \in From(left, moved) : isold(age'[x]) /\ age'[x] # "old0"
             /\ \A x \in From(left, old1) : age'[x] \in {"old", "touched1", "touched2"}
             /\ {Head1(left), moved, old1} \subseteq {NULL} \union ToSet(left)
<1> DEFINE left == Without(list, dead)
           moved == FirstOutside(list, sur, dead)
<1>1. /\ left \in Seq(Obj) /\ Distinct(left) /\ ToSet(left) = ToSet(list) \ dead
      /\ \A q : q \notin dead \/ q \notin ToSet(list) => From(left, q) = From(list, q) \ dead
  BY WithoutFacts
<1>2. /\ moved \in {NULL} \union ToSet(left)
      /\ From(left, moved) = From(list, sur) \ dead
  BY <1>1, Constants, FirstOutsideFacts
<1>3. From(left, old1) = From(list, old1) \ dead
  BY <1>1
<1> HIDE DEF left, moved
<1>4. From(left, Head1(left)) = ToSet(left) /\ Head1(left) \in {NULL} \union ToSet(left)
  BY <1>1, Constants, HeadFacts
<1>5. \A q : From(list, q) \subseteq ToSet(list)
  BY FromFacts
<1>6. /\ From(list, old1) \subseteq From(list, sur)
      /\ \A x \in From(list, sur) : age[x] # "new"
      /\ \A x \in From(list, old1) : isold(age[x]) /\ age[x] # "old0"
  BY DEF OldEnoughFrom
<1>7. ASSUME NEW x \in ToSet(left)
      PROVE  /\ age'[x] # "new"
             /\ age[x] # "new" => isold(age'[x]) /\ age'[x] # "old0"
             /\ isold(age[x]) /\ age[x] # "old0" => age'[x] \in {"old", "touched1", "touched2"}
  <2>1. age[x] \in Ages /\ age'[x] = OlderAge(age[x])
    BY <1>1
  <2> QED
    BY <2>1 DEF OlderAge, isold, Ages
<1>8. From(left, old1) \subseteq From(left, moved) /\ From(left, moved) \subseteq ToSet(left)
  BY <1>1, <1>2, <1>3, <1>5, <1>6
<1>9. \A x \in From(left, moved) : isold(age'[x]) /\ age'[x] # "old0"
  BY <1>2, <1>6, <1>7, <1>8
<1>10. \A x \in From(left, old1) : age'[x] \in {"old", "touched1", "touched2"}
  BY <1>3, <1>6, <1>7, <1>8
<1>11. old1 \in {NULL} \union ToSet(left)
  BY <1>1
<1> QED
  BY <1>2, <1>4, <1>7, <1>8, <1>9, <1>10, <1>11 DEF left, moved

(* What a young collection frees and where the rest goes, and the marks    *)
(* and the pointers it leaves.                                             *)
YoungPointers ==
  LET dead == Alloc \ Alloc'
      separated == ToSet(finobj) \ ToSet(finobj')
  IN  /\ allgc' = Without(allgc, dead)
      /\ finobj' = Without(finobj, separated)
      /\ p' = [survival   |-> Head1(allgc'),
               old1       |-> FirstOutside(allgc, p.survival, dead),
               reallyold  |-> p.old1,
               firstold1  |-> p'.firstold1,
               finobjsur  |-> Head1(finobj'),
               finobjold1 |-> FirstOutside(finobj, p.finobjsur, separated),
               finobjrold |-> p.finobjold1]
      /\ p'.firstold1 \in {NULL} \union ToSet(allgc')
      /\ \A x \in ToSet(allgc') : age'[x] = "old1" => x \in From(allgc', p'.firstold1)

(* The pointers that youngcollection leaves cut the lists by age again.    *)
LEMMA YoungLists ==
  ASSUME IInv, Swept, Aged, YoungPointers, Generational, Generational',
         From(finobj, p.finobjold1) \subseteq ToSet(finobj')
  PROVE  PointersInLists' /\ Borders'
<1> DEFINE dead == Alloc \ Alloc'
           separated == ToSet(finobj) \ ToSet(finobj')
<1>1. /\ allgc' = Without(allgc, dead) /\ finobj' = Without(finobj, separated)
      /\ p'.survival = Head1(allgc')
      /\ p'.old1 = FirstOutside(allgc, p.survival, dead)
      /\ p'.reallyold = p.old1
      /\ p'.finobjsur = Head1(finobj')
      /\ p'.finobjold1 = FirstOutside(finobj, p.finobjsur, separated)
      /\ p'.finobjrold = p.finobjold1
      /\ p'.firstold1 \in {NULL} \union ToSet(allgc')
      /\ \A x \in ToSet(allgc') : age'[x] = "old1" => x \in From(allgc', p'.firstold1)
      /\ DOMAIN p' = Pointers
      /\ p' = [q \in Pointers |-> p'[q]]
  BY DEF YoungPointers, Pointers
<1>2. /\ allgc \in Seq(Obj) /\ Distinct(allgc) /\ finobj \in Seq(Obj) /\ Distinct(finobj)
      /\ allgc' \in Seq(Obj) /\ finobj' \in Seq(Obj)
      /\ ToSet(allgc') \subseteq Obj /\ ToSet(finobj') \subseteq Obj
      /\ ToSet(allgc) \subseteq Alloc
  BY ToSetIs DEF IInv, ListInv, ListsAreLists, Swept, Alloc
<1>3. /\ OldEnoughFrom(allgc, p.survival, p.old1, p.reallyold)
      /\ OldEnoughFrom(finobj, p.finobjsur, p.finobjold1, p.finobjrold)
      /\ p.old1 \in {NULL} \union ToSet(allgc)
      /\ p.finobjold1 \in {NULL} \union ToSet(finobj)
  BY DEF IInv, ListInv, Borders, PointersInLists, AllgcPointers, FinobjPointers
<1>4. \A x \in ToSet(finobj') \union ToSet(allgc') : age[x] \in Ages /\ age'[x] = OlderAge(age[x])
  <2>1. \A x \in Alloc' : age'[x] = OlderAge(age[x])
    BY DEF Aged
  <2> QED
    BY <1>2, <2>1 DEF Alloc, IInv, Types
<1>5. /\ ToSet(allgc') = ToSet(allgc) \ dead
      /\ ToSet(finobj') = ToSet(finobj) \ separated
  BY <1>1, <1>2, WithoutFacts
<1> HIDE DEF dead, separated
<1>6. p.old1 \notin dead \intersect ToSet(allgc)
  <2> SUFFICES ASSUME p.old1 \in ToSet(allgc) PROVE p.old1 \notin dead
    OBVIOUS
  <2>1. p.old1 \in From(allgc, p.old1)
    BY <1>2, FromFacts
  <2>2. isold(age[p.old1]) /\ p.old1 \in Obj
    BY <1>2, <1>3, <2>1, HeldAlive DEF OldEnoughFrom, IInv
  <2>3. p.old1 \in NonWhite
    BY <2>2 DEF IInv, HeapInv, YoungAreWhite, NonWhite, IsWhite
  <2> QED
    BY <2>3 DEF Aged, dead
<1>7. p.finobjold1 \notin separated \intersect ToSet(finobj)
  <2> SUFFICES ASSUME p.finobjold1 \in ToSet(finobj) PROVE p.finobjold1 \notin separated
    OBVIOUS
  <2>1. p.finobjold1 \in From(finobj, p.finobjold1)
    BY <1>2, FromFacts
  <2> QED
    BY <2>1 DEF separated
<1>8. /\ From(allgc', p'.reallyold) \subseteq From(allgc', p'.old1)
      /\ From(allgc', p'.old1) \subseteq From(allgc', p'.survival)
      /\ \A x \in From(allgc', p'.survival) : age'[x] # "new"
      /\ \A x \in From(allgc', p'.old1) : isold(age'[x]) /\ age'[x] # "old0"
      /\ \A x \in From(allgc', p'.reallyold) : age'[x] \in {"old", "touched1", "touched2"}
      /\ {p'.survival, p'.old1, p'.reallyold} \subseteq {NULL} \union ToSet(allgc')
  <2>1. \A x \in ToSet(allgc) \ dead : age[x] \in Ages /\ age'[x] = OlderAge(age[x])
    BY <1>4, <1>5
  <2>2. /\ From(allgc', p.old1) \subseteq From(allgc', FirstOutside(allgc, p.survival, dead))
        /\ From(allgc', FirstOutside(allgc, p.survival, dead)) \subseteq From(allgc', Head1(allgc'))
        /\ \A x \in From(allgc', Head1(allgc')) : age'[x] # "new"
        /\ \A x \in From(allgc', FirstOutside(allgc, p.survival, dead)) :
             isold(age'[x]) /\ age'[x] # "old0"
        /\ \A x \in From(allgc', p.old1) : age'[x] \in {"old", "touched1", "touched2"}
        /\ {Head1(allgc'), FirstOutside(allgc, p.survival, dead), p.old1}
             \subseteq {NULL} \union ToSet(allgc')
    BY <1>1, <1>2, <1>3, <1>6, <2>1, YoungBorders
  <2> QED
    BY <1>1, <2>2
<1>9. /\ From(finobj', p'.finobjrold) \subseteq From(finobj', p'.finobjold1)
      /\ From(finobj', p'.finobjold1) \subseteq From(finobj', p'.finobjsur)
      /\ \A x \in From(finobj', p'.finobjsur) : age'[x] # "new"
      /\ \A x \in From(finobj', p'.finobjold1) : isold(age'[x]) /\ age'[x] # "old0"
      /\ \A x \in From(finobj', p'.finobjrold) : age'[x] \in {"old", "touched1", "touched2"}
      /\ {p'.finobjsur, p'.finobjold1, p'.finobjrold} \subseteq {NULL} \union ToSet(finobj')
  <2>1. \A x \in ToSet(finobj) \ separated : age[x] \in Ages /\ age'[x] = OlderAge(age[x])
    BY <1>4, <1>5
  <2>2. /\ From(finobj', p.finobjold1) \subseteq From(finobj', FirstOutside(finobj, p.finobjsur, separated))
        /\ From(finobj', FirstOutside(finobj, p.finobjsur, separated)) \subseteq From(finobj', Head1(finobj'))
        /\ \A x \in From(finobj', Head1(finobj')) : age'[x] # "new"
        /\ \A x \in From(finobj', FirstOutside(finobj, p.finobjsur, separated)) :
             isold(age'[x]) /\ age'[x] # "old0"
        /\ \A x \in From(finobj', p.finobjold1) : age'[x] \in {"old", "touched1", "touched2"}
        /\ {Head1(finobj'), FirstOutside(finobj, p.finobjsur, separated), p.finobjold1}
             \subseteq {NULL} \union ToSet(finobj')
    BY <1>1, <1>2, <1>3, <1>7, <2>1, YoungBorders
  <2> QED
    BY <1>1, <2>2
<1>10. Borders'
  BY <1>1, <1>8, <1>9 DEF Borders, OldEnoughFrom
<1>11. \A q \in Pointers : p'[q] \in {NULL} \union Obj
  BY <1>1, <1>2, <1>8, <1>9 DEF Pointers
<1>12. p' \in [Pointers -> {NULL} \union Obj]
  BY <1>1, <1>11
<1> QED
  BY <1>1, <1>8, <1>9, <1>10, <1>12 DEF PointersInLists, AllgcPointers, FinobjPointers

(* What youngcollection leaves: every object that survives, each one age   *)
(* older, and the pointers one list part further.                          *)
LEMMA YoungSweeps ==
  ASSUME IInv, YoungCollection
  PROVE  /\ Swept /\ Aged /\ YoungPointers
         /\ From(finobj, p.finobjold1) \subseteq ToSet(finobj')
         /\ \E m : Separates(m)
<1> DEFINE visited == Visited(YoungRoots, NonWhite)
           marked == NonWhite \union visited
           separated == Separated(marked, p.finobjold1)
           pending == ToSet(tobefnz \o separated)
           resurrected == Visited(pending \ marked, marked)
           seen == visited \union resurrected
           live == marked \union resurrected
           dead == Alloc \ (NonWhite \union seen)
           fin == Without(finobj, ToSet(separated))
           swept == (Part(allgc, Head1(allgc), p.old1) \ dead)
                      \union Part(fin, Head1(fin), p.finobjold1)
                      \union pending
           white == dead \union {o \in swept : age[o] = "new"}
           aged == [o \in Obj |-> IF o \in Old1 THEN "old"
                                  ELSE IF o \in seen THEN CorrectedAge(age[o])
                                  ELSE age[o]]
           watched == {o \in seen \intersect Threads : isold(aged[o])}
           first == {o \in swept : NextAge(aged[o]) = "old1"}
<1>0. /\ stage = "minor" /\ stage' = "finish" /\ finalizing' = finalizing
      /\ Generational /\ Generational' /\ stage' \in Stages
  BY DEF YoungCollection, Generational, Stages
<1>1. /\ refs' = Cut(Cleared(visited, marked, resurrected), Obj \ live)
      /\ age' = [o \in Obj |-> IF o \in dead THEN "new"
                               ELSE IF o \in swept THEN NextAge(aged[o])
                               ELSE aged[o]]
      /\ color' = [o \in Obj |-> IF o \in white THEN "white"
                                 ELSE IF o \in watched THEN "gray"
                                 ELSE IF o \in seen THEN "black"
                                 ELSE color[o]]
      /\ gray' = {}
      /\ grayagain' = watched \union {o \in seen : age[o] = "touched1"}
      /\ allgc' = Without(allgc, dead)
      /\ finobj' = fin
      /\ tobefnz' = tobefnz \o separated
      /\ p' = [survival   |-> Head1(allgc'),
               old1       |-> FirstOutside(allgc, p.survival, dead),
               reallyold  |-> p.old1,
               firstold1  |-> Head1(Kept(allgc', first)),
               finobjsur  |-> Head1(fin),
               finobjold1 |-> FirstOutside(finobj, p.finobjsur, ToSet(separated)),
               finobjrold |-> p.finobjold1]
  BY DEF YoungCollection, SweepYoung
<1>2. /\ Alloc \subseteq Obj /\ Types /\ ListsAreLists /\ Borders /\ HeapInv
      /\ {MainThread, Registry} \subseteq ToSet(allgc)
      /\ finobj \in Seq(Obj) /\ Distinct(finobj) /\ allgc \in Seq(Obj) /\ Distinct(allgc)
  BY HeldAlive DEF IInv, ListInv, KindsInPlace, ListsAreLists
<1>3. /\ Old1 = {o \in Alloc : age[o] = "old1"}
      /\ NonWhite \subseteq Alloc /\ YoungRoots \subseteq Alloc
      /\ gray \union grayagain \subseteq YoungRoots
      /\ {MainThread, Registry} \subseteq NonWhite \union YoungRoots
      /\ \A x \in NonWhite \ YoungRoots :
           /\ x \notin Threads /\ color[x] = "black" /\ age[x] \in {"old", "old0"}
           /\ refs[x] \subseteq NonWhite
  BY <1>0, YoungFacts
(* What is live. *)
<1>4. /\ YoungRoots \subseteq visited /\ visited \subseteq Alloc
      /\ \A x \in visited \ WeakTables : refs[x] \subseteq marked
  <2>1. /\ YoungRoots \subseteq Visited(YoungRoots, NonWhite)
        /\ Visited(YoungRoots, NonWhite) \subseteq YoungRoots \union (Alloc \ NonWhite)
        /\ \A x \in Visited(YoungRoots, NonWhite) \ WeakTables :
             refs[x] \subseteq Visited(YoungRoots, NonWhite) \union NonWhite
    BY <1>3, VisitedFacts
  <2> QED
    BY <1>3, <2>1
<1> HIDE DEF visited
<1>5. /\ separated \in Seq(Obj)
      /\ ToSet(separated) = (ToSet(finobj) \ From(finobj, p.finobjold1)) \ marked
      /\ tobefnz \o separated \in Seq(Obj) /\ Distinct(tobefnz \o separated)
      /\ pending = ToSet(tobefnz) \union ToSet(separated)
  BY <1>2, SeparatedFacts
<1> HIDE DEF separated
<1>6. pending \subseteq Alloc /\ pending \subseteq live /\ resurrected \subseteq Alloc
      /\ \A x \in resurrected \ WeakTables : refs[x] \subseteq live
  <2>1. pending \subseteq Alloc
    BY <1>5 DEF Alloc
  <2> DEFINE S == pending \ marked
  <2>2. S \subseteq Alloc
    BY <2>1
  <2> HIDE DEF S, pending, marked
  <2>3. /\ S \subseteq Visited(S, marked)
        /\ Visited(S, marked) \subseteq S \union (Alloc \ marked)
        /\ \A x \in Visited(S, marked) \ WeakTables : refs[x] \subseteq Visited(S, marked) \union marked
    BY <2>2, VisitedFacts
  <2>4. resurrected = Visited(S, marked)
    BY DEF S
  <2> HIDE DEF resurrected
  <2> QED
    BY <2>1, <2>2, <2>3, <2>4 DEF S
<1> HIDE DEF resurrected, pending
<1>7. live \subseteq Alloc /\ live \subseteq Obj /\ live = NonWhite \union seen
      /\ dead = Alloc \ live
  BY <1>2, <1>3, <1>4, <1>6
<1>8. From(finobj, p.finobjold1) \subseteq NonWhite
  <2>1. \A x \in From(finobj, p.finobjold1) : isold(age[x]) /\ x \in Obj
    BY <1>0, <1>2, FromFacts, ToSetIs DEF Borders, OldEnoughFrom
  <2> QED
    BY <1>0, <1>2, <2>1 DEF HeapInv, YoungAreWhite, NonWhite, IsWhite
<1>9. /\ ListsAreLists'
      /\ ToSet(allgc') = ToSet(allgc) \ dead
      /\ ToSet(finobj') = ToSet(finobj) \ ToSet(separated)
      /\ ToSet(tobefnz') = pending
      /\ ToSet(finobj') \union ToSet(tobefnz') = ToSet(finobj) \union ToSet(tobefnz)
  <2>1. ToSet(separated) \subseteq ToSet(finobj)
    BY <1>5
  <2>2. tobefnz' = tobefnz \o separated /\ finobj' = Without(finobj, ToSet(separated))
        /\ allgc' = Without(allgc, dead)
    BY <1>1
  <2>3. ToSet(tobefnz \o separated) = ToSet(tobefnz) \union ToSet(separated)
    BY <1>5 DEF pending
  <2> HIDE DEF dead
  <2> QED
    BY <1>5, <2>1, <2>2, <2>3, SweepsWell
<1>10. Alloc' = live
  <2>1. ToSet(finobj') \subseteq live
    BY <1>5, <1>8, <1>9
  <2>2. ToSet(tobefnz') \subseteq live
    BY <1>6, <1>9
  <2>3. live \subseteq ToSet(allgc') \union ToSet(finobj') \union ToSet(tobefnz')
    BY <1>7, <1>9 DEF Alloc
  <2>4. ToSet(allgc') \subseteq live
    BY <1>7, <1>9 DEF Alloc
  <2> QED
    BY <2>1, <2>2, <2>3, <2>4 DEF Alloc
<1>11. ASSUME NEW x \in Obj
       PROVE  /\ refs'[x] \subseteq refs[x] \intersect live
              /\ x \notin live => refs'[x] = {}
  <2>1. CASE x \notin live
    BY <1>1, <2>1 DEF Cut, Cleared
  <2>2. CASE x \in live /\ x \in NonWhite \ visited
    <3>1. refs[x] \subseteq NonWhite
      BY <1>3, <1>4, <2>2
    <3>2. refs'[x] \subseteq refs[x]
      BY <1>1, <2>2 DEF Cut, Cleared
    <3> QED
      BY <2>2, <3>1, <3>2
  <2>3. CASE x \in seen /\ x \notin WeakTables
    <3>1. refs'[x] = refs[x]
      BY <1>1, <2>3 DEF Cut, Cleared
    <3> QED
      BY <2>3, <3>1, <1>4, <1>6
  <2>4. CASE x \in seen /\ x \in WeakTables
    <3>1. \/ refs'[x] = refs[x] \intersect marked
          \/ refs'[x] = refs[x] \intersect (marked \union resurrected)
      BY <1>1, <2>4 DEF Cut, Cleared
    <3> QED
      BY <2>4, <3>1
  <2> QED
    BY <2>1, <2>2, <2>3, <2>4
<1>12. refs' \in [Obj -> SUBSET Obj]
  <2>1. refs' = [x \in Obj |-> refs'[x]]
    BY <1>1 DEF Cut, Cleared
  <2>2. \A x \in Obj : refs'[x] \in SUBSET Obj
    BY <1>7, <1>11
  <2> QED
    BY <2>1, <2>2
<1>13. {MainThread, Registry} \subseteq ToSet(allgc')
  BY <1>2, <1>3, <1>4, <1>7, <1>9
<1>14. Swept
  <2> HIDE DEF live
  <2> QED
    BY <1>9, <1>10, <1>11, <1>12, <1>13 DEF Swept
(* Marks. *)
<1>15. ASSUME NEW x \in live
       PROVE  /\ x \in Obj /\ age[x] \in Ages
              /\ (x \in Threads \/ age[x] \in {"touched1", "touched2", "new", "survival"}) => x \in seen
              /\ x \notin seen => color[x] = "black"
              /\ x \notin swept => isold(age[x]) /\ age[x] # "old0"
              /\ x \in Old1 <=> age[x] = "old1"
  <2>1. x \in Obj /\ x \in Alloc /\ age[x] \in Ages /\ (x \in Old1 <=> age[x] = "old1")
    BY <1>2, <1>3, <1>7 DEF Types
  <2>2. x \notin seen => x \in NonWhite \ YoungRoots
    BY <1>4, <1>7
  <2>3. /\ (x \in Threads \/ age[x] \in {"touched1", "touched2", "new", "survival"}) => x \in seen
        /\ x \notin seen => color[x] = "black"
    BY <1>3, <2>2
  <2>4. /\ From(allgc, Head1(allgc)) = ToSet(allgc)
        /\ Part(allgc, Head1(allgc), p.old1) = ToSet(allgc) \ From(allgc, p.old1)
    BY <1>2, Constants, HeadFacts, PartIs
  <2>5. /\ fin \in Seq(Obj) /\ Distinct(fin) /\ ToSet(fin) = ToSet(finobj) \ ToSet(separated)
        /\ p.finobjold1 \notin ToSet(separated) \/ p.finobjold1 \notin ToSet(finobj)
             => From(fin, p.finobjold1) = From(finobj, p.finobjold1) \ ToSet(separated)
    BY <1>2, WithoutFacts
  <2>6. p.finobjold1 \in ToSet(finobj) => p.finobjold1 \in From(finobj, p.finobjold1)
    BY <1>2, FromFacts
  <2>7. From(fin, p.finobjold1) \subseteq From(finobj, p.finobjold1)
    BY <1>5, <2>5, <2>6
  <2> HIDE DEF fin
  <2>8. /\ From(fin, Head1(fin)) = ToSet(fin)
        /\ Part(fin, Head1(fin), p.finobjold1) = ToSet(fin) \ From(fin, p.finobjold1)
    BY <2>5, Constants, HeadFacts, PartIs
  <2>9. x \in swept \/ x \in From(allgc, p.old1) \/ x \in From(finobj, p.finobjold1)
    BY <1>5, <1>7, <2>1, <2>4, <2>5, <2>7, <2>8 DEF Alloc
  <2>10. x \notin swept => isold(age[x]) /\ age[x] # "old0"
    BY <1>0, <1>2, <2>9 DEF Borders, OldEnoughFrom
  <2> QED
    BY <2>1, <2>3, <2>10
<1>16. ASSUME NEW x \in live
       PROVE  /\ age'[x] = OlderAge(age[x])
              /\ x \in first <=> x \in swept /\ age'[x] = "old1"
              /\ x \in watched <=> x \in Threads /\ isold(age[x])
              /\ color'[x] = IF age[x] = "new" THEN "white"
                             ELSE IF x \in Threads /\ isold(age[x]) THEN "gray" ELSE "black"
  <2>1. x \notin dead /\ x \in Obj
    BY <1>7
  <2>2. aged[x] = IF age[x] = "old1" THEN "old"
                  ELSE IF x \in seen THEN CorrectedAge(age[x]) ELSE age[x]
    BY <1>15, <2>1
  <2>3. age'[x] = IF x \in swept THEN NextAge(aged[x]) ELSE aged[x]
    BY <1>1, <2>1
  <2>4. color'[x] = IF x \in swept /\ age[x] = "new" THEN "white"
                    ELSE IF x \in watched THEN "gray"
                    ELSE IF x \in seen THEN "black" ELSE color[x]
    BY <1>1, <2>1
  <2>5. x \in first <=> x \in swept /\ NextAge(aged[x]) = "old1"
    OBVIOUS
  <2>6. x \in watched <=> x \in seen /\ x \in Threads /\ isold(aged[x])
    OBVIOUS
  <2>7. /\ (x \in Threads \/ age[x] \in {"touched1", "touched2", "new", "survival"}) => x \in seen
        /\ x \notin seen => color[x] = "black"
        /\ x \notin swept => isold(age[x]) /\ age[x] # "old0"
        /\ age[x] \in Ages
    BY <1>15
  <2> HIDE DEF aged, swept, seen, watched, first, live, dead
  <2>8. age'[x] = OlderAge(age[x])
    BY <2>2, <2>3, <2>7 DEF OlderAge, NextAge, CorrectedAge, isold, Ages
  <2>9. x \in watched <=> x \in Threads /\ isold(age[x])
    BY <2>2, <2>6, <2>7 DEF CorrectedAge, isold, Ages
  <2>10. color'[x] = IF age[x] = "new" THEN "white"
                     ELSE IF x \in Threads /\ isold(age[x]) THEN "gray" ELSE "black"
    BY <2>4, <2>7, <2>9 DEF isold
  <2> QED
    BY <2>3, <2>5, <2>8, <2>9, <2>10
<1>17. ASSUME NEW x \in Obj \ live
       PROVE  age'[x] = "new" /\ color'[x] = "white"
  <2>1. CASE x \in dead
    BY <1>1, <2>1
  <2>2. CASE x \notin dead
    <3>1. x \notin Alloc
      BY <1>7, <2>2
    <3>2. age[x] = "new" /\ color[x] = "white"
      BY <1>2, <3>1 DEF HeapInv, FreeIsClean
    <3>3. x \notin Old1 /\ x \notin seen
      BY <1>3, <1>7, <3>1
    <3>4. aged[x] = "new"
      BY <3>2, <3>3
    <3>5. NextAge("new") = "survival"
      BY DEF NextAge
    <3>6. x \notin swept
      <4>1. /\ From(allgc, Head1(allgc)) = ToSet(allgc)
            /\ Part(allgc, Head1(allgc), p.old1) = ToSet(allgc) \ From(allgc, p.old1)
        BY <1>2, Constants, HeadFacts, PartIs
      <4>2. fin \in Seq(Obj) /\ Distinct(fin) /\ ToSet(fin) = ToSet(finobj) \ ToSet(separated)
        BY <1>2, WithoutFacts
      <4> HIDE DEF fin
      <4>3. Part(fin, Head1(fin), p.finobjold1) \subseteq ToSet(fin)
        BY <4>2, Constants, HeadFacts, PartIs
      <4> QED
        BY <1>6, <3>1, <4>1, <4>2, <4>3 DEF Alloc
    <3> HIDE DEF aged, swept, seen, dead
    <3> QED
      BY <1>1, <2>2, <3>2, <3>3, <3>4, <3>6
  <2> QED
    BY <2>1, <2>2
<1>18. Aged
  <2>1. age' \in [Obj -> Ages] /\ color' \in [Obj -> Colors]
    <3>1. age' = [x \in Obj |-> age'[x]] /\ color' = [x \in Obj |-> color'[x]]
      BY <1>1
    <3> HIDE DEF live
    <3>2. \A x \in Obj : age'[x] \in Ages /\ color'[x] \in Colors
      <4> TAKE x \in Obj
      <4>1. CASE x \in live
        BY <4>1, <1>15, <1>16 DEF OlderAge, Ages, Colors
      <4>2. CASE x \notin live
        BY <4>2, <1>17 DEF Ages, Colors
      <4> QED
        BY <4>1, <4>2
    <3> QED
      BY <3>1, <3>2
  <2>2. grayagain' = {x \in live : (x \in Threads /\ isold(age[x])) \/ age[x] = "touched1"}
    <3>1. \A x \in live : x \in grayagain' <=>
                          ((x \in Threads /\ isold(age[x])) \/ age[x] = "touched1")
      BY <1>1, <1>15, <1>16
    <3>2. grayagain' \subseteq live
      BY <1>1
    <3> QED
      BY <3>1, <3>2
  <2>3. NonWhite \subseteq live
    BY <1>7
  <2> HIDE DEF live
  <2> QED
    BY <1>1, <1>10, <1>16, <1>17, <2>1, <2>2, <2>3 DEF Aged
(* The lists and the pointers into them. *)
<1>19. YoungPointers
  <2>1. dead = Alloc \ Alloc' /\ ToSet(separated) = ToSet(finobj) \ ToSet(finobj')
    BY <1>5, <1>7, <1>9, <1>10
  <2>2. allgc' \in Seq(Obj) /\ Distinct(allgc') /\ ToSet(allgc') \subseteq live
    BY <1>9, <1>10 DEF ListsAreLists, Alloc
  <2> DEFINE K == Kept(allgc', first)
  <2>3. K \in Seq(Obj) /\ ToSet(K) = ToSet(allgc') \intersect first /\ Sublist(K, allgc')
    BY <2>2, KeptIsSublist
  <2>4. p'.firstold1 = Head1(K)
    BY <1>1
  <2> HIDE DEF K, first
  <2>5. /\ Head1(K) \in {NULL} \union ToSet(allgc')
        /\ ToSet(K) \subseteq From(allgc', Head1(K))
    BY <2>2, <2>3, Constants, HeadOfSublist
  <2>6. \A x \in ToSet(allgc') : age'[x] = "old1" => x \in ToSet(K)
    <3> SUFFICES ASSUME NEW x \in ToSet(allgc'), age'[x] = "old1" PROVE x \in first
      BY <2>3
    <3>1. x \in live
      BY <2>2
    <3>2. OlderAge(age[x]) = "old1"
      BY <1>16, <3>1
    <3>3. ~isold(age[x]) \/ age[x] = "old0"
      BY <3>1, <3>2, <1>15 DEF OlderAge, isold, Ages
    <3> QED
      BY <1>15, <1>16, <3>1, <3>3
  <2>7. p' = [survival   |-> Head1(allgc'),
              old1       |-> FirstOutside(allgc, p.survival, dead),
              reallyold  |-> p.old1,
              firstold1  |-> p'.firstold1,
              finobjsur  |-> Head1(finobj'),
              finobjold1 |-> FirstOutside(finobj, p.finobjsur, ToSet(separated)),
              finobjrold |-> p.finobjold1]
    BY <1>1
  <2>8. allgc' = Without(allgc, dead) /\ finobj' = Without(finobj, ToSet(separated))
    BY <1>1
  <2> HIDE DEF dead
  <2> QED
    BY <2>1, <2>4, <2>5, <2>6, <2>7, <2>8 DEF YoungPointers
<1>20. From(finobj, p.finobjold1) \subseteq ToSet(finobj')
  BY <1>2, <1>5, <1>8, <1>9, FromFacts
(* What it means to the contract. *)
<1>21. ASSUME NEW x \in live
       PROVE  /\ x \notin WeakTables => refs'[x] = refs[x]
              /\ refs[x] \ refs'[x] \subseteq Obj \ marked
  <2>1. x \in Obj /\ refs[x] \subseteq Obj
    BY <1>2, <1>7 DEF Types
  <2>2. \/ refs'[x] = refs[x] \intersect marked
        \/ refs'[x] = refs[x] \intersect (marked \union resurrected)
        \/ refs'[x] = refs[x]
    BY <1>1, <1>21, <2>1 DEF Cut, Cleared
  <2>3. x \notin WeakTables => refs'[x] = refs[x]
    BY <1>1, <1>21, <2>1 DEF Cut, Cleared
  <2> QED
    BY <2>1, <2>2, <2>3
<1>22. ToSet(finobj') = ToSet(finobj) \ ToSet(tobefnz')
  BY <1>2, <1>5, <1>9 DEF ListsAreLists
<1>23. \A x \in marked : StrongRefs[x] \subseteq marked
  <2> TAKE x \in marked
  <2>1. x \in Obj /\ refs \in [Obj -> SUBSET Obj]
    BY <1>2, <1>7 DEF Types
  <2>2. StrongRefs[x] = IF x \in WeakTables THEN {} ELSE refs[x]
    BY <2>1 DEF StrongRefs, Cut
  <2> QED
    BY <1>3, <1>4, <2>2
<1>24. Separates(marked)
  <2>1. marked \subseteq live
    OBVIOUS
  <2> HIDE DEF live, marked
  <2>2. {MainThread, Registry} \subseteq marked
    BY <1>3, <1>4 DEF marked
  <2> QED
    BY <1>5, <1>7, <1>9, <1>10, <1>21, <1>22, <1>23, <2>1, <2>2 DEF Separates
<1> HIDE DEF marked
<1> QED
  BY <1>14, <1>18, <1>19, <1>20, <1>24

(* A young collection preserves the invariant: what it does not visit      *)
(* holds nothing that it frees.                                            *)
LEMMA YoungPreserves ==
  ASSUME IInv, YoungCollection
  PROVE  IInv'
<1>1. /\ stage' = "finish" /\ finalizing' = finalizing
      /\ Generational /\ Generational' /\ stage' \in Stages
  BY DEF YoungCollection, Generational, Stages
<1>2. /\ Swept /\ Aged /\ YoungPointers
      /\ From(finobj, p.finobjold1) \subseteq ToSet(finobj')
  BY YoungSweeps
<1>3. HeapInv'
  BY <1>1, <1>2, AgedHeap
<1>4. PointersInLists' /\ Borders'
  BY <1>1, <1>2, YoungLists
<1>5. Types'
  BY <1>1, <1>2 DEF IInv, Types, Aged, Swept
<1>6. KindsInPlace'
  BY <1>2 DEF IInv, KindsInPlace, Swept
<1>7. ListsAreLists'
  BY <1>2 DEF Swept
<1> QED
  BY <1>3, <1>4, <1>5, <1>6, <1>7 DEF IInv, ListInv

-----------------------------------------------------------------------------
(* The invariant and what it implies                                       *)

(* The empty program of Init.                                              *)
LEMMA InitIInv == Init => IInv
<1> SUFFICES ASSUME Init PROVE IInv
  OBVIOUS
<1>1. /\ MainThread \in Obj /\ Registry \in Obj /\ MainThread \in Threads /\ Registry \notin Threads
      /\ MainThread # Registry /\ NULL \notin Obj
  BY Constants
<1>2. /\ refs = [o \in Obj |-> {}]
      /\ color = [o \in Obj |-> IF o = MainThread THEN "gray"
                                ELSE IF o = Registry THEN "black" ELSE "white"]
      /\ age = [o \in Obj |-> IF o \in {MainThread, Registry} THEN "old" ELSE "new"]
      /\ allgc = <<Registry, MainThread>> /\ finobj = <<>> /\ tobefnz = <<>>
      /\ p = AllOld(allgc, finobj)
      /\ gray = {} /\ grayagain = {MainThread} /\ stage = "minor" /\ finalizing = {}
  BY DEF Init
<1>3. /\ allgc \in Seq(Obj) /\ Distinct(allgc) /\ ToSet(allgc) = {MainThread, Registry}
  <2>1. <<Registry, MainThread>> \in Seq(Obj) /\ DOMAIN <<Registry, MainThread>> = {1, 2}
        /\ <<Registry, MainThread>>[1] = Registry /\ <<Registry, MainThread>>[2] = MainThread
    BY <1>1
  <2> QED
    BY <1>1, <1>2, <2>1 DEF Distinct, ToSet
<1>4. /\ finobj \in Seq(Obj) /\ Distinct(finobj) /\ ToSet(finobj) = {}
      /\ tobefnz \in Seq(Obj) /\ Distinct(tobefnz) /\ ToSet(tobefnz) = {}
  <2>1. <<>> \in Seq(Obj) /\ DOMAIN <<>> = {}
    OBVIOUS
  <2> QED
    BY <1>2, <2>1 DEF Distinct, ToSet
<1>5. Alloc = {MainThread, Registry} /\ ListsAreLists
  BY <1>3, <1>4 DEF Alloc, ListsAreLists
<1>6. /\ From(allgc, Head1(allgc)) = ToSet(allgc)
      /\ Head1(allgc) \in {NULL} \union ToSet(allgc)
      /\ From(finobj, Head1(finobj)) = ToSet(finobj)
      /\ Head1(finobj) \in {NULL} \union ToSet(finobj)
  BY <1>3, <1>4, Constants, HeadFacts
<1>7. /\ p \in [Pointers -> {NULL} \union Obj]
      /\ p.survival = Head1(allgc) /\ p.old1 = Head1(allgc) /\ p.reallyold = Head1(allgc)
      /\ p.finobjsur = Head1(finobj) /\ p.finobjold1 = Head1(finobj)
      /\ p.finobjrold = Head1(finobj) /\ p.firstold1 = NULL
  BY <1>1, <1>2, <1>3, <1>4, <1>6 DEF AllOld, Pointers
<1>8. PointersInLists
  BY <1>6, <1>7 DEF PointersInLists, AllgcPointers, FinobjPointers
<1>9. /\ \A x \in Alloc : age[x] = "old" /\ color[x] = IF x \in Threads THEN "gray" ELSE "black"
      /\ \A x \in Obj \ Alloc : age[x] = "new" /\ color[x] = "white"
      /\ \A x \in Obj : refs[x] = {}
  BY <1>1, <1>2, <1>5
<1>10. Borders
  BY <1>3, <1>4, <1>5, <1>6, <1>7, <1>9 DEF Borders, OldEnoughFrom, isold
<1>11. Types
  BY <1>1, <1>2 DEF Types, Colors, Ages, Stages
<1>12. HeapInv
  <2>1. FreeIsClean /\ EdgesAlive /\ NoAges
    BY <1>2, <1>9 DEF FreeIsClean, EdgesAlive, NoAges, Generational
  <2>2. MarksFitAges
    BY <1>1, <1>2, <1>5, <1>9 DEF MarksFitAges, isold
  <2>3. YoungAreWhite
    BY <1>9 DEF YoungAreWhite, isold
  <2>4. BlackIsDone /\ OldHoldsNoYoung /\ GrayAreGray
    BY <1>1, <1>2, <1>5, <1>9 DEF BlackIsDone, OldHoldsNoYoung, GrayAreGray
  <2> QED
    BY <2>1, <2>2, <2>3, <2>4 DEF HeapInv
<1>13. KindsInPlace
  BY <1>3, <1>4, <1>9 DEF KindsInPlace
<1> QED
  BY <1>5, <1>8, <1>10, <1>11, <1>12, <1>13 DEF IInv, ListInv

(* One case for every action of the program and of the collector.          *)
LEMMA StepIInv ==
  ASSUME ~Joins, IInv, [Next]_vars
  PROVE  IInv'
<1>1. CASE Program
  <2>1. CASE \E o \in Fresh : New(o)
    BY <2>1, NewPreserves
  <2>2. CASE \E c \in Held, o \in Fresh : NewUpvalue(c, o)
    BY <2>2, NewUpvaluePreserves
  <2>3. CASE \E q \in Held \union HeldUpvalues : \E v \in refs[q] : Load(q, v)
    BY <2>3, LoadPreserves
  <2>4. CASE \E o \in Held, v \in Held : Store(o, v)
    BY <2>4, StorePreserves
  <2>5. CASE \E u \in HeldUpvalues, v \in Held : SetUpvalue(u, v)
    BY <2>5, SetUpvaluePreserves
  <2>6. CASE \E o, m \in HeldTables, gc \in BOOLEAN : SetMetatable(o, m, gc)
    BY <2>6, SetMetatablePreserves
  <2>7. CASE \E c \in Held \intersect Closures, u \in HeldUpvalues : ShareUpvalue(c, u)
    BY <2>7, ShareUpvaluePreserves
  <2>8. CASE \E q \in Held \union HeldUpvalues : \E v \in refs[q] : Drop(q, v)
    BY <2>8, DropPreserves
  <2> QED
    BY <1>1, <2>1, <2>2, <2>3, <2>4, <2>5, <2>6, <2>7, <2>8 DEF Program
<1>2. CASE YoungCollection
  BY <1>2, YoungPreserves
<1>3. CASE StartFull
  BY <1>3, StartFullPreserves
<1>4. CASE EndFull
  BY <1>4, EndFullPreserves
<1>5. CASE Emergency
  BY <1>5, EmergencyPreserves
<1>6. CASE CallFinalizer
  BY <1>6, CallFinalizerPreserves
<1>7. CASE FinalizerReturns
  BY <1>7, FinalizerReturnsPreserves
<1>8. CASE EndFinalizers
  BY <1>8, EndFinalizersPreserves
<1>9. CASE UNCHANGED vars
  <2>1. /\ refs' = refs /\ color' = color /\ age' = age /\ p' = p /\ finalizing' = finalizing
        /\ allgc' = allgc /\ finobj' = finobj /\ tobefnz' = tobefnz /\ stage' = stage
        /\ gray' = gray /\ grayagain' = grayagain
    BY <1>9 DEF vars
  <2>2. Alloc' = Alloc /\ Generational' = Generational /\ NonWhite' = NonWhite
    BY <2>1 DEF Alloc, Generational, NonWhite, IsWhite
  <2>3. Types' /\ ListsAreLists' /\ PointersInLists' /\ KindsInPlace'
    BY <2>1, <2>2 DEF IInv, ListInv, Types, ListsAreLists, PointersInLists, KindsInPlace
  <2>4. Borders'
    BY <2>1, <2>2 DEF IInv, ListInv, Borders, OldEnoughFrom
  <2>5. HeapInv'
    BY <2>1, <2>2 DEF IInv, HeapInv, FreeIsClean, EdgesAlive, NoAges, MarksFitAges,
       YoungAreWhite, BlackIsDone, OldHoldsNoYoung, GrayAreGray
  <2> QED
    BY <2>3, <2>4, <2>5 DEF IInv, ListInv
<1> QED
  BY <1>1, <1>2, <1>3, <1>4, <1>5, <1>6, <1>7, <1>8, <1>9 DEF Next

(* The invariant holds in every state that the program, its barriers,      *)
(* young and full collections and finalizers can reach.                    *)
THEOREM Inductive ==
  ASSUME ~Joins
  PROVE  Spec => []IInv
<1>1. IInv /\ [Next]_vars => IInv'
  BY StepIInv
<1> QED
  BY <1>1, InitIInv, PTL DEF Spec

(* From the invariant: the variables stay in their types, and no object is *)
(* twice in the lists.                                                     *)
LEMMA TypesHold == IInv => TypeOK
<1> SUFFICES ASSUME IInv PROVE TypeOK
  OBVIOUS
<1>1. /\ Alloc \subseteq Obj /\ ListsAreLists /\ Types /\ PointersInLists
  BY HeldAlive DEF IInv, ListInv
<1> DEFINE A == ToSet(allgc)
           B == ToSet(finobj)
           C == ToSet(tobefnz)
<1>2. /\ IsFiniteSet(A) /\ Cardinality(A) = Len(allgc)
      /\ IsFiniteSet(B) /\ Cardinality(B) = Len(finobj)
      /\ IsFiniteSet(C) /\ Cardinality(C) = Len(tobefnz)
      /\ A \intersect B = {} /\ A \intersect C = {} /\ B \intersect C = {}
      /\ Len(allgc) \in Nat /\ Len(finobj) \in Nat /\ Len(tobefnz) \in Nat
  BY <1>1, LengthIs DEF ListsAreLists
<1>3. Alloc = (A \union B) \union C
  BY DEF Alloc
<1> HIDE DEF A, B, C
<1>4. ASSUME NEW S, NEW T, IsFiniteSet(S), IsFiniteSet(T), S \intersect T = {}
      PROVE  /\ IsFiniteSet(S \union T)
             /\ Cardinality(S \union T) = Cardinality(S) + Cardinality(T)
  <2>1. /\ IsFiniteSet(S \union T)
        /\ Cardinality(S \union T) = Cardinality(S) + Cardinality(T) - Cardinality(S \intersect T)
    BY <1>4, FS_Union
  <2>2. Cardinality(S \intersect T) = 0
    BY <1>4, FS_EmptySet
  <2>3. Cardinality(S) \in Nat /\ Cardinality(T) \in Nat
    BY <1>4, FS_CardinalityType
  <2>4. Cardinality(S \union T) = Cardinality(S) + Cardinality(T) - 0
    BY <2>1, <2>2
  <2> QED
    BY <2>1, <2>3, <2>4
<1>5. Cardinality((A \union B) \union C) = Cardinality(A) + Cardinality(B) + Cardinality(C)
  <2>1. /\ IsFiniteSet(A \union B)
        /\ Cardinality(A \union B) = Cardinality(A) + Cardinality(B)
    BY <1>2, <1>4
  <2>2. Cardinality((A \union B) \union C) = Cardinality(A \union B) + Cardinality(C)
    BY <1>2, <1>4, <2>1
  <2> QED
    BY <2>1, <2>2
<1>6. Len(allgc) + Len(finobj) + Len(tobefnz) = Cardinality(Alloc)
  BY <1>2, <1>3, <1>5
<1>7. gray \subseteq Obj /\ grayagain \subseteq Obj
  <2>1. CASE Generational
    BY <1>1, <2>1 DEF IInv, HeapInv, MarksFitAges
  <2>2. CASE ~Generational
    BY <2>2 DEF IInv, HeapInv, NoAges
  <2> QED
    BY <2>1, <2>2
<1>8. \A q \in Pointers : p[q] \in {NULL} \union Alloc \/ ~InUse(q)
  BY <1>1 DEF PointersInLists, Pointers, AllgcPointers, FinobjPointers, InUse, Generational, Alloc
<1> QED
  BY <1>1, <1>6, <1>7, <1>8 DEF TypeOK, Types, PointersInLists

(* From the invariant: the pointers cut the lists as checklist of ltests.c *)
(* asserts.                                                                *)
LEMMA BordersHold == IInv => AgesFitBorders
<1> SUFFICES ASSUME IInv, Generational
             PROVE  /\ OldEnough(allgc, p.survival, p.old1, p.reallyold)
                    /\ OldEnough(finobj, p.finobjsur, p.finobjold1, p.finobjrold)
  BY DEF AgesFitBorders
<1>1. ASSUME NEW list \in Seq(Obj), Distinct(list), NEW sur, NEW old1, NEW rold,
             OldEnoughFrom(list, sur, old1, rold)
      PROVE  OldEnough(list, sur, old1, rold)
  <2>1. /\ Place(list, sur) <= Place(list, old1) /\ Place(list, old1) <= Place(list, rold)
        /\ Part(list, sur, old1) \subseteq From(list, sur)
        /\ Part(list, old1, rold) \subseteq From(list, old1)
        /\ Part(list, rold, NULL) \subseteq From(list, rold)
    BY <1>1, PartIs DEF OldEnoughFrom
  <2> QED
    BY <1>1, <2>1 DEF OldEnough, OldEnoughFrom
<1> QED
  BY <1>1 DEF IInv, ListInv, Borders, ListsAreLists

(* From the invariant: what can be reached is allocated, since what is     *)
(* allocated refers to allocated objects only.                             *)
LEMMA NothingDangles == IInv => NoDangling
<1> SUFFICES ASSUME IInv PROVE NoDangling
  OBVIOUS
<1>1. /\ Alloc \in SUBSET Obj /\ {MainThread, Registry} \subseteq Alloc
      /\ \A x \in Alloc : refs[x] \subseteq Alloc
  BY HeldAlive DEF IInv, HeapInv, EdgesAlive, Held
<1> DEFINE roots == {MainThread, Registry} \union ToSet(finobj) \union ToSet(tobefnz)
<1>2. roots \subseteq Alloc
  BY <1>1 DEF Alloc
<1> HIDE DEF roots
<1>3. Closure(roots, refs, Obj) \subseteq Alloc
  BY <1>1, <1>2, ClosureLeast
<1> QED
  BY <1>3 DEF NoDangling, Needed, roots

(* From the invariant: old objects hide no young ones, and markold finds   *)
(* all 'old1' objects.                                                     *)
LEMMA OldOnesAreFollowed == IInv => OldAreFollowed
<1> SUFFICES ASSUME IInv PROVE OldHoldsNoYoung /\ Old1IsFound
  BY DEF OldAreFollowed
<1>1. OldHoldsNoYoung
  BY DEF IInv, HeapInv
<1>2. Old1IsFound
  BY OldOnesFacts DEF Old1IsFound
<1> QED
  BY <1>1, <1>2

(* No use after free in generational mode: whatever the program or a       *)
(* pending finalizer can follow references to is allocated, although a     *)
(* young collection visits young and touched objects only.  Without        *)
(* lua_upvaluejoin.                                                        *)
THEOREM NothingInUseIsFreed ==
  ASSUME ~Joins
  PROVE  Spec => []NoDangling
BY Inductive, NothingDangles, PTL

(* What lua_checkmemory of ltests.c asserts holds whenever the program     *)
(* runs: no object is in two lists, the pointers into the lists fit the    *)
(* ages, and the marks fit the ages.  Without lua_upvaluejoin.             *)
THEOREM MemoryStaysConsistent ==
  ASSUME ~Joins
  PROVE  Spec => []MemoryIsConsistent
<1>1. IInv => MemoryIsConsistent
  BY TypesHold, BordersHold DEF MemoryIsConsistent, CheckMemory, IInv, HeapInv
<1> QED
  BY <1>1, Inductive, PTL

(* An old object never refers to a young one that a young collection could *)
(* free (lgc.h:125-150), and every 'old1' object is between 'firstold1'    *)
(* and 'reallyold', where markold looks for it.  Without lua_upvaluejoin.  *)
THEOREM OldObjectsAreFollowed ==
  ASSUME ~Joins
  PROVE  Spec => []OldAreFollowed
BY Inductive, OldOnesAreFollowed, PTL

-----------------------------------------------------------------------------
(* The contract *)

(* What the contract lets the program follow references to.                *)
CanReach == Contract!Accessible

(* All that the running function can name can be reached, with what it     *)
(* holds, and is allocated.                                                *)
LEMMA HeldIsAccessible ==
  ASSUME IInv
  PROVE  /\ CanReach \subseteq Alloc
         /\ {MainThread, Registry} \subseteq CanReach
         /\ Held \subseteq CanReach /\ HeldUpvalues \subseteq CanReach
         /\ \A x \in CanReach : refs[x] \subseteq CanReach
<1> DEFINE roots == {MainThread, Registry}
<1>1. CanReach = Closure(roots, refs, Alloc)
  BY DEF CanReach, Contract!Accessible, Contract!Roots, Contract!Closure, Closure
<1>2. /\ roots \subseteq Alloc /\ Alloc \subseteq Obj
      /\ \A x \in Alloc : refs[x] \subseteq Alloc
  BY HeldAlive DEF IInv, HeapInv, EdgesAlive, Held
<1>3. CanReach \subseteq Alloc
  BY <1>1, <1>2, ClosureLeast
<1>4. roots \subseteq CanReach
  BY <1>1, <1>2, ClosureContains
<1>5. ASSUME NEW x \in CanReach PROVE refs[x] \subseteq CanReach
  BY <1>1, <1>2, <1>3, ClosureClosed
<1>6. Held \subseteq CanReach
  BY <1>4, <1>5 DEF Held
<1> QED
  BY <1>3, <1>4, <1>5, <1>6 DEF HeldUpvalues

(* Nothing is freed but garbage, if nothing dangles after the step.        *)
LEMMA OnlyGarbageIsFreed ==
  ASSUME NoDangling', Alloc' \subseteq Alloc
  PROVE  Contract!FreeOnlyGarbage
BY DEF NoDangling, Needed, Contract!FreeOnlyGarbage, Contract!Roots,
       Contract!Closure, Closure

(* Rewriting one object that the program can reach is a contract's step.   *)
LEMMA WriteIsMutate ==
  ASSUME IInv, NEW q \in CanReach, NEW v \in CanReach,
         refs' \in [Obj -> SUBSET Obj],
         \A x \in Obj : x # q => refs'[x] = refs[x],
         refs'[q] \subseteq refs[q] \union {v},
         UNCHANGED lists
  PROVE  Contract!Next
<1>1. refs' = [refs EXCEPT ![q] = refs'[q]]
  BY DEF IInv, Types
<1>2. refs'[q] \subseteq CanReach
  BY HeldIsAccessible
<1>3. Alloc' = Alloc /\ ToSet(finobj)' = ToSet(finobj) /\ ToSet(tobefnz)' = ToSet(tobefnz)
  BY DEF Alloc, lists
<1>4. Contract!Mutate
  BY <1>1, <1>2, <1>3 DEF Contract!Mutate, CanReach
<1> QED
  BY <1>4 DEF Contract!Next

(* A new object appears in what the program can reach.                     *)
LEMMA NewIsNew ==
  ASSUME IInv, NEW o \in Fresh, NEW q \in Held,
         refs' = [refs EXCEPT ![q] = @ \union {o}],
         allgc' = <<o>> \o allgc, UNCHANGED <<finobj, tobefnz>>
  PROVE  Contract!Next
<1>1. o \in Obj \ Alloc
  BY DEF Fresh
<1>2. Alloc' = Alloc \union {o}
  BY <1>1, NewGrowsAlloc
<1>3. q \in CanReach /\ q # o /\ q \in Obj /\ refs[o] = {}
  BY <1>1, HeldIsAccessible, HeldAlive DEF IInv, HeapInv, FreeIsClean
<1>4. refs' = [refs EXCEPT ![q] = @ \union {o}, ![o] = {}]
  BY <1>1, <1>3 DEF IInv, Types
<1>5. ToSet(finobj)' = ToSet(finobj) /\ ToSet(tobefnz)' = ToSet(tobefnz)
  OBVIOUS
<1>6. Contract!New
  BY <1>1, <1>2, <1>3, <1>4, <1>5 DEF Contract!New, CanReach
<1> QED
  BY <1>6 DEF Contract!Next

(* A metatable with a finalizer moves an ordinary object to 'finobj'.      *)
LEMMA SetMetatableRefines ==
  ASSUME IInv, NoDangling', NEW o \in HeldTables, NEW m \in HeldTables, NEW gc \in BOOLEAN,
         SetMetatable(o, m, gc)
  PROVE  Contract!Next
<1>1. /\ o \in CanReach /\ m \in CanReach /\ o \in Obj /\ m \in Obj /\ o \in Alloc
      /\ refs \in [Obj -> SUBSET Obj]
      /\ refs' = [refs EXCEPT ![o] = @ \union {m}]
  BY HeldIsAccessible, HeldAlive DEF HeldTables, IInv, Types, SetMetatable
<1>2. CASE gc
  <2>1. /\ allgc \in Seq(Obj) /\ Distinct(allgc) /\ finobj \in Seq(Obj) /\ Distinct(finobj)
        /\ o \in ToSet(allgc) /\ o \notin ToSet(finobj) /\ o \notin ToSet(tobefnz)
        /\ allgc' = Without(allgc, {o}) /\ finobj' = <<o>> \o finobj /\ tobefnz' = tobefnz
    BY <1>2 DEF IInv, ListInv, ListsAreLists, SetMetatable, Unlinked
  <2>2. ToSet(<<o>> \o finobj) = {o} \union ToSet(finobj)
    BY <1>1, <2>1, ConsFacts
  <2> DEFINE D == {o}
  <2> HIDE DEF D
  <2>3. ToSet(Without(allgc, D)) = ToSet(allgc) \ D
    BY <2>1, WithoutFacts
  <2>4. /\ ToSet(allgc') = ToSet(allgc) \ {o} /\ ToSet(finobj') = ToSet(finobj) \union {o}
        /\ ToSet(tobefnz') = ToSet(tobefnz)
    BY <2>1, <2>2, <2>3 DEF D
  <2>5. Alloc' = Alloc
    BY <2>1, <2>4 DEF Alloc
  <2>6. Contract!FreeOnlyGarbage
    BY <2>5, OnlyGarbageIsFreed
  <2>7. Contract!Cut(refs, Alloc \ Alloc') = refs
    BY <1>1, <2>5 DEF Contract!Cut
  <2>8. Contract!SetFinalizer
    BY <1>1, <2>1, <2>4, <2>6, <2>7 DEF Contract!SetFinalizer, CanReach
  <2> QED
    BY <2>8 DEF Contract!Next
<1>3. CASE ~gc
  <2>1. UNCHANGED lists
    BY <1>3 DEF SetMetatable, lists
  <2>2. /\ refs' \in [Obj -> SUBSET Obj]
        /\ \A x \in Obj : x # o => refs'[x] = refs[x]
        /\ refs'[o] \subseteq refs[o] \union {m}
    BY <1>1
  <2> QED
    BY <1>1, <2>1, <2>2, WriteIsMutate
<1> QED
  BY <1>2, <1>3

(* Every step of the program is one of the contract's.                     *)
LEMMA ProgramRefines ==
  ASSUME IInv, NoDangling', Program
  PROVE  Contract!Next
<1>1. /\ {MainThread, Registry} \subseteq CanReach
      /\ Held \subseteq CanReach /\ HeldUpvalues \subseteq CanReach
      /\ \A x \in CanReach : refs[x] \subseteq CanReach
      /\ CanReach \subseteq Obj
      /\ refs \in [Obj -> SUBSET Obj]
  BY HeldIsAccessible, HeldAlive DEF IInv, Types
<1>2. ASSUME NEW o \in Fresh, New(o) PROVE Contract!Next
  <2>1. MainThread \in Held
    BY DEF Held
  <2> QED
    BY <1>2, <2>1, NewIsNew DEF New
<1>3. ASSUME NEW c \in Held, NEW o \in Fresh, NewUpvalue(c, o) PROVE Contract!Next
  BY <1>3, NewIsNew DEF NewUpvalue
<1>4. ASSUME NEW q \in Held \union HeldUpvalues, NEW v \in refs[q], Load(q, v)
      PROVE  Contract!Next
  <2>1. /\ v \in CanReach /\ MainThread \in CanReach
        /\ refs' = [refs EXCEPT ![MainThread] = @ \union {v}]
        /\ UNCHANGED lists
    BY <1>1, <1>4 DEF Load
  <2> QED
    BY <2>1, <1>1, WriteIsMutate
<1>5. ASSUME NEW o \in Held, NEW v \in Held, Store(o, v) PROVE Contract!Next
  <2>1. /\ v \in CanReach /\ o \in CanReach
        /\ refs' = [refs EXCEPT ![o] = @ \union {v}]
        /\ UNCHANGED lists
    BY <1>1, <1>5 DEF Store
  <2> QED
    BY <2>1, <1>1, WriteIsMutate
<1>6. ASSUME NEW u \in HeldUpvalues, NEW v \in Held, SetUpvalue(u, v) PROVE Contract!Next
  <2>1. /\ v \in CanReach /\ u \in CanReach
        /\ refs' = [refs EXCEPT ![u] = {v}]
        /\ UNCHANGED lists
    BY <1>1, <1>6 DEF SetUpvalue
  <2> QED
    BY <2>1, <1>1, WriteIsMutate
<1>7. ASSUME NEW c \in Held, NEW u \in HeldUpvalues, ShareUpvalue(c, u) PROVE Contract!Next
  <2>1. /\ c \in CanReach /\ u \in CanReach
        /\ refs' = [refs EXCEPT ![c] = @ \union {u}]
        /\ UNCHANGED lists
    BY <1>1, <1>7 DEF ShareUpvalue
  <2> QED
    BY <2>1, <1>1, WriteIsMutate
<1>8. ASSUME NEW q \in Held \union HeldUpvalues, NEW v \in refs[q], Drop(q, v)
      PROVE  Contract!Next
  <2>1. /\ v \in CanReach /\ q \in CanReach
        /\ refs' = [refs EXCEPT ![q] = @ \ {v}]
        /\ UNCHANGED lists
    BY <1>1, <1>8 DEF Drop
  <2> QED
    BY <2>1, <1>1, WriteIsMutate
<1>9. ASSUME NEW o \in HeldTables, NEW m \in HeldTables, NEW gc \in BOOLEAN, SetMetatable(o, m, gc)
      PROVE  Contract!Next
  BY <1>9, SetMetatableRefines
<1> QED
  BY <1>2, <1>3, <1>4, <1>5, <1>6, <1>7, <1>8, <1>9 DEF Program

(* A collection, young or full, is one step of the contract's collector.   *)
LEMMA SweepIsCollect ==
  ASSUME IInv, NoDangling', Swept, NEW marked, Separates(marked)
  PROVE  Contract!Next
<1>1. Contract!StronglyAccessible \subseteq marked
  <2>1. Contract!StronglyAccessible = Closure({MainThread, Registry}, StrongRefs, Alloc)
    BY DEF Contract!StronglyAccessible, Contract!Roots, Contract!Strong,
           Contract!Closure, Contract!Cut, Closure, StrongRefs, Cut
  <2>2. /\ marked \in SUBSET Alloc /\ {MainThread, Registry} \subseteq marked
        /\ \A x \in marked : StrongRefs[x] \subseteq marked
    BY DEF Separates
  <2> QED
    BY <2>1, <2>2, ClosureLeast
<1>2. Contract!FreeOnlyGarbage
  BY OnlyGarbageIsFreed DEF Separates
<1>3. ASSUME NEW x \in Alloc'
      PROVE  /\ refs'[x] \subseteq refs[x]
             /\ refs[x] \ refs'[x] \subseteq
                  (IF x \in WeakTables THEN Obj \ Contract!StronglyAccessible ELSE {})
  <2>1. x \in Obj
    BY HeldAlive DEF Separates
  <2> QED
    BY <1>1, <2>1 DEF Separates, Swept
<1>4. \A x \in Obj \ Alloc' : refs'[x] = {}
  BY DEF Swept
<1>5. Contract!Collect
  BY <1>1, <1>2, <1>3, <1>4 DEF Contract!Collect, Separates
<1> QED
  BY <1>5 DEF Contract!Next

(* One pending object goes to its finalizer.                               *)
LEMMA CallFinalizerRefines ==
  ASSUME IInv, CallFinalizer
  PROVE  Contract!Next
<1> DEFINE o == Head(tobefnz)
<1>1. /\ allgc \in Seq(Obj) /\ Distinct(allgc) /\ tobefnz \in Seq(Obj) /\ Distinct(tobefnz)
      /\ ToSet(allgc) \intersect ToSet(tobefnz) = {} /\ tobefnz # <<>>
      /\ allgc' = <<o>> \o allgc /\ tobefnz' = Tail(tobefnz) /\ finobj' = finobj
      /\ refs' \in {refs, [refs EXCEPT ![MainThread] = @ \union {o}]}
  BY DEF IInv, ListInv, ListsAreLists, CallFinalizer
<1>2. o \in ToSet(tobefnz) /\ ToSet(tobefnz') = ToSet(tobefnz) \ {o}
  BY <1>1, TailFacts
<1>3. o \in Obj /\ o \notin ToSet(allgc)
  BY <1>1, <1>2, ToSetIs
<1> HIDE DEF o
<1>4. ToSet(<<o>> \o allgc) = {o} \union ToSet(allgc)
  BY <1>1, <1>3, ConsFacts
<1>5. Alloc' = Alloc
  BY <1>1, <1>2, <1>4 DEF Alloc
<1>6. Contract!Finalize
  BY <1>1, <1>2, <1>5 DEF Contract!Finalize
<1> QED
  BY <1>6 DEF Contract!Next

(* The generational collector keeps the contract of module HeapContract,   *)
(* as the incremental one does: objects that the program can reach stay, a *)
(* weak table loses only what cannot be reached strongly, and a finalizer  *)
(* is called once.  Without lua_upvaluejoin.                               *)
THEOREM GenerationalImplementsContract ==
  ASSUME ~Joins
  PROVE  Spec => ImplementsContract
<1>1. Init => Contract!Init
  <2> SUFFICES ASSUME Init PROVE Contract!Init
    OBVIOUS
  <2>1. /\ allgc = <<Registry, MainThread>> /\ finobj = <<>> /\ tobefnz = <<>>
        /\ refs = [o \in Obj |-> {}]
    BY DEF Init
  <2>2. ToSet(<<Registry, MainThread>>) = {MainThread, Registry} /\ ToSet(<<>>) = {}
    BY DEF ToSet
  <2> QED
    BY <2>1, <2>2 DEF Contract!Init, Alloc
<1>2. /\ IInv /\ NoDangling' /\ [Next]_vars => [Contract!Next]_Contract!vars
  <2> SUFFICES ASSUME IInv, NoDangling', [Next]_vars
               PROVE  Contract!Next \/ UNCHANGED Contract!vars
    OBVIOUS
  <2>1. CASE Program
    BY <2>1, ProgramRefines
  <2>2. CASE YoungCollection
    BY <2>2, YoungSweeps, SweepIsCollect
  <2>3. CASE EndFull \/ Emergency
    <3>1. FullCycle
      BY <2>3 DEF EndFull, Emergency
    <3> QED
      BY <3>1, FullCycleSweeps, SweepIsCollect
  <2>4. CASE StartFull \/ EndFinalizers \/ UNCHANGED vars
    <3>1. /\ refs' = refs /\ allgc' = allgc /\ finobj' = finobj /\ tobefnz' = tobefnz
      BY <2>4 DEF StartFull, EndFinalizers, vars, lists
    <3> QED
      BY <3>1 DEF Contract!vars, Alloc
  <2>5. CASE CallFinalizer
    BY <2>5, CallFinalizerRefines
  <2>6. CASE FinalizerReturns
    <3>1. /\ MainThread \in CanReach /\ MainThread \in Obj /\ refs \in [Obj -> SUBSET Obj]
          /\ refs' \in {refs, [refs EXCEPT ![MainThread] = @ \ finalizing]}
          /\ UNCHANGED lists
      BY <2>6, HeldIsAccessible, HeldAlive DEF FinalizerReturns, IInv, Types
    <3>2. /\ refs' \in [Obj -> SUBSET Obj]
          /\ \A x \in Obj : x # MainThread => refs'[x] = refs[x]
          /\ refs'[MainThread] \subseteq refs[MainThread] \union {MainThread}
      BY <3>1
    <3> QED
      BY <3>1, <3>2, WriteIsMutate
  <2> QED
    BY <2>1, <2>2, <2>3, <2>4, <2>5, <2>6 DEF Next
<1> QED
  BY <1>1, <1>2, Inductive, NothingInUseIsFreed, PTL
     DEF Spec, ImplementsContract, Contract!Spec
=============================================================================
