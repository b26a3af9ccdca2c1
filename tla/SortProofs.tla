------------------------------ MODULE SortProofs ------------------------------
(***************************************************************************)
(* SortIsSafe for arrays of any size, any ranks and any answers: table.sort*)
(* stays within the array, keeps its elements and, with an order, sorts    *)
(* them.                                                                   *)
(*                                                                         *)
(* While it works, elements may only be out of place within an interval    *)
(* that some call of auxsort has left (Placed): this is what an exchange   *)
(* within the current interval keeps, and a partition splits.              *)
(***************************************************************************)
EXTENDS Sort, FiniteSetTheorems, TLAPS

Interval == [lo : Int, up : Int, rnd : BOOLEAN]

(* b has the elements 1 .. n, each once.                                   *)
Whole(n, b) ==
  /\ n \in Nat /\ b \in [1 .. n -> 1 .. n]
  /\ \A x \in 1 .. n : \E k \in 1 .. n : b[k] = x

(* The intervals cs of an array of n elements.                             *)
Nested(n, cs) ==
  /\ cs \in Seq(Interval)
  /\ \A k \in 1 .. Len(cs) : 1 <= cs[k].lo /\ cs[k].lo <= cs[k].up /\ cs[k].up <= n
  /\ \A k \in 1 .. Len(cs) : \A m, l \in 1 .. k - 1 :
       /\ cs[m].up < cs[k].lo \/ cs[k].up < cs[m].lo
       /\ cs[m].up - cs[l].lo <= cs[k].up - cs[k].lo

(* Two elements of b are in order, or an interval of cs has both.          *)
Placed(n, b, cs) ==
  \A x, y \in 1 .. n : x < y =>
    \/ rank[b[x]] <= rank[b[y]]
    \/ \E k \in 1 .. Len(cs) : cs[k].lo <= x /\ y <= cs[k].up

(* A pivot for the interval c, which is the middle one of three elements.  *)
IsPivot(c, x) ==
  /\ x \in Int
  /\ c.up - c.lo >= 2 => c.lo < x /\ x < c.up

TypeOK ==
  /\ Whole(Len(a), a)
  /\ rank \in [1 .. Len(a) -> Int] /\ honest \in BOOLEAN
  /\ pc \in {"ends", "low", "high", "forward", "backward", "done", "error"}
  /\ i \in Int /\ j \in Int /\ p \in Int

(* Where the bounds and pointers are.                                      *)
Bounded ==
  /\ Nested(Len(a), calls)
  /\ pc = "done" => calls = <<>>
  /\ ~Ended => calls # <<>> /\ lo < up
  /\ pc \in {"ends", "low", "high"} => IsPivot(calls[1], p)
  /\ pc # "ends" /\ ~Ended => up - lo >= 2
  /\ pc \in {"forward", "backward"} => up - lo >= 3 /\ P = a[up - 1] /\ lo < j /\ j <= up - 1
  /\ pc = "forward" => lo <= i /\ i + 1 <= up - 1
  /\ pc = "backward" => lo < i /\ i <= up - 1

(* What an order has achieved.                                             *)
Ordered ==
  /\ pc # "error"
  /\ Placed(Len(a), a, calls)
  /\ pc \in {"low", "high"} => rank[a[lo]] <= rank[a[up]]
  /\ pc = "high" => rank[a[lo]] <= rank[a[p]]
  /\ pc \in {"forward", "backward"} =>
       /\ \A k \in lo .. i - 1 : rank[a[k]] <= rank[P]
       /\ \A k \in j .. up : rank[P] <= rank[a[k]]
  /\ pc = "forward" => rank[a[i]] <= rank[P]
  /\ pc = "backward" => rank[P] <= rank[a[i]]

IInv == TypeOK /\ Bounded /\ (honest => Ordered)

-----------------------------------------------------------------------------
(* A function on 1 .. n is a sequence of n elements.                       *)
LEMMA FunctionIsSequence ==
  ASSUME NEW n \in Nat, NEW S, NEW f \in [1 .. n -> S]
  PROVE  f \in Seq(S) /\ Len(f) = n
OBVIOUS

(* Every set of numbers with a member has a least one.                     *)
LEMMA LeastNumber ==
  ASSUME NEW m \in Nat, NEW S \in SUBSET (1 .. m), S # {}
  PROVE  \E x \in S : \A y \in S : x <= y
<1> DEFINE Initials == {1 .. x : x \in S}
           R == StrictSubsetOrdering(1 .. m)
<1>1. Initials \subseteq FiniteSubsetsOf(1 .. m) /\ Initials # {}
  <2>1. \A x \in S : 1 .. x \subseteq 1 .. m /\ IsFiniteSet(1 .. x)
    BY FS_Interval
  <2> QED
    BY <2>1 DEF FiniteSubsetsOf
<1>2. IsWellFoundedOn(R, FiniteSubsetsOf(1 .. m))
  BY FS_StrictSubsetOrderingWellFounded
<1>3. \E x \in Initials : \A y \in Initials : <<y, x>> \notin R
  <2> HIDE DEF Initials, R
  <2> QED
    BY <1>1, <1>2, WFMin
<1>4. PICK x \in S : \A y \in S : <<1 .. y, 1 .. x>> \notin R
  BY <1>3
<1>5. ASSUME NEW y \in S, y < x
      PROVE  FALSE
  <2>1. /\ 1 .. y \subseteq 1 .. m /\ 1 .. x \subseteq 1 .. m
        /\ 1 .. y \subseteq 1 .. x /\ x \in 1 .. x /\ x \notin 1 .. y
    BY <1>5
  <2>2. <<1 .. y, 1 .. x>> \in R
    BY <2>1 DEF StrictSubsetOrdering
  <2> QED
    BY <2>2, <1>4
<1>6. \A y \in S : x <= y
  BY <1>5
<1> QED
  BY <1>6

(* An exchange of two elements keeps all.                                  *)
Exchanged(b, k, l) == [b EXCEPT ![k] = b[l], ![l] = b[k]]
IsExchange(n, b, k, l, c) ==
  /\ Whole(n, c) /\ Len(c) = n
  /\ c[k] = b[l] /\ c[l] = b[k]
  /\ \A x \in (1 .. n) \ {k, l} : c[x] = b[x]

LEMMA ExchangeKeeps ==
  ASSUME NEW n, NEW b, Whole(n, b), NEW k \in 1 .. n, NEW l \in 1 .. n
  PROVE  IsExchange(n, b, k, l, Exchanged(b, k, l))
<1> DEFINE c == Exchanged(b, k, l)
<1>1. n \in Nat /\ b \in [1 .. n -> 1 .. n]
  BY DEF Whole
<1>2. c \in [1 .. n -> 1 .. n]
  BY <1>1 DEF Exchanged
<1>3. c[k] = b[l] /\ c[l] = b[k] /\ \A x \in (1 .. n) \ {k, l} : c[x] = b[x]
  BY <1>1 DEF Exchanged
<1>4. ASSUME NEW x \in 1 .. n PROVE \E m \in 1 .. n : c[m] = x
  <2>1. PICK m \in 1 .. n : b[m] = x
    BY DEF Whole
  <2> QED
    BY <2>1, <1>3
<1> QED
  BY <1>1, <1>2, <1>3, <1>4, FunctionIsSequence DEF Whole, IsExchange

(* The bounds of an interval are numbers.                                  *)
LEMMA BoundsAreNumbers ==
  /\ \A c \in Interval : c.lo \in Int /\ c.up \in Int
  /\ \A cs \in Seq(Interval) : \A k \in 1 .. Len(cs) : cs[k].lo \in Int /\ cs[k].up \in Int
<1>1. \A c \in Interval : c.lo \in Int /\ c.up \in Int
  BY DEF Interval
<1>2. \A cs \in Seq(Interval) : \A k \in 1 .. Len(cs) : cs[k] \in Interval
  OBVIOUS
<1> QED
  BY <1>1, <1>2

(* Leaving out intervals of no more than one element at the front.         *)
LEMMA DropKeeps ==
  ASSUME NEW n \in Nat, NEW cs, Nested(n, cs), NEW f \in 1 .. Len(cs),
         \A k \in 1 .. f - 1 : ~(cs[k].lo < cs[k].up),
         NEW d, d = SubSeq(cs, f, Len(cs))
  PROVE  /\ Nested(n, d) /\ d # <<>> /\ d[1] = cs[f]
         /\ \A b : Placed(n, b, cs) => Placed(n, b, d)
<1>1. cs \in Seq(Interval) /\ Len(cs) \in Nat
  BY DEF Nested
<1>2. /\ d \in Seq(Interval) /\ Len(d) = Len(cs) - f + 1
      /\ \A k \in 1 .. Len(d) : d[k] = cs[k + f - 1]
  BY <1>1
<1>3. d # <<>> /\ d[1] = cs[f]
  BY <1>2
<1>4. \A k \in 1 .. Len(d) : k + f - 1 \in 1 .. Len(cs)
  BY <1>1, <1>2
<1>5. \A k \in 1 .. Len(d) : 1 <= d[k].lo /\ d[k].lo <= d[k].up /\ d[k].up <= n
  BY <1>2, <1>4 DEF Nested
<1>6. ASSUME NEW k \in 1 .. Len(d), NEW m \in 1 .. k - 1, NEW l \in 1 .. k - 1
      PROVE  /\ d[m].up < d[k].lo \/ d[k].up < d[m].lo
             /\ d[m].up - d[l].lo <= d[k].up - d[k].lo
  <2>1. /\ k + f - 1 \in 1 .. Len(cs)
        /\ m + f - 1 \in 1 .. (k + f - 1) - 1 /\ l + f - 1 \in 1 .. (k + f - 1) - 1
    BY <1>1, <1>2
  <2>2. d[k] = cs[k + f - 1] /\ d[m] = cs[m + f - 1] /\ d[l] = cs[l + f - 1]
    BY <1>2
  <2> QED
    BY <2>1, <2>2 DEF Nested
<1>7. Nested(n, d)
  BY <1>2, <1>5, <1>6 DEF Nested
<1>8. ASSUME NEW b, Placed(n, b, cs) PROVE Placed(n, b, d)
  <2> SUFFICES ASSUME NEW x \in 1 .. n, NEW y \in 1 .. n, x < y,
                      NEW k \in 1 .. Len(cs), cs[k].lo <= x, y <= cs[k].up
               PROVE  \E m \in 1 .. Len(d) : d[m].lo <= x /\ y <= d[m].up
    BY <1>8 DEF Placed
  <2>1. cs[k] \in Interval
    BY <1>1
  <2>2. cs[k].lo < cs[k].up
    BY <2>1 DEF Interval
  <2>3. k - f + 1 \in 1 .. Len(d)
    BY <2>2, <1>2, <1>1
  <2>4. d[k - f + 1] = cs[k]
    BY <2>3, <1>2, <1>1
  <2> QED
    BY <2>3, <2>4
<1> QED
  BY <1>3, <1>7, <1>8

(* The pivot is within the interval.                                       *)
LEMMA PivotsAreInside ==
  ASSUME SortConstants, NEW c \in Interval, NEW x \in Pivots(c), c.lo < c.up
  PROVE  IsPivot(c, x)
<1>1. RANLIMIT \in Nat /\ RANLIMIT >= 4
  BY DEF SortConstants
<1>2. c.lo \in Int /\ c.up \in Int
  BY DEF Interval
<1>3. CASE c.up - c.lo < RANLIMIT \/ ~c.rnd
  <2>1. x = (c.lo + c.up) \div 2
    BY <1>3 DEF Pivots
  <2> QED
    BY <2>1, <1>2 DEF IsPivot
<1>4. CASE ~(c.up - c.lo < RANLIMIT \/ ~c.rnd)
  <2> DEFINE r4 == (c.up - c.lo) \div 4
  <2>1. r4 \in Int /\ r4 >= 1 /\ 4 * r4 <= c.up - c.lo
    BY <1>1, <1>2, <1>4
  <2>2. x \in c.lo + r4 .. c.lo + r4 + 2 * r4 - 1
    BY <1>4 DEF Pivots, choosePivot
  <2> HIDE DEF r4
  <2> QED
    BY <2>1, <2>2, <1>2 DEF IsPivot
<1> QED
  BY <1>3, <1>4

(* The work goes on with an interval of more than one element, or is done. *)
LEMMA SortingGoesOn ==
  ASSUME SortConstants, NEW n \in Nat, NEW cs, Nested(n, cs), Sorting(cs), p \in Int
  PROVE  /\ Nested(n, calls') /\ p' \in Int
         /\ \/ pc' = "done" /\ calls' = <<>>
            \/ pc' = "ends" /\ calls' # <<>> /\ calls'[1].lo < calls'[1].up /\ IsPivot(calls'[1], p')
         /\ \A b : Placed(n, b, cs) => Placed(n, b, calls')
         /\ i' = i /\ j' = j /\ P' = P
<1> DEFINE nonempty == {k \in DOMAIN cs : cs[k].lo < cs[k].up}
           f == Min(nonempty)
<1>1. cs \in Seq(Interval) /\ Len(cs) \in Nat /\ DOMAIN cs = 1 .. Len(cs)
  BY DEF Nested
<1>2. CASE nonempty = {}
  <2>1. calls' = <<>> /\ pc' = "done" /\ p' = p /\ i' = i /\ j' = j /\ P' = P
    BY <1>2 DEF Sorting
  <2>2. Nested(n, calls')
    BY <2>1 DEF Nested
  <2>3. ASSUME NEW b, Placed(n, b, cs) PROVE Placed(n, b, calls')
    <3>1. ASSUME NEW k \in 1 .. Len(cs), NEW x \in 1 .. n, NEW y \in 1 .. n, x < y, cs[k].lo <= x, y <= cs[k].up
          PROVE  FALSE
      <4>1. cs[k] \in Interval /\ ~(cs[k].lo < cs[k].up)
        BY <1>1, <1>2
      <4> QED
        BY <4>1, <3>1 DEF Interval
    <3> QED
      BY <2>3, <3>1 DEF Placed
  <2> QED
    BY <2>1, <2>2, <2>3
<1>3. CASE nonempty # {}
  <2>1. f \in nonempty /\ \A k \in nonempty : f <= k
    <3>1. nonempty \in SUBSET (1 .. Len(cs))
      BY <1>1
    <3>2. \E x \in nonempty : \A y \in nonempty : x <= y
      BY <3>1, <1>1, <1>3, LeastNumber
    <3> HIDE DEF nonempty
    <3> QED
      BY <3>2 DEF Min
  <2>2. f \in 1 .. Len(cs) /\ cs[f].lo < cs[f].up /\ \A k \in 1 .. f - 1 : ~(cs[k].lo < cs[k].up)
    <3> HIDE DEF f
    <3> QED
      BY <2>1, <1>1
  <2> DEFINE d == SubSeq(cs, f, Len(cs))
  <2>3. Nested(n, d) /\ d # <<>> /\ d[1] = cs[f] /\ \A b : Placed(n, b, cs) => Placed(n, b, d)
    <3> HIDE DEF f
    <3> QED
      BY <2>2, DropKeeps
  <2>4. calls' = d /\ pc' = "ends" /\ p' \in Pivots(d[1]) /\ i' = i /\ j' = j /\ P' = P
    BY <1>3, <2>3 DEF Sorting
  <2>5. IsPivot(d[1], p')
    <3>1. cs[f] \in Interval /\ cs[f].lo < cs[f].up
      BY <2>2, <1>1
    <3> HIDE DEF f
    <3> QED
      BY <3>1, <2>3, <2>4, PivotsAreInside
  <2> QED
    <3>1. p' \in Int
      BY <2>5 DEF IsPivot
    <3> HIDE DEF d, f
    <3> QED
      BY <2>2, <2>3, <2>4, <2>5, <3>1
<1> QED
  BY <1>2, <1>3

(* A partition splits the current interval into two, of which the smaller  *)
(* one comes first.                                                        *)
LEMMA PartsSplit ==
  ASSUME NEW n \in Nat, Nested(n, calls), calls # <<>>,
         NEW k \in Int, lo < k, k < up, NEW cs \in BothParts(k)
  PROVE  \E s, t \in Interval :
           /\ cs = <<s, t>> \o Tail(calls)
           /\ s.up - s.lo <= t.up - t.lo
           /\ \/ s.lo = lo /\ s.up = k - 1 /\ t.lo = k + 1 /\ t.up = up
              \/ t.lo = lo /\ t.up = k - 1 /\ s.lo = k + 1 /\ s.up = up
<1> DEFINE below == [lo |-> lo, up |-> k - 1, rnd |-> calls[1].rnd]
           above == [lo |-> k + 1, up |-> up, rnd |-> calls[1].rnd]
<1>1. calls[1] \in Interval
  BY DEF Nested
<1>2. lo \in Int /\ up \in Int /\ calls[1].rnd \in BOOLEAN
  BY <1>1 DEF Interval, lo, up
<1>3. CASE k - lo < up - k
  <2>1. PICK r \in BOOLEAN : cs = <<below, [above EXCEPT !.rnd = r]>> \o Tail(calls)
    BY <1>2, <1>3 DEF BothParts
  <2> DEFINE w == [above EXCEPT !.rnd = r]
  <2>2. below \in Interval /\ w \in Interval
    BY <1>2 DEF Interval
  <2>3. below.lo = lo /\ below.up = k - 1 /\ w.lo = k + 1 /\ w.up = up /\ below.up - below.lo <= w.up - w.lo
    BY <1>2, <1>3
  <2>4. cs = <<below, w>> \o Tail(calls)
    BY <2>1
  <2> HIDE DEF below, w
  <2> QED
    BY <2>2, <2>3, <2>4
<1>4. CASE ~(k - lo < up - k)
  <2>1. PICK r \in BOOLEAN : cs = <<above, [below EXCEPT !.rnd = r]>> \o Tail(calls)
    BY <1>2, <1>4 DEF BothParts
  <2> DEFINE w == [below EXCEPT !.rnd = r]
  <2>2. above \in Interval /\ w \in Interval
    BY <1>2 DEF Interval
  <2>3. above.lo = k + 1 /\ above.up = up /\ w.lo = lo /\ w.up = k - 1 /\ above.up - above.lo <= w.up - w.lo
    BY <1>2, <1>4
  <2>4. cs = <<above, w>> \o Tail(calls)
    BY <2>1
  <2> HIDE DEF above, w
  <2> QED
    BY <2>2, <2>3, <2>4
<1> QED
  BY <1>3, <1>4

(* What lies inside is no longer.                                          *)
LEMMA InnerIsShorter ==
  ASSUME NEW w \in Int, NEW x \in Int, NEW y \in Int, NEW z \in Int, w <= x, z <= y
  PROVE  w - y <= x - z
OBVIOUS

(* The intervals stay nested, and elements in order about the pivot stay   *)
(* placed.                                                                 *)
LEMMA PartsAreNested ==
  ASSUME NEW n \in Nat, Nested(n, calls), calls # <<>>,
         NEW k \in Int, lo < k, k < up, NEW cs \in BothParts(k)
  PROVE  /\ Nested(n, cs)
         /\ \A b : /\ Placed(n, b, calls)
                   /\ \A x \in lo .. k, y \in k .. up : x < y => rank[b[x]] <= rank[b[y]]
                   => Placed(n, b, cs)
<1>1. PICK s, t \in Interval :
        /\ cs = <<s, t>> \o Tail(calls)
        /\ s.up - s.lo <= t.up - t.lo
        /\ \/ s.lo = lo /\ s.up = k - 1 /\ t.lo = k + 1 /\ t.up = up
           \/ t.lo = lo /\ t.up = k - 1 /\ s.lo = k + 1 /\ s.up = up
  BY PartsSplit
<1>2. calls \in Seq(Interval) /\ Len(calls) \in Nat /\ Len(calls) >= 1
  BY DEF Nested
<1>3. /\ Tail(calls) \in Seq(Interval) /\ Len(Tail(calls)) = Len(calls) - 1
      /\ \A q \in 1 .. Len(calls) - 1 : Tail(calls)[q] = calls[q + 1]
  BY <1>2
<1>4. /\ cs \in Seq(Interval) /\ Len(cs) = Len(calls) + 1
      /\ cs[1] = s /\ cs[2] = t /\ \A q \in 3 .. Len(cs) : cs[q] = calls[q - 1]
  <2>1. <<s, t>> \in Seq(Interval) /\ Len(<<s, t>>) = 2
    OBVIOUS
  <2>2. cs \in Seq(Interval) /\ Len(cs) = Len(calls) + 1
    BY <1>1, <1>3, <2>1
  <2>3. cs[1] = s /\ cs[2] = t
    BY <1>1, <1>3, <2>1
  <2>4. ASSUME NEW q \in 3 .. Len(cs) PROVE cs[q] = calls[q - 1]
    <3>1. cs[q] = Tail(calls)[q - 2]
      BY <1>1, <1>3, <2>1, <2>2
    <3>2. q - 2 \in 1 .. Len(calls) - 1
      BY <2>2, <1>2
    <3> QED
      BY <3>1, <3>2, <1>3
  <2> QED
    BY <2>2, <2>3, <2>4
<1>5. \A q \in 1 .. Len(cs) : cs[q].lo \in Int /\ cs[q].up \in Int
  BY <1>4, BoundsAreNumbers
<1>6. \A q \in 1 .. Len(calls) : calls[q].lo \in Int /\ calls[q].up \in Int
  BY <1>2, BoundsAreNumbers
<1>7. lo = calls[1].lo /\ up = calls[1].up /\ 1 <= lo /\ up <= n /\ 1 \in 1 .. Len(calls) /\ lo \in Int /\ up \in Int
  <2>1. lo = calls[1].lo /\ up = calls[1].up /\ 1 \in 1 .. Len(calls)
    BY <1>2 DEF lo, up
  <2>2. 1 <= lo /\ up <= n
    BY <2>1 DEF Nested
  <2> QED
    BY <2>1, <2>2, <1>6
<1>8. ASSUME NEW q \in 1 .. Len(cs) PROVE 1 <= cs[q].lo /\ cs[q].lo <= cs[q].up /\ cs[q].up <= n
  <2>1. CASE q \in {1, 2}
    <3>1. cs[q] = s \/ cs[q] = t
      BY <2>1, <1>4
    <3>2. /\ 1 <= s.lo /\ s.lo <= s.up /\ s.up <= n
          /\ 1 <= t.lo /\ t.lo <= t.up /\ t.up <= n
      <4>1. CASE s.lo = lo /\ s.up = k - 1 /\ t.lo = k + 1 /\ t.up = up
        BY <4>1, <1>7
      <4>2. CASE t.lo = lo /\ t.up = k - 1 /\ s.lo = k + 1 /\ s.up = up
        BY <4>2, <1>7
      <4> QED
        BY <4>1, <4>2, <1>1
    <3> QED
      BY <3>1, <3>2
  <2>2. CASE q \notin {1, 2}
    <3>1. q \in 3 .. Len(cs) /\ q - 1 \in 1 .. Len(calls)
      BY <2>2, <1>2, <1>4
    <3> QED
      BY <3>1, <1>4 DEF Nested
  <2> QED
    BY <2>1, <2>2
<1> DEFINE Old(q) == IF q <= 2 THEN 1 ELSE q - 1
<1>9. \A q \in 1 .. Len(cs) : Old(q) \in 1 .. Len(calls) /\ cs[q].lo >= calls[Old(q)].lo /\ cs[q].up <= calls[Old(q)].up
  <2> TAKE q \in 1 .. Len(cs)
  <2>1. CASE q \in {1, 2}
    <3>1. Old(q) = 1 /\ (cs[q] = s \/ cs[q] = t)
      BY <2>1, <1>4
    <3>2. s.lo >= lo /\ s.up <= up /\ t.lo >= lo /\ t.up <= up
      BY <1>1, <1>6, <1>7
    <3> HIDE DEF Old
    <3> QED
      BY <3>1, <3>2, <1>7
  <2>2. CASE q \notin {1, 2}
    <3>1. q \in 3 .. Len(cs) /\ q - 1 \in 1 .. Len(calls) /\ Old(q) = q - 1
      BY <2>2, <1>2, <1>4
    <3> QED
      BY <3>1, <1>4, <1>6
  <2> QED
    BY <2>1, <2>2
<1>10. ASSUME NEW q \in 1 .. Len(cs), NEW m \in 1 .. q - 1, NEW l \in 1 .. q - 1
       PROVE  /\ cs[m].up < cs[q].lo \/ cs[q].up < cs[m].lo
              /\ cs[m].up - cs[l].lo <= cs[q].up - cs[q].lo
  <2>1. CASE q = 1
    BY <2>1
  <2>2. CASE q = 2
    <3>1. m = 1 /\ l = 1
      BY <2>2
    <3> QED
      BY <3>1, <2>2, <1>1, <1>4, <1>5, <1>6, <1>7
  <2>3. CASE q >= 3
    <3>1. q \in 3 .. Len(cs) /\ q - 1 \in 1 .. Len(calls) /\ cs[q] = calls[q - 1]
      BY <2>3, <1>2, <1>4
    <3>2. /\ m \in 1 .. Len(cs) /\ l \in 1 .. Len(cs)
          /\ Old(m) \in 1 .. (q - 1) - 1 /\ Old(l) \in 1 .. (q - 1) - 1
      BY <2>3, <1>2, <1>4
    <3> DEFINE u == Old(m)
               v == Old(l)
    <3>3. /\ calls[u].up < cs[q].lo \/ cs[q].up < calls[u].lo
          /\ calls[u].up - calls[v].lo <= cs[q].up - cs[q].lo
      <4> HIDE DEF u, v
      <4>1. u \in 1 .. (q - 1) - 1 /\ v \in 1 .. (q - 1) - 1
        BY <3>2 DEF u, v
      <4> QED
        BY <4>1, <3>1 DEF Nested
    <3>4. /\ cs[m].lo >= calls[u].lo /\ cs[m].up <= calls[u].up /\ cs[l].lo >= calls[v].lo
          /\ u \in 1 .. Len(calls) /\ v \in 1 .. Len(calls)
      BY <3>2, <1>9
    <3>5. /\ cs[m].lo \in Int /\ cs[m].up \in Int /\ cs[l].lo \in Int
          /\ cs[q].lo \in Int /\ cs[q].up \in Int
      BY <3>2, <1>5
    <3> HIDE DEF u, v
    <3>6. calls[u].lo \in Int /\ calls[u].up \in Int /\ calls[v].lo \in Int
      BY <3>4, <1>6
    <3>7. cs[m].up < cs[q].lo \/ cs[q].up < cs[m].lo
      <4>1. CASE calls[u].up < cs[q].lo
        BY <4>1, <3>4, <3>5, <3>6
      <4>2. CASE cs[q].up < calls[u].lo
        BY <4>2, <3>4, <3>5, <3>6
      <4> QED
        BY <4>1, <4>2, <3>3
    <3>8. cs[m].up - cs[l].lo <= calls[u].up - calls[v].lo
      <4>1. cs[m].up <= calls[u].up /\ calls[v].lo <= cs[l].lo
        BY <3>4, <3>5, <3>6
      <4> QED
        BY <4>1, <3>5, <3>6, InnerIsShorter
    <3>9. cs[m].up - cs[l].lo <= cs[q].up - cs[q].lo
      <4>1. calls[u].up - calls[v].lo <= cs[q].up - cs[q].lo
        BY <3>3
      <4> QED
        BY <4>1, <3>8, <3>5, <3>6
    <3> QED
      BY <3>7, <3>9
  <2> QED
    BY <2>1, <2>2, <2>3
<1>11. Nested(n, cs)
  BY <1>4, <1>8, <1>10 DEF Nested
<1>12. ASSUME NEW b, Placed(n, b, calls),
              \A x \in lo .. k, y \in k .. up : x < y => rank[b[x]] <= rank[b[y]]
       PROVE  Placed(n, b, cs)
  <2> SUFFICES ASSUME NEW x \in 1 .. n, NEW y \in 1 .. n, x < y, ~(rank[b[x]] <= rank[b[y]])
               PROVE  \E q \in 1 .. Len(cs) : cs[q].lo <= x /\ y <= cs[q].up
    BY DEF Placed
  <2>1. PICK q \in 1 .. Len(calls) : calls[q].lo <= x /\ y <= calls[q].up
    BY <1>12 DEF Placed
  <2>2. CASE q = 1
    <3>1. lo <= x /\ y <= up
      BY <2>1, <2>2, <1>7
    <3>2. y < k \/ k < x
      <4> SUFFICES ASSUME ~(y < k), ~(k < x)
                   PROVE  FALSE
        OBVIOUS
      <4>1. x \in lo .. k /\ y \in k .. up
        BY <3>1, <1>7
      <4> QED
        BY <4>1, <1>12
    <3>3. (s.lo <= x /\ y <= s.up) \/ (t.lo <= x /\ y <= t.up)
      BY <3>1, <3>2, <1>1, <1>6, <1>7
    <3> QED
      BY <3>3, <1>4, <1>2
  <2>3. CASE q > 1
    <3>1. q + 1 \in 3 .. Len(cs) /\ cs[q + 1] = calls[q]
      BY <2>3, <1>2, <1>4
    <3> QED
      BY <3>1, <2>1, <1>2, <1>4
  <2> QED
    BY <2>2, <2>3
<1> QED
  BY <1>11, <1>12

(* The same without a partition: an interval that is in order is left out. *)
LEMMA TailIsNested ==
  ASSUME NEW n \in Nat, Nested(n, calls), calls # <<>>
  PROVE  /\ Nested(n, Tail(calls))
         /\ \A b : /\ Placed(n, b, calls)
                   /\ \A x \in lo .. up, y \in lo .. up : x < y => rank[b[x]] <= rank[b[y]]
                   => Placed(n, b, Tail(calls))
<1>2. calls \in Seq(Interval) /\ Len(calls) \in Nat /\ Len(calls) >= 1
  BY DEF Nested
<1>3. /\ Tail(calls) \in Seq(Interval) /\ Len(Tail(calls)) = Len(calls) - 1
      /\ \A q \in 1 .. Len(calls) - 1 : Tail(calls)[q] = calls[q + 1]
  BY <1>2
<1>4. \A q \in 1 .. Len(Tail(calls)) : 1 <= Tail(calls)[q].lo /\ Tail(calls)[q].lo <= Tail(calls)[q].up /\ Tail(calls)[q].up <= n
  <2> TAKE q \in 1 .. Len(Tail(calls))
  <2>1. q + 1 \in 1 .. Len(calls)
    BY <1>2, <1>3
  <2> QED
    BY <2>1, <1>3 DEF Nested
<1>5. ASSUME NEW q \in 1 .. Len(Tail(calls)), NEW m \in 1 .. q - 1, NEW l \in 1 .. q - 1
      PROVE  /\ Tail(calls)[m].up < Tail(calls)[q].lo \/ Tail(calls)[q].up < Tail(calls)[m].lo
             /\ Tail(calls)[m].up - Tail(calls)[l].lo <= Tail(calls)[q].up - Tail(calls)[q].lo
  <2>1. q + 1 \in 1 .. Len(calls) /\ m + 1 \in 1 .. (q + 1) - 1 /\ l + 1 \in 1 .. (q + 1) - 1
    BY <1>2, <1>3
  <2>2. Tail(calls)[q] = calls[q + 1] /\ Tail(calls)[m] = calls[m + 1] /\ Tail(calls)[l] = calls[l + 1]
    BY <1>3, <1>2
  <2> QED
    BY <2>1, <2>2 DEF Nested
<1>6. Nested(n, Tail(calls))
  BY <1>3, <1>4, <1>5 DEF Nested
<1>7. ASSUME NEW b, Placed(n, b, calls),
             \A x \in lo .. up, y \in lo .. up : x < y => rank[b[x]] <= rank[b[y]]
      PROVE  Placed(n, b, Tail(calls))
  <2> SUFFICES ASSUME NEW x \in 1 .. n, NEW y \in 1 .. n, x < y, ~(rank[b[x]] <= rank[b[y]])
               PROVE  \E q \in 1 .. Len(Tail(calls)) : Tail(calls)[q].lo <= x /\ y <= Tail(calls)[q].up
    BY DEF Placed
  <2>1. PICK q \in 1 .. Len(calls) : calls[q].lo <= x /\ y <= calls[q].up
    BY <1>7 DEF Placed
  <2>2. q # 1
    <3>1. calls[1] \in Interval
      BY <1>2
    <3> QED
      BY <2>1, <1>7, <3>1 DEF lo, up, Interval
  <2>3. q - 1 \in 1 .. Len(Tail(calls)) /\ Tail(calls)[q - 1] = calls[q]
    BY <2>2, <1>2, <1>3
  <2> QED
    BY <2>1, <2>3
<1> QED
  BY <1>6, <1>7

(* c is b with elements of the current interval in other places of it.     *)
Within(n, b, c) ==
  /\ \A x \in (1 .. n) \ (lo .. up) : c[x] = b[x]
  /\ \A x \in lo .. up : \E z \in lo .. up : c[x] = b[z]

(* Two changes within the current interval make one.                       *)
LEMMA WithinTransitive ==
  ASSUME NEW n, NEW b, NEW c, NEW d, Within(n, b, c), Within(n, c, d)
  PROVE  Within(n, b, d)
BY DEF Within

(* An exchange within the current interval.                                *)
LEMMA ExchangeWithin ==
  ASSUME NEW n, NEW b, Whole(n, b), lo \in Int, up \in Int, 1 <= lo, up <= n,
         NEW k \in lo .. up, NEW l \in lo .. up
  PROVE  IsExchange(n, b, k, l, Exchanged(b, k, l)) /\ Within(n, b, Exchanged(b, k, l))
<1> DEFINE c == Exchanged(b, k, l)
<1>1. n \in Nat /\ k \in 1 .. n /\ l \in 1 .. n
  BY DEF Whole
<1>2. IsExchange(n, b, k, l, c)
  BY <1>1, ExchangeKeeps
<1> HIDE DEF c
<1>3. \A x \in (1 .. n) \ (lo .. up) : c[x] = b[x]
  BY <1>2 DEF IsExchange
<1>4. ASSUME NEW x \in lo .. up PROVE \E z \in lo .. up : c[x] = b[z]
  <2>1. CASE x = k
    BY <2>1, <1>2 DEF IsExchange
  <2>2. CASE x = l
    BY <2>2, <1>2 DEF IsExchange
  <2>3. CASE x \notin {k, l}
    <3>1. x \in (1 .. n) \ {k, l}
      BY <2>3, <1>1
    <3> QED
      BY <3>1, <1>2 DEF IsExchange
  <2> QED
    BY <2>1, <2>2, <2>3
<1> QED
  BY <1>2, <1>3, <1>4 DEF Within, c

(* What happens within the current interval does not matter to the others. *)
LEMMA WithinKeepsPlaces ==
  ASSUME NEW n \in Nat, Nested(n, calls), calls # <<>>, NEW b, NEW c,
         Within(n, b, c), Placed(n, b, calls)
  PROVE  Placed(n, c, calls)
<1>1. calls \in Seq(Interval) /\ Len(calls) \in Nat /\ Len(calls) >= 1
  BY DEF Nested
<1>2. /\ \A k \in 1 .. Len(calls) : calls[k].lo \in Int /\ calls[k].up \in Int
      /\ lo = calls[1].lo /\ up = calls[1].up /\ 1 \in 1 .. Len(calls)
  BY <1>1, BoundsAreNumbers DEF lo, up
<1>3. lo \in Int /\ up \in Int /\ 1 <= lo /\ lo <= up /\ up <= n
  BY <1>2 DEF Nested
<1>4. ASSUME NEW k \in 1 .. Len(calls), k # 1, NEW z \in lo .. up
      PROVE  ~(calls[k].lo <= z /\ z <= calls[k].up)
  <2>1. 1 \in 1 .. k - 1
    BY <1>4
  <2>2. up < calls[k].lo \/ calls[k].up < lo
    BY <2>1, <1>2 DEF Nested
  <2> QED
    BY <2>2, <1>2, <1>3
<1> SUFFICES ASSUME NEW x \in 1 .. n, NEW y \in 1 .. n, x < y, ~(rank[c[x]] <= rank[c[y]])
             PROVE  \E k \in 1 .. Len(calls) : calls[k].lo <= x /\ y <= calls[k].up
  BY DEF Placed
<1>5. CASE x \in lo .. up /\ y \in lo .. up
  BY <1>5, <1>2, <1>3
<1>6. CASE x \in lo .. up /\ y \notin lo .. up
  <2>1. PICK z \in lo .. up : c[x] = b[z]
    BY <1>6 DEF Within
  <2>2. c[y] = b[y] /\ up < y
    BY <1>6, <1>3 DEF Within
  <2>3. z \in 1 .. n /\ z < y
    BY <2>2, <1>3
  <2>4. PICK k \in 1 .. Len(calls) : calls[k].lo <= z /\ y <= calls[k].up
    BY <2>1, <2>2, <2>3 DEF Placed
  <2>5. k # 1
    BY <2>4, <2>2, <1>2, <1>3
  <2>6. z <= calls[k].up
    BY <2>3, <2>4, <1>2
  <2> QED
    BY <2>4, <2>5, <2>6, <1>4
<1>7. CASE x \notin lo .. up /\ y \in lo .. up
  <2>1. PICK z \in lo .. up : c[y] = b[z]
    BY <1>7 DEF Within
  <2>2. c[x] = b[x] /\ x < lo
    BY <1>7, <1>3 DEF Within
  <2>3. z \in 1 .. n /\ x < z
    BY <2>2, <1>3
  <2>4. PICK k \in 1 .. Len(calls) : calls[k].lo <= x /\ z <= calls[k].up
    BY <2>1, <2>2, <2>3 DEF Placed
  <2>5. k # 1
    BY <2>4, <2>2, <1>2, <1>3
  <2>6. calls[k].lo <= z
    BY <2>3, <2>4, <1>2
  <2> QED
    BY <2>4, <2>5, <2>6, <1>4
<1>8. CASE x \notin lo .. up /\ y \notin lo .. up
  <2>1. c[x] = b[x] /\ c[y] = b[y]
    BY <1>8 DEF Within
  <2> QED
    BY <2>1 DEF Placed
<1> QED
  BY <1>5, <1>6, <1>7, <1>8

(* The facts about the current interval.                                   *)
LEMMA Current ==
  ASSUME IInv, ~Ended
  PROVE  /\ Whole(Len(a), a) /\ Len(a) \in Nat /\ Nested(Len(a), calls) /\ calls # <<>>
         /\ calls[1] \in Interval
         /\ lo \in Int /\ up \in Int /\ 1 <= lo /\ lo < up /\ up <= Len(a)
         /\ i \in Int /\ j \in Int /\ p \in Int
<1>1. /\ Whole(Len(a), a) /\ Nested(Len(a), calls) /\ calls # <<>> /\ lo < up
      /\ i \in Int /\ j \in Int /\ p \in Int
  BY DEF IInv, TypeOK, Bounded
<1>2. calls \in Seq(Interval) /\ 1 \in 1 .. Len(calls)
  BY <1>1 DEF Nested
<1>3. calls[1] \in Interval /\ lo = calls[1].lo /\ up = calls[1].up
  BY <1>2 DEF lo, up
<1>4. lo \in Int /\ up \in Int
  BY <1>3, BoundsAreNumbers
<1>5. 1 <= lo /\ up <= Len(a)
  BY <1>1, <1>2, <1>3 DEF Nested
<1> QED
  BY <1>1, <1>3, <1>4, <1>5 DEF Whole

(* The invariant after the current interval.                               *)
LEMMA SortingKeeps ==
  ASSUME SortConstants, IInv, NEW cs, Nested(Len(a), cs), Sorting(cs), UNCHANGED <<rank, honest>>,
         Whole(Len(a), a'), Len(a') = Len(a), honest => Placed(Len(a), a', cs)
  PROVE  IInv'
<1>1. Len(a) \in Nat /\ p \in Int /\ i \in Int /\ j \in Int
  BY DEF IInv, TypeOK, Whole
<1>2. /\ Nested(Len(a), calls') /\ p' \in Int
      /\ \/ pc' = "done" /\ calls' = <<>>
         \/ pc' = "ends" /\ calls' # <<>> /\ calls'[1].lo < calls'[1].up /\ IsPivot(calls'[1], p')
      /\ \A b : Placed(Len(a), b, cs) => Placed(Len(a), b, calls')
      /\ i' = i /\ j' = j /\ P' = P
  BY <1>1, SortingGoesOn
<1>3. TypeOK'
  BY <1>1, <1>2 DEF TypeOK, IInv
<1>4. Bounded'
  BY <1>2 DEF Bounded, Ended, lo, up
<1>5. ASSUME honest' PROVE Ordered'
  <2>1. Placed(Len(a), a', calls')
    BY <1>2, <1>5
  <2>2. Placed(Len(a), a, calls)'
    BY <2>1 DEF Placed
  <2> QED
    BY <2>2, <1>2 DEF Ordered
<1> QED
  BY <1>3, <1>4, <1>5 DEF IInv

-----------------------------------------------------------------------------
(* An array whose ends and pivot are in order is partitioned, or done if   *)
(* these are its elements.                                                 *)
LEMMA PartitionKeeps ==
  ASSUME SortConstants, IInv, ~Ended, UNCHANGED <<rank, honest>>,
         IsPivot(calls[1], p), up - lo >= 2,
         NEW array, Whole(Len(a), array), Len(array) = Len(a), Within(Len(a), a, array),
         honest => rank[array[lo]] <= rank[array[p]] /\ rank[array[p]] <= rank[array[up]],
         Partition(array)
  PROVE  IInv'
<1> DEFINE n == Len(a)
<1>1. /\ Whole(n, a) /\ n \in Nat /\ Nested(n, calls) /\ calls # <<>>
      /\ lo \in Int /\ up \in Int /\ 1 <= lo /\ lo < up /\ up <= n
      /\ i \in Int /\ j \in Int /\ p \in Int
  BY Current
<1>2. lo < p /\ p < up
  BY DEF IsPivot, lo, up
<1>3. rank \in [1 .. n -> Int] /\ honest \in BOOLEAN
  BY DEF IInv, TypeOK
<1>4. honest => Placed(n, array, calls)
  <2>1. honest => Placed(n, a, calls)
    BY DEF IInv, Ordered
  <2> HIDE DEF n
  <2> QED
    BY <2>1, <1>1, WithinKeepsPlaces DEF n
<1>5. \A x \in 1 .. n : rank[array[x]] \in Int
  BY <1>3 DEF Whole
<1>6. CASE up - lo = 2
  <2>1. a' = array /\ Sorting(Tail(calls))
    BY <1>6 DEF Partition, Finished
  <2>2. p = lo + 1 /\ up = lo + 2
    BY <1>1, <1>2, <1>6
  <2>3. Nested(n, Tail(calls))
    BY <1>1, TailIsNested
  <2>4. ASSUME honest PROVE Placed(n, a', Tail(calls))
    <3>1. ASSUME NEW x \in lo .. up, NEW y \in lo .. up, x < y
          PROVE  rank[array[x]] <= rank[array[y]]
      <4>1. rank[array[lo]] <= rank[array[lo + 1]] /\ rank[array[lo + 1]] <= rank[array[lo + 2]]
        BY <2>4, <2>2
      <4>2. \/ x = lo /\ y = lo + 1
            \/ x = lo /\ y = lo + 2
            \/ x = lo + 1 /\ y = lo + 2
        BY <2>2, <1>1, <3>1
      <4>3. rank[array[lo]] \in Int /\ rank[array[lo + 1]] \in Int /\ rank[array[lo + 2]] \in Int
        BY <1>1, <1>5, <2>2
      <4> QED
        BY <4>1, <4>2, <4>3
    <3> QED
      BY <2>1, <2>4, <3>1, <1>1, <1>4, TailIsNested
  <2> QED
    BY <2>1, <2>3, <2>4, SortingKeeps
<1>7. CASE up - lo # 2
  <2>1. /\ a' = Exchanged(array, p, up - 1) /\ P' = array[p]
        /\ i' = lo /\ j' = up - 1 /\ pc' = "forward" /\ calls' = calls /\ p' = p
    BY <1>7 DEF Partition, Exchanged
  <2>2. p \in lo .. up /\ up - 1 \in lo .. up /\ up - lo >= 3
    BY <1>1, <1>2, <1>7
  <2>3. IsExchange(n, array, p, up - 1, a') /\ Within(n, array, a')
    <3> HIDE DEF n
    <3> QED
      BY <1>1, <2>1, <2>2, ExchangeWithin DEF n
  <2>4. Whole(n, a') /\ Len(a') = n /\ a'[up - 1] = array[p]
    BY <2>3 DEF IsExchange
  <2>5. lo' = lo /\ up' = up
    BY <2>1 DEF lo, up
  <2>6. TypeOK'
    BY <1>1, <1>3, <2>1, <2>4 DEF TypeOK
  <2>7. Bounded'
    BY <1>1, <2>1, <2>2, <2>4, <2>5 DEF Bounded, Ended
  <2>8. ASSUME honest' PROVE Ordered'
    <3>1. honest
      BY <2>8
    <3>2. Placed(n, a', calls)
      <4> HIDE DEF n
      <4> QED
        BY <3>1, <1>1, <1>4, <2>3, WithinKeepsPlaces DEF n
    <3>3. Placed(Len(a), a, calls)'
      BY <3>2, <2>1, <2>4 DEF Placed
    <3>4. rank[a'[lo]] <= rank[P']
      <4>1. lo \in (1 .. n) \ {p, up - 1}
        BY <1>1, <1>2, <2>2
      <4> QED
        BY <4>1, <3>1, <2>1, <2>3 DEF IsExchange
    <3>5. rank[P'] <= rank[a'[up]]
      <4>1. up \in (1 .. n) \ {p, up - 1}
        BY <1>1, <1>2, <2>2
      <4> QED
        BY <4>1, <3>1, <2>1, <2>3 DEF IsExchange
    <3>6. rank[P'] <= rank[a'[up - 1]]
      <4>1. P' = a'[up - 1] /\ p \in 1 .. n
        BY <1>1, <1>2, <2>1, <2>4
      <4>2. rank[P'] \in Int
        BY <4>1, <1>5, <2>1
      <4> QED
        BY <4>1, <4>2
    <3>7. \A k \in up - 1 .. up : rank[P'] <= rank[a'[k]]
      <4>1. \A k \in up - 1 .. up : k = up - 1 \/ k = up
        BY <1>1
      <4> QED
        BY <4>1, <3>5, <3>6
    <3>8. \A k \in lo .. lo - 1 : FALSE
      BY <1>1
    <3> QED
      BY <2>1, <2>5, <3>3, <3>4, <3>7, <3>8 DEF Ordered
  <2> QED
    BY <2>6, <2>7, <2>8 DEF IInv
<1> QED
  BY <1>6, <1>7

(* The array after an exchange at the ends or the pivot, or none.          *)
LEMMA SwappedIsWithin ==
  ASSUME IInv, ~Ended, NEW c \in BOOLEAN, NEW k \in lo .. up, NEW l \in lo .. up
  PROVE  /\ c => Swapped(c, k, l) = Exchanged(a, k, l)
         /\ ~c => Swapped(c, k, l) = a
         /\ Whole(Len(a), Swapped(c, k, l)) /\ Len(Swapped(c, k, l)) = Len(a)
         /\ Within(Len(a), a, Swapped(c, k, l))
<1> DEFINE n == Len(a)
<1>1. Whole(n, a) /\ n \in Nat /\ lo \in Int /\ up \in Int /\ 1 <= lo /\ lo < up /\ up <= n
  BY Current
<1>2. /\ c => Swapped(c, k, l) = Exchanged(a, k, l)
      /\ ~c => Swapped(c, k, l) = a
  BY DEF Swapped, set2, Exchanged
<1>3. IsExchange(n, a, k, l, Exchanged(a, k, l)) /\ Within(n, a, Exchanged(a, k, l))
  <2> HIDE DEF n
  <2> QED
    BY <1>1, ExchangeWithin
<1>4. Within(n, a, a)
  BY DEF Within
<1> QED
  BY <1>1, <1>2, <1>3, <1>4 DEF IsExchange

(* The elements that are compared have ranks.                              *)
LEMMA Ranks ==
  ASSUME IInv
  PROVE  /\ rank \in [1 .. Len(a) -> Int] /\ honest \in BOOLEAN
         /\ \A x \in 1 .. Len(a) : a[x] \in 1 .. Len(a) /\ rank[a[x]] \in Int
BY DEF IInv, TypeOK, Whole

(* What an answer says of two elements.                                    *)
LEMMA Answers ==
  ASSUME NEW x, NEW y, rank[x] \in Int, rank[y] \in Int, NEW c \in sort_comp(x, y)
  PROVE  /\ c \in BOOLEAN
         /\ honest /\ c => rank[x] < rank[y]
         /\ honest /\ ~c => rank[y] <= rank[x]
<1>1. CASE honest
  <2>1. c = (rank[x] < rank[y])
    BY <1>1 DEF sort_comp
  <2>2. c \in BOOLEAN
    BY <2>1
  <2>3. CASE rank[x] < rank[y]
    BY <2>1, <2>3
  <2>4. CASE ~(rank[x] < rank[y])
    <3>1. rank[y] <= rank[x]
      BY <2>4
    <3>2. ~c
      BY <2>1, <2>4
    <3> QED
      BY <2>2, <3>1, <3>2
  <2> QED
    BY <2>2, <2>3, <2>4
<1>2. CASE ~honest
  <2>1. c \in BOOLEAN
    BY <1>2 DEF sort_comp
  <2> QED
    BY <1>2, <2>1
<1> QED
  BY <1>1, <1>2

(* Each comparison, with what follows it, keeps the invariant.  First: is  *)
(* the last element less than the first one?                               *)
LEMMA CompareEndsKeeps == SortConstants /\ IInv /\ CompareEnds => IInv'
<1> SUFFICES ASSUME SortConstants, IInv, CompareEnds
             PROVE  IInv'
  OBVIOUS
<1> DEFINE n == Len(a)
<1>1. ~Ended /\ pc = "ends" /\ UNCHANGED <<rank, honest>> /\ IsPivot(calls[1], p)
  BY DEF CompareEnds, Ended, IInv, Bounded
<1>2. /\ Whole(n, a) /\ n \in Nat /\ Nested(n, calls) /\ calls # <<>>
      /\ lo \in Int /\ up \in Int /\ 1 <= lo /\ lo < up /\ up <= n
      /\ i \in Int /\ j \in Int /\ p \in Int
  BY <1>1, Current
<1>3. /\ rank \in [1 .. n -> Int] /\ honest \in BOOLEAN
      /\ \A x \in 1 .. n : rank[a[x]] \in Int
  BY Ranks
<1>4. PICK c \in sort_comp(a[up], a[lo]) :
        /\ a' = Swapped(c, lo, up)
        /\ IF up - lo = 1 THEN Finished ELSE pc' = "low" /\ UNCHANGED <<calls, p, i, j, P>>
  BY DEF CompareEnds
<1>5. lo \in lo .. up /\ up \in lo .. up /\ lo \in 1 .. n /\ up \in 1 .. n
  BY <1>2
<1>6. /\ c \in BOOLEAN
      /\ honest /\ c => rank[a[up]] < rank[a[lo]]
      /\ honest /\ ~c => rank[a[lo]] <= rank[a[up]]
  BY <1>3, <1>5, Answers
<1>7. /\ c => a' = Exchanged(a, lo, up)
      /\ ~c => a' = a
      /\ Whole(n, a') /\ Len(a') = n /\ Within(n, a, a')
  BY <1>1, <1>4, <1>5, <1>6, SwappedIsWithin
<1>8. honest => rank[a'[lo]] <= rank[a'[up]]
  <2>1. c => a'[lo] = a[up] /\ a'[up] = a[lo]
    BY <1>2, <1>5, <1>7, ExchangeKeeps DEF IsExchange
  <2> QED
    BY <1>3, <1>5, <1>6, <1>7, <2>1
<1>9. honest => Placed(n, a', calls)
  <2>1. honest => Placed(n, a, calls)
    BY DEF IInv, Ordered
  <2> HIDE DEF n
  <2> QED
    BY <2>1, <1>2, <1>7, WithinKeepsPlaces
<1>10. CASE up - lo = 1
  <2>1. Sorting(Tail(calls)) /\ Nested(n, Tail(calls))
    BY <1>2, <1>4, <1>10, TailIsNested DEF Finished
  <2>2. ASSUME honest PROVE Placed(n, a', Tail(calls))
    <3>1. ASSUME NEW x \in lo .. up, NEW y \in lo .. up, x < y
          PROVE  rank[a'[x]] <= rank[a'[y]]
      <4>1. x = lo /\ y = up
        BY <3>1, <1>2, <1>10
      <4> QED
        BY <4>1, <2>2, <1>8
    <3> QED
      BY <2>2, <3>1, <1>2, <1>9, TailIsNested
  <2> QED
    BY <1>1, <1>7, <2>1, <2>2, SortingKeeps
<1>11. CASE up - lo # 1
  <2>1. pc' = "low" /\ UNCHANGED <<calls, p, i, j, P>> /\ lo' = lo /\ up' = up
    BY <1>4, <1>11 DEF lo, up
  <2>2. TypeOK'
    BY <1>1, <1>2, <1>3, <1>7, <2>1 DEF TypeOK
  <2>3. Bounded'
    BY <1>1, <1>2, <1>7, <1>11, <2>1 DEF Bounded, Ended
  <2>4. ASSUME honest' PROVE Ordered'
    <3>1. Placed(Len(a), a, calls)'
      BY <1>1, <1>7, <1>9, <2>1, <2>4 DEF Placed
    <3> QED
      BY <1>1, <1>8, <2>1, <2>4, <3>1 DEF Ordered
  <2> QED
    BY <2>2, <2>3, <2>4 DEF IInv
<1> QED
  BY <1>10, <1>11

(* Is the pivot less than the first element?                               *)
LEMMA CompareLowKeeps == SortConstants /\ IInv /\ CompareLow => IInv'
<1> SUFFICES ASSUME SortConstants, IInv, CompareLow
             PROVE  IInv'
  OBVIOUS
<1> DEFINE n == Len(a)
<1>1. /\ ~Ended /\ pc = "low" /\ UNCHANGED <<rank, honest>>
      /\ IsPivot(calls[1], p) /\ up - lo >= 2 /\ (honest => rank[a[lo]] <= rank[a[up]])
  BY DEF CompareLow, Ended, IInv, Bounded, Ordered
<1>2. /\ Whole(n, a) /\ n \in Nat /\ Nested(n, calls) /\ calls # <<>>
      /\ lo \in Int /\ up \in Int /\ 1 <= lo /\ lo < up /\ up <= n
      /\ i \in Int /\ j \in Int /\ p \in Int
  BY <1>1, Current
<1>3. /\ rank \in [1 .. n -> Int] /\ honest \in BOOLEAN
      /\ \A x \in 1 .. n : rank[a[x]] \in Int
  BY Ranks
<1>4. PICK c \in sort_comp(a[p], a[lo]) :
        IF c THEN Partition(set2(p, lo)) ELSE pc' = "high" /\ UNCHANGED <<a, calls, p, i, j, P>>
  BY DEF CompareLow
<1>5. /\ lo < p /\ p < up
      /\ lo \in lo .. up /\ p \in lo .. up /\ lo \in 1 .. n /\ p \in 1 .. n /\ up \in 1 .. n
  BY <1>1, <1>2 DEF IsPivot, lo, up
<1>6. /\ c \in BOOLEAN
      /\ honest /\ c => rank[a[p]] < rank[a[lo]]
      /\ honest /\ ~c => rank[a[lo]] <= rank[a[p]]
  BY <1>3, <1>5, Answers
<1>7. CASE c
  <2> DEFINE b == Exchanged(a, p, lo)
  <2>1. Partition(b)
    BY <1>4, <1>7 DEF set2, Exchanged
  <2>2. IsExchange(n, a, p, lo, b) /\ Within(n, a, b)
    <3> HIDE DEF n
    <3> QED
      BY <1>2, <1>5, ExchangeWithin
  <2> HIDE DEF b
  <2>3. Whole(n, b) /\ Len(b) = n /\ b[p] = a[lo] /\ b[lo] = a[p] /\ b[up] = a[up]
    <3>1. up \in (1 .. n) \ {p, lo}
      BY <1>2, <1>5
    <3> QED
      BY <2>2, <3>1 DEF IsExchange
  <2>4. honest => rank[b[lo]] <= rank[b[p]] /\ rank[b[p]] <= rank[b[up]]
    BY <1>1, <1>3, <1>5, <1>6, <1>7, <2>3
  <2> QED
    BY <1>1, <2>1, <2>2, <2>3, <2>4, PartitionKeeps
<1>8. CASE ~c
  <2>1. pc' = "high" /\ UNCHANGED <<a, calls, p, i, j, P>> /\ lo' = lo /\ up' = up
    BY <1>4, <1>8 DEF lo, up
  <2>2. TypeOK'
    BY <1>1, <2>1 DEF TypeOK, IInv
  <2>3. Bounded'
    BY <1>1, <1>2, <2>1 DEF Bounded, Ended
  <2>4. ASSUME honest' PROVE Ordered'
    <3>1. Placed(Len(a), a, calls)'
      BY <1>1, <2>1, <2>4 DEF Placed, IInv, Ordered
    <3>2. rank[a[lo]] <= rank[a[p]]
      BY <1>1, <1>3, <1>5, <1>6, <1>8, <2>4
    <3> QED
      BY <1>1, <2>1, <2>4, <3>1, <3>2 DEF Ordered
  <2> QED
    BY <2>2, <2>3, <2>4 DEF IInv
<1> QED
  BY <1>6, <1>7, <1>8

(* Is the last element less than the pivot?                                *)
LEMMA CompareHighKeeps == SortConstants /\ IInv /\ CompareHigh => IInv'
<1> SUFFICES ASSUME SortConstants, IInv, CompareHigh
             PROVE  IInv'
  OBVIOUS
<1> DEFINE n == Len(a)
<1>1. /\ ~Ended /\ pc = "high" /\ UNCHANGED <<rank, honest>>
      /\ IsPivot(calls[1], p) /\ up - lo >= 2
      /\ honest => rank[a[lo]] <= rank[a[up]] /\ rank[a[lo]] <= rank[a[p]]
  BY DEF CompareHigh, Ended, IInv, Bounded, Ordered
<1>2. /\ Whole(n, a) /\ n \in Nat /\ Nested(n, calls) /\ calls # <<>>
      /\ lo \in Int /\ up \in Int /\ 1 <= lo /\ lo < up /\ up <= n
      /\ i \in Int /\ j \in Int /\ p \in Int
  BY <1>1, Current
<1>3. /\ rank \in [1 .. n -> Int] /\ honest \in BOOLEAN
      /\ \A x \in 1 .. n : rank[a[x]] \in Int
  BY Ranks
<1>4. PICK c \in sort_comp(a[up], a[p]) : Partition(Swapped(c, p, up))
  BY DEF CompareHigh
<1>5. /\ lo < p /\ p < up
      /\ up \in lo .. up /\ p \in lo .. up /\ lo \in 1 .. n /\ p \in 1 .. n /\ up \in 1 .. n
  BY <1>1, <1>2 DEF IsPivot, lo, up
<1>6. /\ c \in BOOLEAN
      /\ honest /\ c => rank[a[up]] < rank[a[p]]
      /\ honest /\ ~c => rank[a[p]] <= rank[a[up]]
  BY <1>3, <1>5, Answers
<1> DEFINE b == Swapped(c, p, up)
<1>7. /\ c => b = Exchanged(a, p, up)
      /\ ~c => b = a
      /\ Whole(n, b) /\ Len(b) = n /\ Within(n, a, b)
  BY <1>1, <1>5, <1>6, SwappedIsWithin
<1> HIDE DEF b
<1>8. honest => rank[b[lo]] <= rank[b[p]] /\ rank[b[p]] <= rank[b[up]]
  <2>1. c => b[p] = a[up] /\ b[up] = a[p] /\ b[lo] = a[lo]
    <3>1. lo \in (1 .. n) \ {p, up}
      BY <1>2, <1>5
    <3> QED
      BY <1>2, <1>5, <1>7, <3>1, ExchangeKeeps DEF IsExchange
  <2> QED
    BY <1>1, <1>3, <1>5, <1>6, <1>7, <2>1
<1> QED
  BY <1>1, <1>4, <1>7, <1>8, PartitionKeeps DEF b

(* With an order, the pivot at up - 1 stops the way forward.               *)
LEMMA ForwardKeeps == SortConstants /\ IInv /\ Forward => IInv'
<1> SUFFICES ASSUME IInv, Forward
             PROVE  IInv'
  OBVIOUS
<1> DEFINE n == Len(a)
<1>1. ~Ended /\ pc = "forward" /\ i' = i + 1 /\ UNCHANGED <<j, rank, honest>>
  BY DEF Forward, Ended
<1>2. /\ Whole(n, a) /\ n \in Nat /\ Nested(n, calls) /\ calls # <<>>
      /\ lo \in Int /\ up \in Int /\ 1 <= lo /\ lo < up /\ up <= n
      /\ i \in Int /\ j \in Int /\ p \in Int
  BY <1>1, Current
<1>3. /\ up - lo >= 3 /\ P = a[up - 1] /\ lo < j /\ j <= up - 1
      /\ lo <= i /\ i + 1 <= up - 1
  BY <1>1 DEF IInv, Bounded
<1>4. /\ rank \in [1 .. n -> Int] /\ honest \in BOOLEAN
      /\ \A x \in 1 .. n : rank[a[x]] \in Int
  BY Ranks
<1>5. i + 1 \in 1 .. n /\ up - 1 \in 1 .. n /\ rank[a[i + 1]] \in Int /\ rank[P] \in Int
  <2>1. i + 1 \in 1 .. n /\ up - 1 \in 1 .. n
    BY <1>2, <1>3
  <2> QED
    BY <2>1, <1>3, <1>4
<1>6. PICK c \in sort_comp(a[i + 1], P) :
        IF c /\ i + 1 = up - 1 THEN InvalidOrder
        ELSE pc' = (IF c THEN "forward" ELSE "backward") /\ UNCHANGED <<a, calls, p, P>>
  BY DEF Forward
<1>7. /\ c \in BOOLEAN
      /\ honest /\ c => rank[a[i + 1]] < rank[P]
      /\ honest /\ ~c => rank[P] <= rank[a[i + 1]]
  BY <1>5, Answers
<1>8. UNCHANGED <<a, calls, p, P>> /\ lo' = lo /\ up' = up
  BY <1>6 DEF InvalidOrder, lo, up
<1>9. CASE c /\ i + 1 = up - 1
  <2>1. pc' = "error"
    BY <1>6, <1>9 DEF InvalidOrder
  <2>2. ~honest
    BY <1>3, <1>5, <1>7, <1>9
  <2>3. TypeOK' /\ Bounded'
    BY <1>1, <1>2, <1>8, <2>1 DEF IInv, TypeOK, Bounded, Ended
  <2> QED
    BY <1>1, <2>2, <2>3 DEF IInv
<1>10. CASE ~(c /\ i + 1 = up - 1)
  <2>1. pc' = (IF c THEN "forward" ELSE "backward")
    BY <1>6, <1>10
  <2>2. pc' \in {"forward", "backward"} /\ (pc' = "forward" <=> c)
    <3>1. CASE c
      BY <2>1, <3>1
    <3>2. CASE ~c
      BY <2>1, <3>2
    <3> QED
      BY <3>1, <3>2
  <2>3. TypeOK'
    BY <1>1, <1>2, <1>8, <2>2 DEF IInv, TypeOK
  <2>4. Bounded'
    <3>1. pc' = "forward" => i' + 1 <= up - 1
      BY <1>1, <1>2, <1>3, <1>10, <2>2
    <3> QED
      BY <1>1, <1>2, <1>3, <1>8, <2>2, <3>1 DEF Bounded, Ended
  <2>5. ASSUME honest' PROVE Ordered'
    <3>1. honest
      BY <1>1, <2>5
    <3>2. /\ Placed(n, a, calls)
          /\ \A k \in lo .. i - 1 : rank[a[k]] <= rank[P]
          /\ \A k \in j .. up : rank[P] <= rank[a[k]]
          /\ rank[a[i]] <= rank[P]
      BY <1>1, <3>1 DEF IInv, Ordered
    <3>3. Placed(Len(a), a, calls)'
      BY <1>1, <1>8, <3>2 DEF Placed
    <3>4. \A k \in lo .. i' - 1 : rank[a[k]] <= rank[P]
      <4>1. \A k \in lo .. i' - 1 : k \in lo .. i - 1 \/ k = i
        BY <1>1, <1>2
      <4> QED
        BY <3>2, <4>1
    <3>5. /\ pc' = "forward" => rank[a[i']] <= rank[P]
          /\ pc' = "backward" => rank[P] <= rank[a[i']]
      <4>1. honest /\ c => rank[a[i + 1]] <= rank[P]
        BY <1>5, <1>7
      <4>2. pc' = "backward" => ~c
        BY <2>2
      <4> QED
        BY <1>1, <1>7, <2>2, <3>1, <4>1, <4>2
    <3> QED
      BY <1>1, <1>8, <2>2, <3>2, <3>3, <3>4, <3>5 DEF Ordered
  <2> QED
    BY <2>3, <2>4, <2>5 DEF IInv
<1> QED
  BY <1>9, <1>10

(* With an order, the elements that i has passed stop the way back.        *)
LEMMA BackwardKeeps == SortConstants /\ IInv /\ Backward => IInv'
<1> SUFFICES ASSUME SortConstants, IInv, Backward
             PROVE  IInv'
  OBVIOUS
<1> DEFINE n == Len(a)
<1>1. ~Ended /\ pc = "backward" /\ UNCHANGED <<rank, honest>>
  BY DEF Backward, Ended
<1>2. /\ Whole(n, a) /\ n \in Nat /\ Nested(n, calls) /\ calls # <<>>
      /\ lo \in Int /\ up \in Int /\ 1 <= lo /\ lo < up /\ up <= n
      /\ i \in Int /\ j \in Int /\ p \in Int
  BY <1>1, Current
<1>3. /\ up - lo >= 3 /\ P = a[up - 1] /\ lo < j /\ j <= up - 1
      /\ lo < i /\ i <= up - 1
  BY <1>1 DEF IInv, Bounded
<1>4. /\ rank \in [1 .. n -> Int] /\ honest \in BOOLEAN
      /\ \A x \in 1 .. n : rank[a[x]] \in Int
  BY Ranks
<1>5. /\ j - 1 \in lo .. up /\ up - 1 \in lo .. up /\ i \in lo .. up
      /\ j - 1 \in 1 .. n /\ up - 1 \in 1 .. n /\ i \in 1 .. n
      /\ rank[a[j - 1]] \in Int /\ rank[P] \in Int
  <2>1. /\ j - 1 \in lo .. up /\ up - 1 \in lo .. up /\ i \in lo .. up
        /\ j - 1 \in 1 .. n /\ up - 1 \in 1 .. n /\ i \in 1 .. n
    BY <1>2, <1>3
  <2> QED
    BY <2>1, <1>3, <1>4
<1>6. PICK c \in sort_comp(P, a[j - 1]) :
        IF c /\ j - 1 < i THEN InvalidOrder /\ UNCHANGED <<i, j>>
        ELSE IF c THEN j' = j - 1 /\ UNCHANGED <<a, calls, pc, p, i, P>>
        ELSE IF j - 1 < i THEN a' = set2(up - 1, i) /\ \E cs \in BothParts(i) : Sorting(cs)
        ELSE a' = set2(i, j - 1) /\ j' = j - 1 /\ pc' = "forward" /\ UNCHANGED <<calls, p, i, P>>
  BY DEF Backward
<1>7. /\ c \in BOOLEAN
      /\ honest /\ c => rank[P] < rank[a[j - 1]]
      /\ honest /\ ~c => rank[a[j - 1]] <= rank[P]
  BY <1>5, Answers
<1>8. honest => /\ Placed(n, a, calls)
                /\ \A k \in lo .. i - 1 : rank[a[k]] <= rank[P]
                /\ \A k \in j .. up : rank[P] <= rank[a[k]]
                /\ rank[P] <= rank[a[i]]
  BY <1>1 DEF IInv, Ordered
<1>9. CASE c /\ j - 1 < i
  <2>1. pc' = "error" /\ UNCHANGED <<a, calls, p, P, i, j>> /\ lo' = lo /\ up' = up
    BY <1>6, <1>9 DEF InvalidOrder, lo, up
  <2>2. ~honest
    <3>1. j - 1 \in lo .. i - 1
      BY <1>2, <1>3, <1>9
    <3> QED
      BY <3>1, <1>5, <1>7, <1>8, <1>9
  <2>3. TypeOK' /\ Bounded'
    BY <1>1, <1>2, <2>1 DEF IInv, TypeOK, Bounded, Ended
  <2> QED
    BY <1>1, <2>2, <2>3 DEF IInv
<1>10. CASE c /\ ~(j - 1 < i)
  <2>1. j' = j - 1 /\ UNCHANGED <<a, calls, pc, p, i, P>> /\ lo' = lo /\ up' = up
    BY <1>6, <1>10 DEF lo, up
  <2>2. TypeOK'
    BY <1>1, <1>2, <2>1 DEF IInv, TypeOK
  <2>3. Bounded'
    BY <1>1, <1>2, <1>3, <1>10, <2>1 DEF Bounded, Ended
  <2>4. ASSUME honest' PROVE Ordered'
    <3>1. honest
      BY <1>1, <2>4
    <3>2. \A k \in j' .. up : rank[P] <= rank[a[k]]
      <4>1. \A k \in j' .. up : k \in j .. up \/ k = j - 1
        BY <1>2, <2>1
      <4>2. rank[P] <= rank[a[j - 1]]
        BY <1>5, <1>7, <1>10, <3>1
      <4> QED
        BY <1>8, <3>1, <4>1, <4>2
    <3>3. Placed(Len(a), a, calls)'
      BY <1>1, <1>8, <2>1, <3>1 DEF Placed
    <3> QED
      BY <1>1, <1>8, <2>1, <3>1, <3>2, <3>3 DEF Ordered
  <2> QED
    BY <2>2, <2>3, <2>4 DEF IInv
<1>11. CASE ~c /\ j - 1 < i
  <2>1. a' = Exchanged(a, up - 1, i) /\ \E cs \in BothParts(i) : Sorting(cs)
    BY <1>6, <1>11 DEF set2, Exchanged
  <2>2. PICK cs \in BothParts(i) : Sorting(cs)
    BY <2>1
  <2>3. IsExchange(n, a, up - 1, i, a') /\ Within(n, a, a')
    <3> HIDE DEF n
    <3> QED
      BY <1>2, <1>5, <2>1, ExchangeWithin
  <2>4. lo < i /\ i < up
    BY <1>2, <1>3
  <2>5. ASSUME honest PROVE Placed(n, a', cs)
    <3>1. Placed(n, a', calls)
      <4> HIDE DEF n
      <4> QED
        BY <1>2, <1>8, <2>3, <2>5, WithinKeepsPlaces
    <3>2. a'[i] = P /\ rank[P] <= rank[a'[up - 1]]
      BY <1>3, <1>8, <2>3, <2>5 DEF IsExchange
    <3>3. \A x \in (1 .. n) \ {up - 1, i} : a'[x] = a[x]
      BY <2>3 DEF IsExchange
    <3>4. ASSUME NEW x \in lo .. i PROVE rank[a'[x]] <= rank[P] /\ rank[a'[x]] \in Int
      <4>1. CASE x = i
        BY <4>1, <1>5, <3>2
      <4>2. CASE x # i
        <5>1. x \in lo .. i - 1 /\ x \in (1 .. n) \ {up - 1, i}
          BY <4>2, <1>2, <1>3
        <5> QED
          BY <5>1, <1>4, <1>8, <2>5, <3>3
      <4> QED
        BY <4>1, <4>2
    <3>5. ASSUME NEW y \in i .. up PROVE rank[P] <= rank[a'[y]] /\ rank[a'[y]] \in Int
      <4>1. CASE y = i
        BY <4>1, <1>5, <3>2
      <4>2. CASE y = up - 1
        BY <4>2, <1>3, <1>4, <1>5, <2>3, <3>2 DEF IsExchange
      <4>3. CASE y \notin {up - 1, i}
        <5>1. y \in j .. up /\ y \in (1 .. n) \ {up - 1, i}
          BY <4>3, <1>2, <1>3, <1>11
        <5> QED
          BY <5>1, <1>4, <1>8, <2>5, <3>3
      <4> QED
        BY <4>1, <4>2, <4>3
    <3>6. \A x \in lo .. i, y \in i .. up : x < y => rank[a'[x]] <= rank[a'[y]]
      BY <3>4, <3>5, <1>5
    <3> QED
      BY <1>2, <2>4, <3>1, <3>6, PartsAreNested
  <2>6. Nested(n, cs)
    BY <1>2, <2>4, PartsAreNested
  <2> QED
    BY <1>1, <2>2, <2>3, <2>5, <2>6, SortingKeeps DEF IsExchange
<1>12. CASE ~c /\ ~(j - 1 < i)
  <2>1. /\ a' = Exchanged(a, i, j - 1) /\ j' = j - 1 /\ pc' = "forward" /\ UNCHANGED <<calls, p, i, P>>
        /\ lo' = lo /\ up' = up
    BY <1>6, <1>12 DEF set2, Exchanged, lo, up
  <2>2. IsExchange(n, a, i, j - 1, a') /\ Within(n, a, a')
    <3> HIDE DEF n
    <3> QED
      BY <1>2, <1>5, <2>1, ExchangeWithin
  <2>3. /\ Whole(n, a') /\ Len(a') = n /\ a'[i] = a[j - 1] /\ a'[j - 1] = a[i]
        /\ \A x \in (1 .. n) \ {i, j - 1} : a'[x] = a[x]
    BY <2>2 DEF IsExchange
  <2>4. i <= j - 1 /\ j - 1 <= up - 2
    BY <1>2, <1>3, <1>12
  <2>5. a'[up - 1] = P
    <3>1. up - 1 \in (1 .. n) \ {i, j - 1}
      BY <1>2, <1>5, <2>4
    <3> QED
      BY <3>1, <1>3, <2>3
  <2>6. TypeOK'
    BY <1>1, <1>2, <1>4, <2>1, <2>3 DEF TypeOK
  <2>7. Bounded'
    BY <1>1, <1>2, <1>3, <2>1, <2>3, <2>4, <2>5 DEF Bounded, Ended
  <2>8. ASSUME honest' PROVE Ordered'
    <3>1. honest
      BY <1>1, <2>8
    <3>2. Placed(Len(a), a, calls)'
      <4>1. Placed(n, a', calls)
        <5> HIDE DEF n
        <5> QED
          BY <1>2, <1>8, <2>2, <3>1, WithinKeepsPlaces
      <4> QED
        BY <4>1, <1>1, <2>1, <2>3 DEF Placed
    <3>3. ASSUME NEW k \in lo .. i - 1 PROVE rank[a'[k]] <= rank[P]
      <4>1. k \in (1 .. n) \ {i, j - 1}
        BY <1>2, <2>4
      <4> QED
        BY <4>1, <1>8, <2>3, <3>1
    <3>4. ASSUME NEW k \in j - 1 .. up PROVE rank[P] <= rank[a'[k]]
      <4>1. CASE k = j - 1
        BY <4>1, <1>8, <2>3, <3>1
      <4>2. CASE k # j - 1
        <5>1. k \in j .. up /\ k \in (1 .. n) \ {i, j - 1}
          BY <4>2, <1>2, <1>3, <2>4
        <5> QED
          BY <5>1, <1>8, <2>3, <3>1
      <4> QED
        BY <4>1, <4>2
    <3>5. rank[a'[i]] <= rank[P]
      BY <1>7, <1>12, <2>3, <3>1
    <3> QED
      BY <1>1, <2>1, <3>2, <3>3, <3>4, <3>5 DEF Ordered
  <2> QED
    BY <2>6, <2>7, <2>8 DEF IInv
<1> QED
  BY <1>7, <1>9, <1>10, <1>11, <1>12

-----------------------------------------------------------------------------
(* At first the one interval, if there is any, is the whole array.         *)
LEMMA InitHolds == Init => IInv
<1> SUFFICES ASSUME NEW n \in Nat, NEW isorder \in BOOLEAN, NEW ranks \in [1 .. n -> Int], sort(n, ranks, isorder)
             PROVE  IInv
  BY DEF Init
<1>1. a = [k \in 1 .. n |-> k] /\ rank = ranks /\ honest = isorder /\ p = (1 + n) \div 2 /\ i = 0 /\ j = 0
  BY DEF sort
<1>2. a \in [1 .. n -> 1 .. n] /\ \A k \in 1 .. n : a[k] = k
  BY <1>1
<1>3. Len(a) = n /\ Whole(n, a)
  BY <1>2, FunctionIsSequence DEF Whole
<1>4. CASE n > 1
  <2> DEFINE c == [lo |-> 1, up |-> n, rnd |-> FALSE]
  <2>1. calls = <<c>> /\ pc = "ends"
    BY <1>4 DEF sort
  <2>2. c \in Interval /\ c.lo = 1 /\ c.up = n
    BY DEF Interval
  <2> HIDE DEF c
  <2>3. calls \in Seq(Interval) /\ Len(calls) = 1 /\ calls # <<>> /\ calls[1] = c
    BY <2>1, <2>2
  <2>4. Nested(n, calls)
    <3>1. \A k \in 1 .. Len(calls) : k = 1
      BY <2>3
    <3>2. \A k \in 1 .. Len(calls) : 1 .. k - 1 = {}
      BY <3>1
    <3> QED
      BY <1>4, <2>2, <2>3, <3>1, <3>2 DEF Nested
  <2>5. IsPivot(calls[1], p)
    BY <1>1, <2>2, <2>3 DEF IsPivot
  <2>6. Bounded
    BY <1>3, <1>4, <2>1, <2>2, <2>3, <2>4, <2>5 DEF Bounded, Ended, lo, up
  <2>7. TypeOK
    BY <1>1, <1>3, <2>1 DEF TypeOK
  <2>8. Placed(n, a, calls)
    BY <2>2, <2>3 DEF Placed
  <2> QED
    BY <1>3, <2>1, <2>6, <2>7, <2>8 DEF IInv, Ordered
<1>5. CASE ~(n > 1)
  <2>1. calls = <<>> /\ pc = "done"
    BY <1>5 DEF sort
  <2>2. Nested(n, calls)
    BY <2>1 DEF Nested
  <2>3. Bounded
    BY <1>3, <2>1, <2>2 DEF Bounded, Ended
  <2>4. TypeOK
    BY <1>1, <1>3, <2>1 DEF TypeOK
  <2>5. Placed(n, a, calls)
    BY <1>5 DEF Placed
  <2> QED
    BY <1>3, <2>1, <2>3, <2>4, <2>5 DEF IInv, Ordered
<1> QED
  BY <1>4, <1>5

(* Every step keeps the invariant.                                         *)
LEMMA StepKeeps == SortConstants /\ IInv /\ [Next]_vars => IInv'
<1>1. IInv /\ UNCHANGED vars => IInv'
  BY DEF IInv, TypeOK, Bounded, Ordered, Placed, Ended, lo, up, vars
<1> QED
  BY <1>1, CompareEndsKeeps, CompareLowKeeps, CompareHighKeeps, ForwardKeeps, BackwardKeeps DEF Next

(* What table.sort promises follows.                                       *)
LEMMA InvariantIsSafe == IInv => SortIsSafe
<1> SUFFICES ASSUME IInv
             PROVE  SortIsSafe
  OBVIOUS
<1>1. AnyOrderIsSurvived
  <2>1. Range(a) = 1 .. Len(a)
    BY DEF IInv, TypeOK, Whole, Range
  <2>2. ASSUME ~Ended PROVE /\ 1 <= lo /\ lo < up /\ up <= Len(a)
                            /\ lo \in Int /\ up \in Int /\ i \in Int /\ j \in Int
    BY <2>2, Current
  <2>3. pc \in {"low", "high"} => lo <= p /\ p <= up
    BY <2>2 DEF IInv, TypeOK, Bounded, Ended, IsPivot, lo, up
  <2>4. pc = "forward" => lo <= i /\ i + 1 <= up - 1
    BY DEF IInv, Bounded
  <2>5. pc = "backward" => lo < i /\ i <= up - 1 /\ lo <= j - 1 /\ j <= up - 1
    BY <2>2 DEF IInv, Bounded, Ended
  <2> QED
    BY <2>1, <2>2, <2>3, <2>4, <2>5 DEF AnyOrderIsSurvived
<1>2. CallsHalve
  BY DEF IInv, Bounded, Nested, CallsHalve
<1>3. ASSUME honest PROVE OrderIsRespected
  <2>1. Ordered
    BY <1>3 DEF IInv
  <2>2. ASSUME pc = "done" PROVE \A k \in 1 .. Len(a) - 1 : rank[a[k]] <= rank[a[k + 1]]
    <3>1. calls = <<>> /\ Len(a) \in Nat
      BY <2>2 DEF IInv, Bounded, TypeOK, Whole
    <3>2. Placed(Len(a), a, <<>>)
      BY <2>1, <3>1 DEF Ordered
    <3>3. ASSUME NEW k \in 1 .. Len(a) - 1 PROVE rank[a[k]] <= rank[a[k + 1]]
      <4>1. k \in 1 .. Len(a) /\ k + 1 \in 1 .. Len(a) /\ k < k + 1
        BY <3>1
      <4> QED
        BY <3>2, <4>1 DEF Placed
    <3> QED
      BY <3>3
  <2> QED
    BY <2>1, <2>2 DEF OrderIsRespected, Ordered
<1> QED
  BY <1>1, <1>2, <1>3 DEF SortIsSafe, OrderIsRespected

-----------------------------------------------------------------------------
(* An array of any size is read only where it should be, keeps its         *)
(* elements, and is sorted when the comparisons are those of an order; the *)
(* intervals that the calls of auxsort have left shrink to half with each  *)
(* call (sort, auxsort and partition).                                     *)
THEOREM AnyArrayIsSorted ==
  ASSUME SortConstants
  PROVE  Spec => []SortIsSafe
<1>1. Init => IInv
  BY InitHolds
<1>2. IInv /\ [Next]_vars => IInv'
  BY StepKeeps
<1>3. IInv => SortIsSafe
  BY InvariantIsSafe
<1> QED
  BY <1>1, <1>2, <1>3, PTL DEF Spec
=============================================================================
