--------------------------------- MODULE Sort ---------------------------------
(***************************************************************************)
(* table.sort (ltablib.c): quicksort in place, with comparisons that call  *)
(* back.  An order function that is not an order answers anything; it may  *)
(* lead to an error, but to nothing worse.  Each action is a comparison    *)
(* and the work up to the next one.                                        *)
(*                                                                         *)
(* calls has the intervals still to be sorted: the current one first, then *)
(* what each active call of auxsort has left to do.  An interval has its   *)
(* bounds lo and up and tells whether pivots are randomized.               *)
(***************************************************************************)
EXTENDS Integers, SequencesExt

CONSTANTS
  RANLIMIT,      \* intervals beyond it may have random pivots (100)
  IMBALANCE      \* how many times larger the other part may be (128)

SortConstants == RANLIMIT \in Nat /\ RANLIMIT >= 4 /\ IMBALANCE \in Nat \ {0}

VARIABLES
  a,             \* the array; an element is named by where it was at first
  rank,          \* the place of each element in an order
  honest,        \* the comparisons are those of this order
  calls,
  pc,            \* the next comparison
  p, i, j,       \* IdxT of auxsort and of partition
  P              \* the pivot
vars == <<a, rank, honest, calls, pc, p, i, j, P>>

lo == calls[1].lo
up == calls[1].up

(* lua_compare or the order function.                                      *)
sort_comp(x, y) == IF honest THEN {rank[x] < rank[y]} ELSE BOOLEAN
set2(k, l) == [a EXCEPT ![k] = a[l], ![l] = a[k]]
Swapped(c, k, l) == IF c THEN set2(k, l) ELSE a

(* Where pivots may be; any seed may be drawn.                             *)
choosePivot(l, u) ==
  LET r4 == (u - l) \div 4 IN l + r4 .. l + r4 + 2 * r4 - 1
Pivots(c) == IF c.up - c.lo < RANLIMIT \/ ~c.rnd THEN {(c.lo + c.up) \div 2} ELSE choosePivot(c.lo, c.up)

(* The next interval of more than one element, and its pivot.              *)
Sorting(cs) ==
  LET nonempty == {k \in DOMAIN cs : cs[k].lo < cs[k].up}
      left == IF nonempty = {} THEN <<>> ELSE SubSeq(cs, Min(nonempty), Len(cs))
  IN  /\ calls' = left
      /\ IF left = <<>> THEN pc' = "done" /\ p' = p
         ELSE pc' = "ends" /\ p' \in Pivots(left[1])
      /\ UNCHANGED <<i, j, P>>
Finished == Sorting(Tail(calls))

(* sort, of n elements with these ranks.                                   *)
sort(n, ranks, isorder) ==
  /\ a = [k \in 1 .. n |-> k] /\ rank = ranks /\ honest = isorder
  /\ IF n > 1 THEN calls = <<[lo |-> 1, up |-> n, rnd |-> FALSE]>> /\ pc = "ends"
     ELSE calls = <<>> /\ pc = "done"
  /\ p = (1 + n) \div 2 /\ i = 0 /\ j = 0 /\ P = 0

(* a[up] < a[lo]?                                                          *)
CompareEnds ==
  /\ pc = "ends" /\ UNCHANGED <<rank, honest>>
  /\ \E c \in sort_comp(a[up], a[lo]) :
       /\ a' = Swapped(c, lo, up)
       /\ IF up - lo = 1 THEN Finished ELSE pc' = "low" /\ UNCHANGED <<calls, p, i, j, P>>

(* The pivot is put before the last element; array is the array so far.    *)
Partition(array) ==
  IF up - lo = 2 THEN a' = array /\ Finished
  ELSE /\ P' = array[p] /\ a' = [array EXCEPT ![p] = array[up - 1], ![up - 1] = array[p]]
       /\ i' = lo /\ j' = up - 1 /\ pc' = "forward" /\ UNCHANGED <<calls, p>>

(* a[p] < a[lo]?                                                           *)
CompareLow ==
  /\ pc = "low" /\ UNCHANGED <<rank, honest>>
  /\ \E c \in sort_comp(a[p], a[lo]) :
       IF c THEN Partition(set2(p, lo)) ELSE pc' = "high" /\ UNCHANGED <<a, calls, p, i, j, P>>

(* a[up] < a[p]?                                                           *)
CompareHigh ==
  /\ pc = "high" /\ UNCHANGED <<rank, honest>>
  /\ \E c \in sort_comp(a[up], a[p]) : Partition(Swapped(c, p, up))

InvalidOrder == pc' = "error" /\ UNCHANGED <<a, calls, p, P>>

(* Elements equal to the pivot are passed too.                             *)
FaultyForward ==
  /\ pc = "forward" /\ i' = i + 1 /\ UNCHANGED <<j, rank, honest>>
  /\ \E c \in sort_comp(P, a[i + 1]) :
       IF ~c /\ i + 1 = up - 1 THEN InvalidOrder
       ELSE pc' = (IF ~c THEN "forward" ELSE "backward") /\ UNCHANGED <<a, calls, p, P>>

(* a[i] < P? for the next i                                                *)
Forward ==
  /\ pc = "forward" /\ i' = i + 1 /\ UNCHANGED <<j, rank, honest>>
  /\ \E c \in sort_comp(a[i + 1], P) :
       IF c /\ i + 1 = up - 1 THEN InvalidOrder
       ELSE pc' = (IF c THEN "forward" ELSE "backward") /\ UNCHANGED <<a, calls, p, P>>

(* The upper bound stays when the upper part has been sorted.              *)
FaultyBothParts(k) ==
  LET above == [lo |-> k + 1, up |-> up, rnd |-> calls[1].rnd]
      below == [lo |-> lo, up |-> k - 1, rnd |-> calls[1].rnd]
  IN  {IF k - lo < up - k THEN <<below, above>> \o Tail(calls)
       ELSE <<above, [below EXCEPT !.up = up]>> \o Tail(calls)}

(* The larger part is sorted first.                                        *)
FaultyOrder(k) ==
  LET below == [lo |-> lo, up |-> k - 1, rnd |-> calls[1].rnd]
      above == [lo |-> k + 1, up |-> up, rnd |-> calls[1].rnd]
  IN  {IF k - lo < up - k THEN <<above, below>> \o Tail(calls)
       ELSE <<below, above>> \o Tail(calls)}

(* The calls after a partition at k: the smaller part is sorted first.     *)
BothParts(k) ==
  LET below == [lo |-> lo, up |-> k - 1, rnd |-> calls[1].rnd]
      above == [lo |-> k + 1, up |-> up, rnd |-> calls[1].rnd]
      small == IF k - lo < up - k THEN below ELSE above
      large == IF k - lo < up - k THEN above ELSE below
      n == IF k - lo < up - k THEN k - lo ELSE up - k
      seeds == IF (large.up - large.lo) \div IMBALANCE > n THEN BOOLEAN ELSE {large.rnd}
  IN  {<<small, [large EXCEPT !.rnd = r]>> \o Tail(calls) : r \in seeds}

(* The check for a j that passed i is missing.                             *)
FaultyBackward ==
  /\ pc = "backward" /\ UNCHANGED <<rank, honest>>
  /\ \E c \in sort_comp(P, a[j - 1]) :
       IF c THEN j' = j - 1 /\ UNCHANGED <<a, calls, pc, p, i, P>>
       ELSE IF j - 1 < i THEN a' = set2(up - 1, i) /\ \E cs \in BothParts(i) : Sorting(cs)
       ELSE a' = set2(i, j - 1) /\ j' = j - 1 /\ pc' = "forward" /\ UNCHANGED <<calls, p, i, P>>

(* P < a[j]? for the next j; else a[i] and a[j] are exchanged, or the      *)
(* pivot gets its place.                                                   *)
Backward ==
  /\ pc = "backward" /\ UNCHANGED <<rank, honest>>
  /\ \E c \in sort_comp(P, a[j - 1]) :
       IF c /\ j - 1 < i THEN InvalidOrder /\ UNCHANGED <<i, j>>
       ELSE IF c THEN j' = j - 1 /\ UNCHANGED <<a, calls, pc, p, i, P>>
       ELSE IF j - 1 < i THEN a' = set2(up - 1, i) /\ \E cs \in BothParts(i) : Sorting(cs)
       ELSE a' = set2(i, j - 1) /\ j' = j - 1 /\ pc' = "forward" /\ UNCHANGED <<calls, p, i, P>>

Next == CompareEnds \/ CompareLow \/ CompareHigh \/ Forward \/ Backward

-----------------------------------------------------------------------------
Ended == pc \in {"done", "error"}

Init == \E n \in Nat, isorder \in BOOLEAN : \E ranks \in [1 .. n -> Int] : sort(n, ranks, isorder)
Spec == Init /\ [][Next]_vars

(* Whatever the order function answers, nothing outside the interval is    *)
(* read, and no element is lost or doubled.                                *)
AnyOrderIsSurvived ==
  /\ Range(a) = 1 .. Len(a)
  /\ ~Ended => 1 <= lo /\ lo < up /\ up <= Len(a)
  /\ pc \in {"low", "high"} => lo <= p /\ p <= up
  /\ pc = "forward" => lo <= i /\ i + 1 <= up - 1
  /\ pc = "backward" => lo < i /\ i <= up - 1 /\ lo <= j - 1 /\ j <= up - 1

(* What a call of auxsort has left is apart from what the calls that it    *)
(* made have left, and at least as large as all of that with the pivots    *)
(* in between; so every call doubles what is left.                         *)
CallsHalve ==
  \A k \in DOMAIN calls : \A m, n \in 1 .. k - 1 :
    /\ calls[m].up < calls[k].lo \/ calls[k].up < calls[m].lo
    /\ calls[m].up - calls[n].lo <= calls[k].up - calls[k].lo

(* With a real order there is no error, the elements between the pointers  *)
(* and the ends are on the right side of the pivot, and the array ends up  *)
(* sorted.                                                                 *)
OrderIsRespected ==
  honest => /\ pc # "error"
            /\ pc \in {"forward", "backward"} =>
                 /\ \A k \in lo .. i - 1 : rank[a[k]] <= rank[P]
                 /\ \A k \in j .. up : rank[P] <= rank[a[k]]
            /\ pc = "done" => \A k \in 1 .. Len(a) - 1 : rank[a[k]] <= rank[a[k + 1]]

(* What table.sort promises of any order function and of a real order.     *)
SortIsSafe == AnyOrderIsSurvived /\ CallsHalve /\ OrderIsRespected

(* The calls of auxsort nest no deeper than the logarithm of the size, and *)
(* what is sorted is smaller the deeper they are.                          *)
CallsAreShallow == pc # "done" => (up - lo + 2) * 2 ^ (Len(calls) - 1) <= Len(a) + 1
=============================================================================
