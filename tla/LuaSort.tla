------------------------------- MODULE LuaSort -------------------------------
(* table.sort (stdlib/table.go): the quicksort auxSort runs over a table in  *)
(* place, one step per call of the comparator, which may be any Lua function: *)
(* a consistent order, one that contradicts itself, one that fails.           *)
EXTENDS Integers, Sequences, SequencesExt, FiniteSets, FiniteSetsExt

CONSTANTS
  Lists,       \* the lists that are sorted
  Orders       \* the kinds of comparator: "less", "any", "failing"

\* An element stands for its rank in the order the comparator has, if it has one.
ASSUME ListsAssumption == Lists \subseteq Seq(Int)

VARIABLES
  given,       \* the list as it was
  list,        \* the list as it is
  order,       \* the kind of comparator
  cur,         \* the range the innermost call works on, and where it is
  outer,       \* what the calls around it will go on with
  outcome      \* "sorting", "sorted" or "error"

sortVars == <<given, list, order, cur, outer, outcome>>

Stretch(lo, up) == [lo |-> lo, up |-> up, at |-> "ends", i |-> 0, j |-> 0, pivot |-> 0]
Middle(r) == (r.lo + r.up) \div 2

\* The two values the comparator is asked about.
Compared ==
  CASE cur.at = "ends" -> <<list[cur.up], list[cur.lo]>>
    [] cur.at = "low" -> <<list[Middle(cur)], list[cur.lo]>>
    [] cur.at = "high" -> <<list[cur.up], list[Middle(cur)]>>
    [] cur.at = "right" -> <<list[cur.i], cur.pivot>>
    [] cur.at = "left" -> <<cur.pivot, list[cur.j]>>

\* What the comparator may say.
ComparatorSays(less) ==
  \/ order = "less" /\ less = (Compared[1] < Compared[2])
  \/ order \in {"any", "failing"}

Swapped(l, i, j) == [l EXCEPT ![i] = l[j], ![j] = l[i]]

SortInit ==
  /\ given \in Lists /\ list = given /\ order \in Orders
  /\ outer = <<>> /\ cur = Stretch(1, Len(given))
  /\ outcome = IF Len(given) <= 1 THEN "sorted" ELSE "sorting"

\* The loop of auxSort is left: the calls around it go on with their ranges.
SortReturns(ranges) ==
  LET todo == {k \in DOMAIN ranges : ranges[k][1] < ranges[k][2]}
      k == Max(todo)
  IN IF todo = {}
     THEN outcome' = "sorted" /\ outer' = <<>> /\ cur' = cur
     ELSE /\ cur' = Stretch(ranges[k][1], ranges[k][2])
          /\ outer' = SubSeq(ranges, 1, k - 1) /\ outcome' = outcome

SortFails == outcome' = "error" /\ UNCHANGED <<list, cur, outer>>

SortEnds(less) ==
  /\ cur.at = "ends" /\ ComparatorSays(less)
  /\ list' = IF less THEN Swapped(list, cur.lo, cur.up) ELSE list
  /\ IF cur.up - cur.lo = 1 THEN SortReturns(outer)
     ELSE cur' = [cur EXCEPT !.at = "low"] /\ UNCHANGED <<outer, outcome>>

\* The median of the three is in the middle: a range of three is done, another
\* has its pivot put before its last element and is partitioned from both ends.
Partitioned(l) ==
  IF cur.up - cur.lo = 2 THEN list' = l /\ SortReturns(outer)
  ELSE /\ list' = Swapped(l, Middle(cur), cur.up - 1)
       /\ cur' = [cur EXCEPT !.at = "right", !.pivot = l[Middle(cur)],
                             !.i = cur.lo + 1, !.j = cur.up - 1]
       /\ UNCHANGED <<outer, outcome>>

MedianLow(less) ==
  /\ cur.at = "low" /\ ComparatorSays(less)
  /\ IF less THEN Partitioned(Swapped(list, Middle(cur), cur.lo))
     ELSE cur' = [cur EXCEPT !.at = "high"] /\ UNCHANGED <<list, outer, outcome>>

MedianHigh(less) ==
  /\ cur.at = "high" /\ ComparatorSays(less)
  /\ Partitioned(IF less THEN Swapped(list, cur.up, Middle(cur)) ELSE list)

\* Mutant: an order that contradicts itself is not found out.
BugScanRight(less) ==
  /\ cur.at = "right" /\ ComparatorSays(less)
  /\ cur' = IF less THEN [cur EXCEPT !.i = @ + 1] ELSE [cur EXCEPT !.at = "left", !.j = @ - 1]
  /\ UNCHANGED <<list, outer, outcome>>

\* The scan from the left stops at an element that is not less than the pivot.
ScanRight(less) ==
  /\ cur.at = "right" /\ ComparatorSays(less)
  /\ IF less /\ cur.i = cur.up - 1 THEN SortFails
     ELSE /\ cur' = IF less THEN [cur EXCEPT !.i = @ + 1]
                    ELSE [cur EXCEPT !.at = "left", !.j = @ - 1]
          /\ UNCHANGED <<list, outer, outcome>>

\* The partition is complete: the pivot goes between the parts, the smaller one
\* is sorted by a call and the larger one by the loop.
SortParts(i) ==
  LET left == <<cur.lo, i - 1>>
      right == <<i + 1, cur.up>>
  IN
  /\ list' = Swapped(list, cur.up - 1, i)
  /\ SortReturns(outer \o IF i - cur.lo < cur.up - i THEN <<right, left>> ELSE <<left, right>>)

\* The scan from the right stops at one the pivot is not less than.
ScanLeft(less) ==
  /\ cur.at = "left" /\ ComparatorSays(less)
  /\ IF less /\ cur.j < cur.i THEN SortFails
     ELSE IF less
     THEN cur' = [cur EXCEPT !.j = @ - 1] /\ UNCHANGED <<list, outer, outcome>>
     ELSE IF cur.j < cur.i THEN SortParts(cur.i)
     ELSE /\ list' = Swapped(list, cur.i, cur.j)
          /\ cur' = [cur EXCEPT !.at = "right", !.i = @ + 1]
          /\ UNCHANGED <<outer, outcome>>

ComparatorFails == order = "failing" /\ SortFails

SortNext ==
  /\ outcome = "sorting" /\ UNCHANGED <<given, order>>
  /\ \/ \E less \in BOOLEAN : SortEnds(less) \/ MedianLow(less) \/ MedianHigh(less) \/ ScanRight(less) \/ ScanLeft(less)
     \/ ComparatorFails

SortSpec == SortInit /\ [][SortNext]_sortVars

\* -------------------------------------------------------------------------

Occurrences(l, x) == Cardinality({k \in DOMAIN l : l[k] = x})
Log2(n) == Max({k \in 0..n : 2 ^ k <= n})

\* Whatever the comparator says, whenever it is called and when sort fails, the
\* list holds the elements it held, every element read is one of the range, and
\* the calls are no deeper than the logarithm of the length; and a comparator that
\* is an order sorts the list and is never found fault with.
SortExact ==
  /\ \A x \in Range(given) : Occurrences(list, x) = Occurrences(given, x)
  /\ cur.at \in {"right", "left"} => {cur.i, cur.j} \subseteq cur.lo..cur.up
  /\ Len(given) > 0 => Len(outer) <= Log2(Len(given))
  /\ order = "less" =>
    /\ outcome # "error"
    /\ outcome = "sorted" => \A k \in 1..(Len(list) - 1) : list[k] <= list[k + 1]
=============================================================================
