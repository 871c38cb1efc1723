------------------------------- MODULE LuaList -------------------------------
(* The functions of the table library that move elements about                *)
(* (stdlib/table.go), element by element and in the order of the code, on     *)
(* integers as wide as MaxInteger says.  A table is a function from its keys; *)
(* what has no metamethods can give no other answers.  Its length may be one  *)
(* that a __len metamethod answers.                                           *)
EXTENDS LuaString

CONSTANTS
  MaxUnpack       \* the most values unpack returns

At(t, k) == IF k \in DOMAIN t THEN t[k] ELSE NilValue
Put(t, k, v) ==
  IF v = NilValue THEN [i \in DOMAIN t \ {k} |-> t[i]]
  ELSE [i \in DOMAIN t \union {k} |-> IF i = k THEN v ELSE t[i]]

Returns(t, values) == [list |-> t, values |-> values, raise |-> ""]
Refused(t, word) == [list |-> t, values |-> <<>>, raise |-> word]

Upward(from, to) == [n \in 1..Max({0, to - from + 1}) |-> from + n - 1]
Downward(from, to) == [n \in 1..Max({0, from - to + 1}) |-> from - n + 1]

\* table.insert: the elements from the end down to pos go up by one.
TableInsert(t, length, pos, value) ==
  LET shifted == FoldLeft(LAMBDA l, i : Put(l, i, At(l, i - 1)), t, Downward(Wrap(length + 1), pos[1] + 1))
  IN CASE pos = <<>> -> Returns(Put(t, Wrap(length + 1), value), <<>>)
       [] pos # <<>> /\ (pos[1] < 1 \/ pos[1] - 1 > length) -> Refused(t, "position out of bounds")
       [] OTHER -> Returns(Put(shifted, pos[1], value), <<>>)

\* table.remove: those above pos come down by one, and the last place is cleared.
TableRemove(t, length, pos) ==
  LET p == IF pos = <<>> THEN length ELSE pos[1]
      shifted == FoldLeft(LAMBDA l, i : Put(l, i, At(l, Wrap(i + 1))), t, Upward(p, length - 1))
  IN IF p # length /\ (p < 1 \/ p - 1 > length) THEN Refused(t, "position out of bounds")
     ELSE Returns(Put(shifted, Max({p, length}), NilValue), <<At(t, p)>>)

\* Mutant: always upward.
BugTableMove(a1, a2, same, f, e, tt) ==
  LET span == Wrap(e - f)
      count == Wrap(span + 1)
      copied == FoldLeft(LAMBDA l, i : Put(l, Wrap(tt + i), At(IF same THEN l ELSE a1, Wrap(f + i))),
                         IF same THEN a1 ELSE a2, Upward(0, count - 1))
  IN CASE f > e -> Returns(IF same THEN a1 ELSE a2, <<>>)
       [] f <= e /\ (span < 0 \/ count < 0) -> Refused(a2, "too many elements to move")
       [] f <= e /\ count >= 0 /\ span >= 0 /\ Wrap(tt + span) < tt -> Refused(a2, "destination wrap around")
       [] OTHER -> Returns(copied, <<>>)

\* table.move of f..e to tt.., within one table or into another.  Downward where
\* the places overlap and the upward order would read what it has written.
TableMove(a1, a2, same, f, e, tt) ==
  LET span == Wrap(e - f)
      count == Wrap(span + 1)
      copied(order) ==
        FoldLeft(LAMBDA l, i : Put(l, Wrap(tt + i), At(IF same THEN l ELSE a1, Wrap(f + i))),
                 IF same THEN a1 ELSE a2, order)
  IN CASE f > e -> Returns(IF same THEN a1 ELSE a2, <<>>)
       [] f <= e /\ ((f < 0 /\ e > 0 /\ span < 0) \/ count < 0) -> Refused(a2, "too many elements to move")
       [] f <= e /\ count >= 0 /\ span >= 0
            /\ ((span > 0 /\ Wrap(tt + span) < tt) \/ (tt > 0 /\ span > MaxInteger - tt)) ->
            Refused(a2, "destination wrap around")
       [] OTHER -> Returns(copied(IF same /\ tt > f /\ tt <= e THEN Downward(count - 1, 0)
                                ELSE Upward(0, count - 1)), <<>>)

\* table.unpack.  The count is taken without a sign: it is 0 for all integers.
TableUnpack(t, i, j) ==
  LET n == (j - i + 1) % (2 * (MaxInteger + 1))
  IN IF j < i THEN Returns(t, <<>>)
     ELSE IF n = 0 \/ n > MaxUnpack THEN Refused(t, "too many results to unpack")
     ELSE Returns(t, [k \in 1..n |-> At(t, i + k - 1)])

TablePack(values) ==
  LET kept == {k \in DOMAIN values : values[k] # NilValue}
  IN [list |-> [k \in kept |-> values[k]], values |-> <<Integer(Len(values))>>, raise |-> ""]

\* table.concat.  A separator is counted for every element, the last one too.
TableConcat(t, sep, i, j) ==
  LET part(v) == IF v.kind = "integer" THEN Decimal(v.at) ELSE v.text
      joined == FoldLeft(
        LAMBDA acc, k :
          LET v == At(t, k)
              piece == (IF k = i THEN <<>> ELSE sep) \o part(v)
              total == acc.total + Len(part(v)) + Len(sep)
          IN IF acc.raise # "" THEN acc
             ELSE IF v.kind \notin {"string", "integer"} THEN [acc EXCEPT !.raise = "invalid value"]
             ELSE IF total > MaxStrResult THEN [acc EXCEPT !.raise = "resulting string too large"]
             ELSE [acc EXCEPT !.text = @ \o piece, !.total = total],
        [text |-> <<>>, total |-> 0, raise |-> ""], Upward(i, j))
  IN IF joined.raise # "" THEN Refused(t, joined.raise) ELSE Returns(t, <<Text(joined.text)>>)
=============================================================================
