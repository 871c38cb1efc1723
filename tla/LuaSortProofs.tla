---------------------------- MODULE LuaSortProofs ----------------------------
(* That table.sort is exact, for every list: SortExact is an invariant.       *)
(* The ranges the calls of auxSort have before them do not overlap; the       *)
(* elements are in order but within them (OrderedBut), and the comparator has *)
(* said of the range in work what the partition needs (Compares). Each range  *)
(* is at most half of the one a call found it in, which bounds the depth.     *)
EXTENDS LuaSort, FunctionTheorems, FiniteSetTheorems, SequenceTheorems, WellFoundedInduction, TLAPS

\* -------------------------------------------------------------------------
\* Powers of two

\* A power is a natural number, and twice as large with the next exponent: 2 ^ n
\* counts the subsets of 1..n, and half of those of 1..n+1 hold n + 1.
LEMMA PowerOfTwo ==
  /\ 2 ^ 0 = 1
  /\ \A n \in Nat : 2 ^ n \in Nat \ {0} /\ 2 ^ (n + 1) = 2 * 2 ^ n
<1>1. \A n \in Nat : IsFiniteSet(1..n) /\ Cardinality(1..n) = n
  <2>1. \A n \in Nat : IsFiniteSet(1..n) /\ Cardinality(1..n) = IF 1 > n THEN 0 ELSE n - 1 + 1
    BY FS_Interval
  <2>2. QED  BY <2>1
<1>2. \A n \in Nat : IsFiniteSet(SUBSET (1..n)) /\ Cardinality(SUBSET (1..n)) = 2 ^ n
  BY <1>1, FS_SUBSET
<1>3. \A n \in Nat : 2 ^ n \in Nat
  BY <1>2, FS_CardinalityType
<1>4. ASSUME NEW n \in Nat PROVE 2 ^ (n + 1) = 2 * 2 ^ n
  <2> DEFINE A == SUBSET (1..n)
             B == {X \union {n + 1} : X \in A}
             f == [X \in A |-> X \union {n + 1}]
  <2>1. SUBSET (1..(n + 1)) = A \union B
    <3>1. A \subseteq SUBSET (1..(n + 1)) /\ B \subseteq SUBSET (1..(n + 1))
      <4>1. \A X \in A : X \union {n + 1} \in SUBSET (1..(n + 1))
        <5>1. ASSUME NEW X \in A, NEW k \in X \union {n + 1} PROVE k \in 1..(n + 1)
          <6>1. k \in 1..n \/ k = n + 1  OBVIOUS
          <6>2. QED  BY <6>1
        <5>2. QED  BY <5>1
      <4>2. \A X \in A : X \in SUBSET (1..(n + 1))
        OBVIOUS
      <4>3. QED  BY <4>1, <4>2
    <3>2. ASSUME NEW X \in SUBSET (1..(n + 1)), X \notin A PROVE X \in B
      <4>1. n + 1 \in X  BY <3>2
      <4>2. X \ {n + 1} \in A  BY <3>2
      <4>3. X = (X \ {n + 1}) \union {n + 1}  BY <4>1
      <4>4. QED  BY <4>2, <4>3
    <3>3. QED  BY <3>1, <3>2
  <2>2. A \intersect B = {}
    OBVIOUS
  <2>3. ExistsBijection(A, B)
    <3>1. f \in [A -> B]
      OBVIOUS
    <3>2. \A X, Y \in A : f[X] = f[Y] => X = Y
      <4>1. ASSUME NEW X \in A, NEW Y \in A, f[X] = f[Y] PROVE X = Y
        <5>1. X \union {n + 1} = Y \union {n + 1}  BY <4>1
        <5>2. n + 1 \notin X /\ n + 1 \notin Y  OBVIOUS
        <5>3. QED  BY <5>1, <5>2
      <4>2. QED  BY <4>1
    <3>3. \A Z \in B : \E X \in A : f[X] = Z
      OBVIOUS
    <3>4. f \in Bijection(A, B)
      BY <3>1, <3>2, <3>3, Fun_IsBij
    <3>5. QED  BY <3>4 DEF ExistsBijection
  <2>4. IsFiniteSet(A) /\ Cardinality(A) = 2 ^ n
    BY <1>2
  <2>5. IsFiniteSet(B) /\ Cardinality(B) = 2 ^ n
    <3> HIDE DEF A, B
    <3> QED  BY <2>3, <2>4, FS_Bijection
  <2>6. Cardinality(A \union B) = 2 ^ n + 2 ^ n - Cardinality({})
    <3> HIDE DEF A, B
    <3>1. Cardinality(A \union B) = Cardinality(A) + Cardinality(B) - Cardinality(A \intersect B)
      BY <2>4, <2>5, FS_Union
    <3> QED  BY <2>2, <2>4, <2>5, <3>1
  <2>7. Cardinality(SUBSET (1..(n + 1))) = 2 ^ (n + 1)
    BY <1>2
  <2> HIDE DEF A, B
  <2>8. Cardinality(A \union B) = 2 ^ n + 2 ^ n
    BY <2>6, FS_EmptySet, <1>3
  <2>9. 2 ^ (n + 1) = 2 ^ n + 2 ^ n
    BY <2>1, <2>7, <2>8
  <2>10. QED  BY <2>9, <1>3
<1>5. 2 ^ 0 = 1
  OBVIOUS
<1>6. \A n \in Nat : 2 ^ n # 0
  <2>1. ASSUME NEW n \in Nat PROVE 2 ^ n # 0
    <3>1. {} \in SUBSET (1..n)  OBVIOUS
    <3>2. Cardinality(SUBSET (1..n)) = 0 <=> SUBSET (1..n) = {}  BY <1>2, FS_EmptySet
    <3>3. SUBSET (1..n) # {}  BY <3>1
    <3>4. QED  BY <3>2, <3>3, <1>2
  <2>2. QED  BY <2>1
<1>7. QED  BY <1>3, <1>4, <1>5, <1>6

\* -------------------------------------------------------------------------
\* Exchanging two elements

\* What Swapped returns, position by position.
LEMMA SwapIs ==
  ASSUME NEW l \in Seq(Int), NEW i \in 1..Len(l), NEW j \in 1..Len(l)
  PROVE  /\ Swapped(l, i, j) \in Seq(Int)
         /\ Len(Swapped(l, i, j)) = Len(l)
         /\ \A k \in 1..Len(l) : Swapped(l, i, j)[k] = IF k = j THEN l[i] ELSE IF k = i THEN l[j] ELSE l[k]
  BY DEF Swapped

\* An exchange leaves as many of each element: the positions that hold it are
\* those that held it, with i and j exchanged.
LEMMA SwapKeeps ==
  ASSUME NEW l \in Seq(Int), NEW i \in 1..Len(l), NEW j \in 1..Len(l), NEW x
  PROVE  Occurrences(Swapped(l, i, j), x) = Occurrences(l, x)
<1> DEFINE m == Swapped(l, i, j)
           A == {k \in 1..Len(l) : l[k] = x}
           B == {k \in 1..Len(l) : m[k] = x}
           f == [k \in A |-> IF k = i THEN j ELSE IF k = j THEN i ELSE k]
<1>1. \A k \in 1..Len(l) : m[k] = IF k = j THEN l[i] ELSE IF k = i THEN l[j] ELSE l[k]
  BY SwapIs
<1>2. DOMAIN l = 1..Len(l) /\ DOMAIN m = 1..Len(l)
  BY SwapIs, LenProperties
<1> HIDE DEF m
<1>3. f \in [A -> B]
  BY <1>1
<1>4. \A k, n \in A : f[k] = f[n] => k = n
  OBVIOUS
<1>5. \A n \in B : \E k \in A : f[k] = n
  <2>1. ASSUME NEW n \in B PROVE \E k \in A : f[k] = n
    <3>1. CASE n = i
      <4>1. j \in A  BY <1>1, <3>1
      <4>2. f[j] = n  BY <4>1, <3>1
      <4>3. QED  BY <4>1, <4>2
    <3>2. CASE n = j /\ n # i
      <4>1. i \in A  BY <1>1, <3>2
      <4>2. f[i] = n  BY <4>1, <3>2
      <4>3. QED  BY <4>1, <4>2
    <3>3. CASE n # i /\ n # j
      <4>1. n \in A  BY <1>1, <3>3
      <4>2. f[n] = n  BY <4>1, <3>3
      <4>3. QED  BY <4>1, <4>2
    <3>4. QED  BY <3>1, <3>2, <3>3
  <2>2. QED  BY <2>1
<1>6. f \in Bijection(A, B)
  BY <1>3, <1>4, <1>5, Fun_IsBij
<1>7. ExistsBijection(A, B)
  BY <1>6 DEF ExistsBijection
<1>8. IsFiniteSet(A)
  <2>1. IsFiniteSet(1..Len(l))  BY FS_Interval, LenProperties
  <2>2. A \in SUBSET (1..Len(l))  OBVIOUS
  <2>3. QED  BY <2>1, <2>2, FS_Subset
<1> HIDE DEF A, B
<1>9. Cardinality(B) = Cardinality(A)
  BY <1>7, <1>8, FS_Bijection
<1>10. QED  BY <1>9, <1>2 DEF Occurrences, A, B, m

\* -------------------------------------------------------------------------
\* The invariant

Positions == {"ends", "low", "high", "right", "left"}
CurType == [lo : Int, up : Int, at : Positions, i : Int, j : Int, pivot : Int]

Typed ==
  /\ given \in Seq(Int) /\ list \in Seq(Int) /\ Len(list) = Len(given)
  /\ cur \in CurType /\ outer \in Seq(Int \X Int)
  /\ outcome \in {"sorting", "sorted", "error"}

\* The elements are those that were given.
Kept == \A x \in Int : Occurrences(list, x) = Occurrences(given, x)

\* The ranges that are not sorted yet, the one cur works on last.
Ranges == Append(outer, <<cur.lo, cur.up>>)
Size(r) == r[2] - r[1] + 1
Apart(a, b) == a[2] < b[1] \/ b[2] < a[1]

\* They lie in a list of n elements, do not overlap, and each is at most half as
\* large as the call around it was.
Good(R, n) ==
  /\ R \in Seq(Int \X Int)
  /\ \A k \in 1..Len(R) :
       /\ 1 <= R[k][1] /\ R[k][1] <= R[k][2] /\ R[k][2] <= n
       /\ Size(R[k]) + k - 1 <= n /\ Size(R[k]) * 2 ^ (k - 1) <= n
  /\ \A k, m \in 1..Len(R) : k # m => Apart(R[k], R[m])

\* Two elements are in order unless one of the ranges holds both.
OrderedBut(l, R) ==
  \A p, q \in 1..Len(l) : p < q =>
    l[p] <= l[q] \/ \E k \in 1..Len(R) : R[k][1] <= p /\ q <= R[k][2]

\* The two scans stay between the ends of the range.
Scanning ==
  /\ cur.at = "right" => cur.i \in (cur.lo + 1)..(cur.up - 1) /\ cur.j \in (cur.lo + 1)..(cur.up - 1)
  /\ cur.at = "left" => cur.i \in (cur.lo + 1)..(cur.up - 1) /\ cur.j \in cur.lo..(cur.up - 2)
  /\ cur.at \in {"low", "high"} => cur.up - cur.lo >= 2
  /\ cur.at \in {"right", "left"} => cur.up - cur.lo >= 3

Bounded ==
  /\ Scanning
  /\ outcome = "sorted" => outer = <<>>
  /\ outcome # "sorted" => cur.lo < cur.up /\ Good(Ranges, Len(list))

\* What a comparator that is an order has said so far about the range.
Compares(l, c) ==
  /\ c.at # "ends" => l[c.lo] <= l[c.up]
  /\ c.at = "high" => l[c.lo] <= l[Middle(c)]
  /\ c.at \in {"right", "left"} =>
       /\ c.pivot = l[c.up - 1]
       /\ \A k \in c.lo..(c.i - 1) : l[k] <= c.pivot
  /\ c.at = "right" => \A k \in c.j..c.up : c.pivot <= l[k]
  /\ c.at = "left" => c.pivot <= l[c.i] /\ \A k \in (c.j + 1)..c.up : c.pivot <= l[k]

Sorts ==
  order = "less" =>
    /\ outcome # "error"
    /\ outcome = "sorting" => OrderedBut(list, Ranges) /\ Compares(list, cur)
    /\ outcome = "sorted" => OrderedBut(list, <<>>)

IInv == Typed /\ Kept /\ Bounded /\ Sorts

\* -------------------------------------------------------------------------
\* Ranges

\* The fields of a record of CurType.
LEMMA Fields ==
  ASSUME NEW c \in CurType
  PROVE  /\ c.lo \in Int /\ c.up \in Int /\ c.at \in Positions
         /\ c.i \in Int /\ c.j \in Int /\ c.pivot \in Int
  BY DEF CurType

\* A sequence of ranges is a function from positions to pairs of integers.
LEMMA RangeTypes ==
  ASSUME NEW R \in Seq(Int \X Int)
  PROVE  /\ Len(R) \in Nat
         /\ \A k \in 1..Len(R) : R[k] \in Int \X Int /\ R[k][1] \in Int /\ R[k][2] \in Int
  OBVIOUS

\* What Append(R, r) holds.
LEMMA AppendIs ==
  ASSUME NEW R \in Seq(Int \X Int), NEW r \in Int \X Int
  PROVE  /\ Append(R, r) \in Seq(Int \X Int) /\ Len(Append(R, r)) = Len(R) + 1
         /\ Append(R, r)[Len(R) + 1] = r
         /\ \A k \in 1..Len(R) : Append(R, r)[k] = R[k]
  OBVIOUS

\* A prefix of ranges: those that are left are as good as before.
LEMMA PrefixIsGood ==
  ASSUME NEW n \in Nat, NEW R, Good(R, n), NEW k \in 0..Len(R)
  PROVE  Good(SubSeq(R, 1, k), n)
<1> DEFINE T == SubSeq(R, 1, k)
<1>1. R \in Seq(Int \X Int) /\ Len(R) \in Nat  BY DEF Good
<1>2. T \in Seq(Int \X Int) /\ Len(T) = k /\ \A m \in 1..k : T[m] = R[m]
  BY <1>1
<1> HIDE DEF T
<1>3. \A m \in 1..k : m \in 1..Len(R)  BY <1>1
<1>4. \A m \in 1..k :
        /\ 1 <= T[m][1] /\ T[m][1] <= T[m][2] /\ T[m][2] <= n
        /\ Size(T[m]) + m - 1 <= n /\ Size(T[m]) * 2 ^ (m - 1) <= n
  <2>1. ASSUME NEW m \in 1..k
        PROVE  /\ 1 <= T[m][1] /\ T[m][1] <= T[m][2] /\ T[m][2] <= n
               /\ Size(T[m]) + m - 1 <= n /\ Size(T[m]) * 2 ^ (m - 1) <= n
    <3>1. T[m] = R[m] /\ m \in 1..Len(R)  BY <1>2, <1>3
    <3>2. QED  BY Zenon, <3>1 DEF Good
  <2>2. QED  BY <2>1
<1>5. \A m, h \in 1..k : m # h => Apart(T[m], T[h])
  BY Zenon, <1>2, <1>3 DEF Good
<1>6. QED  BY Zenon, <1>2, <1>4, <1>5 DEF Good, T

\* What a good sequence of ranges is, range by range.
LEMMA GoodIs ==
  ASSUME NEW n \in Nat, NEW R, Good(R, n)
  PROVE  /\ Len(R) \in Nat
         /\ \A k \in 1..Len(R) :
              /\ R[k][1] \in Int /\ R[k][2] \in Int
              /\ 1 <= R[k][1] /\ R[k][1] <= R[k][2] /\ R[k][2] <= n
         /\ \A k, m \in 1..Len(R) : k # m => R[k][2] < R[m][1] \/ R[m][2] < R[k][1]
<1>1. R \in Seq(Int \X Int)  BY DEF Good
<1>2. Len(R) \in Nat /\ \A k \in 1..Len(R) : R[k][1] \in Int /\ R[k][2] \in Int
  BY <1>1, RangeTypes
<1>3. QED  BY <1>2 DEF Good, Apart

\* Two positions, one of them outside a range, stay in order when only what lies inside is moved.
LEMMA MovedApart ==
  ASSUME NEW lo \in Int, NEW up \in Int, NEW p \in Int, NEW q \in Int, NEW a \in Int, NEW b \in Int,
         p < q, ~((lo <= p /\ p <= up) /\ (lo <= q /\ q <= up)),
         a = p \/ ((lo <= p /\ p <= up) /\ (lo <= a /\ a <= up)),
         b = q \/ ((lo <= q /\ q <= up) /\ (lo <= b /\ b <= up))
  PROVE  a < b
<1>1. CASE a = p /\ b = q
  BY <1>1
<1>2. CASE a # p
  BY <1>2
<1>3. CASE b # q
  BY <1>3
<1>4. QED  BY <1>1, <1>2, <1>3

\* Exchanging two elements of one range leaves in order what was.
LEMMA ExchangeInRange ==
  ASSUME NEW l \in Seq(Int), NEW R, Good(R, Len(l)), OrderedBut(l, R),
         NEW m \in 1..Len(R), NEW i \in R[m][1]..R[m][2], NEW j \in R[m][1]..R[m][2]
  PROVE  OrderedBut(Swapped(l, i, j), R)
<1>1. PICK n \in Nat : n = Len(l)
  BY LenProperties
<1>2. PICK z \in Nat : z = Len(R)
  BY <1>1, GoodIs
<1>3. Good(R, n) /\ OrderedBut(l, R) /\ m \in 1..z
  BY <1>1, <1>2
<1> DEFINE In(p, k) == R[k][1] <= p /\ p <= R[k][2]
           t == Swapped(l, i, j)
<1>4. \A k \in 1..z : R[k][1] \in Int /\ R[k][2] \in Int /\ \A p \in Int : In(p, k) => p \in 1..n
  BY <1>2, <1>3, GoodIs
<1>5. \A k \in 1..z, p \in Int : In(p, k) /\ In(p, m) => k = m
  <2>1. ASSUME NEW k \in 1..z, NEW p \in Int, In(p, k), In(p, m), k # m PROVE FALSE
    <3>1. R[k][2] < R[m][1] \/ R[m][2] < R[k][1]  BY <2>1, <1>2, <1>3, GoodIs
    <3>2. R[k][1] \in Int /\ R[k][2] \in Int /\ R[m][1] \in Int /\ R[m][2] \in Int  BY <1>3, <1>4
    <3>3. QED  BY <2>1, <3>1, <3>2
  <2>2. QED  BY <2>1
<1>6. i \in Int /\ j \in Int /\ In(i, m) /\ In(j, m) /\ i \in 1..n /\ j \in 1..n
  BY <1>3, <1>4
<1>7. Len(t) = n /\ \A k \in 1..n : t[k] = IF k = j THEN l[i] ELSE IF k = i THEN l[j] ELSE l[k]
  <2>1. i \in 1..Len(l) /\ j \in 1..Len(l)  BY <1>1, <1>6
  <2>2. /\ Len(t) = Len(l)
        /\ \A k \in 1..Len(l) : t[k] = IF k = j THEN l[i] ELSE IF k = i THEN l[j] ELSE l[k]
    BY <2>1, SwapIs
  <2> HIDE DEF t
  <2>3. QED  BY <2>2, <1>1
<1> HIDE DEF t
<1>8. \A p \in 1..n : \E a \in 1..n : t[p] = l[a] /\ (a = p \/ (In(p, m) /\ In(a, m)))
  <2>1. ASSUME NEW p \in 1..n PROVE \E a \in 1..n : t[p] = l[a] /\ (a = p \/ (In(p, m) /\ In(a, m)))
    <3> HIDE DEF In
    <3>1. CASE p = j  BY <3>1, <1>6, <1>7
    <3>2. CASE p # j /\ p = i  BY <3>2, <1>6, <1>7
    <3>3. CASE p # j /\ p # i  BY <3>3, <1>7
    <3>4. QED  BY <3>1, <3>2, <3>3
  <2>2. QED  BY <2>1
<1>9. \A p, q \in 1..n : p < q => l[p] <= l[q] \/ \E k \in 1..z : In(p, k) /\ In(q, k)
  <2>1. ASSUME NEW p \in 1..n, NEW q \in 1..n, p < q, NEW k \in 1..z, R[k][1] <= p, q <= R[k][2]
        PROVE  In(p, k) /\ In(q, k)
    BY <2>1, <1>4
  <2>2. QED  BY <2>1, <1>1, <1>2, <1>3 DEF OrderedBut
<1>10. ASSUME NEW p \in 1..n, NEW q \in 1..n, p < q
       PROVE  t[p] <= t[q] \/ \E k \in 1..z : In(p, k) /\ In(q, k)
  <2>1. PICK a \in 1..n : t[p] = l[a] /\ (a = p \/ (In(p, m) /\ In(a, m)))
    BY <1>8
  <2>2. PICK b \in 1..n : t[q] = l[b] /\ (b = q \/ (In(q, m) /\ In(b, m)))
    BY <1>8
  <2>3. CASE In(p, m) /\ In(q, m)
    BY <2>3, <1>3
  <2>4. CASE ~(In(p, m) /\ In(q, m))
    <3>1. a < b
      <4>1. R[m][1] \in Int /\ R[m][2] \in Int  BY <1>3, <1>4
      <4>2. p \in Int /\ q \in Int /\ a \in Int /\ b \in Int  OBVIOUS
      <4>3. p < q  BY <1>10
      <4> HIDE DEF In
      <4>4. QED  BY ONLY SMTT(30), <4>1, <4>2, <4>3, <2>1, <2>2, <2>4, MovedApart DEF In
    <3>2. CASE l[a] <= l[b]
      BY <3>2, <2>1, <2>2
    <3>3. CASE \E k \in 1..z : In(a, k) /\ In(b, k)
      <4>1. PICK k \in 1..z : In(a, k) /\ In(b, k)  BY <3>3
      <4> HIDE DEF In
      <4>2. a \in Int /\ b \in Int  OBVIOUS
      <4>3. k = m => a = p /\ b = q
        BY <4>1, <2>1, <2>2, <2>4
      <4>4. k # m => a = p /\ b = q
        BY <4>1, <4>2, <2>1, <2>2, <1>5
      <4>5. QED  BY <4>1, <4>3, <4>4
    <3>4. QED  BY <3>1, <3>2, <3>3, <1>9
  <2>5. QED  BY <2>3, <2>4
<1>11. QED
  <2>1. ASSUME NEW p \in 1..n, NEW q \in 1..n, p < q
        PROVE  t[p] <= t[q] \/ \E k \in 1..z : R[k][1] <= p /\ q <= R[k][2]
    BY <2>1, <1>10
  <2>2. Len(t) = n /\ Len(R) = z  BY <1>2, <1>7
  <2>3. QED  BY <2>1, <2>2 DEF OrderedBut, t

\* A set of numbers up to n has a greatest one.
LEMMA Greatest ==
  ASSUME NEW n \in Nat, NEW S, S \subseteq 0 .. n, S # {}
  PROVE  Max(S) \in S /\ \A y \in S : y <= Max(S)
  <1> DEFINE R == OpToRel(<, Nat)
             T == {n - x : x \in S}
  <1>1. \A x, y \in Nat : x < y => <<x, y>> \in R
    BY DEF OpToRel
  <1>3. IsWellFoundedOn(R, Nat)
    BY NatLessThanWellFounded
  <1> HIDE DEF R
  <1>2. T \subseteq Nat /\ T # {}
    <2>1. \A x \in S : x \in 0 .. n /\ n - x \in Nat
      OBVIOUS
    <2> QED BY <2>1
  <1>4. PICK t \in T : \A y \in T : ~ (<<y, t>> \in R)
    BY <1>2, <1>3, WFMin
  <1>5. PICK x \in S : t = n - x
    BY <1>4
  <1>6. \A y \in S : x >= y
    <2> SUFFICES ASSUME NEW y \in S PROVE x >= y
      OBVIOUS
    <2>1. n - y \in T /\ n - y \in Nat /\ t \in Nat
      BY <1>2, <1>4
    <2>2. ~(n - y < t)
      BY <1>1, <1>4, <2>1
    <2>3. x \in Int /\ y \in Int
      OBVIOUS
    <2> QED BY <1>5, <2>2, <2>3
  <1>7. \E z \in S : \A y \in S : z >= y
    BY <1>6
  <1>8. Max(S) \in S /\ \A y \in S : Max(S) >= y
    BY <1>7 DEF Max
  <1>9. \A y \in S : y \in Int
    OBVIOUS
  <1> HIDE DEF T
  <1> QED BY <1>8, <1>9

\* The range a call goes on with is the last that is not trivial, and the ones
\* before it stay.
LEMMA NextRange ==
  ASSUME NEW n \in Nat, NEW R, Good(R, n), cur \in CurType, SortReturns(R)
  PROVE  \/ /\ outcome' = "sorted" /\ outer' = <<>> /\ cur' = cur
            /\ \A k \in 1..Len(R) : R[k][1] >= R[k][2]
         \/ /\ outcome' = outcome /\ cur' \in CurType /\ cur'.at = "ends" /\ cur'.lo < cur'.up
            /\ outer' \in Seq(Int \X Int)
            /\ \E k \in 1..Len(R) :
                 /\ Ranges' = SubSeq(R, 1, k)
                 /\ \A m \in 1..Len(R) : m > k => R[m][1] >= R[m][2]
<1> DEFINE todo == {k \in DOMAIN R : R[k][1] < R[k][2]}
           k == Max(todo)
<1>1. /\ R \in Seq(Int \X Int) /\ Len(R) \in Nat
      /\ \A m \in 1..Len(R) : R[m] \in Int \X Int /\ R[m][1] \in Int /\ R[m][2] \in Int
  BY RangeTypes DEF Good
<1>2. todo = {m \in 1..Len(R) : R[m][1] < R[m][2]}
  BY <1>1, LenProperties
<1>3. CASE todo = {}
  <2>1. outcome' = "sorted" /\ outer' = <<>> /\ cur' = cur
    BY <1>3 DEF SortReturns
  <2>2. \A m \in 1..Len(R) : R[m][1] >= R[m][2]
    BY <1>1, <1>2, <1>3
  <2>3. QED  BY <2>1, <2>2
<1>4. CASE todo # {}
  <2>1. k \in todo /\ \A m \in todo : k >= m
    <3>1. todo \subseteq 0..Len(R)  BY <1>1, <1>2
    <3>2. \A m \in todo : m \in Int  BY <3>1
    <3>3. k \in todo /\ \A m \in todo : m <= k
      <4> HIDE DEF todo
      <4>1. QED  BY <3>1, <1>1, <1>4, Greatest
    <3>4. k \in Int  BY <3>2, <3>3
    <3>5. QED  BY <3>2, <3>3, <3>4
  <2>2. cur' = Stretch(R[k][1], R[k][2]) /\ outer' = SubSeq(R, 1, k - 1) /\ outcome' = outcome
    BY <1>4 DEF SortReturns
  <2>3. k \in 1..Len(R) /\ R[k][1] < R[k][2]
    BY <2>1, <1>2
  <2>4. \A m \in 1..Len(R) : m > k => R[m][1] >= R[m][2]
    <3>1. ASSUME NEW m \in 1..Len(R), m > k PROVE R[m][1] >= R[m][2]
      <4>1. m \notin todo
        <5>1. ASSUME m \in todo PROVE FALSE
          <6>1. k >= m  BY <5>1, <2>1
          <6> HIDE DEF k
          <6>2. QED  BY <6>1, <3>1, <2>3
        <5>2. QED  BY <5>1
      <4>2. QED  BY <4>1, <1>2, <1>1
    <3>2. QED  BY <3>1
  <2> HIDE DEF k, todo
  <2>5. cur' = [lo |-> R[k][1], up |-> R[k][2], at |-> "ends", i |-> 0, j |-> 0, pivot |-> 0]
    BY <2>2 DEF Stretch
  <2>6. cur' \in CurType /\ cur'.at = "ends" /\ cur'.lo = R[k][1] /\ cur'.up = R[k][2]
    BY <2>5, <2>3, <1>1 DEF CurType, Positions
  <2>7. outer' \in Seq(Int \X Int) /\ Len(outer') = k - 1 /\ \A m \in 1..(k - 1) : outer'[m] = R[m]
    BY SMTT(30), <2>2, <2>3, <1>1
  <2>8. Ranges' = Append(outer', <<cur'.lo, cur'.up>>)
    BY DEF Ranges
  <2>9. <<cur'.lo, cur'.up>> = R[k]
    BY <2>6, <2>3, <1>1
  <2>10. Ranges' = SubSeq(R, 1, k)
    <3> DEFINE s == Append(outer', R[k])
               t == SubSeq(R, 1, k)
    <3>1. s \in Seq(Int \X Int) /\ Len(s) = k /\ s[k] = R[k] /\ \A m \in 1..(k - 1) : s[m] = R[m]
      <4>1. R[k] \in Int \X Int  BY <2>3, <1>1
      <4>2. Len(outer') + 1 = k  BY <2>7, <2>3
      <4>3. QED  BY <4>1, <4>2, <2>7, AppendIs
    <3>2. t \in Seq(Int \X Int) /\ Len(t) = k /\ \A m \in 1..k : t[m] = R[m]
      BY <2>3, <1>1
    <3>3. \A m \in 1..k : s[m] = t[m]
      <4> HIDE DEF s, t
      <4>1. \A m \in 1..k : m = k \/ m \in 1..(k - 1)  BY <2>3
      <4>2. QED  BY <3>1, <3>2, <4>1
    <3>4. s = t
      <4> HIDE DEF s, t
      <4> QED  BY <3>1, <3>2, <3>3, SeqEqual
    <3>5. QED  BY <3>4, <2>8, <2>9
  <2>11. QED  BY <2>2, <2>3, <2>4, <2>6, <2>7, <2>10
<1>5. QED  BY <1>3, <1>4

\* The last range is done: the others are as good as they were.
LEMMA DropLast ==
  ASSUME NEW n \in Nat, NEW R \in Seq(Int \X Int), NEW r \in Int \X Int, Good(Append(R, r), n)
  PROVE  Good(R, n)
<1>1. /\ Len(Append(R, r)) = Len(R) + 1 /\ Len(R) \in Nat
      /\ \A k \in 1..Len(R) : Append(R, r)[k] = R[k] /\ k \in 1..(Len(R) + 1)
  BY AppendIs, RangeTypes
<1>2. QED  BY <1>1 DEF Good

\* When its elements are in order, the list is as ordered without it.
LEMMA DropLastOrdered ==
  ASSUME NEW l \in Seq(Int), NEW R \in Seq(Int \X Int), NEW r \in Int \X Int,
         OrderedBut(l, Append(R, r)),
         \A p, q \in 1..Len(l) : p < q /\ r[1] <= p /\ q <= r[2] => l[p] <= l[q]
  PROVE  OrderedBut(l, R)
<1>1. /\ Len(Append(R, r)) = Len(R) + 1 /\ Len(R) \in Nat /\ Append(R, r)[Len(R) + 1] = r
      /\ \A k \in 1..Len(R) : Append(R, r)[k] = R[k]
  BY AppendIs, RangeTypes
<1>2. ASSUME NEW p \in 1..Len(l), NEW q \in 1..Len(l), p < q, ~(l[p] <= l[q])
      PROVE  \E k \in 1..Len(R) : R[k][1] <= p /\ q <= R[k][2]
  <2>1. PICK k \in 1..(Len(R) + 1) : Append(R, r)[k][1] <= p /\ q <= Append(R, r)[k][2]
    BY <1>1, <1>2 DEF OrderedBut
  <2>2. k # Len(R) + 1  BY <2>1, <1>1, <1>2
  <2>3. k \in 1..Len(R)
    <3>1. PICK d \in Nat : d = Len(R)  BY <1>1
    <3>2. k \in 1..(d + 1) /\ k # d + 1  BY <3>1, <2>1, <2>2
    <3>3. k \in 1..d  BY <3>2
    <3>4. QED  BY <3>1, <3>3
  <2>4. QED  BY <2>1, <2>3, <1>1
<1>3. QED  BY <1>2 DEF OrderedBut

\* Twice half the size fits into the same bound with one more doubling.
LEMMA Halved ==
  ASSUME NEW n \in Nat, NEW s \in Nat, NEW t \in Nat, NEW P \in Nat, s * P <= n
  PROVE  /\ t <= s => t * P <= n
         /\ 2 * t <= s => t * (2 * P) <= n
<1>1. ASSUME NEW a \in Nat, NEW b \in Nat, a <= b PROVE a * P <= b * P
  <2>1. PICK c \in Nat : b = a + c
    <3>1. b - a \in Nat  BY <1>1
    <3>2. b = a + (b - a)  OBVIOUS
    <3>3. QED  BY <3>1, <3>2
  <2>2. b * P = a * P + c * P  BY <2>1
  <2>3. a * P \in Nat /\ c * P \in Nat  OBVIOUS
  <2>4. QED  BY <2>2, <2>3
<1>2. t * (2 * P) = (2 * t) * P  OBVIOUS
<1>3. 2 * t \in Nat /\ s * P \in Nat /\ t * P \in Nat /\ (2 * t) * P \in Nat  OBVIOUS
<1>4. t <= s => t * P <= s * P  BY <1>1
<1>5. 2 * t <= s => (2 * t) * P <= s * P  BY <1>1, <1>3
<1>6. QED  BY <1>2, <1>3, <1>4, <1>5

\* What follows R in R \o <<a, b>>.
LEMMA TwoMore ==
  ASSUME NEW R \in Seq(Int \X Int), NEW a \in Int \X Int, NEW b \in Int \X Int
  PROVE  /\ R \o <<a, b>> \in Seq(Int \X Int) /\ Len(R \o <<a, b>>) = Len(R) + 2
         /\ (R \o <<a, b>>)[Len(R) + 1] = a /\ (R \o <<a, b>>)[Len(R) + 2] = b
         /\ \A k \in 1..Len(R) : (R \o <<a, b>>)[k] = R[k]
<1>1. <<a, b>> \in Seq(Int \X Int) /\ Len(<<a, b>>) = 2 /\ <<a, b>>[1] = a /\ <<a, b>>[2] = b
  OBVIOUS
<1>2. Len(R) \in Nat  BY RangeTypes
<1>3. /\ R \o <<a, b>> \in Seq(Int \X Int) /\ Len(R \o <<a, b>>) = Len(R) + 2
      /\ \A i \in 1..(Len(R) + 2) : (R \o <<a, b>>)[i] = IF i <= Len(R) THEN R[i] ELSE <<a, b>>[i - Len(R)]
  BY <1>1, ConcatProperties
<1>4. Len(R) + 1 \in 1..(Len(R) + 2) /\ Len(R) + 2 \in 1..(Len(R) + 2)
      /\ ~(Len(R) + 1 <= Len(R)) /\ ~(Len(R) + 2 <= Len(R))
      /\ Len(R) + 1 - Len(R) = 1 /\ Len(R) + 2 - Len(R) = 2
      /\ \A k \in 1..Len(R) : k \in 1..(Len(R) + 2) /\ k <= Len(R)
  BY <1>2
<1> HIDE <1>1
<1>5. QED  BY <1>1, <1>3, <1>4

\* The last range is replaced by two parts of it, the second at most half of it.
LEMMA SplitLast ==
  ASSUME NEW n \in Nat, NEW R \in Seq(Int \X Int), NEW r \in Int \X Int, Good(Append(R, r), n),
         NEW a \in Int \X Int, NEW b \in Int \X Int,
         r[1] <= a[1], a[1] <= a[2], a[2] <= r[2], r[1] <= b[1], b[1] <= b[2], b[2] <= r[2],
         Apart(a, b), 2 * Size(b) <= Size(r)
  PROVE  Good(R \o <<a, b>>, n)
<1> DEFINE A == Append(R, r)
           T == R \o <<a, b>>
<1>1. PICK d \in Nat : d = Len(R)
  BY RangeTypes
<1>2. Len(A) = d + 1 /\ A[d + 1] = r /\ \A k \in 1..d : A[k] = R[k]
  BY <1>1, AppendIs
<1>3. T \in Seq(Int \X Int) /\ Len(T) = d + 2 /\ T[d + 1] = a /\ T[d + 2] = b /\ \A k \in 1..d : T[k] = R[k]
  BY <1>1, TwoMore
<1> HIDE DEF T, A
<1>4. /\ r[1] \in Int /\ r[2] \in Int /\ a[1] \in Int /\ a[2] \in Int /\ b[1] \in Int /\ b[2] \in Int
  OBVIOUS
<1>5. /\ 1 <= r[1] /\ r[1] <= r[2] /\ r[2] <= n /\ Size(r) + d <= n /\ Size(r) * 2 ^ d <= n
      /\ \A k \in 1..d :
           /\ 1 <= R[k][1] /\ R[k][1] <= R[k][2] /\ R[k][2] <= n
           /\ Size(R[k]) + k - 1 <= n /\ Size(R[k]) * 2 ^ (k - 1) <= n
           /\ Apart(R[k], r)
           /\ \A m \in 1..d : k # m => Apart(R[k], R[m])
  <2>1. /\ \A k \in 1..(d + 1) :
             /\ 1 <= A[k][1] /\ A[k][1] <= A[k][2] /\ A[k][2] <= n
             /\ Size(A[k]) + k - 1 <= n /\ Size(A[k]) * 2 ^ (k - 1) <= n
        /\ \A k, m \in 1..(d + 1) : k # m => Apart(A[k], A[m])
    BY <1>2 DEF Good, A
  <2>2. d + 1 \in 1..(d + 1) /\ d + 1 - 1 = d /\ \A k \in 1..d : k \in 1..(d + 1) /\ k # d + 1
    OBVIOUS
  <2>3. Size(r) + (d + 1) - 1 <= n /\ Size(r) * 2 ^ (d + 1 - 1) <= n
    BY <2>1, <2>2, <1>2
  <2>4. Size(r) + d <= n
    BY <2>3, <1>4 DEF Size
  <2>5. \A k, m \in 1..d : k # m => Apart(R[k], R[m])
    BY <2>1, <2>2, <1>2
  <2>6. \A k \in 1..d : Apart(R[k], r)
    BY <2>1, <2>2, <1>2
  <2>7. \A k \in 1..d :
           /\ 1 <= R[k][1] /\ R[k][1] <= R[k][2] /\ R[k][2] <= n
           /\ Size(R[k]) + k - 1 <= n /\ Size(R[k]) * 2 ^ (k - 1) <= n
    BY <2>1, <2>2, <1>2
  <2>8. 1 <= r[1] /\ r[1] <= r[2] /\ r[2] <= n
    BY <2>1, <2>2, <1>2
  <2>9. QED  BY <2>2, <2>3, <2>4, <2>5, <2>6, <2>7, <2>8
<1>6. \A k \in 1..d : R[k][1] \in Int /\ R[k][2] \in Int
  BY <1>1, RangeTypes
<1>7. \A k \in 1..d : Apart(R[k], a) /\ Apart(R[k], b) /\ Apart(a, R[k]) /\ Apart(b, R[k])
  <2>1. ASSUME NEW k \in 1..d PROVE Apart(R[k], a) /\ Apart(R[k], b) /\ Apart(a, R[k]) /\ Apart(b, R[k])
    <3>1. Apart(R[k], r) /\ R[k][1] \in Int /\ R[k][2] \in Int  BY <1>5, <1>6
    <3>2. CASE R[k][2] < r[1]
      <4>1. R[k][2] < a[1] /\ R[k][2] < b[1]
        BY <3>1, <3>2, <1>4
      <4> QED BY <4>1 DEF Apart
    <3>3. CASE r[2] < R[k][1]
      <4>1. a[2] < R[k][1] /\ b[2] < R[k][1]
        BY <3>1, <3>3, <1>4
      <4> QED BY <4>1 DEF Apart
    <3>4. QED  BY <3>1, <3>2, <3>3 DEF Apart
  <2>2. QED  BY <2>1
<1>8. Apart(a, b) /\ Apart(b, a)
  BY DEF Apart
<1>9. Size(a) \in Nat /\ Size(b) \in Nat /\ Size(r) \in Nat /\ Size(a) <= Size(r)
  BY SMTT(30), <1>4 DEF Size
<1>10. 2 ^ d \in Nat /\ 2 ^ (d + 1) = 2 * 2 ^ d
  BY PowerOfTwo
<1>11. Size(a) * 2 ^ d <= n /\ Size(b) * 2 ^ (d + 1) <= n
  <2>1. PICK P \in Nat : P = 2 ^ d  BY <1>10
  <2>2. Size(r) * P <= n /\ 2 * Size(b) <= Size(r)  BY <1>5, <2>1
  <2>3. Size(a) * P <= n  BY <2>2, <1>9, Halved
  <2>4. Size(b) * (2 * P) <= n  BY <2>2, <1>9, Halved
  <2>5. QED  BY <2>1, <2>3, <2>4, <1>10
<1>12. Size(a) + d <= n /\ Size(b) + d + 1 <= n
  <2>1. Size(r) + d <= n  BY <1>5
  <2>2. Size(b) >= 1  BY <1>4 DEF Size
  <2>3. 2 * Size(b) <= Size(r)  OBVIOUS
  <2>4. Size(b) + 1 <= Size(r)  BY <2>2, <2>3, <1>9
  <2>5. QED  BY SMTT(30), <2>1, <2>4, <1>9
<1>13. \A k \in 1..(d + 2) : k \in 1..d \/ k = d + 1 \/ k = d + 2
  OBVIOUS
<1>14. \A k \in 1..(d + 2) :
         /\ 1 <= T[k][1] /\ T[k][1] <= T[k][2] /\ T[k][2] <= n
         /\ Size(T[k]) + k - 1 <= n /\ Size(T[k]) * 2 ^ (k - 1) <= n
  <2>1. ASSUME NEW k \in 1..(d + 2)
        PROVE  /\ 1 <= T[k][1] /\ T[k][1] <= T[k][2] /\ T[k][2] <= n
               /\ Size(T[k]) + k - 1 <= n /\ Size(T[k]) * 2 ^ (k - 1) <= n
    <3>1. CASE k \in 1..d  BY <3>1, <1>3, <1>5
    <3>2. CASE k = d + 1
      <4>1. T[k] = a /\ k - 1 = d  BY <3>2, <1>3
      <4>2. Size(a) + k - 1 <= n  BY <1>9, <1>12, <3>2
      <4>3. Size(a) * 2 ^ (k - 1) <= n  BY <1>11, <4>1
      <4>4. 1 <= a[1] /\ a[2] <= n  BY <1>4, <1>5
      <4>5. QED  BY <4>1, <4>2, <4>3, <4>4
    <3>3. CASE k = d + 2
      <4>1. T[k] = b /\ k - 1 = d + 1  BY <3>3, <1>3
      <4>2. Size(b) + k - 1 <= n  BY <1>9, <1>12, <3>3
      <4>3. Size(b) * 2 ^ (k - 1) <= n  BY <1>11, <4>1
      <4>4. 1 <= b[1] /\ b[2] <= n  BY <1>4, <1>5
      <4>5. QED  BY <4>1, <4>2, <4>3, <4>4
    <3>4. QED  BY <3>1, <3>2, <3>3, <1>13
  <2>2. QED  BY <2>1
<1>15. \A k, m \in 1..(d + 2) : k # m => Apart(T[k], T[m])
  <2>1. ASSUME NEW k \in 1..(d + 2), NEW m \in 1..(d + 2), k # m PROVE Apart(T[k], T[m])
    <3>1. CASE k \in 1..d /\ m \in 1..d  BY <3>1, <2>1, <1>3, <1>5
    <3>2. CASE k \in 1..d /\ m \notin 1..d  BY <3>2, <1>3, <1>7, <1>13
    <3>3. CASE k \notin 1..d /\ m \in 1..d  BY <3>3, <1>3, <1>7, <1>13
    <3>4. CASE k \notin 1..d /\ m \notin 1..d  BY <3>4, <2>1, <1>3, <1>8, <1>13
    <3>5. QED  BY <3>1, <3>2, <3>3, <3>4
  <2>2. QED  BY <2>1
<1>16. QED  BY <1>3, <1>14, <1>15 DEF Good, T

\* What is in order across the two parts is in order but for them.
LEMMA SplitLastOrdered ==
  ASSUME NEW l \in Seq(Int), NEW R \in Seq(Int \X Int), NEW r \in Int \X Int,
         NEW a \in Int \X Int, NEW b \in Int \X Int,
         OrderedBut(l, Append(R, r)),
         \A p, q \in 1..Len(l) : p < q /\ r[1] <= p /\ q <= r[2] =>
           l[p] <= l[q] \/ (a[1] <= p /\ q <= a[2]) \/ (b[1] <= p /\ q <= b[2])
  PROVE  OrderedBut(l, R \o <<a, b>>)
<1> DEFINE T == R \o <<a, b>>
<1>1. /\ Len(Append(R, r)) = Len(R) + 1 /\ Len(R) \in Nat /\ Append(R, r)[Len(R) + 1] = r
      /\ \A k \in 1..Len(R) : Append(R, r)[k] = R[k]
  BY AppendIs, RangeTypes
<1>2. Len(T) = Len(R) + 2 /\ T[Len(R) + 1] = a /\ T[Len(R) + 2] = b /\ \A k \in 1..Len(R) : T[k] = R[k]
  BY TwoMore
<1> HIDE DEF T
<1>3. /\ Len(R) + 1 \in 1..Len(T) /\ Len(R) + 2 \in 1..Len(T)
      /\ \A k \in 1..Len(R) : k \in 1..Len(T)
  BY <1>1, <1>2
<1>4. ASSUME NEW p \in 1..Len(l), NEW q \in 1..Len(l), p < q, ~(l[p] <= l[q])
      PROVE  \E k \in 1..Len(T) : T[k][1] <= p /\ q <= T[k][2]
  <2>1. PICK k \in 1..(Len(R) + 1) : Append(R, r)[k][1] <= p /\ q <= Append(R, r)[k][2]
    BY <1>1, <1>4 DEF OrderedBut
  <2>2. CASE k = Len(R) + 1
    <3>1. r[1] <= p /\ q <= r[2]  BY <2>1, <2>2, <1>1
    <3>2. (a[1] <= p /\ q <= a[2]) \/ (b[1] <= p /\ q <= b[2])  BY <3>1, <1>4
    <3>3. QED  BY <3>2, <1>2, <1>3
  <2>3. CASE k # Len(R) + 1
    <3>1. k \in 1..Len(R)
      <4>1. Len(R) \in Nat  BY <1>1
      <4>2. QED  BY <4>1, <2>3
    <3>2. QED  BY <2>1, <3>1, <1>1, <1>2, <1>3
  <2>4. QED  BY <2>2, <2>3
<1>5. QED  BY <1>4 DEF OrderedBut, T

\* -------------------------------------------------------------------------
\* What a step does

Here == IInv /\ outcome = "sorting" /\ given' = given /\ order' = order

\* The range cur works on lies in the list.
LEMMA RangeIs ==
  ASSUME IInv, outcome = "sorting"
  PROVE  /\ cur.lo \in Int /\ cur.up \in Int /\ cur.i \in Int /\ cur.j \in Int /\ cur.pivot \in Int
         /\ 1 <= cur.lo /\ cur.lo < cur.up /\ cur.up <= Len(list)
         /\ Len(list) \in Nat /\ list \in Seq(Int) /\ outer \in Seq(Int \X Int)
         /\ <<cur.lo, cur.up>> \in Int \X Int
         /\ Good(Ranges, Len(list)) /\ Len(outer) + 1 \in 1..Len(Ranges)
         /\ Ranges[Len(outer) + 1] = <<cur.lo, cur.up>>
<1>1. /\ cur \in CurType /\ list \in Seq(Int) /\ outer \in Seq(Int \X Int)
      /\ cur.lo < cur.up /\ Good(Ranges, Len(list))
  BY DEF IInv, Typed, Bounded
<1>2. /\ cur.lo \in Int /\ cur.up \in Int /\ cur.i \in Int /\ cur.j \in Int /\ cur.pivot \in Int
  BY <1>1, Fields
<1>3. <<cur.lo, cur.up>> \in Int \X Int  BY <1>2
<1>4. Len(Ranges) = Len(outer) + 1 /\ Ranges[Len(outer) + 1] = <<cur.lo, cur.up>> /\ Len(outer) \in Nat
  BY <1>1, <1>3, AppendIs, RangeTypes DEF Ranges
<1>5. Len(list) \in Nat  BY <1>1, LenProperties
<1>6. Len(outer) + 1 \in 1..Len(Ranges)
  <2>1. Len(outer) \in Nat /\ Len(Ranges) = Len(outer) + 1  BY <1>4
  <2>2. QED  BY <2>1
<1>7. /\ 1 <= Ranges[Len(outer) + 1][1] /\ Ranges[Len(outer) + 1][2] <= Len(list)
  BY <1>1, <1>5, <1>6, GoodIs
<1>8. 1 <= cur.lo /\ cur.up <= Len(list)
  BY <1>4, <1>7
<1>9. QED  BY <1>1, <1>2, <1>3, <1>4, <1>5, <1>6, <1>8

\* A list that holds the elements of the range in another order.
Rearranged(l) ==
  /\ l \in Seq(Int) /\ Len(l) = Len(list)
  /\ \A x \in Int : Occurrences(l, x) = Occurrences(given, x)
  /\ order = "less" => OrderedBut(l, Ranges)

\* The list itself is one.
LEMMA ListIs ==
  ASSUME IInv, outcome = "sorting"
  PROVE  Rearranged(list)
  BY DEF IInv, Typed, Kept, Sorts, Rearranged

\* An exchange within the range gives another one.
LEMMA Exchange ==
  ASSUME IInv, outcome = "sorting", NEW l, Rearranged(l),
         NEW i \in cur.lo..cur.up, NEW j \in cur.lo..cur.up
  PROVE  /\ Rearranged(Swapped(l, i, j))
         /\ \A k \in cur.lo..cur.up :
              Swapped(l, i, j)[k] = IF k = j THEN l[i] ELSE IF k = i THEN l[j] ELSE l[k]
<1>1. /\ cur.lo \in Int /\ cur.up \in Int /\ 1 <= cur.lo /\ cur.up <= Len(list)
      /\ Len(list) \in Nat /\ Good(Ranges, Len(list)) /\ Len(outer) + 1 \in 1..Len(Ranges)
      /\ Ranges[Len(outer) + 1] = <<cur.lo, cur.up>>
  BY RangeIs
<1>2. l \in Seq(Int) /\ Len(l) = Len(list)
  BY DEF Rearranged
<1>3. \A k \in cur.lo..cur.up : k \in 1..Len(l)
  BY <1>1, <1>2
<1>4. /\ Swapped(l, i, j) \in Seq(Int) /\ Len(Swapped(l, i, j)) = Len(l)
      /\ \A k \in 1..Len(l) : Swapped(l, i, j)[k] = IF k = j THEN l[i] ELSE IF k = i THEN l[j] ELSE l[k]
  <2>1. i \in 1..Len(l) /\ j \in 1..Len(l)  BY <1>3
  <2>2. QED  BY <2>1, <1>2, SwapIs
<1>5. \A x \in Int : Occurrences(Swapped(l, i, j), x) = Occurrences(given, x)
  BY <1>2, <1>3, SwapKeeps DEF Rearranged
<1>6. order = "less" => OrderedBut(Swapped(l, i, j), Ranges)
  <2>1. PICK m \in 1..Len(Ranges) : Ranges[m][1] = cur.lo /\ Ranges[m][2] = cur.up
    BY <1>1
  <2>2. i \in Ranges[m][1]..Ranges[m][2] /\ j \in Ranges[m][1]..Ranges[m][2]
    BY <2>1
  <2>3. Good(Ranges, Len(l))  BY <1>1, <1>2
  <2>4. QED  BY <1>2, <2>2, <2>3, ExchangeInRange DEF Rearranged
<1>7. QED  BY <1>2, <1>3, <1>4, <1>5, <1>6 DEF Rearranged

\* What that list holds in the range.
LEMMA ExchangeAt ==
  ASSUME IInv, outcome = "sorting", NEW l, Rearranged(l),
         NEW i \in cur.lo..cur.up, NEW j \in cur.lo..cur.up, NEW k \in cur.lo..cur.up
  PROVE  Swapped(l, i, j)[k] = IF k = j THEN l[i] ELSE IF k = i THEN l[j] ELSE l[k]
  BY Exchange

\* When the loop of auxSort is left, the list is sorted or the next range begins.
LEMMA Returns ==
  ASSUME Here, NEW R, Good(R, Len(list)), SortReturns(R), Rearranged(list'),
         order = "less" => OrderedBut(list', R)
  PROVE  IInv'
<1> DEFINE n == Len(list)
<1>1. n \in Nat /\ cur \in CurType /\ Typed
  BY LenProperties DEF Here, IInv, Typed
<1>2. /\ list' \in Seq(Int) /\ Len(list') = Len(given') /\ given' \in Seq(Int) /\ Len(list') = n /\ Kept'
  BY <1>1 DEF Rearranged, Here, Typed, Kept
<1>3. CASE /\ outcome' = "sorted" /\ outer' = <<>> /\ cur' = cur
           /\ \A k \in 1..Len(R) : R[k][1] >= R[k][2]
  <2>1. Typed'  BY <1>1, <1>2, <1>3 DEF Typed
  <2>2. Bounded'  BY <1>3 DEF Here, IInv, Bounded, Scanning
  <2>3. Sorts'
    <3>1. SUFFICES ASSUME order = "less" PROVE OrderedBut(list', <<>>)
      BY <1>3 DEF Sorts, Here
    <3>2. OrderedBut(list', R)  BY <3>1
    <3>3. ASSUME NEW p \in 1..Len(list'), NEW q \in 1..Len(list'), p < q PROVE list'[p] <= list'[q]
      <4>1. ASSUME NEW k \in 1..Len(R), R[k][1] <= p, q <= R[k][2] PROVE FALSE
        <5>1. R[k][1] \in Int /\ R[k][2] \in Int  BY <1>1, GoodIs
        <5>2. R[k][1] >= R[k][2]  BY <1>3
        <5>3. p \in Int /\ q \in Int  OBVIOUS
        <5>4. QED  BY <5>1, <5>2, <5>3, <4>1, <3>3
      <4>2. QED  BY <4>1, <3>2, <3>3 DEF OrderedBut
    <3>4. QED  BY <3>3 DEF OrderedBut
  <2>4. QED  BY <1>2, <2>1, <2>2, <2>3 DEF IInv
<1>4. CASE /\ outcome' = outcome /\ cur' \in CurType /\ cur'.at = "ends" /\ cur'.lo < cur'.up
           /\ outer' \in Seq(Int \X Int)
           /\ \E k \in 1..Len(R) :
                /\ Ranges' = SubSeq(R, 1, k)
                /\ \A m \in 1..Len(R) : m > k => R[m][1] >= R[m][2]
  <2>1. Typed'  BY <1>1, <1>2, <1>4 DEF Typed
  <2>2. PICK k \in 1..Len(R) :
          /\ Ranges' = SubSeq(R, 1, k)
          /\ \A m \in 1..Len(R) : m > k => R[m][1] >= R[m][2]
    BY <1>4
  <2>3. Len(R) \in Nat /\ k \in 0..Len(R) /\ R \in Seq(Int \X Int)
    BY <1>1, GoodIs DEF Good
  <2>4. Good(Ranges', Len(list'))
    BY <1>1, <1>2, <2>2, <2>3, PrefixIsGood
  <2>5. Bounded'
    BY <1>4, <2>4 DEF Bounded, Scanning, Here
  <2>6. order = "less" => OrderedBut(list', Ranges')
    <3>1. SUFFICES ASSUME order = "less" PROVE OrderedBut(list', Ranges')
      OBVIOUS
    <3>2. OrderedBut(list', R)  BY <3>1
    <3>3. Len(Ranges') = k /\ \A m \in 1..k : Ranges'[m] = R[m]
      BY <2>2, <2>3
    <3>4. ASSUME NEW p \in 1..Len(list'), NEW q \in 1..Len(list'), p < q, ~(list'[p] <= list'[q])
          PROVE  \E m \in 1..k : R[m][1] <= p /\ q <= R[m][2]
      <4>1. PICK m \in 1..Len(R) : R[m][1] <= p /\ q <= R[m][2]
        BY <3>2, <3>4 DEF OrderedBut
      <4>2. R[m][1] \in Int /\ R[m][2] \in Int  BY <1>1, GoodIs
      <4>3. p \in Int /\ q \in Int  OBVIOUS
      <4>4. ~(R[m][1] >= R[m][2])  BY <4>1, <4>2, <4>3, <3>4
      <4>5. ~(m > k)  BY <2>2, <4>4
      <4>6. m \in 1..k
        <5>1. k \in Int /\ m \in Int /\ 1 <= m  BY <2>3
        <5>2. QED  BY <5>1, <4>5
      <4>7. QED  BY <4>1, <4>6
    <3>5. QED  BY <3>3, <3>4 DEF OrderedBut
  <2>7. Sorts'
    BY <1>4, <2>6 DEF Sorts, Here, Compares
  <2>8. QED  BY <1>2, <2>1, <2>5, <2>7 DEF IInv
<1>5. QED  BY <1>1, <1>3, <1>4, NextRange

\* The range is done with: the ranges around it go on.
LEMMA RangeDone ==
  ASSUME Here, SortReturns(outer), Rearranged(list'),
         order = "less" => \A p, q \in cur.lo..cur.up : p < q => list'[p] <= list'[q]
  PROVE  IInv'
<1>1. /\ cur.lo \in Int /\ cur.up \in Int /\ Len(list) \in Nat /\ outer \in Seq(Int \X Int)
      /\ <<cur.lo, cur.up>> \in Int \X Int /\ Good(Ranges, Len(list))
  BY RangeIs DEF Here
<1>2. Good(outer, Len(list))
  BY <1>1, DropLast DEF Ranges
<1>3. order = "less" => OrderedBut(list', outer)
  <2>1. SUFFICES ASSUME order = "less" PROVE OrderedBut(list', outer)
    OBVIOUS
  <2>2. list' \in Seq(Int) /\ OrderedBut(list', Append(outer, <<cur.lo, cur.up>>))
    BY <2>1 DEF Rearranged, Ranges
  <2>3. PICK r \in Int \X Int : r = <<cur.lo, cur.up>>
    BY <1>1
  <2>4. \A p, q \in 1..Len(list') : p < q /\ r[1] <= p /\ q <= r[2] => list'[p] <= list'[q]
    <3>1. ASSUME NEW p \in 1..Len(list'), NEW q \in 1..Len(list'), p < q, cur.lo <= p, q <= cur.up
          PROVE  list'[p] <= list'[q]
      <4>1. p \in cur.lo..cur.up /\ q \in cur.lo..cur.up  BY <3>1, <1>1
      <4>2. QED  BY <4>1, <3>1, <2>1
    <3>2. QED  BY <3>1, <2>3
  <2>5. QED  BY <1>1, <2>2, <2>3, <2>4, DropLastOrdered
<1>4. QED  BY <1>2, <1>3, Returns

\* What the answers of a comparator that is an order say.
LEMMA Answer ==
  ASSUME NEW less \in BOOLEAN, ComparatorSays(less), order = "less"
  PROVE  /\ cur.at = "ends" => (less <=> list[cur.up] < list[cur.lo])
         /\ cur.at = "low" => (less <=> list[Middle(cur)] < list[cur.lo])
         /\ cur.at = "high" => (less <=> list[cur.up] < list[Middle(cur)])
         /\ cur.at = "right" => (less <=> list[cur.i] < cur.pivot)
         /\ cur.at = "left" => (less <=> cur.pivot < list[cur.j])
<1>1. less <=> Compared[1] < Compared[2]
  BY Zenon DEF ComparatorSays
<1>2. cur.at = "ends" => Compared[1] = list[cur.up] /\ Compared[2] = list[cur.lo]
  <2>1. cur.at = "ends" => Compared = <<list[cur.up], list[cur.lo]>>  BY Zenon DEF Compared
  <2>2. QED  BY <2>1
<1>3. cur.at = "low" => Compared[1] = list[Middle(cur)] /\ Compared[2] = list[cur.lo]
  <2>1. cur.at = "low" => Compared = <<list[Middle(cur)], list[cur.lo]>>  BY Zenon DEF Compared
  <2>2. QED  BY <2>1
<1>4. cur.at = "high" => Compared[1] = list[cur.up] /\ Compared[2] = list[Middle(cur)]
  <2>1. cur.at = "high" => Compared = <<list[cur.up], list[Middle(cur)]>>  BY Zenon DEF Compared
  <2>2. QED  BY <2>1
<1>5. cur.at = "right" => Compared[1] = list[cur.i] /\ Compared[2] = cur.pivot
  <2>1. cur.at = "right" => Compared = <<list[cur.i], cur.pivot>>  BY Zenon DEF Compared
  <2>2. QED  BY <2>1
<1>6. cur.at = "left" => Compared[1] = cur.pivot /\ Compared[2] = list[cur.j]
  <2>1. cur.at = "left" => Compared = <<cur.pivot, list[cur.j]>>  BY Zenon DEF Compared
  <2>2. QED  BY <2>1
<1>7. QED  BY Zenon, <1>1, <1>2, <1>3, <1>4, <1>5, <1>6

\* The same range is worked on further.
LEMMA GoesOn ==
  ASSUME Here, outcome' = outcome, outer' = outer, cur' \in CurType,
         cur'.lo = cur.lo, cur'.up = cur.up, Scanning', Rearranged(list'),
         order = "less" => Compares(list', cur')
  PROVE  IInv'
<1>1. Ranges' = Ranges
  BY DEF Ranges
<1>2. Len(list') = Len(list) /\ cur.lo < cur.up /\ Good(Ranges, Len(list))
  BY RangeIs DEF Rearranged, Here
<1>3. Typed'
  BY DEF Typed, Here, IInv, Rearranged
<1>4. Kept'
  BY DEF Kept, Here, Rearranged
<1>5. Bounded'
  BY <1>1, <1>2 DEF Bounded, Here
<1>6. Sorts'
  BY <1>1 DEF Sorts, Here, Rearranged
<1>7. QED  BY <1>3, <1>4, <1>5, <1>6 DEF IInv

\* The middle of a range of at least three lies between its ends.
LEMMA MiddleIs ==
  ASSUME NEW c \in CurType, c.up - c.lo >= 2
  PROVE  Middle(c) \in Int /\ c.lo < Middle(c) /\ Middle(c) < c.up
<1>1. c.lo \in Int /\ c.up \in Int  BY Fields
<1>2. QED  BY <1>1 DEF Middle

\* The pairs of three positions in a row.
LEMMA PairOfThree ==
  ASSUME NEW x \in Int, NEW y \in Int, NEW z \in Int, x <= y, y < z, z <= x + 2
  PROVE  (y = x /\ z = x + 1) \/ (y = x /\ z = x + 2) \/ (y = x + 1 /\ z = x + 2)
OBVIOUS

\* A position between the ends of a range: the range has three elements or more.
LEMMA Between ==
  ASSUME NEW x \in Int, NEW y \in Int, NEW z \in Int, x < z, z < y
  PROVE  /\ y - x = 2 => y = x + 2 /\ z = x + 1
         /\ y - x # 2 => z \in x..y /\ y - 1 \in x..y /\ y - x >= 3
OBVIOUS

\* After the median of three the range is done, or is partitioned around it.
LEMMA PartitionedStep ==
  ASSUME Here, cur.up - cur.lo >= 2, NEW l, Rearranged(l),
         order = "less" => l[cur.lo] <= l[Middle(cur)] /\ l[Middle(cur)] <= l[cur.up],
         Partitioned(l)
  PROVE  IInv'
<1>1. /\ cur \in CurType /\ l \in Seq(Int) /\ Len(l) = Len(list) /\ Len(list) \in Nat
      /\ cur.lo \in Int /\ cur.up \in Int /\ 1 <= cur.lo /\ cur.up <= Len(list)
  BY RangeIs DEF Here, IInv, Typed, Rearranged
<1>2. PICK m \in Int : m = Middle(cur) /\ cur.lo < m /\ m < cur.up
  BY <1>1, MiddleIs
<1>3. \A k \in cur.lo..cur.up : l[k] \in Int
  <2>1. \A k \in cur.lo..cur.up : k \in 1..Len(l)  BY <1>1
  <2>2. QED  BY <2>1, <1>1, ElementOfSeq
<1>4. CASE cur.up - cur.lo = 2
  <2>1. list' = l /\ SortReturns(outer)
    BY <1>4 DEF Partitioned
  <2>2. order = "less" => \A p, q \in cur.lo..cur.up : p < q => l[p] <= l[q]
    <3>1. ASSUME order = "less", NEW p \in cur.lo..cur.up, NEW q \in cur.lo..cur.up, p < q PROVE l[p] <= l[q]
      <4>1. l[cur.lo] <= l[m] /\ l[m] <= l[cur.up]  BY <3>1, <1>2
      <4>2. cur.up = cur.lo + 2 /\ m = cur.lo + 1  BY ONLY <1>1, <1>2, <1>4, m \in Int, Between
      <4>3. l[cur.lo] \in Int /\ l[m] \in Int /\ l[cur.up] \in Int  BY SMTT(30), <4>2, <1>1, <1>3
      <4>4. (p = cur.lo /\ q = m) \/ (p = cur.lo /\ q = cur.up) \/ (p = m /\ q = cur.up)
        <5>1. p \in Int /\ q \in Int /\ cur.lo <= p /\ p < q /\ q <= cur.lo + 2  BY <4>2, <3>1, <1>1
        <5>2. (p = cur.lo /\ q = cur.lo + 1) \/ (p = cur.lo /\ q = cur.lo + 2) \/ (p = cur.lo + 1 /\ q = cur.lo + 2)
          BY <5>1, <1>1, PairOfThree
        <5>3. QED  BY <5>2, <4>2
      <4>5. QED  BY <4>1, <4>3, <4>4
    <3>2. QED  BY <3>1
  <2>3. QED  BY <2>1, <2>2, RangeDone
<1>5. CASE cur.up - cur.lo # 2
  <2>1. /\ list' = Swapped(l, m, cur.up - 1)
        /\ cur' = [cur EXCEPT !.at = "right", !.pivot = l[m], !.i = cur.lo + 1, !.j = cur.up - 1]
        /\ outer' = outer /\ outcome' = outcome
    BY <1>2, <1>5 DEF Partitioned
  <2>2. m \in cur.lo..cur.up /\ cur.up - 1 \in cur.lo..cur.up /\ cur.up - cur.lo >= 3
    BY ONLY <1>1, <1>2, <1>5, m \in Int, Between
  <2>3. /\ cur' \in CurType /\ cur'.lo = cur.lo /\ cur'.up = cur.up /\ cur'.at = "right"
        /\ cur'.i = cur.lo + 1 /\ cur'.j = cur.up - 1 /\ cur'.pivot = l[m]
    <3>1. PICK v \in Int : v = l[m]  BY <2>2, <1>3
    <3>2. PICK i \in Int : i = cur.lo + 1  BY <1>1
    <3>3. PICK j \in Int : j = cur.up - 1  BY <1>1
    <3>4. cur' = [cur EXCEPT !.at = "right", !.pivot = v, !.i = i, !.j = j]
      BY <2>1, <3>1, <3>2, <3>3
    <3>5. cur' \in CurType /\ cur'.at = "right" /\ cur'.pivot = v
      BY <3>4, <1>1 DEF CurType, Positions
    <3>6. cur'.lo = cur.lo /\ cur'.up = cur.up /\ cur'.i = i /\ cur'.j = j
      BY <3>4, <1>1 DEF CurType
    <3>7. QED  BY <3>1, <3>2, <3>3, <3>5, <3>6
  <2>4. /\ Rearranged(list')
        /\ \A k \in cur.lo..cur.up :
             list'[k] = IF k = cur.up - 1 THEN l[m] ELSE IF k = m THEN l[cur.up - 1] ELSE l[k]
    <3>1. IInv /\ outcome = "sorting"  BY DEF Here
    <3>2. Rearranged(Swapped(l, m, cur.up - 1))  BY <3>1, <2>2, Exchange
    <3>3. \A k \in cur.lo..cur.up : Swapped(l, m, cur.up - 1)[k] =
            IF k = cur.up - 1 THEN l[m] ELSE IF k = m THEN l[cur.up - 1] ELSE l[k]
      BY <3>1, <2>2, ExchangeAt
    <3>4. QED  BY <2>1, <3>2, <3>3
  <2>5. Scanning'
    <3>1. cur.lo + 1 \in (cur.lo + 1)..(cur.up - 1) /\ cur.up - 1 \in (cur.lo + 1)..(cur.up - 1)
      <4>1. PICK p \in Int : p = cur.lo  BY <1>1
      <4>2. PICK q \in Int : q = cur.up  BY <1>1
      <4>3. q - p >= 3  BY ONLY <2>2, <4>1, <4>2
      <4>4. p + 1 \in (p + 1)..(q - 1) /\ q - 1 \in (p + 1)..(q - 1)  BY ONLY <4>3, p \in Int, q \in Int
      <4>5. QED  BY ONLY <4>1, <4>2, <4>4
    <3>2. QED  BY <3>1, <2>2, <2>3 DEF Scanning
  <2>6. order = "less" => Compares(list', cur')
    <3>1. SUFFICES ASSUME order = "less" PROVE Compares(list', cur')
      OBVIOUS
    <3>2. l[cur.lo] <= l[m] /\ l[m] <= l[cur.up]  BY <3>1, <1>2
    <3>3. /\ cur.lo \in cur.lo..cur.up /\ cur.up \in cur.lo..cur.up
          /\ cur.lo # m /\ cur.lo # cur.up - 1 /\ cur.up # m /\ cur.up # cur.up - 1
      <4>1. cur.lo < cur.up - 1 /\ cur.up - 1 < cur.up
        <5>1. PICK p \in Int : p = cur.lo  BY <1>1
        <5>2. PICK q \in Int : q = cur.up  BY <1>1
        <5>3. q - p >= 3  BY ONLY <2>2, <5>1, <5>2
        <5>4. p < q - 1 /\ q - 1 < q  BY ONLY <5>3, p \in Int, q \in Int
        <5>5. QED  BY ONLY <5>1, <5>2, <5>4
      <4>2. cur.lo < m /\ m < cur.up  BY <1>2
      <4>3. QED  BY SMTT(30), <4>1, <4>2, <1>1
    <3>4. list'[cur.lo] = l[cur.lo] /\ list'[cur.up] = l[cur.up] /\ list'[cur.up - 1] = l[m]
      BY <2>2, <2>4, <3>3
    <3>5. l[cur.lo] \in Int /\ l[m] \in Int /\ l[cur.up] \in Int
      BY <1>3, <2>2, <3>3
    <3>6. list'[cur.lo] <= list'[cur.up]
      BY <3>2, <3>4, <3>5
    <3>7. list'[cur.lo] <= l[m]
      BY <3>2, <3>4
    <3>8. \A k \in (cur.up - 1)..cur.up : l[m] <= list'[k]
      <4>1. \A k \in (cur.up - 1)..cur.up : k = cur.up - 1 \/ k = cur.up  BY SMTT(30), <1>1
      <4>2. QED  BY <4>1, <3>2, <3>4, <3>5
    <3>9. QED
      <4> DEFINE c == cur'
      <4>1. c.at = "right" /\ c.lo = cur.lo /\ c.up = cur.up /\ c.i = cur.lo + 1 /\ c.j = cur.up - 1 /\ c.pivot = l[m]
        BY <2>3
      <4> HIDE DEF c
      <4>2. list'[c.lo] <= list'[c.up] /\ c.pivot = list'[c.up - 1]
        BY <4>1, <3>4, <3>6
      <4>3. \A k \in c.lo..(c.i - 1) : list'[k] <= c.pivot
        <5>1. \A k \in c.lo..(c.i - 1) : k = cur.lo  BY <4>1, <1>1
        <5>2. QED  BY <5>1, <4>1, <3>7
      <4>4. \A k \in c.j..c.up : c.pivot <= list'[k]
        BY <4>1, <3>8
      <4>5. Compares(list', c)
        BY <4>1, <4>2, <4>3, <4>4 DEF Compares
      <4>6. QED  BY <4>5 DEF c
  <2>7. QED  BY <2>1, <2>3, <2>4, <2>5, <2>6, GoesOn
<1>6. QED  BY <1>4, <1>5

\* The ends of the range are put in order.
LEMMA EndsStep ==
  ASSUME Here, NEW less \in BOOLEAN, SortEnds(less)
  PROVE  IInv'
<1>1. /\ cur \in CurType /\ list \in Seq(Int) /\ Len(list) \in Nat
      /\ cur.lo \in Int /\ cur.up \in Int /\ 1 <= cur.lo /\ cur.lo < cur.up /\ cur.up <= Len(list)
  BY RangeIs DEF Here, IInv, Typed
<1>2. cur.lo \in cur.lo..cur.up /\ cur.up \in cur.lo..cur.up
  BY <1>1
<1>3. Rearranged(list)
  BY ListIs DEF Here
<1>4. /\ cur.at = "ends" /\ ComparatorSays(less)
      /\ list' = IF less THEN Swapped(list, cur.lo, cur.up) ELSE list
  BY DEF SortEnds
<1>5. /\ Rearranged(Swapped(list, cur.lo, cur.up))
      /\ Swapped(list, cur.lo, cur.up)[cur.up] = list[cur.lo]
      /\ Swapped(list, cur.lo, cur.up)[cur.lo] = list[cur.up]
  <2> DEFINE t == Swapped(list, cur.lo, cur.up)
  <2>1. IInv /\ outcome = "sorting"  BY DEF Here
  <2>2. Rearranged(t)  BY <2>1, <1>2, <1>3, Exchange
  <2>3. t[cur.up] = IF cur.up = cur.up THEN list[cur.lo] ELSE IF cur.up = cur.lo THEN list[cur.up] ELSE list[cur.up]
    BY <2>1, <1>2, <1>3, ExchangeAt
  <2>4. t[cur.lo] = IF cur.lo = cur.up THEN list[cur.lo] ELSE IF cur.lo = cur.lo THEN list[cur.up] ELSE list[cur.lo]
    BY <2>1, <1>2, <1>3, ExchangeAt
  <2>5. cur.lo # cur.up  BY <1>1
  <2> HIDE DEF t
  <2>6. t[cur.up] = list[cur.lo] /\ t[cur.lo] = list[cur.up]  BY <2>3, <2>4, <2>5
  <2>7. QED  BY <2>2, <2>6 DEF t
<1>6. Rearranged(list')
  BY <1>3, <1>4, <1>5
<1>7. list[cur.lo] \in Int /\ list[cur.up] \in Int
  <2>1. cur.lo \in 1..Len(list) /\ cur.up \in 1..Len(list)  BY <1>1
  <2>2. QED  BY <2>1, <1>1, ElementOfSeq
<1>8. order = "less" => list'[cur.lo] <= list'[cur.up]
  <2>1. SUFFICES ASSUME order = "less" PROVE list'[cur.lo] <= list'[cur.up]
    OBVIOUS
  <2>2. less <=> list[cur.up] < list[cur.lo]
    BY <1>4, <2>1, Answer
  <2>3. CASE less
    <3>1. list'[cur.lo] = list[cur.up] /\ list'[cur.up] = list[cur.lo]  BY <2>3, <1>4, <1>5
    <3>2. list[cur.up] < list[cur.lo]  BY <2>2, <2>3
    <3>3. QED  BY <3>1, <3>2, <1>7
  <2>4. CASE ~less
    <3>1. list' = list  BY <2>4, <1>4
    <3>2. ~(list[cur.up] < list[cur.lo])  BY <2>2, <2>4
    <3>3. QED  BY <3>1, <3>2, <1>7
  <2>5. QED  BY <2>3, <2>4
<1>9. CASE cur.up - cur.lo = 1
  <2>1. SortReturns(outer)  BY <1>9 DEF SortEnds
  <2>2. order = "less" => \A p, q \in cur.lo..cur.up : p < q => list'[p] <= list'[q]
    <3>1. \A p, q \in cur.lo..cur.up : p < q => p = cur.lo /\ q = cur.up  BY <1>1, <1>9
    <3>2. QED  BY <3>1, <1>8
  <2>3. QED  BY <2>1, <2>2, <1>6, RangeDone
<1>10. CASE cur.up - cur.lo # 1
  <2>1. cur' = [cur EXCEPT !.at = "low"] /\ outer' = outer /\ outcome' = outcome
    BY <1>10 DEF SortEnds
  <2>2. cur' \in CurType /\ cur'.lo = cur.lo /\ cur'.up = cur.up /\ cur'.at = "low"
    BY <2>1, <1>1 DEF CurType, Positions
  <2>3. Scanning'
    <3>1. cur.up - cur.lo >= 2  BY <1>1, <1>10
    <3>2. QED  BY <3>1, <2>2 DEF Scanning
  <2>4. order = "less" => Compares(list', cur')
    BY <1>8, <2>2 DEF Compares
  <2>5. QED  BY <2>1, <2>2, <2>3, <2>4, <1>6, GoesOn
<1>11. QED  BY <1>9, <1>10

\* The elements of the range are integers.
LEMMA RangeHolds ==
  ASSUME IInv, outcome = "sorting"
  PROVE  \A k \in cur.lo..cur.up : k \in 1..Len(list) /\ list[k] \in Int
<1>1. cur.lo \in Int /\ cur.up \in Int /\ 1 <= cur.lo /\ cur.up <= Len(list) /\ Len(list) \in Nat /\ list \in Seq(Int)
  BY RangeIs
<1>2. \A k \in cur.lo..cur.up : k \in 1..Len(list)
  BY <1>1
<1>3. QED  BY <1>1, <1>2, ElementOfSeq

\* What is known of the range when the median is looked for.
LEMMA MedianIs ==
  ASSUME IInv, outcome = "sorting", cur.at \in {"low", "high"}
  PROVE  /\ cur \in CurType /\ cur.up - cur.lo >= 2
         /\ Middle(cur) \in cur.lo..cur.up /\ cur.lo \in cur.lo..cur.up /\ cur.up \in cur.lo..cur.up
         /\ cur.lo # Middle(cur) /\ Middle(cur) # cur.up /\ cur.lo # cur.up
         /\ list[cur.lo] \in Int /\ list[Middle(cur)] \in Int /\ list[cur.up] \in Int
         /\ order = "less" => list[cur.lo] <= list[cur.up]
         /\ order = "less" /\ cur.at = "high" => list[cur.lo] <= list[Middle(cur)]
<1>1. cur \in CurType /\ cur.up - cur.lo >= 2 /\ cur.lo \in Int /\ cur.up \in Int
  BY RangeIs DEF IInv, Typed, Bounded, Scanning
<1>2. PICK m \in Int : m = Middle(cur) /\ cur.lo < m /\ m < cur.up
  BY <1>1, MiddleIs
<1>3. m \in cur.lo..cur.up /\ cur.lo \in cur.lo..cur.up /\ cur.up \in cur.lo..cur.up
  BY <1>1, <1>2
<1>4. cur.lo # m /\ m # cur.up /\ cur.lo # cur.up
  BY <1>1, <1>2
<1>5. list[cur.lo] \in Int /\ list[m] \in Int /\ list[cur.up] \in Int
  BY <1>3, RangeHolds
<1>6. order = "less" => Compares(list, cur)
  BY DEF IInv, Sorts
<1>7. /\ order = "less" => list[cur.lo] <= list[cur.up]
      /\ order = "less" /\ cur.at = "high" => list[cur.lo] <= list[Middle(cur)]
  <2>1. cur.at # "ends"  OBVIOUS
  <2>2. QED  BY <1>6, <2>1 DEF Compares
<1>8. QED  BY <1>1, <1>2, <1>3, <1>4, <1>5, <1>7

\* The middle is compared with the low end.
LEMMA MedianLowStep ==
  ASSUME Here, NEW less \in BOOLEAN, MedianLow(less)
  PROVE  IInv'
<1>1. IInv /\ outcome = "sorting" /\ cur.at = "low" /\ ComparatorSays(less)
  BY DEF Here, MedianLow
<1>2. PICK m : m = Middle(cur)  OBVIOUS
<1>3. /\ cur \in CurType /\ cur.up - cur.lo >= 2
      /\ m \in cur.lo..cur.up /\ cur.lo \in cur.lo..cur.up /\ cur.up \in cur.lo..cur.up
      /\ cur.lo # m /\ m # cur.up /\ cur.lo # cur.up
      /\ list[cur.lo] \in Int /\ list[m] \in Int /\ list[cur.up] \in Int
      /\ order = "less" => list[cur.lo] <= list[cur.up]
  BY <1>1, <1>2, MedianIs
<1>4. order = "less" => (less <=> list[m] < list[cur.lo])
  BY <1>1, <1>2, Answer
<1>5. Rearranged(list)
  BY <1>1, ListIs
<1>6. CASE less
  <2>1. PICK l : l = Swapped(list, m, cur.lo)  OBVIOUS
  <2>2. Partitioned(l)
    BY <1>2, <1>6, <2>1 DEF MedianLow
  <2>3. Rearranged(l)
    BY <1>1, <1>3, <1>5, <2>1, Exchange
  <2>4. /\ l[cur.lo] = IF cur.lo = cur.lo THEN list[m] ELSE IF cur.lo = m THEN list[cur.lo] ELSE list[cur.lo]
        /\ l[m] = IF m = cur.lo THEN list[m] ELSE IF m = m THEN list[cur.lo] ELSE list[m]
        /\ l[cur.up] = IF cur.up = cur.lo THEN list[m] ELSE IF cur.up = m THEN list[cur.lo] ELSE list[cur.up]
    BY <1>1, <1>3, <1>5, <2>1, ExchangeAt
  <2>5. l[cur.lo] = list[m] /\ l[m] = list[cur.lo] /\ l[cur.up] = list[cur.up]
    BY <2>4, <1>3
  <2>6. order = "less" => l[cur.lo] <= l[m] /\ l[m] <= l[cur.up]
    <3>1. ASSUME order = "less" PROVE l[cur.lo] <= l[m] /\ l[m] <= l[cur.up]
      <4>1. list[m] < list[cur.lo]  BY <3>1, <1>4, <1>6
      <4>2. list[cur.lo] <= list[cur.up]  BY <3>1, <1>3
      <4>3. QED  BY <4>1, <4>2, <2>5, <1>3
    <3>2. QED  BY <3>1
  <2>7. QED  BY <1>2, <1>3, <2>2, <2>3, <2>6, PartitionedStep
<1>7. CASE ~less
  <2>1. cur' = [cur EXCEPT !.at = "high"] /\ list' = list /\ outer' = outer /\ outcome' = outcome
    BY <1>7 DEF MedianLow
  <2>2. cur' \in CurType /\ cur'.lo = cur.lo /\ cur'.up = cur.up /\ cur'.at = "high"
    BY <2>1, <1>3 DEF CurType, Positions
  <2>3. Scanning'
    BY <2>2, <1>3 DEF Scanning
  <2>4. order = "less" => Compares(list', cur')
    <3>1. SUFFICES ASSUME order = "less" PROVE Compares(list, cur')
      BY <2>1
    <3>2. list[cur.lo] <= list[m]
      <4>1. ~(list[m] < list[cur.lo])  BY <3>1, <1>4, <1>7
      <4>2. QED  BY <4>1, <1>3
    <3>3. Middle(cur') = m  BY <1>2, <2>2 DEF Middle
    <3>4. list[cur.lo] <= list[cur.up]  BY <3>1, <1>3
    <3>5. QED  BY <2>2, <3>2, <3>3, <3>4 DEF Compares
  <2>5. Rearranged(list')  BY <1>5, <2>1 DEF Rearranged
  <2>6. QED  BY <2>1, <2>2, <2>3, <2>4, <2>5, GoesOn
<1>8. QED  BY <1>6, <1>7

\* The high end is compared with the middle.
LEMMA MedianHighStep ==
  ASSUME Here, NEW less \in BOOLEAN, MedianHigh(less)
  PROVE  IInv'
<1>1. IInv /\ outcome = "sorting" /\ cur.at = "high" /\ ComparatorSays(less)
  BY DEF Here, MedianHigh
<1>2. PICK m : m = Middle(cur)  OBVIOUS
<1>3. /\ cur \in CurType /\ cur.up - cur.lo >= 2
      /\ m \in cur.lo..cur.up /\ cur.lo \in cur.lo..cur.up /\ cur.up \in cur.lo..cur.up
      /\ cur.lo # m /\ m # cur.up /\ cur.lo # cur.up
      /\ list[cur.lo] \in Int /\ list[m] \in Int /\ list[cur.up] \in Int
      /\ order = "less" => list[cur.lo] <= list[cur.up] /\ list[cur.lo] <= list[m]
  BY <1>1, <1>2, MedianIs
<1>4. order = "less" => (less <=> list[cur.up] < list[m])
  BY <1>1, <1>2, Answer
<1>5. Rearranged(list)
  BY <1>1, ListIs
<1>6. CASE less
  <2>1. PICK l : l = Swapped(list, cur.up, m)  OBVIOUS
  <2>2. Partitioned(l)
    BY <1>2, <1>6, <2>1 DEF MedianHigh
  <2>3. Rearranged(l)
    BY <1>1, <1>3, <1>5, <2>1, Exchange
  <2>4. /\ l[cur.lo] = IF cur.lo = m THEN list[cur.up] ELSE IF cur.lo = cur.up THEN list[m] ELSE list[cur.lo]
        /\ l[m] = IF m = m THEN list[cur.up] ELSE IF m = cur.up THEN list[m] ELSE list[m]
        /\ l[cur.up] = IF cur.up = m THEN list[cur.up] ELSE IF cur.up = cur.up THEN list[m] ELSE list[cur.up]
    BY <1>1, <1>3, <1>5, <2>1, ExchangeAt
  <2>5. l[cur.lo] = list[cur.lo] /\ l[m] = list[cur.up] /\ l[cur.up] = list[m]
    BY <2>4, <1>3
  <2>6. order = "less" => l[cur.lo] <= l[m] /\ l[m] <= l[cur.up]
    <3>1. ASSUME order = "less" PROVE l[cur.lo] <= l[m] /\ l[m] <= l[cur.up]
      <4>1. list[cur.up] < list[m]  BY <3>1, <1>4, <1>6
      <4>2. list[cur.lo] <= list[cur.up]  BY <3>1, <1>3
      <4>3. QED  BY <4>1, <4>2, <2>5, <1>3
    <3>2. QED  BY <3>1
  <2>7. QED  BY <1>2, <1>3, <2>2, <2>3, <2>6, PartitionedStep
<1>7. CASE ~less
  <2>1. Partitioned(list)
    BY <1>7 DEF MedianHigh
  <2>2. order = "less" => list[cur.lo] <= list[m] /\ list[m] <= list[cur.up]
    <3>1. ASSUME order = "less" PROVE list[cur.lo] <= list[m] /\ list[m] <= list[cur.up]
      <4>1. ~(list[cur.up] < list[m])  BY <3>1, <1>4, <1>7
      <4>2. QED  BY <4>1, <3>1, <1>3
    <3>2. QED  BY <3>1
  <2>3. QED  BY <1>2, <1>3, <1>5, <2>1, <2>2, PartitionedStep
<1>8. QED  BY <1>6, <1>7

\* What is known of the range while it is partitioned.
LEMMA ScanIs ==
  ASSUME IInv, outcome = "sorting", cur.at \in {"right", "left"}
  PROVE  /\ cur \in CurType /\ cur.up - cur.lo >= 3
         /\ cur.lo \in Int /\ cur.up \in Int /\ cur.i \in Int /\ cur.j \in Int /\ cur.pivot \in Int
         /\ cur.lo + 1 <= cur.i /\ cur.i <= cur.up - 1
         /\ cur.at = "right" => cur.lo + 1 <= cur.j /\ cur.j <= cur.up - 1
         /\ cur.at = "left" => cur.lo <= cur.j /\ cur.j <= cur.up - 2
         /\ order = "less" =>
              /\ list[cur.lo] <= list[cur.up] /\ cur.pivot = list[cur.up - 1]
              /\ \A k \in cur.lo..(cur.i - 1) : list[k] <= cur.pivot
              /\ cur.at = "right" => \A k \in cur.j..cur.up : cur.pivot <= list[k]
              /\ cur.at = "left" => cur.pivot <= list[cur.i] /\ \A k \in (cur.j + 1)..cur.up : cur.pivot <= list[k]
<1>1. cur \in CurType /\ cur.up - cur.lo >= 3
  BY DEF IInv, Typed, Bounded, Scanning
<1>2. cur.lo \in Int /\ cur.up \in Int /\ cur.i \in Int /\ cur.j \in Int /\ cur.pivot \in Int
  BY <1>1, Fields
<1>3. /\ cur.lo + 1 <= cur.i /\ cur.i <= cur.up - 1
      /\ cur.at = "right" => cur.lo + 1 <= cur.j /\ cur.j <= cur.up - 1
      /\ cur.at = "left" => cur.lo <= cur.j /\ cur.j <= cur.up - 2
  BY <1>2 DEF IInv, Bounded, Scanning
<1>4. order = "less" => Compares(list, cur)
  BY DEF IInv, Sorts
<1>5. QED  BY <1>1, <1>2, <1>3, <1>4 DEF Compares

\* The scan from the left.
LEMMA ScanRightStep ==
  ASSUME Here, NEW less \in BOOLEAN, ScanRight(less)
  PROVE  IInv'
<1>1. IInv /\ outcome = "sorting" /\ cur.at = "right" /\ ComparatorSays(less)
  BY DEF Here, ScanRight
<1>2. Rearranged(list)
  BY <1>1, ListIs
<1>3. /\ cur \in CurType /\ cur.up - cur.lo >= 3
      /\ cur.lo \in Int /\ cur.up \in Int /\ cur.i \in Int /\ cur.j \in Int /\ cur.pivot \in Int
      /\ cur.lo + 1 <= cur.i /\ cur.i <= cur.up - 1 /\ cur.lo + 1 <= cur.j /\ cur.j <= cur.up - 1
      /\ order = "less" =>
           /\ list[cur.lo] <= list[cur.up] /\ cur.pivot = list[cur.up - 1]
           /\ \A k \in cur.lo..(cur.i - 1) : list[k] <= cur.pivot
           /\ \A k \in cur.j..cur.up : cur.pivot <= list[k]
  BY <1>1, ScanIs
<1>4. order = "less" => (less <=> list[cur.i] < cur.pivot)
  BY <1>1, Answer
<1>5. \A k \in cur.lo..cur.up : list[k] \in Int
  BY <1>1, RangeHolds
<1>6. CASE less /\ cur.i = cur.up - 1
  <2>1. outcome' = "error" /\ list' = list /\ cur' = cur /\ outer' = outer
    BY <1>6 DEF ScanRight, SortFails
  <2>2. order # "less"
    <3>1. ASSUME order = "less" PROVE FALSE
      <4>1. list[cur.i] < cur.pivot /\ cur.pivot = list[cur.i]  BY <3>1, <1>3, <1>4, <1>6
      <4>2. QED  BY <4>1, <1>3
    <3>2. QED  BY <3>1
  <2>3. QED  BY <2>1, <2>2 DEF Here, IInv, Typed, Kept, Bounded, Scanning, Ranges, Sorts
<1>7. CASE less /\ cur.i # cur.up - 1
  <2>1. cur' = [cur EXCEPT !.i = cur.i + 1] /\ list' = list /\ outer' = outer /\ outcome' = outcome
    BY <1>7, <1>3 DEF ScanRight, CurType
  <2>2. /\ cur' \in CurType /\ cur'.lo = cur.lo /\ cur'.up = cur.up /\ cur'.at = "right"
        /\ cur'.i = cur.i + 1 /\ cur'.j = cur.j /\ cur'.pivot = cur.pivot
    <3>1. PICK i \in Int : i = cur.i + 1  BY <1>3
    <3>2. cur' = [cur EXCEPT !.i = i]  BY <2>1, <3>1
    <3>3. QED  BY <3>1, <3>2, <1>1, <1>3 DEF CurType
  <2>3. Scanning'
    <3>1. cur.i + 1 \in (cur.lo + 1)..(cur.up - 1) /\ cur.j \in (cur.lo + 1)..(cur.up - 1)
      BY <1>3, <1>7
    <3>2. QED  BY <3>1, <2>2, <1>3 DEF Scanning
  <2>4. order = "less" => Compares(list', cur')
    <3>1. SUFFICES ASSUME order = "less" PROVE Compares(list, cur')
      BY <2>1
    <3>2. list[cur.i] <= cur.pivot
      <4>1. list[cur.i] < cur.pivot  BY <3>1, <1>4, <1>7
      <4>2. list[cur.i] \in Int  BY <1>3, <1>5
      <4>3. QED  BY <4>1, <4>2, <1>3
    <3>3. \A k \in cur'.lo..(cur'.i - 1) : list[k] <= cur'.pivot
      <4>1. \A k \in cur'.lo..(cur'.i - 1) : k = cur.i \/ k \in cur.lo..(cur.i - 1)  BY <1>3, <2>2
      <4>2. QED  BY <4>1, <3>1, <3>2, <1>3, <2>2
    <3>4. \A k \in cur'.j..cur'.up : cur'.pivot <= list[k]
      BY <2>2, <1>3, <3>1
    <3>5. cur'.pivot = list[cur'.up - 1] /\ list[cur'.lo] <= list[cur'.up]
      BY <2>2, <1>3, <3>1
    <3>6. QED  BY <2>2, <3>3, <3>4, <3>5 DEF Compares
  <2>5. Rearranged(list')  BY <1>2, <2>1 DEF Rearranged
  <2>6. QED  BY <2>1, <2>2, <2>3, <2>4, <2>5, GoesOn
<1>8. CASE ~less
  <2>1. cur' = [cur EXCEPT !.at = "left", !.j = cur.j - 1] /\ list' = list /\ outer' = outer /\ outcome' = outcome
    BY <1>8, <1>3 DEF ScanRight, CurType
  <2>2. /\ cur' \in CurType /\ cur'.lo = cur.lo /\ cur'.up = cur.up /\ cur'.at = "left"
        /\ cur'.i = cur.i /\ cur'.j = cur.j - 1 /\ cur'.pivot = cur.pivot
    <3>1. PICK j \in Int : j = cur.j - 1  BY <1>3
    <3>2. cur' = [cur EXCEPT !.at = "left", !.j = j]  BY <2>1, <3>1
    <3>3. QED  BY <3>1, <3>2, <1>1, <1>3 DEF CurType, Positions
  <2>3. Scanning'
    <3>1. cur.i \in (cur.lo + 1)..(cur.up - 1) /\ cur.j - 1 \in cur.lo..(cur.up - 2)
      BY <1>3
    <3>2. QED  BY <3>1, <2>2, <1>3 DEF Scanning
  <2>4. order = "less" => Compares(list', cur')
    <3>1. SUFFICES ASSUME order = "less" PROVE Compares(list, cur')
      BY <2>1
    <3>2. cur.pivot <= list[cur.i]
      <4>1. ~(list[cur.i] < cur.pivot)  BY <3>1, <1>4, <1>8
      <4>2. list[cur.i] \in Int  BY <1>3, <1>5
      <4>3. QED  BY <4>1, <4>2, <1>3
    <3>3. \A k \in cur'.lo..(cur'.i - 1) : list[k] <= cur'.pivot
      BY <3>1, <1>3, <2>2
    <3>4. \A k \in (cur'.j + 1)..cur'.up : cur'.pivot <= list[k]
      <4>1. \A k \in (cur'.j + 1)..cur'.up : k \in cur.j..cur.up  BY <1>3, <2>2
      <4>2. QED  BY <4>1, <1>3, <2>2, <3>1
    <3>5. cur'.pivot = list[cur'.up - 1] /\ list[cur'.lo] <= list[cur'.up]
      BY <2>2, <1>3, <3>1
    <3>6. QED  BY <2>2, <3>2, <3>3, <3>4, <3>5 DEF Compares
  <2>5. Rearranged(list')  BY <1>2, <2>1 DEF Rearranged
  <2>6. QED  BY <2>1, <2>2, <2>3, <2>4, <2>5, GoesOn
<1>9. QED  BY <1>6, <1>7, <1>8

\* The scans have met: the pivot goes between the parts, which are sorted next.
LEMMA PartsStep ==
  ASSUME Here, cur.at = "left", cur.j < cur.i, SortParts(cur.i),
         order = "less" => list[cur.j] <= cur.pivot
  PROVE  IInv'
<1>1. IInv /\ outcome = "sorting"
  BY DEF Here
<1>2. /\ cur \in CurType /\ cur.up - cur.lo >= 3
      /\ cur.lo \in Int /\ cur.up \in Int /\ cur.i \in Int /\ cur.j \in Int /\ cur.pivot \in Int
      /\ cur.lo + 1 <= cur.i /\ cur.i <= cur.up - 1
      /\ order = "less" =>
           /\ list[cur.lo] <= list[cur.up] /\ cur.pivot = list[cur.up - 1]
           /\ \A k \in cur.lo..(cur.i - 1) : list[k] <= cur.pivot
           /\ cur.pivot <= list[cur.i] /\ \A k \in (cur.j + 1)..cur.up : cur.pivot <= list[k]
  BY <1>1, ScanIs
<1>3. PICK lo \in Int, up \in Int, i \in Int : lo = cur.lo /\ up = cur.up /\ i = cur.i
  BY <1>2
<1>4. lo + 1 <= i /\ i <= up - 1 /\ cur.j < i /\ 1 <= lo /\ up <= Len(list) /\ Len(list) \in Nat
  BY <1>1, <1>2, <1>3, RangeIs
<1> DEFINE left == <<lo, i - 1>>
           right == <<i + 1, up>>
           l == Swapped(list, up - 1, i)
<1>5. list' = l /\ SortReturns(outer \o IF i - lo < up - i THEN <<right, left>> ELSE <<left, right>>)
  BY <1>3 DEF SortParts
<1>6. up - 1 \in cur.lo..cur.up /\ i \in cur.lo..cur.up
  BY <1>3, <1>4
<1>7. Rearranged(list)
  BY <1>1, ListIs
<1>8. Rearranged(l)
  BY <1>1, <1>6, <1>7, Exchange
<1>9. \A k \in lo..up : l[k] = IF k = i THEN list[up - 1] ELSE IF k = up - 1 THEN list[i] ELSE list[k]
  BY <1>1, <1>3, <1>6, <1>7, ExchangeAt
<1> HIDE DEF l
<1>10. outer \in Seq(Int \X Int) /\ <<lo, up>> \in Int \X Int /\ Good(Append(outer, <<lo, up>>), Len(list))
  BY <1>1, <1>3, RangeIs DEF Ranges
<1>11. \A k \in lo..up : list[k] \in Int
  BY <1>1, <1>3, RangeHolds
<1>12. order = "less" => \A p, q \in lo..up : p < q =>
          l[p] <= l[q] \/ (lo <= p /\ q <= i - 1) \/ (i + 1 <= p /\ q <= up)
  <2>1. SUFFICES ASSUME order = "less", NEW p \in lo..up, NEW q \in lo..up, p < q, ~(q <= i - 1), ~(i + 1 <= p)
                 PROVE  l[p] <= l[q]
    OBVIOUS
  <2>2. p \in Int /\ q \in Int /\ lo <= p /\ p <= i /\ i <= q /\ q <= up
    BY <2>1
  <2>3. /\ cur.pivot = list[up - 1] /\ cur.pivot <= list[i]
        /\ \A k \in lo..(i - 1) : list[k] <= cur.pivot
        /\ \A k \in (i + 1)..up : cur.pivot <= list[k]
    <3>1. \A k \in (i + 1)..up : k \in (cur.j + 1)..cur.up  BY SMTT(30), <1>2, <1>3, <1>4
    <3>2. QED  BY <3>1, <2>1, <1>2, <1>3
  <2>4. l[p] <= cur.pivot
    <3>1. CASE p = i  BY <3>1, <2>3, <1>9, <1>2, <2>2
    <3>2. CASE p # i
      <4>1. p \in lo..(i - 1) /\ p # up - 1  BY <3>2, <2>2, <1>4
      <4>2. l[p] = list[p]  BY <4>1, <3>2, <1>9, <2>2
      <4>3. QED  BY <4>1, <4>2, <2>3
    <3>3. QED  BY <3>1, <3>2
  <2>5. cur.pivot <= l[q]
    <3>1. CASE q = i  BY <3>1, <2>3, <1>9, <1>2, <2>2
    <3>2. CASE q # i /\ q = up - 1
      <4>1. l[q] = list[i]  BY <3>2, <1>9, <2>2
      <4>2. QED  BY <4>1, <2>3
    <3>3. CASE q # i /\ q # up - 1
      <4>1. q \in (i + 1)..up  BY <3>3, <2>2
      <4>2. l[q] = list[q]  BY <3>3, <1>9, <2>2
      <4>3. QED  BY <4>1, <4>2, <2>3
    <3>4. QED  BY <3>1, <3>2, <3>3
  <2>6. l[p] \in Int /\ l[q] \in Int
    <3>1. list[up - 1] \in Int /\ list[i] \in Int  BY <1>11, <1>3, <1>6
    <3>2. QED  BY <3>1, <1>9, <1>11
  <2>7. QED  BY <2>4, <2>5, <2>6, <1>2
<1>13. ASSUME NEW a \in Int \X Int, NEW b \in Int \X Int, SortReturns(outer \o <<a, b>>),
              \/ a = left /\ b = right /\ ~(i - lo < up - i)
              \/ a = right /\ b = left /\ i - lo < up - i
       PROVE  IInv'
  <2>1. PICK r \in Int \X Int : r = <<lo, up>>
    BY <1>10
  <2>2. /\ a[1] \in Int /\ a[2] \in Int /\ b[1] \in Int /\ b[2] \in Int /\ r[1] = lo /\ r[2] = up
        /\ \/ a[1] = lo /\ a[2] = i - 1 /\ b[1] = i + 1 /\ b[2] = up /\ ~(i - lo < up - i)
           \/ a[1] = i + 1 /\ a[2] = up /\ b[1] = lo /\ b[2] = i - 1 /\ i - lo < up - i
    BY <1>13, <2>1
  <2>3. /\ r[1] <= a[1] /\ a[1] <= a[2] /\ a[2] <= r[2] /\ r[1] <= b[1] /\ b[1] <= b[2] /\ b[2] <= r[2]
    BY <2>2, <1>4
  <2>4. Apart(a, b) /\ 2 * Size(b) <= Size(r)
    BY SMTT(30), <2>2, <1>4 DEF Apart, Size
  <2>5. Good(outer \o <<a, b>>, Len(list))
    BY <2>1, <2>3, <2>4, <1>4, <1>10, SplitLast
  <2>6. order = "less" => OrderedBut(l, outer \o <<a, b>>)
    <3>1. SUFFICES ASSUME order = "less" PROVE OrderedBut(l, outer \o <<a, b>>)
      OBVIOUS
    <3>2. l \in Seq(Int) /\ OrderedBut(l, Append(outer, r))
      BY <3>1, <2>1, <1>3, <1>8 DEF Rearranged, Ranges
    <3>3. \A p, q \in 1..Len(l) : p < q /\ r[1] <= p /\ q <= r[2] =>
             l[p] <= l[q] \/ (a[1] <= p /\ q <= a[2]) \/ (b[1] <= p /\ q <= b[2])
      <4>1. ASSUME NEW p \in 1..Len(l), NEW q \in 1..Len(l), p < q, lo <= p, q <= up
            PROVE  l[p] <= l[q] \/ (a[1] <= p /\ q <= a[2]) \/ (b[1] <= p /\ q <= b[2])
        <5>1. p \in lo..up /\ q \in lo..up  BY <4>1
        <5>2. l[p] <= l[q] \/ (lo <= p /\ q <= i - 1) \/ (i + 1 <= p /\ q <= up)
          BY <5>1, <4>1, <3>1, <1>12
        <5>3. QED  BY <5>2, <2>2
      <4>2. QED  BY <4>1, <2>2
    <3>4. QED  BY <3>2, <3>3, <1>10, SplitLastOrdered
  <2>7. QED  BY <2>5, <2>6, <1>5, <1>8, <1>13, Returns
<1>14. left \in Int \X Int /\ right \in Int \X Int
  BY <1>3
<1>15. CASE i - lo < up - i
  <2>1. SortReturns(outer \o <<right, left>>)  BY <1>5, <1>15
  <2>2. QED  BY <2>1, <1>13, <1>14, <1>15
<1>16. CASE ~(i - lo < up - i)
  <2>1. SortReturns(outer \o <<left, right>>)  BY <1>5, <1>16
  <2>2. QED  BY <2>1, <1>13, <1>14, <1>16
<1>17. QED  BY <1>15, <1>16

\* The scan from the right.
LEMMA ScanLeftStep ==
  ASSUME Here, NEW less \in BOOLEAN, ScanLeft(less)
  PROVE  IInv'
<1>1. IInv /\ outcome = "sorting" /\ cur.at = "left" /\ ComparatorSays(less)
  BY DEF Here, ScanLeft
<1>2. Rearranged(list)
  BY <1>1, ListIs
<1>3. /\ cur \in CurType /\ cur.up - cur.lo >= 3
      /\ cur.lo \in Int /\ cur.up \in Int /\ cur.i \in Int /\ cur.j \in Int /\ cur.pivot \in Int
      /\ cur.lo + 1 <= cur.i /\ cur.i <= cur.up - 1 /\ cur.lo <= cur.j /\ cur.j <= cur.up - 2
      /\ order = "less" =>
           /\ list[cur.lo] <= list[cur.up] /\ cur.pivot = list[cur.up - 1]
           /\ \A k \in cur.lo..(cur.i - 1) : list[k] <= cur.pivot
           /\ cur.pivot <= list[cur.i]
           /\ \A k \in (cur.j + 1)..cur.up : cur.pivot <= list[k]
  BY <1>1, ScanIs
<1>4. order = "less" => (less <=> cur.pivot < list[cur.j])
  BY <1>1, Answer
<1>5. cur.i \in cur.lo..cur.up /\ cur.j \in cur.lo..cur.up /\ cur.up - 1 \in cur.lo..cur.up
      /\ cur.lo \in cur.lo..cur.up /\ cur.up \in cur.lo..cur.up
  BY <1>3
<1>6. \A k \in cur.lo..cur.up : list[k] \in Int
  BY <1>1, RangeHolds
<1>7. CASE less /\ cur.j < cur.i
  <2>1. outcome' = "error" /\ list' = list /\ cur' = cur /\ outer' = outer
    BY <1>7 DEF ScanLeft, SortFails
  <2>2. order # "less"
    <3>1. ASSUME order = "less" PROVE FALSE
      <4>1. cur.pivot < list[cur.j]  BY <3>1, <1>4, <1>7
      <4>2. cur.j \in cur.lo..(cur.i - 1)  BY <1>3, <1>7
      <4>3. list[cur.j] <= cur.pivot  BY <4>2, <3>1, <1>3
      <4>4. list[cur.j] \in Int  BY <1>5, <1>6
      <4>5. QED  BY <4>1, <4>3, <4>4, <1>3
    <3>2. QED  BY <3>1
  <2>3. QED  BY <2>1, <2>2 DEF Here, IInv, Typed, Kept, Bounded, Scanning, Ranges, Sorts
<1>8. CASE less /\ ~(cur.j < cur.i)
  <2>1. cur' = [cur EXCEPT !.j = cur.j - 1] /\ list' = list /\ outer' = outer /\ outcome' = outcome
    BY <1>8, <1>3 DEF ScanLeft, CurType
  <2>2. /\ cur' \in CurType /\ cur'.lo = cur.lo /\ cur'.up = cur.up /\ cur'.at = "left"
        /\ cur'.i = cur.i /\ cur'.j = cur.j - 1 /\ cur'.pivot = cur.pivot
    <3>1. PICK j \in Int : j = cur.j - 1  BY <1>3
    <3>2. cur' = [cur EXCEPT !.j = j]  BY <2>1, <3>1
    <3>3. QED  BY <3>1, <3>2, <1>1, <1>3 DEF CurType
  <2>3. Scanning'
    <3>1. cur.i \in (cur.lo + 1)..(cur.up - 1) /\ cur.j - 1 \in cur.lo..(cur.up - 2)
      BY <1>3, <1>8
    <3>2. QED  BY <3>1, <2>2, <1>3 DEF Scanning
  <2>4. order = "less" => Compares(list', cur')
    <3>1. SUFFICES ASSUME order = "less" PROVE Compares(list, cur')
      BY <2>1
    <3>2. cur.pivot <= list[cur.j]
      <4>1. cur.pivot < list[cur.j]  BY <3>1, <1>4, <1>8
      <4>2. list[cur.j] \in Int  BY <1>5, <1>6
      <4>3. QED  BY <4>1, <4>2, <1>3
    <3>3. \A k \in cur'.lo..(cur'.i - 1) : list[k] <= cur'.pivot
      BY <3>1, <1>3, <2>2
    <3>4. \A k \in (cur'.j + 1)..cur'.up : cur'.pivot <= list[k]
      <4>1. \A k \in (cur'.j + 1)..cur'.up : k = cur.j \/ k \in (cur.j + 1)..cur.up  BY <1>3, <2>2
      <4>2. QED  BY <4>1, <3>1, <3>2, <1>3, <2>2
    <3>5. cur'.pivot = list[cur'.up - 1] /\ list[cur'.lo] <= list[cur'.up] /\ cur'.pivot <= list[cur'.i]
      BY <2>2, <1>3, <3>1
    <3>6. QED  BY <2>2, <3>3, <3>4, <3>5 DEF Compares
  <2>5. Rearranged(list')  BY <1>2, <2>1 DEF Rearranged
  <2>6. QED  BY <2>1, <2>2, <2>3, <2>4, <2>5, GoesOn
<1>9. CASE ~less /\ cur.j < cur.i
  <2>1. SortParts(cur.i)
    BY <1>9 DEF ScanLeft
  <2>2. order = "less" => list[cur.j] <= cur.pivot
    <3>1. ASSUME order = "less" PROVE list[cur.j] <= cur.pivot
      <4>1. ~(cur.pivot < list[cur.j])  BY <3>1, <1>4, <1>9
      <4>2. list[cur.j] \in Int  BY <1>5, <1>6
      <4>3. QED  BY <4>1, <4>2, <1>3
    <3>2. QED  BY <3>1
  <2>3. QED  BY <2>1, <2>2, <1>1, <1>9, PartsStep
<1>10. CASE ~less /\ ~(cur.j < cur.i)
  <2>1. /\ list' = Swapped(list, cur.i, cur.j) /\ outer' = outer /\ outcome' = outcome
        /\ cur' = [cur EXCEPT !.at = "right", !.i = cur.i + 1]
    BY <1>10, <1>3 DEF ScanLeft, CurType
  <2>2. /\ cur' \in CurType /\ cur'.lo = cur.lo /\ cur'.up = cur.up /\ cur'.at = "right"
        /\ cur'.i = cur.i + 1 /\ cur'.j = cur.j /\ cur'.pivot = cur.pivot
    <3>1. PICK i \in Int : i = cur.i + 1  BY <1>3
    <3>2. cur' = [cur EXCEPT !.at = "right", !.i = i]  BY <2>1, <3>1
    <3>3. QED  BY <3>1, <3>2, <1>1, <1>3 DEF CurType, Positions
  <2>3. Scanning'
    <3>1. cur.i + 1 \in (cur.lo + 1)..(cur.up - 1) /\ cur.j \in (cur.lo + 1)..(cur.up - 1)
      BY <1>3, <1>10
    <3>2. QED  BY <3>1, <2>2, <1>3 DEF Scanning
  <2>4. Rearranged(list')
    BY <1>1, <1>2, <1>5, <2>1, Exchange
  <2>5. PICK l : l = list'  OBVIOUS
  <2>6. \A k \in cur.lo..cur.up : l[k] = IF k = cur.j THEN list[cur.i] ELSE IF k = cur.i THEN list[cur.j] ELSE list[k]
    BY <1>1, <1>2, <1>5, <2>1, <2>5, ExchangeAt
  <2>7. order = "less" => Compares(list', cur')
    <3>1. SUFFICES ASSUME order = "less" PROVE Compares(l, cur')
      BY <2>5
    <3>2. list[cur.j] <= cur.pivot /\ cur.pivot <= list[cur.i]
      <4>1. ~(cur.pivot < list[cur.j])  BY <3>1, <1>4, <1>10
      <4>2. list[cur.j] \in Int  BY <1>5, <1>6
      <4>3. QED  BY <4>1, <4>2, <3>1, <1>3
    <3>3. l[cur.i] = list[cur.j] \/ (cur.i = cur.j /\ l[cur.i] = list[cur.i])
      BY <2>6, <1>5
    <3>4. l[cur.i] <= cur.pivot
      <4>1. cur.i = cur.j => l[cur.i] = list[cur.j]  BY <2>6, <1>5
      <4>2. l[cur.i] = list[cur.j]  BY <3>3, <4>1
      <4>3. QED  BY <4>2, <3>2
    <3>5. cur.pivot <= l[cur.j]
      <4>1. l[cur.j] = list[cur.i]  BY <2>6, <1>5
      <4>2. QED  BY <4>1, <3>2
    <3>6. \A k \in cur'.lo..(cur'.i - 1) : l[k] <= cur'.pivot
      <4>1. ASSUME NEW k \in cur.lo..(cur.i - 1) PROVE l[k] <= cur.pivot
        <5>1. k \in cur.lo..cur.up /\ k # cur.i /\ k # cur.j  BY <1>3, <1>10
        <5>2. l[k] = list[k]  BY <5>1, <2>6
        <5>3. QED  BY <5>2, <3>1, <1>3
      <4>2. \A k \in cur'.lo..(cur'.i - 1) : k = cur.i \/ k \in cur.lo..(cur.i - 1)  BY <1>3, <2>2
      <4>3. QED  BY <4>1, <4>2, <3>4, <2>2
    <3>7. \A k \in cur'.j..cur'.up : cur'.pivot <= l[k]
      <4>1. ASSUME NEW k \in (cur.j + 1)..cur.up PROVE cur.pivot <= l[k]
        <5>1. k \in cur.lo..cur.up /\ k # cur.i /\ k # cur.j  BY <1>3, <1>10
        <5>2. l[k] = list[k]  BY <5>1, <2>6
        <5>3. QED  BY <5>2, <3>1, <1>3
      <4>2. \A k \in cur'.j..cur'.up : k = cur.j \/ k \in (cur.j + 1)..cur.up  BY <1>3, <2>2
      <4>3. QED  BY <4>1, <4>2, <3>5, <2>2
    <3>8. l[cur.up] = list[cur.up] /\ l[cur.lo] = list[cur.lo] /\ l[cur.up - 1] = list[cur.up - 1]
      <4>1. /\ cur.up # cur.i /\ cur.up # cur.j /\ cur.up - 1 # cur.j /\ cur.up - 1 # cur.i
            /\ cur.lo # cur.i /\ cur.lo # cur.j
        BY <1>3, <1>10
      <4>2. QED  BY <4>1, <1>5, <2>6
    <3>9. cur'.pivot = l[cur'.up - 1] /\ l[cur'.lo] <= l[cur'.up]
      BY <2>2, <1>3, <3>1, <3>8
    <3>10. QED  BY <2>2, <3>6, <3>7, <3>9 DEF Compares
  <2>8. QED  BY <2>1, <2>2, <2>3, <2>4, <2>7, GoesOn
<1>11. QED  BY <1>7, <1>8, <1>9, <1>10

\* Every step of the sort.
LEMMA Step ==
  ASSUME IInv, [SortNext]_sortVars
  PROVE  IInv'
<1>1. CASE UNCHANGED sortVars
  BY <1>1 DEF sortVars, IInv, Typed, Kept, Bounded, Scanning, Ranges, Sorts
<1>2. CASE SortNext
  <2>1. Here
    BY <1>2 DEF SortNext, Here
  <2>2. CASE ComparatorFails
    <3>1. outcome' = "error" /\ list' = list /\ cur' = cur /\ outer' = outer /\ order # "less"
      BY <2>2 DEF ComparatorFails, SortFails
    <3>2. QED
      BY <3>1, <2>1 DEF Here, IInv, Typed, Kept, Bounded, Scanning, Ranges, Sorts
  <2>3. QED
    BY <1>2, <2>1, <2>2, EndsStep, MedianLowStep, MedianHighStep, ScanRightStep, ScanLeftStep DEF SortNext
<1>3. QED  BY <1>1, <1>2

\* A list of at most one element is sorted, another one is one range.
LEMMA Begin ==
  ASSUME SortInit
  PROVE  IInv
<1>1. given \in Seq(Int) /\ list = given /\ Len(given) \in Nat
  BY ListsAssumption, LenProperties DEF SortInit
<1>2. /\ cur = [lo |-> 1, up |-> Len(given), at |-> "ends", i |-> 0, j |-> 0, pivot |-> 0]
      /\ outer = <<>> /\ outcome = IF Len(given) <= 1 THEN "sorted" ELSE "sorting"
  BY DEF SortInit, Stretch
<1>3. cur \in CurType /\ cur.at = "ends" /\ cur.lo = 1 /\ cur.up = Len(given)
  BY <1>1, <1>2 DEF CurType, Positions
<1>4. outer \in Seq(Int \X Int) /\ Len(outer) = 0
  BY <1>2
<1>5. Typed /\ Kept
  BY <1>1, <1>2, <1>3, <1>4 DEF Typed, Kept
<1>6. /\ Ranges \in Seq(Int \X Int) /\ Len(Ranges) = 1 /\ Ranges[1] = <<1, Len(given)>>
  BY <1>1, <1>3, <1>4, AppendIs DEF Ranges
<1>7. ASSUME Len(given) > 1
      PROVE  Good(Ranges, Len(list)) /\ OrderedBut(list, Ranges)
  <2>1. PICK n \in Nat : n = Len(given)  BY <1>1
  <2>2. \A k \in 1..Len(Ranges) : k = 1  BY <1>6
  <2>3. 2 ^ (1 - 1) = 1
    <3>1. 1 - 1 = 0  OBVIOUS
    <3>2. QED  BY <3>1, PowerOfTwo
  <2>4. Ranges[1][1] = 1 /\ Ranges[1][2] = n /\ Size(Ranges[1]) = n
    BY <1>6, <2>1 DEF Size
  <2>5. 1 <= n /\ n + 1 - 1 <= n /\ n * 1 <= n
    BY <1>7, <2>1
  <2>6. \A k \in 1..Len(Ranges) :
          /\ 1 <= Ranges[k][1] /\ Ranges[k][1] <= Ranges[k][2] /\ Ranges[k][2] <= n
          /\ Size(Ranges[k]) + k - 1 <= n /\ Size(Ranges[k]) * 2 ^ (k - 1) <= n
    <3>1. ASSUME NEW k \in 1..Len(Ranges)
          PROVE  /\ 1 <= Ranges[k][1] /\ Ranges[k][1] <= Ranges[k][2] /\ Ranges[k][2] <= n
                 /\ Size(Ranges[k]) + k - 1 <= n /\ Size(Ranges[k]) * 2 ^ (k - 1) <= n
      <4>1. k = 1  BY <2>2
      <4>2. 2 ^ (k - 1) = 1  BY <4>1, <2>3
      <4>3. Ranges[k][1] = 1 /\ Ranges[k][2] = n /\ Size(Ranges[k]) = n  BY <4>1, <2>4
      <4>4. Size(Ranges[k]) * 2 ^ (k - 1) <= n  BY <4>2, <4>3, <2>5
      <4>5. Size(Ranges[k]) + k - 1 <= n  BY <4>1, <4>3
      <4>6. QED  BY <4>3, <4>4, <4>5, <2>5
    <3>2. QED  BY <3>1
  <2>7. Good(Ranges, n)
    BY <1>6, <2>2, <2>6 DEF Good
  <2>8. OrderedBut(list, Ranges)
    <3>1. \A p, q \in 1..n : Ranges[1][1] <= p /\ q <= Ranges[1][2]  BY <2>4
    <3>2. 1 \in 1..Len(Ranges)  BY <1>6
    <3>3. QED  BY <3>1, <3>2, <2>1, <1>1 DEF OrderedBut
  <2>9. QED  BY <2>1, <2>7, <2>8, <1>1
<1>8. Bounded
  BY <1>1, <1>2, <1>3, <1>7 DEF Bounded, Scanning
<1>9. Sorts
  <2>1. Len(given) <= 1 => OrderedBut(list, <<>>)
    <3>1. ASSUME Len(given) <= 1, NEW p \in 1..Len(list), NEW q \in 1..Len(list), p < q PROVE FALSE
      BY <3>1, <1>1
    <3>2. QED  BY <3>1 DEF OrderedBut
  <2>2. QED  BY <1>1, <1>2, <1>3, <1>7, <2>1 DEF Sorts, Compares
<1>10. QED  BY <1>5, <1>8, <1>9 DEF IInv

\* The invariant says what SortExact asks.
LEMMA Says ==
  ASSUME IInv
  PROVE  SortExact
<1>1. /\ given \in Seq(Int) /\ list \in Seq(Int) /\ Len(list) = Len(given) /\ Len(given) \in Nat
      /\ cur \in CurType /\ outer \in Seq(Int \X Int)
      /\ outcome \in {"sorting", "sorted", "error"}
  BY LenProperties DEF IInv, Typed
<1>2. \A x \in Range(given) : Occurrences(list, x) = Occurrences(given, x)
  <2>1. \A x \in Range(given) : x \in Int
    <3>1. DOMAIN given = 1..Len(given) /\ \A k \in 1..Len(given) : given[k] \in Int
      BY <1>1, LenProperties, ElementOfSeq
    <3>2. QED  BY <3>1 DEF Range
  <2>2. QED  BY <2>1 DEF IInv, Kept
<1>3. cur.at \in {"right", "left"} => {cur.i, cur.j} \subseteq cur.lo..cur.up
  <2>1. cur.lo \in Int /\ cur.up \in Int /\ cur.i \in Int /\ cur.j \in Int
    BY <1>1, Fields
  <2>2. QED  BY <2>1 DEF IInv, Bounded, Scanning
<1>4. Len(given) > 0 => Len(outer) <= Log2(Len(given))
  <2>1. SUFFICES ASSUME Len(given) > 0 PROVE Len(outer) <= Log2(Len(given))
    OBVIOUS
  <2>2. PICK n \in Nat, d \in Nat : n = Len(given) /\ d = Len(outer)
    BY <1>1, RangeTypes
  <2>3. d <= n /\ 2 ^ d <= n
    <3>1. CASE outcome = "sorted"
      <4>1. d = 0  BY <3>1, <2>2 DEF IInv, Bounded
      <4>2. QED  BY <4>1, <2>1, <2>2, PowerOfTwo
    <3>2. CASE outcome # "sorted"
      <4>1. Good(Ranges, n) /\ cur.lo < cur.up /\ cur.lo \in Int /\ cur.up \in Int
        BY <3>2, <1>1, <2>2, Fields DEF IInv, Bounded
      <4>2. <<cur.lo, cur.up>> \in Int \X Int  BY <4>1
      <4>3. Len(Ranges) = d + 1 /\ Ranges[d + 1] = <<cur.lo, cur.up>>
        BY <4>2, <1>1, <2>2, AppendIs DEF Ranges
      <4>4. PICK s \in Nat : s = Size(Ranges[d + 1]) /\ s >= 1
        BY <4>1, <4>3 DEF Size
      <4>5. d + 1 \in 1..Len(Ranges) /\ d + 1 - 1 = d  BY <4>3
      <4>6. s + (d + 1) - 1 <= n /\ s * 2 ^ (d + 1 - 1) <= n
        BY <4>1, <4>4, <4>5 DEF Good
      <4>7. s * 2 ^ d <= n  BY <4>5, <4>6
      <4>8. PICK P \in Nat : P = 2 ^ d  BY PowerOfTwo
      <4>9. 1 * P <= n  BY <4>4, <4>7, <4>8, Halved
      <4>10. 1 * P = P  OBVIOUS
      <4>11. d <= n  BY <4>4, <4>6
      <4>12. QED  BY <4>8, <4>9, <4>10, <4>11
    <3>3. QED  BY <3>1, <3>2
  <2>4. PICK S : S = {k \in 0..n : 2 ^ k <= n}  OBVIOUS
  <2>5. d \in S /\ S \subseteq 0..n  BY <2>3, <2>4
  <2>6. \A y \in S : y <= Max(S)  BY <2>5, Greatest
  <2>7. Log2(n) = Max(S)  BY <2>4 DEF Log2
  <2>8. QED  BY <2>2, <2>5, <2>6, <2>7
<1>5. ASSUME order = "less"
      PROVE  /\ outcome # "error"
             /\ outcome = "sorted" => \A k \in 1..(Len(list) - 1) : list[k] <= list[k + 1]
  <2>1. outcome # "error" /\ (outcome = "sorted" => OrderedBut(list, <<>>))
    BY <1>5 DEF IInv, Sorts
  <2>2. ASSUME outcome = "sorted", NEW k \in 1..(Len(list) - 1) PROVE list[k] <= list[k + 1]
    <3>1. k \in 1..Len(list) /\ k + 1 \in 1..Len(list) /\ k < k + 1
      BY <1>1
    <3>2. \A m \in 1..Len(<<>>) : FALSE  OBVIOUS
    <3>3. QED  BY <3>1, <3>2, <2>1, <2>2 DEF OrderedBut
  <2>3. QED  BY <2>1, <2>2
<1>6. QED  BY <1>2, <1>3, <1>4, <1>5 DEF SortExact

\* table.sort, for every list and whatever the comparator is: the list holds the
\* elements it held, also when sort fails; every element read is one of the range;
\* the calls are no deeper than the logarithm of the length; and a comparator that
\* is an order is never found fault with and sorts the list.
THEOREM SortIsExact == SortSpec => []SortExact
<1>1. SortInit => IInv  BY Begin
<1>2. IInv /\ [SortNext]_sortVars => IInv'  BY Step
<1>3. IInv => SortExact  BY Says
<1>4. QED  BY <1>1, <1>2, <1>3, PTL DEF SortSpec
==============================================================================
