---------------------------- MODULE LibraryMeaning ----------------------------
(* What the functions of LuaString, LuaList, LuaPack and LuaNumeral answer,   *)
(* in closed form and in mathematical integers.                               *)
EXTENDS PatternMeaning, LuaList, LuaPack, LuaNumeral

\* -------------------------------------------------------------------------
\* Strings

Place(s, i) == IF i < 0 THEN Len(s) + i + 1 ELSE i
PlacesBetween(s, i, j) == {k \in DOMAIN s : Place(s, i) <= k /\ k <= Place(s, j)}
PickedOut(s, K) == [m \in 1..Cardinality(K) |-> s[Min(K) + m - 1]]

SubMeans(s, i, j) == Gives(<<Text(PickedOut(s, PlacesBetween(s, i, j)))>>)
ByteMeans(s, i, j) ==
  LET chars == PickedOut(s, PlacesBetween(s, i, j))
  IN Gives([m \in DOMAIN chars |-> Integer(Byte[chars[m]])])

RepMeans(s, n, sep) ==
  LET size == Len(s) * n + Len(sep) * (n - 1)
  IN IF n <= 0 THEN Gives(<<Text(<<>>)>>)
     ELSE IF size > MaxRepSize THEN Error
     ELSE Gives(<<Text(SubSeq(FlattenSeq([k \in 1..n |-> s \o sep]), 1, size))>>)

\* -------------------------------------------------------------------------
\* Lists

\* t where the places of K hold what value says.
Changed(t, K, value) ==
  LET new == [k \in DOMAIN t \union K |-> IF k \in K THEN value[k] ELSE t[k]]
  IN [k \in {k \in DOMAIN new : new[k] # NilValue} |-> new[k]]

\* Only the place itself is written where the length is the largest integer.
InsertMeans(t, length, pos, v) ==
  LET p == IF pos = <<>> THEN Wrap(length + 1) ELSE pos[1]
      K == {p} \union (IF length = MaxInteger THEN {} ELSE p..(length + 1))
  IN IF pos # <<>> /\ (p < 1 \/ p > length + 1) THEN Refused(t, "error")
     ELSE Returns(Changed(t, K, [k \in K |-> IF k = p THEN v ELSE At(t, k - 1)]), <<>>)

RemoveMeans(t, length, pos) ==
  LET p == IF pos = <<>> THEN length ELSE pos[1]
      K == {p} \union p..length
  IN IF p \notin 1..(length + 1) \union {length} THEN Refused(t, "error")
     ELSE Returns(Changed(t, K, [k \in K |-> IF k < length THEN At(t, k + 1) ELSE NilValue]), <<At(t, p)>>)

MoveMeans(a1, a2, same, f, e, tt) ==
  LET from == a1
      to == IF same THEN a1 ELSE a2
      K == tt..(tt + e - f)
  IN IF f > e THEN Returns(to, <<>>)
     ELSE IF e - f + 1 > MaxInteger \/ tt + e - f > MaxInteger THEN Refused(a2, "error")
     ELSE Returns(Changed(to, K, [k \in K |-> At(from, f + k - tt)]), <<>>)

UnpackMeans(t, i, j) ==
  IF j - i + 1 > MaxUnpack THEN Refused(t, "error")
  ELSE Returns(t, [k \in 1..Max({0, j - i + 1}) |-> At(t, i + k - 1)])

ConcatMeans(t, sep, i, j) ==
  LET shown(v) == IF v.kind = "integer" THEN <<ToString(v.at)>> ELSE v.text
      text == FlattenSeq([k \in 1..Max({0, j - i + 1}) |->
                (IF k = 1 THEN <<>> ELSE sep) \o shown(At(t, i + k - 1))])
  IN IF \E k \in i..j : At(t, k).kind \notin {"string", "integer"} THEN Refused(t, "error")
     ELSE IF j >= i /\ Len(text) + Len(sep) > MaxStrResult THEN Refused(t, "error")
     ELSE Returns(t, <<Text(text)>>)

\* -------------------------------------------------------------------------
\* Packed data

TakesValue(opt) == opt.kind \in {"int", "float", "fixed", "zero", "sized"}
ArgumentOf(format, k) == Cardinality({i \in 1..k : TakesValue(format[i])})

MaxAlignAt(format, k) ==
  LET before == {i \in 1..(k - 1) : format[i].kind = "max"}
  IN IF before = {} THEN 1 ELSE format[Max(before)].n

Aligns(format, k) == format[k].kind \in {"int", "float", "sized", "align"}
Alignment(format, k) ==
  IF Aligns(format, k) THEN Min({format[k].n, MaxAlignAt(format, k)}) ELSE 1

BadOption(format, k) ==
  \/ format[k].kind \in {"int", "sized", "max", "align"} /\ format[k].n \notin 1..MaxIntSize
  \/ Aligns(format, k) /\ Alignment(format, k) \notin {2 ^ e : e \in 0..MaxIntSize}

\* Where option k ends when it and those before it are laid out with args.
SizeOf(opt, v) ==
  CASE opt.kind \in {"int", "float", "fixed"} -> opt.n
    [] opt.kind = "zero" -> Len(v.text) + 1
    [] opt.kind = "sized" -> opt.n + Len(v.text)
    [] opt.kind = "pad" -> 1
    [] OTHER -> 0

ValueAt(format, args, k) == IF TakesValue(format[k]) THEN args[ArgumentOf(format, k)] ELSE NilValue

StartAfter(format, k, end) ==
  Min({p \in end..(end + MaxIntSize) : p % Alignment(format, k) = 0})

EndOf(format, args, k) ==
  LET end[i \in 0..k] ==
        IF i = 0 THEN 0
        ELSE StartAfter(format, i, end[i - 1]) + SizeOf(format[i], ValueAt(format, args, i))
  IN end[k]

Packable(opt, v) ==
  CASE opt.kind = "int" ->
         /\ v.kind = "integer"
         /\ opt.n < IntegerSize =>
              LET half == ByteValues ^ opt.n \div 2
              IN v.at \in IF opt.signed THEN -half..(half - 1) ELSE 0..(2 * half - 1)
    [] opt.kind = "float" -> v.kind = "float"
    [] opt.kind = "fixed" -> v.kind = "string" /\ Len(v.text) <= opt.n
    [] opt.kind = "zero" -> v.kind = "string" /\ 0 \notin Range(v.text)
    [] opt.kind = "sized" ->
         v.kind = "string" /\ (opt.n >= IntegerSize \/ Len(v.text) < ByteValues ^ opt.n)

CanPack(format, args) ==
  \A k \in DOMAIN format :
    /\ ~BadOption(format, k)
    /\ TakesValue(format[k]) =>
         /\ ArgumentOf(format, k) <= Len(args)
         /\ Packable(format[k], ValueAt(format, args, k))
    /\ format[k].kind = "fixed" => EndOf(format, args, k) <= MaxStrResult

\* What comes back: a string of a fixed size with zeros behind it.
ComesBack(format, args) ==
  LET taking == {k \in DOMAIN format : TakesValue(format[k])}
      back(k) == LET v == ValueAt(format, args, k)
                 IN IF format[k].kind = "fixed"
                    THEN Text(v.text \o [i \in 1..(format[k].n - Len(v.text)) |-> 0]) ELSE v
  IN [m \in 1..Cardinality(taking) |->
        back(CHOOSE k \in taking : ArgumentOf(format, k) = m)]

VariableLength(format) == \E k \in DOMAIN format : format[k].kind \in {"zero", "sized"}
WithoutPadding(format) == \A k \in DOMAIN format : format[k].kind \notin {"max", "pad", "align"}

\* -------------------------------------------------------------------------
\* Numerals

AllIn(s, set) == Range(s) \subseteq set
Optional(s, set) == Len(s) <= 1 /\ AllIn(s, set)

IsMantissa(s, digits) ==
  \E k \in 0..Len(s) :
    LET fraction == SubSeq(s, k + 1, Len(s))
    IN /\ AllIn(SubSeq(s, 1, k), digits)
       /\ fraction = <<>> \/ (fraction[1] = "." /\ AllIn(Tail(fraction), digits))
       /\ Range(s) \intersect digits # {}

IsExponent(s, mark) ==
  \/ s = <<>>
  \/ s[1] = mark /\ \E k \in {1, 2} : /\ k < Len(s) /\ Optional(SubSeq(s, 2, k), Signs)
                                      /\ AllIn(SubSeq(s, k + 1, Len(s)), DecimalDigits)

IsNumeral(s) ==
  \E i \in {0, 1}, k \in 0..Len(s) :
    /\ i <= k /\ Optional(SubSeq(s, 1, i), Signs)
    /\ LET body == SubSeq(s, i + 1, k)
           rest == SubSeq(s, k + 1, Len(s))
       IN \/ IsMantissa(body, DecimalDigits) /\ IsExponent(rest, "e")
          \/ /\ Len(body) > 2 /\ body[1] = "0" /\ body[2] = "x"
             /\ IsMantissa(SubSeq(body, 3, Len(body)), HexDigits) /\ IsExponent(rest, "p")

\* One more digit makes a numeral of every beginning of one.
IsBeginning(s) == IsNumeral(s) \/ IsNumeral(Append(s, "0"))

\* The longest beginning of a numeral is taken, no more than the limit.
NumeralMeans(s) ==
  LET blank == Max({k \in 0..Len(s) : AllIn(SubSeq(s, 1, k), Blanks)})
      body == SubSeq(s, blank + 1, Len(s))
      longest == Max({k \in 0..Len(body) : IsBeginning(SubSeq(body, 1, k))})
      ok == longest < MaxNumeral /\ IsNumeral(SubSeq(body, 1, longest))
  IN [used |-> blank + Min({longest, MaxNumeral}), ok |-> ok,
      text |-> IF ok THEN SubSeq(body, 1, longest) ELSE <<>>]
=============================================================================
