------------------------------- MODULE MCLibrary -------------------------------
EXTENDS Library

\* Files
MCChar == {"1", Newline, Hole}
MCWrites == {<<<<"1">>>>, <<<<"1">>, <<Newline, "1", "1">>>>}
MCFormats == {<<"0", "a">>, <<"l">>, <<"L", "n">>, <<"1", "l">>}
MCOffsets == {-1, 0, 1}

\* Lists to sort: all short ones, and some that take several partitions.
MCLists ==
  UNION {[1..n -> 1..3] : n \in 0..4}
  \union {<<2, 1, 3, 2, 3>>, <<1, 2, 3, 4, 5, 6, 7>>, <<3, 1, 3, 1, 3, 1, 2>>, <<2, 2, 2, 2, 2, 2, 2>>}

\* -------------------------------------------------------------------------
\* Patterns

Letters == {"a", "b", "A"}
Chars == {" ", "1"} \union Letters
A == One(<<"a">>, {"a"})
B == One(<<"b">>, {"b"})
Dot == One(<<".">>, Chars)
SetAB == One(<<"[", "a", "b", "]">>, {"a", "b"})
InRange == One(<<"[", "a", "-", "c", "1", "]">>, {"a", "b", "1"})
NotA == One(<<"[", "^", "a", "]">>, Chars \ {"a"})
Odd == One(<<"[", "]", "a", "-", "]">>, {"a"})
Letter == One(<<"%", "a">>, Letters)
NoLetter == One(<<"%", "A">>, Chars \ Letters)
InClasses == One(<<"[", "%", "d", "%", "u", "]">>, {"1", "A"})
Dollar == One(<<"$">>, {})
Open == Item("open", <<"(">>)
Shut == Item("close", <<")">>)
Here == Item("position", <<"(", ")">>)
End == Item("end", <<"$">>)
Back(n) == Item("back", <<"%", ToString(n)>>) @@ [capture |-> n]
Word == [Item("frontier", <<"%", "f", "[", "a", "b", "]">>) EXCEPT !.chars = {"a", "b"}]
WordEnd == [Item("frontier", <<"%", "f", "[", "^", "a", "b", "]">>) EXCEPT !.chars = {"NUL", "1", "A", " "}]
Balance(x, y) == Item("balance", <<"%", "b", x, y>>) @@ [open |-> x, close |-> y]
Malformed(text) == Item("malformed", text)
Any0(item) == Quantified(item, "*")
Any1(item) == Quantified(item, "+")
Lazy(item) == Quantified(item, "-")
Maybe(item) == Quantified(item, "?")

Items == {A, Any0(A), Lazy(A), Maybe(A), Any1(SetAB), Any0(Dot), Lazy(Dot), Dot, Open, Shut, Here, Back(1),
          Word, Balance("a", "b"), Balance("a", "a"), NotA, Any0(NoLetter), Maybe(Odd), InRange, InClasses}
Shorts == {<<>>} \union {<<x>> : x \in Items} \union ({<<x, y>> : x, y \in Items} \ {<<Open, Shut>>})
Ends == {<<Malformed(<<"%">>)>>, <<Malformed(<<"[", "a">>)>>, <<Malformed(<<"[", "]">>)>>,
         <<Malformed(<<"[", "%">>)>>, <<Malformed(<<"%", "b", "a">>)>>, <<Malformed(<<"%", "f", "a">>)>>,
         <<Malformed(<<"%", "0">>)>>, <<End>>, <<WordEnd>>}
Longs == {
  <<Open, Any0(A), Shut, Back(1)>>,
  <<Open, Lazy(A), Shut, B, Back(1), End>>,
  <<Open, Lazy(Dot), Shut, Back(1), End>>,
  <<Open, Any0(Dot), Shut, B, Open, Any0(Dot), Shut>>,
  <<Maybe(A), Open, Lazy(Dot), Shut, B>>,
  <<Open, Open, A, Shut, Maybe(Dot), Shut, Back(2)>>,
  <<Open, A, Open, Shut, Back(1)>>,
  <<Here, Any0(A), Here>>, <<Here, Back(1)>>,
  <<Open, Any1(A), Shut, Any1(A), End>>,
  <<Lazy(Dot), Open, Balance("a", "b"), Shut>>,
  <<Word, Open, Any1(Letter), Shut, WordEnd>>,
  <<Open, Here, Maybe(Dot), Shut, End>>,
  <<Any0(A), Any0(A), Lazy(A), B>>,
  <<Open, A, Shut, Open, B, Shut, Back(2)>>,
  <<Maybe(Dot), Maybe(Dot), A>>,
  <<Maybe(Dot), Open, A, Shut, Back(1)>>,
  <<Any0(Dot), Open, A, Maybe(B), Shut>>,
  <<Open, Open, Open, A>>, <<Open, Open, Open, Open>>, <<Dollar, A>>, <<Lazy(Dot), A, Shut>>, <<A, Shut>>}
Plain(items) == [anchored |-> FALSE, items |-> items]
Patterns ==
  [anchored : {FALSE}, items : Shorts \union {x \o y : x \in {<<>>, <<A>>, <<Open>>, <<Any0(Dot)>>}, y \in Ends}]
  \union [anchored : BOOLEAN, items : Longs \union {<<x>> : x \in Items}]
LongPatterns == [anchored : BOOLEAN, items : Longs]

Subjects == {<<"a", "b", "a">>, <<"a", "a", "b", " ">>, <<"1", "a", "b", "b">>}
AllSubjects == Subjects \union {<<>>, <<"a", "a", "a", "A">>}

Template == [kind |-> "string", of |-> <<"b", "%", "1", "%", "%", "%", "0">>,
             parts |-> <<Text(<<"b">>), Integer(1), Text(<<"%">>), Integer(0)>>]
Fixed == [kind |-> "string", of |-> <<"b">>, parts |-> <<Text(<<"b">>)>>]
Nothing == [kind |-> "false", text |-> <<>>, at |-> 0]
Other == [kind |-> "other", text |-> <<>>, at |-> 0]
Replies == (Text(<<"a">>) :> Integer(1)) @@ (Text(<<"b">>) :> Text(<<"A", "A">>)) @@ (Text(<<>>) :> Nothing)
           @@ (Text(<<"a", "b">>) :> Other) @@ (Integer(1) :> Text(<<"1">>))
Replacers == {Template, Fixed} \union [kind : {"table", "function"}, of : {Replies}]

PatternQuestions ==
  [ask : {"match"}, s : Subjects, p : Patterns, init : {1}]
  \union [ask : {"match"}, s : AllSubjects, p : LongPatterns, init : {0, 1, 2, -2, 6, MinInteger}]
  \union [ask : {"find"}, s : AllSubjects, p : LongPatterns, init : {1, -2, 5}, plain : BOOLEAN]
  \union [ask : {"gmatch"}, s : AllSubjects, p : LongPatterns \union {Plain(<<x>>) : x \in Items}, init : {1, -2}]
  \union [ask : {"gsub"}, s : AllSubjects, p : LongPatterns \union {Plain(<<x>>) : x \in Items},
          repl : Replacers, limit : {<<>>, <<1>>}]

\* -------------------------------------------------------------------------
\* Places

Integers == MinInteger..MaxInteger
Numbered == [k \in Integers |-> Text(<<ToString(k)>>)]
Filled(n) == [k \in 1..n |-> Text(<<<<"a", "b", "c">>[k]>>)]
Mixed == <<Text(<<"a", "b">>), Integer(5), Text(<<>>), Other>>

PlaceQuestions ==
  [ask : {"sub", "byte"}, s : {<<>>, <<"a", "b", "1">>}, i : Integers, j : Integers]
  \union [ask : {"rep"}, s : {<<>>, <<"a">>, <<"a", "b">>}, sep : {<<>>, <<"1">>}, n : Integers]
  \union [ask : {"insert"}, t : {Filled(n) : n \in 0..3}, length : {0, 1, 2, 3, MaxInteger},
          pos : {<<>>} \union {<<k>> : k \in Integers}, value : {Other, NilValue}]
  \union [ask : {"remove"}, t : {Filled(n) : n \in 0..3}, length : {0, 1, 2, 3},
          pos : {<<>>} \union {<<k>> : k \in Integers}]
  \union [ask : {"move"}, t : {Numbered, Filled(3)}, other : {Filled(2)}, same : BOOLEAN,
          f : Integers, e : Integers, tt : {MinInteger, -1, 0, 1, 2, 3, MaxInteger - 1, MaxInteger}]
  \union [ask : {"unpack"}, t : {Numbered, Filled(3)}, i : Integers, j : Integers]
  \union [ask : {"table.pack"}, values : {<<>>, <<Other, NilValue, Other>>, <<NilValue>>}]
  \union [ask : {"concat"}, t : {Mixed, Filled(3)}, sep : {<<>>, <<"1", "1">>}, i : -1..4, j : {-1, 2, 3, 4, MaxInteger}]

\* -------------------------------------------------------------------------
\* Formats

Bytes == 0..(ByteValues - 1)
Options ==
  {IntOption(1, TRUE), IntOption(1, FALSE), IntOption(2, TRUE), IntOption(2, FALSE), IntOption(3, FALSE),
   IntOption(4, TRUE), IntOption(4, FALSE), Option("float", 2), Option("fixed", 3), Option("zero", 0),
   Option("sized", 1), Option("sized", 3), Option("pad", 0), Option("align", 2), Option("big", 0)}
Aligning == {Option("max", 2), Option("max", 3), Option("max", 4)}
Strange == {IntOption(5, TRUE), Option("max", 0), Option("align", 0), Option("fixed", MaxInteger), Option("sized", 5)}
Pairs == {<<x, y>> : x, y \in Options}
FormatSet ==
  {<<x>> : x \in Options \union Strange} \union Pairs
  \union {<<a, x, y>> : a \in Aligning, x \in Options, y \in Options}
  \union {<<Option("pad", 0), x>> : x \in Strange}
Values0 == {Integer(MinInteger), Integer(-1), Integer(3), Integer(MaxInteger), Text(<<>>), Text(<<1, 0>>),
            Text(<<2, 3, 1>>), [Integer(6) EXCEPT !.kind = "float"]}
Fine(opt) == {v \in Values0 : Packable(opt, v)}

\* Arguments that suit the format, and ones that do not.
ArgumentsOf(format) ==
  LET taking == {k \in DOMAIN format : TakesValue(format[k])}
      at(m) == CHOOSE k \in taking : ArgumentOf(format, k) = m
  IN CASE taking = {} -> {<<>>}
       [] Cardinality(taking) = 1 -> {<<>>} \union {<<v>> : v \in Values0}
       [] OTHER -> {<<v, w>> : v \in Fine(format[at(1)]), w \in Fine(format[at(2)])}

Data == UNION {[1..n -> {0, 1, ByteValues - 1}] : n \in 0..4}

PackQuestions ==
  UNION {[ask : {"pack"}, format : {f}, args : ArgumentsOf(f)] : f \in FormatSet}
  \union [ask : {"packsize"}, format : FormatSet]
  \union [ask : {"string.unpack"}, format : {<<x>> : x \in Options}, data : Data, pos : {1, 2, -2}]
  \union [ask : {"string.unpack"}, format : {<<IntOption(1, TRUE), Option("sized", 1)>>,
             <<Option("big", 0), Option("sized", 2)>>, <<Option("max", 2), IntOption(1, FALSE), Option("align", 2)>>,
             <<Option("big", 0), IntOption(3, TRUE)>>, <<Option("zero", 0), Option("zero", 0)>>},
          data : Data, pos : {1, MinInteger, 7}]

\* -------------------------------------------------------------------------
\* Numerals

NumeralChars == {"+", "0", "1", "x", "a", "e", "p", ".", " "}
Strings(n) == UNION {[1..k -> NumeralChars] : k \in 0..n}
NumberQuestions ==
  [ask : {"number"}, s : Strings(3) \union
     {p \o s : p \in {<<"+", "0", "x", "1", ".">>, <<"-", "1", ".", "1", "e">>, <<"0", "x", "a", ".", "0", "p">>},
               s \in Strings(3)}]

MCQuestions == PatternQuestions \union PlaceQuestions \union PackQuestions \union NumberQuestions
=============================================================================
