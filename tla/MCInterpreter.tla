--------------------------- MODULE MCInterpreter ---------------------------
(* The programs on which compiler and dispatch loop are compared with the  *)
(* meaning of the source: every construct, in the contexts where the code  *)
(* generator treats it differently (a live local variable as the target, a *)
(* captured variable, an open list of values, a jump out of a scope).      *)
EXTENDS Interpreter

a == Name("a")
b == Name("b")
c == Name("c")
t == Name("t")
o == Name("o")
f(as) == CallE(Name("f"), as)
g(as) == CallE(Name("g"), as)
Show1(e) == CallS(g(<<e>>))
Loc(x, e) == Local(<<x>>, <<"">>, <<e>>)
Loc2(x, y, es) == Local(<<x, y>>, <<"", "">>, es)
Close(x, e) == Local(<<x>>, <<"close">>, <<e>>)
ConstL(x, e) == Local(<<x>>, <<"const">>, <<e>>)
Set1(x, e) == Assign(<<x>>, <<e>>)
Fn(ps, body) == FuncE(ps, FALSE, body)
Va(ps, body) == FuncE(ps, TRUE, body)
Then(cnd, body) == If(<< <<cnd, body>> >>, <<>>)
ThenElse(cnd, body, els) == If(<< <<cnd, body>> >>, <<els>>)
Eq(x, y) == Bin("==", x, y)
Add(x, y) == Bin("+", x, y)
Sub(x, y) == Bin("-", x, y)
Lt(x, y) == Bin("<", x, y)
Cat(x, y) == Bin("..", x, y)

-----------------------------------------------------------------------------
(* Expressions over two local variables, a and b, and a table t.           *)

Exprs == <<
  Add(a, N(1)), Sub(N(1), a), Sub(a, N(2)), Add(N(3), b), Add(Sub(a, b), a),
  Bin("*", Add(a, b), Sub(a, b)), Bin("//", a, Sub(b, N(3))), Add(Bin("*", N(2), N(3)), a),
  Un("-", a), Un("not", a), Un("-", Un("-", Add(a, N(1)))), Un("#", S("x")), Un("not", Lt(a, b)),
  Cat(a, Cat(b, S("z"))), Cat(S("y"), Cat(Add(a, N(1)), f(<<>>))), Un("-", N(7)),
  And(a, b), Or(a, b), Or(And(a, b), a), And(Or(a, b), f(<<b>>)), Or(Eq(a, b), b), And(Lt(a, b), a),
  Or(f(<<>>), a), And(f(<<a>>), f(<<b>>)), And(Un("not", a), b), Or(Un("not", Eq(a, N(1))), b),
  Eq(a, b), Bin("~=", a, b), Lt(a, b), Bin("<=", a, b), Bin(">", a, b), Bin(">=", a, b),
  Eq(a, N(1)), Eq(N(1), a), Bin("~=", a, S("x")), Lt(N(1), a), Lt(a, N(2)), Bin(">=", N(2), a), Bin("<=", a, N(1)),
  Bin(">", a, N(1)), Bin("<=", N(1), b), Bin(">", N(1), b), Bin(">=", b, N(2)),
  f(<<a>>), Paren(f(<<>>)), f(<<f(<<>>)>>), f(<<a, f(<<b>>)>>), f(<<f(<<>>), b>>),
  Un("#", TableE(<< <<f(<<>>)>>, <<f(<<>>)>> >>)), Un("#", TableE(<< <<a>>, <<b>>, <<Paren(f(<<>>))>> >>)),
  Index(TableE(<< <<a>>, <<S("x"), b>>, <<f(<<>>)>> >>), N(2)),
  Field(TableE(<< <<S("x"), a>>, <<S("x"), f(<<>>)>>, <<Add(N(0), N(1)), b>> >>), "x"),
  Index(TableE(<< <<a, b>>, <<b, a>> >>), a),
  CallE(Paren(Fn(<<>>, <<Return(<<Add(a, b)>>)>>)), <<>>), f(<<Fn(<<>>, <<>>)>>),
  CallE(Paren(Fn(<<"a">>, <<Return(<<a, b>>)>>)), <<b, a>>),
  Field(t, "x"), Index(t, a), Index(t, N(1)), Method(t, "m", <<b>>), Method(t, "m", <<f(<<>>)>>),
  Index(TableE(<<>>), Add(a, b)), Field(Field(t, "x"), "y"), Un("#", t),
  Add(Field(t, "x"), Index(t, N(1))), Field(Index(TableE(<< <<t>> >>), N(1)), "x"), Name("unset"), Vararg, Paren(Vararg) >>

Given(body) == <<Loc2("a", "b", <<f(<<>>)>>), Loc("t", TableE(<< <<S("x"), b>>, <<a>>, <<S("m"), Name("g")>> >>))>> \o body

ExprPrograms(e) == <<
  Given(<<Return(<<a, e, b>>)>>),                                \* a temporary
  Given(<<Set1(a, e), Return(<<a, b>>)>>),                           \* the target is an operand
  Given(<<ThenElse(e, <<Show1(a)>>, <<Show1(b)>>)>>),                \* a condition
  Given(<<Loc2("c", "d", <<N(1), e>>), Return(<<c, Name("d")>>)>>) >>               \* the last of a list

-----------------------------------------------------------------------------
(* Local variables and assignments.                                        *)

Inc(x) == Set1(Name(x), Add(Name(x), N(1)))

Assignments == <<
  Given(<<Assign(<<a, b>>, <<b, a>>), Return(<<a, b>>)>>),
  Given(<<Assign(<<a, Index(t, a)>>, <<N(1), b>>), Return(<<a, Index(t, N(5)), Index(t, N(1))>>)>>),
  Given(<<Assign(<<Index(t, a), a>>, <<b, N(7)>>), Return(<<a, Index(t, N(5)), Index(t, N(7))>>)>>),
  Given(<<Assign(<<Index(t, a), Field(t, "y"), t>>, <<b, b, N(7)>>), Return(<<t>>)>>),
  Given(<<Loc("u", t), Assign(<<Field(t, "y"), t>>, <<a, N(7)>>), Return(<<Field(Name("u"), "y"), t>>)>>),
  Given(<<Assign(<<a, b, Name("x")>>, <<f(<<>>)>>), Return(<<a, b, Name("x")>>)>>),
  Given(<<Assign(<<a, a>>, <<b, f(<<>>)>>), Return(<<a>>)>>),
  Given(<<Assign(<<a, b>>, <<f(<<>>), b, f(<<>>)>>), Return(<<a, b>>)>>),
  Given(<<Assign(<<a, b>>, <<N(4)>>), Return(<<a, b>>)>>),
  Given(<<Assign(<<Index(t, Add(a, b)), Name("x")>>, <<a, b>>), Return(<<Index(t, Add(a, b)), Name("x")>>)>>),
  Given(<<Set1(Name("x"), a), Set1(Index(t, N(2)), Name("x")), Set1(Field(t, "x"), NilE), Return(<<Un("#", t), Field(t, "x")>>)>>),
  Given(<<Set1(Index(t, b), a), Set1(Index(t, S("k")), b), Return(<<Field(t, "k"), Index(t, b)>>)>>),
  Given(<<Set1(Field(Field(t, "z"), "y"), a)>>),
  Given(<<Local(<<"c", "d", "e">>, <<"", "", "">>, <<a, f(<<>>)>>), Return(<<c, Name("d"), Name("e")>>)>>),
  Given(<<Local(<<"c", "d">>, <<"", "">>, <<a, b, f(<<>>)>>), Return(<<c, Name("d")>>)>>),
  Given(<<Local(<<"c", "d">>, <<"", "const">>, <<a, Sub(N(6), N(1))>>), Return(<<c, Add(Name("d"), a)>>)>>),
  Given(<<Local(<<"c", "d">>, <<"", "const">>, <<a, b>>), Return(<<c, Name("d")>>)>>),
  Given(<<Local(<<"c", "d">>, <<"", "">>, <<>>), Loc("e", N(1)), Return(<<c, Name("d"), Name("e")>>)>>),
  Given(<<Loc("a", Add(a, N(1))), Return(<<a>>)>>),
  Given(<<ConstL("k", N(3)), LocalFunction("h", Fn(<<>>, <<Return(<<Add(Name("k"), a)>>)>>)), Return(<<CallE(Name("h"), <<>>)>>)>>),
  Given(<<Function(Name("h"), Fn(<<"x">>, <<Return(<<Name("x"), a>>)>>)), CallS(g(<<CallE(Name("h"), <<b>>)>>))>>),
  Given(<<Function(Field(t, "h"), Fn(<<"x">>, <<Return(<<Name("x"), a>>)>>)), CallS(g(<<Method(t, "h", <<b>>)>>))>>),
  Given(<<Function(Field(t, "h"), Fn(<<"self", "x">>, <<Return(<<Field(Name("self"), "x"), Name("x")>>)>>)), CallS(g(<<Method(t, "h", <<b>>)>>))>>),
  Given(<<Local(<<"c", "d">>, <<"const", "const">>, <<a, N(4)>>), Return(<<c, Name("d"), f(<<S("z")>>)>>)>>),
  Given(<<LocalFunction("h", Fn(<<>>, <<Assign(<<a, Index(t, N(1))>>, <<b, a>>)>>)), CallS(CallE(Name("h"), <<>>)), Return(<<a, Index(t, N(1))>>)>>)
  >>

Items(n) == [i \in 1 .. n |-> <<N(i)>>]
Constructors == <<
  <<Loc("t", TableE(Items(12) \o << <<f(<<>>)>> >>)), Return(<<Un("#", t), Index(t, N(1)), Index(t, N(10)), Index(t, N(11)), Index(t, N(13))>>)>>,
  <<Loc("t", TableE(Items(10))), Return(<<Un("#", t), Index(t, N(10))>>)>>,
  <<Local(<<"a", "b", "c", "d">>, <<"", "", "", "">>, <<f(<<>>)>>),
    Loc("t", TableE(<< <<a>>, <<b>>, <<f(<<>>)>> >>)), Return(<<Index(t, N(1)), Index(t, N(2)), Index(t, N(4))>>)>>,
  <<Loc("t", N(1)), Set1(t, TableE(<< <<t>>, <<TableE(<< <<t>> >>)>> >>)), Return(<<Index(t, N(1)), Un("#", Index(t, N(2)))>>)>> >>

-----------------------------------------------------------------------------
(* Closures and what they share.                                           *)

Getter(x) == Fn(<<>>, <<Inc(x), Return(<<Name(x)>>)>>)
Keep2 == Set1(Index(Name("T"), Add(Un("#", Name("T")), N(1))), Getter("a"))
CallT(i) == CallE(Index(Name("T"), N(i)), <<>>)
More(x) == f(<<x>>)
\* T is a global table.
Body == <<Loc("a", N(10)), Keep2>>
After == <<Return(<<CallT(1), CallT(1), CallT(2)>>)>>
AfterOne == <<Return(<<CallT(1), CallT(1)>>)>>

Closures == <<
  <<Do(Body), Do(<<Loc("z", N(5)), Loc("a", Name("z")), Keep2>>)>> \o After,
  <<ForNum("i", <<N(1), N(2)>>, <<Loc("a", Name("i")), Keep2>>)>> \o After,
  <<ForNum("i", <<N(3), N(1), N(-2)>>, <<Loc("a", Name("i")), Keep2, Then(Eq(a, N(1)), <<Break>>)>>)>> \o After,
  <<ForNum("i", <<N(1), N(2)>>, <<Loc("a", Name("i")), Keep2, Then(f(<<>>), <<GotoS("next")>>), Loc("b", N(0)), CallS(g(<<b>>)), LabelS("next")>>)>> \o After,
  <<ForIn(<<"a">>, <<Name("f")>>, <<Loc("b", a), Set1(Index(Name("T"), N(1)), Fn(<<>>, <<Return(<<a, b>>)>>))>>)>> \o <<Return(<<CallT(1)>>)>>,
  <<While(f(<<>>), Body)>> \o After,
  <<While(True, Body \o <<Then(f(<<>>), <<Break>>)>>)>> \o After,
  <<Repeat(Body \o <<Loc("c", f(<<>>))>>, c)>> \o After,
  <<Repeat(Body \o <<Then(f(<<>>), <<Break>>)>>, a)>> \o AfterOne,
  <<Repeat(Body, True)>> \o AfterOne,
  <<Repeat(Body \o <<Then(f(<<>>), <<Break>>)>>, False)>> \o After,
  <<LabelS("again"), Loc("a", N(3)), Keep2, Then(f(<<>>), <<GotoS("again")>>)>> \o After,
  <<Do(<<Loc("a", N(3)), Keep2, Then(f(<<>>), <<GotoS("out")>>), Loc("b", N(1)), Show1(b)>>), LabelS("out"), Loc("z", N(7))>> \o AfterOne,
  <<Do(<<Loc("z", N(9)), Loc("a", N(3)), Keep2, Then(f(<<>>), <<GotoS("out")>>), Inc("a")>>), LabelS("out"), Loc("z", N(7))>> \o AfterOne,
  <<Loc("a", N(1)), Loc("h", Getter("a")), CallS(CallE(Name("h"), <<>>)), Inc("a"), Return(<<a, CallE(Name("h"), <<>>)>>)>>,
  <<Loc("a", N(1)), Loc("h", Fn(<<>>, <<Return(<<Getter("a"), Getter("a")>>)>>)), Loc2("b", "c", <<CallE(Name("h"), <<>>)>>),
    Return(<<CallE(b, <<>>), CallE(c, <<>>), a>>)>>,
  <<LocalFunction("h", Fn(<<"n">>, <<Then(Lt(Name("n"), N(1)), <<Return(<<N(0)>>)>>),
      Return(<<Add(Name("n"), CallE(Name("h"), <<Sub(Name("n"), N(1))>>))>>)>>)), Return(<<CallE(Name("h"), <<N(3)>>)>>)>>,
  <<LocalFunction("h", Fn(<<"a">>, <<Keep2, Then(f(<<>>), <<Return(<<N(0)>>)>>)>>)), CallS(CallE(Name("h"), <<N(4)>>)), CallS(CallE(Name("h"), <<N(6)>>))>> \o After,
  <<Loc("a", N(1)), Loc("h", Fn(<<>>, <<Loc("b", N(5)), Return(<<Fn(<<>>, <<Inc("a"), Inc("b"), Return(<<a, b>>)>>)>>)>>)),
    Loc("c", CallE(Name("h"), <<>>)), CallS(CallE(c, <<>>)), Return(<<a, CallE(c, <<>>)>>)>>,
  \* A variable of its own for every pass, when a loop is left by a jump from an inner one.
  <<ForNum("i", <<N(1), N(2)>>, <<Loc("a", Name("i")), Keep2, While(True, <<Loc("b", N(1)), Then(f(<<>>), <<GotoS("next")>>), Break>>), Show1(a), LabelS("next")>>)>> \o After
  >>

-----------------------------------------------------------------------------
(* Variables to be closed.                                                 *)

o2 == Name("o2")
Closing == <<
  <<Close("x", o), Show1(N(1)), Do(<<Close("y", o2), Show1(N(2))>>), Return(<<f(<<>>)>>)>>,
  <<While(True, <<Close("x", o), Loc("a", f(<<>>)), Then(a, <<Break>>), Show1(a)>>), Show1(N(3))>>,
  <<ForNum("i", <<N(1), N(2)>>, <<Close("x", o), Then(f(<<>>), <<GotoS("next")>>), Show1(Name("i")), LabelS("next")>>), Show1(N(3))>>,
  <<ForNum("i", <<N(1), N(2)>>, <<Do(<<Close("x", o), Close("y", o2), Then(f(<<>>), <<GotoS("out")>>)>>), Show1(Name("i"))>>), LabelS("out"), Show1(N(3))>>,
  <<Repeat(<<Close("x", o), Loc("a", f(<<>>))>>, a), Show1(N(3))>>,
  <<LabelS("top"), Do(<<Close("x", o), Then(f(<<>>), <<GotoS("top")>>), Show1(N(1))>>)>>,
  <<LocalFunction("h", Fn(<<>>, <<Close("x", o), Return(<<f(<<N(1)>>)>>)>>)), Return(<<CallE(Name("h"), <<>>), N(2)>>)>>,
  <<LocalFunction("h", Fn(<<>>, <<Do(<<Close("x", o)>>), Return(<<g(<<N(1)>>)>>)>>)), Return(<<CallE(Name("h"), <<>>)>>)>>,
  <<Local(<<"x", "y">>, <<"close", "">>, <<f(<<>>)>>), Show1(Name("y"))>>,
  <<Close("x", NilE), Close("y", False), Close("z", o), Show1(N(1))>>,
  <<Close("x", N(3)), Show1(N(1))>>,
  <<ForIn(<<"k", "v">>, <<Name("f"), N(1), NilE, o>>, <<Show1(Name("v")), Then(Eq(Name("k"), N(5)), <<Break>>)>>), Show1(N(9))>>,
  <<ForIn(<<"k">>, <<Name("f"), N(1), NilE, o>>, <<Close("x", o2), Return(<<g(<<Name("k")>>)>>)>>)>>,
  <<ForIn(<<"k">>, <<Name("f"), N(1), N(2), N(3)>>, <<Show1(Name("k"))>>)>>,
  <<ForIn(<<"k">>, <<Name("f"), N(1), N(2), o, f(<<>>)>>, <<Then(Name("k"), <<GotoS("out")>>)>>), LabelS("out"), Show1(N(1))>>
  >>

-----------------------------------------------------------------------------
(* Calls: lists of any length, tail calls, iterators.                      *)

H(as) == CallE(Name("h"), as)
Calls == <<
  <<LocalFunction("h", Va(<<"a">>, <<Loc2("b", "c", <<Vararg>>), Return(<<a, b, Vararg>>)>>)), CallS(g(<<H(<<N(1), f(<<>>)>>)>>)), Return(<<H(<<>>)>>)>>,
  <<LocalFunction("h", Va(<<>>, <<Loc("t", TableE(<< <<N(0)>>, <<Vararg>> >>)), Return(<<Un("#", t), Index(t, N(2)), Paren(Vararg)>>)>>)), Return(<<H(<<f(<<>>)>>)>>)>>,
  <<LocalFunction("h", Va(<<>>, <<Then(f(<<Vararg>>), <<Return(<<Vararg>>)>>), Return(<<H(<<N(8), Vararg>>)>>)>>)), Return(<<H(<<>>)>>)>>,
  <<LocalFunction("h", Va(<<"a">>, <<Return(<<g(<<Vararg>>)>>)>>)), Return(<<H(<<N(1), N(2), N(3)>>)>>)>>,
  <<LocalFunction("h", Fn(<<"a", "b">>, <<Loc("c", N(5)), Loc("d", N(6)), Return(<<f(<<a, b, c, Name("d")>>)>>)>>)),
    LocalFunction("k", Fn(<<"a">>, <<Return(<<H(<<a>>)>>)>>)), Return(<<CallE(Name("k"), <<N(1), N(2)>>)>>)>>,
  <<LocalFunction("h", Fn(<<"a">>, <<Return(<<>>)>>)),
    LocalFunction("k", Fn(<<"a", "b", "c", "d">>, <<Return(<<H(<<a>>)>>)>>)), Return(<<CallE(Name("k"), <<N(1)>>), N(2)>>)>>,
  <<LocalFunction("loop", Fn(<<"n", "s">>, <<Then(Eq(Name("n"), N(0)), <<Return(<<Name("s")>>)>>),
      Return(<<CallE(Name("loop"), <<Sub(Name("n"), N(1)), Add(Name("s"), Name("n"))>>)>>)>>)), Return(<<CallE(Name("loop"), <<N(4), N(0)>>)>>)>>,
  <<LocalFunction("h", Fn(<<"a">>, <<Loc("x", Fn(<<>>, <<Return(<<a>>)>>)), Return(<<CallE(Name("x"), <<>>)>>)>>)), Return(<<H(<<f(<<>>)>>)>>)>>,
  <<LocalFunction("h", Fn(<<"a">>, <<Set1(Field(Name("T"), "x"), Getter("a")), Return(<<g(<<a>>)>>)>>)), CallS(H(<<N(1)>>)), Return(<<Method(Name("T"), "x", <<>>)>>)>>,
  <<LocalFunction("h", Fn(<<"a", "b">>, <<Return(<<b, a>>)>>)), Return(<<N(0), H(<<f(<<>>)>>)>>)>>,
  <<LocalFunction("h", Fn(<<"a", "b">>, <<Return(<<b, a>>)>>)), Loc2("a", "b", <<H(<<H(<<N(1), N(2)>>)>>)>>), Return(<<Cat(a, b)>>)>>,
  <<LocalFunction("it", Fn(<<"s", "c">>, <<Then(Lt(c, Name("s")), <<Return(<<Add(c, N(1)), Name("s")>>)>>)>>)),
    ForIn(<<"k", "v", "w">>, <<Name("it"), N(2), N(0)>>, <<CallS(g(<<Name("k"), Name("v"), Name("w")>>))>>)>>,
  <<LocalFunction("it", Va(<<>>, <<Return(<<f(<<Vararg>>)>>)>>)), ForIn(<<"k", "v">>, <<Name("it"), N(2)>>, <<Show1(Name("v"))>>)>>,
  <<ForIn(<<"k">>, <<f(<<>>)>>, <<Show1(Name("k"))>>)>>,
  <<ForIn(<<"k", "v">>, <<CallE(Paren(Fn(<<>>, <<Return(<<Name("f"), N(4)>>)>>)), <<>>)>>, <<Loc("a", N(1)), Show1(Name("v"))>>)>>,
  <<ForNum("i", <<f(<<>>), f(<<>>), N(2)>>, <<Show1(Name("i"))>>)>>,
  <<ForNum("i", <<N(1), N(2), N(0)>>, <<Show1(Name("i"))>>)>>,
  <<ForNum("i", <<N(1), N(0)>>, <<Show1(Name("i"))>>), ForNum("i", <<N(1), N(3)>>, <<Loc("i", Add(Name("i"), N(1))), Show1(Name("i"))>>)>>,
  <<CallS(CallE(N(1), <<f(<<>>)>>))>>, <<Return(<<CallE(Name("unset"), <<f(<<>>)>>)>>)>>,
  <<Loc("h", Fn(<<>>, <<>>)), Return(<<H(<<>>), Paren(H(<<>>)), H(<<>>)>>)>>,
  <<If(<< <<False, <<Show1(N(1))>> >>, <<f(<<>>), <<Show1(N(2))>> >>, <<f(<<>>), <<Return(<<N(3)>>)>> >> >>, << <<Show1(N(4))>> >>), Show1(N(5))>>,
  <<If(<< <<True, <<Show1(N(1))>> >>, <<f(<<>>), <<Show1(N(2))>> >> >>, <<>>), Show1(N(5))>>,
  <<LocalFunction("h", Fn(<<"a">>, <<ThenElse(a, <<Return(<<N(1)>>)>>, <<Return(<<N(2)>>)>>)>>)), Return(<<H(<<f(<<>>)>>)>>)>>,
  <<LocalFunction("h", Fn(<<"a">>, <<Then(a, <<Return(<<f(<<a>>)>>)>>)>>)), Return(<<H(<<f(<<>>)>>), N(1)>>)>>
  >>

-----------------------------------------------------------------------------
(* Programs the compiler must reject, and their legal neighbours.          *)

Rules == <<
  <<Break>>, <<While(True, <<Break>>)>>, <<While(f(<<>>), <<LocalFunction("h", Fn(<<>>, <<Break>>))>>)>>,
  <<GotoS("l")>>, <<GotoS("l"), LabelS("l")>>, <<GotoS("l"), Loc("a", N(1)), LabelS("l"), Show1(a)>>,
  <<GotoS("l"), Loc("a", N(1)), LabelS("l")>>, <<GotoS("l"), Loc("a", N(1)), LabelS("l"), LabelS("m")>>,
  <<Do(<<GotoS("l")>>), Loc("a", N(1)), LabelS("l"), Show1(a)>>, <<Do(<<LabelS("l")>>), Show1(N(1)), Then(f(<<>>), <<GotoS("l")>>)>>,
  <<Do(<<LabelS("l")>>), LabelS("l")>>, <<LabelS("l"), Do(<<LabelS("l")>>)>>, <<LabelS("l"), LabelS("l")>>,
  <<LabelS("l"), LocalFunction("h", Fn(<<>>, <<GotoS("l")>>))>>, <<LabelS("l"), LocalFunction("h", Fn(<<>>, <<LabelS("l")>>))>>,
  <<Repeat(<<Then(f(<<>>), <<GotoS("l")>>), Loc("a", N(1)), LabelS("l")>>, True)>>,
  <<Repeat(<<Then(f(<<>>), <<GotoS("l")>>), Show1(N(1)), LabelS("l")>>, True)>>,
  <<ForNum("i", <<N(1), N(2)>>, <<Then(f(<<>>), <<GotoS("l")>>), Loc("a", N(1)), LabelS("l")>>)>>,
  <<ForNum("i", <<N(1), N(2)>>, <<Set1(Name("i"), N(3))>>)>>, <<ForIn(<<"k", "v">>, <<Name("f")>>, <<Set1(Name("v"), N(3)), Break>>)>>,
  <<ForIn(<<"k", "v">>, <<Name("f")>>, <<Set1(Name("k"), N(3))>>)>>,
  <<ConstL("a", N(1)), Set1(a, N(2))>>, <<ConstL("a", f(<<>>)), Set1(a, N(2))>>, <<Close("a", NilE), Assign(<<a, b>>, <<N(1), N(2)>>)>>,
  <<ConstL("a", f(<<>>)), LocalFunction("h", Fn(<<>>, <<Inc("a")>>))>>, <<ConstL("a", N(1)), LocalFunction("h", Fn(<<>>, <<Inc("a")>>))>>,
  <<ConstL("a", f(<<>>)), Do(<<Loc("a", N(1)), Inc("a"), Show1(a)>>)>>, <<ConstL("a", N(1)), LocalFunction("h", Fn(<<"a">>, <<Inc("a"), Return(<<a>>)>>)), Return(<<H(<<N(2)>>)>>)>>,
  <<Function(Name("a"), Fn(<<>>, <<>>)), ConstL("a", N(1)), Function(Name("a"), Fn(<<>>, <<>>))>>,
  <<LocalFunction("h", Fn(<<>>, <<Return(<<Vararg>>)>>))>>, <<LocalFunction("h", Va(<<>>, <<Return(<<Fn(<<>>, <<Show1(Vararg)>>)>>)>>))>>,
  <<Do(<<GotoS("l")>>), LabelS("l"), Do(<<Loc("a", N(1)), Then(f(<<a>>), <<GotoS("l")>>)>>), Show1(N(2))>>
  >>

-----------------------------------------------------------------------------
AllPrograms ==
  LET expressions == FlattenSeq([i \in DOMAIN Exprs |-> ExprPrograms(Exprs[i])])
  IN  expressions \o Assignments \o Constructors \o Closures \o Closing \o Calls \o Rules

HostTables ==
  << [k \in {Str("f"), Str("g"), Str("o"), Str("o2"), Str("T")} |->
     CASE k = Str("f") -> <<"host", "f">> [] k = Str("g") -> <<"host", "g">>
       [] k = Str("o") -> <<"obj", "o">> [] k = Str("o2") -> <<"obj", "o2">> [] k = Str("T") -> <<"table", 2>>],
     <<>> >>

HostAnswers == {<<>>, <<Num(1)>>, <<Num(5), Num(2)>>}
=============================================================================
