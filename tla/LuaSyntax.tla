----------------------------- MODULE LuaSyntax -----------------------------
(* Lua programs as data: the nodes of ast/expr.go and ast/stmt.go that the *)
(* compiler distinguishes, and the values of a running program.            *)
(*                                                                         *)
(* A value is a tuple whose first component is its type, so that two       *)
(* values can always be compared; a string is a sequence of atoms; a       *)
(* table, a function and a closable object are names.                      *)
EXTENDS Integers, Sequences, SequencesExt, FiniteSetsExt

Nil     == <<"nil">>
Bool(b) == <<"bool", b>>
Num(n)  == <<"num", n>>
Str(s)  == <<"str", <<s>>>>
Truthy(v) == v # Nil /\ v # Bool(FALSE)

-----------------------------------------------------------------------------
(* Expressions.                                                            *)

Const(v)      == [is |-> "const", v |-> v]
Name(x)       == [is |-> "name", x |-> x]
Vararg        == [is |-> "vararg"]
Paren(e)      == [is |-> "paren", e |-> e]
Un(op, e)     == [is |-> "un", op |-> op, e |-> e]
Bin(op, l, r) == [is |-> "bin", op |-> op, l |-> l, r |-> r]
And(l, r)     == [is |-> "and", l |-> l, r |-> r]
Or(l, r)      == [is |-> "or", l |-> l, r |-> r]
Index(t, k)   == [is |-> "index", t |-> t, k |-> k]
Field(t, s)   == [is |-> "field", t |-> t, s |-> s]
CallE(f, as)  == [is |-> "call", f |-> f, as |-> as]
Method(o, s, as) == [is |-> "method", o |-> o, s |-> s, as |-> as]
\* { e1, [k] = e2, ... }: a sequence of <<e>> and <<k, e>>.
TableE(items) == [is |-> "table", items |-> items]
FuncE(ps, va, body) == [is |-> "func", ps |-> ps, va |-> va, body |-> body]

N(n) == Const(Num(n))
S(s) == Const(Str(s))
False == Const(Bool(FALSE))
True  == Const(Bool(TRUE))
NilE  == Const(Nil)

-----------------------------------------------------------------------------
(* Statements.                                                             *)

Local(xs, as, es)  == [is |-> "local", xs |-> xs, as |-> as, es |-> es]
Assign(ts, es)     == [is |-> "assign", ts |-> ts, es |-> es]
CallS(e)           == [is |-> "call", e |-> e]
Do(b)              == [is |-> "do", b |-> b]
While(c, b)        == [is |-> "while", c |-> c, b |-> b]
Repeat(b, c)       == [is |-> "repeat", b |-> b, c |-> c]
If(arms, els)      == [is |-> "if", arms |-> arms, els |-> els]
ForNum(x, es, b)   == [is |-> "fornum", x |-> x, es |-> es, b |-> b]
ForIn(xs, es, b)   == [is |-> "forin", xs |-> xs, es |-> es, b |-> b]
Break              == [is |-> "break"]
GotoS(l)           == [is |-> "goto", l |-> l]
LabelS(l)          == [is |-> "label", l |-> l]
Return(es)         == [is |-> "return", es |-> es]
LocalFunction(x, f) == [is |-> "localfunc", x |-> x, f |-> f]
\* function t.a.b () ... end, function x () ... end
Function(t, f)     == [is |-> "funcstat", t |-> t, f |-> f]

-----------------------------------------------------------------------------
(* What an operator makes of its operands: <<result>>, or <<>> when they do *)
(* not fit it.                                                             *)

IsNum(v) == v[1] = "num"

\* foldIntOp: division rounds down.
foldIntOp(op, a, b) ==
  CASE op = "+" -> <<a + b>>
    [] op = "-" -> <<a - b>>
    [] op = "*" -> <<a * b>>
    [] op = "//" /\ b # 0 -> <<IF b > 0 THEN a \div b ELSE (-a) \div (-b)>>
    [] OTHER -> <<>>

Arithmetic(op, x, y) ==
  IF ~IsNum(x) \/ ~IsNum(y) THEN <<>>
  ELSE LET r == foldIntOp(op, x[2], y[2]) IN IF r = <<>> THEN <<>> ELSE <<Num(r[1])>>

LessThan(x, y, orEqual) ==
  IF ~IsNum(x) \/ ~IsNum(y) THEN <<>> ELSE <<x[2] < y[2] \/ (orEqual /\ x[2] = y[2])>>

Atoms(v) == IF IsNum(v) THEN <<ToString(v[2])>> ELSE v[2]
Concat(vs) == IF \E i \in DOMAIN vs : vs[i][1] \notin {"num", "str"} THEN <<>>
              ELSE << <<"str", FlattenSeq([i \in DOMAIN vs |-> Atoms(vs[i])])>> >>

\* A table is a function from its keys to their values.
SetKey(tab, k, v) == IF v = Nil THEN [x \in DOMAIN tab \ {k} |-> tab[x]]
                     ELSE [x \in DOMAIN tab \cup {k} |-> IF x = k THEN v ELSE tab[x]]
GetKey(tab, k) == IF k \in DOMAIN tab THEN tab[k] ELSE Nil
Border(tab) == Cardinality({n \in 1 .. Cardinality(DOMAIN tab) : \A m \in 1 .. n : Num(m) \in DOMAIN tab})

\* Only false, nil and an object with a __close metamethod may be closed.
IsClosable(v) == ~Truthy(v) \/ v[1] = "obj"

Pad(vs, n) == [i \in 1 .. n |-> IF i <= Len(vs) THEN vs[i] ELSE Nil]

\* What the outside sees of a value.
Show(v) == IF v[1] \in {"table", "fn"} THEN <<v[1]>> ELSE v
ShowAll(vs) == [i \in DOMAIN vs |-> Show(vs[i])]

-----------------------------------------------------------------------------

\* isMultiRet: calls and "..." may have any number of results.
IsMultiRet(e) == e.is \in {"call", "method", "vararg"}

RECURSIVE Unparen(_)
Unparen(e) == IF e.is = "paren" THEN Unparen(e.e) ELSE e
=============================================================================
