----------------------------- MODULE LuaPrinter -----------------------------
(* The text of a program, as tokens: what a programmer writes for a tree,  *)
(* with parentheses where the precedences of the manual ask for them.      *)
EXTENDS LuaSyntax

K(s) == << <<"sym", s>> >>
X(x) == << <<"name", x>> >>
Separated(parts) == FlattenSeq([i \in DOMAIN parts |-> IF i = 1 THEN parts[i] ELSE K(",") \o parts[i]])
Names(xs) == Separated([i \in DOMAIN xs |-> X(xs[i])])
IsStringConst(e) == e.is = "const" /\ e.v[1] = "str"

-----------------------------------------------------------------------------
(* The manual's table, from the weakest to the strongest; ".." and "^" are  *)
(* right associative.                                                      *)

Manual == << {"or"}, {"and"}, {"<", ">", "<=", ">=", "~=", "=="}, {"|"}, {"~"}, {"&"}, {"<<", ">>"}, {".."},
             {"+", "-"}, {"*", "/", "//", "%"}, {"unary"}, {"^"} >>
Strength(op) == CHOOSE i \in DOMAIN Manual : op \in Manual[i]
OpOfTree(e) ==
  CASE e.is = "bin" -> e.op
    [] e.is \in {"and", "or"} -> e.is
    [] e.is = "un" -> "unary"
    [] e.is = "const" -> IF IsNum(e.v) /\ e.v[2] < 0 THEN "unary" ELSE ""
    [] OTHER -> ""

\* A prefix operator to the right of another operator can only take what follows.
Fits(child, op, isRight) ==
  LET c == OpOfTree(child)
      rightAssoc == op \in {"..", "^"}
  IN  \/ c = "" \/ (isRight /\ c = "unary")
      \/ Strength(c) > Strength(op)
      \/ Strength(c) = Strength(op) /\ c # "unary" /\ (isRight <=> rightAssoc)

-----------------------------------------------------------------------------
(* Expressions and statements; parentheses where the manual asks for them. *)

RECURSIVE PrintExpr(_), PrintBlock(_)

PrintList(es) == Separated([i \in DOMAIN es |-> PrintExpr(es[i])])
PrintItem(it) ==
  CASE Len(it) = 1 -> PrintExpr(it[1])
    [] Len(it) = 2 /\ IsStringConst(it[1]) -> X(it[1].v[2][1]) \o K("=") \o PrintExpr(it[2])
    [] OTHER -> K("[") \o PrintExpr(it[1]) \o K("]") \o K("=") \o PrintExpr(it[2])
PrintParams(ps, va) == Separated([i \in DOMAIN ps |-> X(ps[i])] \o (IF va THEN <<K("...")>> ELSE <<>>))
PrintBody(f) == K("(") \o PrintParams(f.ps, f.va) \o K(")") \o PrintBlock(f.body) \o K("end")

Parenthesized(e, needed) == IF needed THEN K("(") \o PrintExpr(e) \o K(")") ELSE PrintExpr(e)
Operand(e, op, isRight) == Parenthesized(e, ~Fits(e, op, isRight))
\* What a call, an index or a field is taken of.
Prefix(e) == Parenthesized(e, e.is \notin {"name", "paren", "index", "field", "call", "method"})
Arguments(as) == IF Len(as) = 1 /\ (IsStringConst(as[1]) \/ as[1].is = "table") THEN PrintExpr(as[1])
                 ELSE K("(") \o PrintList(as) \o K(")")

PrintConst(v) ==
  CASE v = Nil -> K("nil")
    [] v[1] = "bool" -> K(IF v[2] THEN "true" ELSE "false")
    [] v[1] = "num" -> IF v[2] < 0 THEN K("-") \o << <<"const", Num(-v[2])>> >> ELSE << <<"const", v>> >>
    [] OTHER -> << <<"const", v>> >>

PrintExpr(e) ==
  CASE e.is = "const" -> PrintConst(e.v)
    [] e.is = "name" -> X(e.x)
    [] e.is = "vararg" -> K("...")
    [] e.is = "paren" -> K("(") \o PrintExpr(e.e) \o K(")")
    [] e.is = "un" -> K(e.op) \o Operand(e.e, "unary", TRUE)
    [] e.is \in {"bin", "and", "or"} -> Operand(e.l, OpOfTree(e), FALSE) \o K(OpOfTree(e)) \o Operand(e.r, OpOfTree(e), TRUE)
    [] e.is = "index" -> Prefix(e.t) \o K("[") \o PrintExpr(e.k) \o K("]")
    [] e.is = "field" -> Prefix(e.t) \o K(".") \o X(e.s)
    [] e.is = "call" -> Prefix(e.f) \o Arguments(e.as)
    [] e.is = "method" -> Prefix(e.o) \o K(":") \o X(e.s) \o Arguments(e.as)
    [] e.is = "table" -> K("{") \o Separated([i \in DOMAIN e.items |-> PrintItem(e.items[i])]) \o K("}")
    [] e.is = "func" -> K("function") \o PrintBody(e)

Attribute(a) == IF a = "" THEN <<>> ELSE K("<") \o X(a) \o K(">")

\* The attribute all of several variables have.
Default(st) == IF Len(st.xs) > 1 /\ Range(st.as) = {"const"} THEN "const" ELSE ""

PrintStatement(st) ==
  CASE st.is = "local" -> K("local") \o (IF Default(st) = "" THEN Separated([i \in DOMAIN st.xs |-> X(st.xs[i]) \o Attribute(st.as[i])])
                                         ELSE Attribute(Default(st)) \o Names(st.xs))
                          \o (IF st.es = <<>> THEN <<>> ELSE K("=") \o PrintList(st.es))
    [] st.is = "localfunc" -> K("local") \o K("function") \o X(st.x) \o PrintBody(st.f)
    [] st.is = "funcstat" ->
         IF st.f.ps # <<>> /\ st.f.ps[1] = "self" /\ st.t.is = "field"
         THEN K("function") \o PrintExpr(st.t.t) \o K(":") \o X(st.t.s) \o PrintBody([st.f EXCEPT !.ps = Tail(@)])
         ELSE K("function") \o PrintExpr(st.t) \o PrintBody(st.f)
    [] st.is = "assign" -> PrintList(st.ts) \o K("=") \o PrintList(st.es)
    [] st.is = "call" -> PrintExpr(st.e)
    [] st.is = "do" -> K("do") \o PrintBlock(st.b) \o K("end")
    [] st.is = "while" -> K("while") \o PrintExpr(st.c) \o K("do") \o PrintBlock(st.b) \o K("end")
    [] st.is = "repeat" -> K("repeat") \o PrintBlock(st.b) \o K("until") \o PrintExpr(st.c)
    [] st.is = "if" -> FlattenSeq([i \in DOMAIN st.arms |-> K(IF i = 1 THEN "if" ELSE "elseif") \o PrintExpr(st.arms[i][1])
                                                          \o K("then") \o PrintBlock(st.arms[i][2])])
                       \o (IF st.els = <<>> THEN <<>> ELSE K("else") \o PrintBlock(st.els[1])) \o K("end")
    [] st.is = "fornum" -> K("for") \o X(st.x) \o K("=") \o PrintList(st.es) \o K("do") \o PrintBlock(st.b) \o K("end")
    [] st.is = "forin" -> K("for") \o Names(st.xs) \o K("in") \o PrintList(st.es) \o K("do") \o PrintBlock(st.b) \o K("end")
    [] st.is = "break" -> K("break")
    [] st.is = "goto" -> K("goto") \o X(st.l)
    [] st.is = "label" -> K("::") \o X(st.l) \o K("::")
    [] st.is = "return" -> K("return") \o PrintList(st.es)

\* A statement that starts with a parenthesis needs a ";" in front of it.
PrintBlock(b) ==
  FlattenSeq([i \in DOMAIN b |->
    LET st == PrintStatement(b[i])
    IN  IF i > 1 /\ Head(st) = Head(K("(")) THEN K(";") \o st ELSE st])
=============================================================================
