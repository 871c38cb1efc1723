------------------------------- MODULE Parser -------------------------------
(* The parser (parser/parser.go, parser/parse_expr.go): recursive descent, *)
(* with precedence climbing for the operators.                             *)
(*                                                                         *)
(* The input is a sequence of tokens; every operator takes the position it *)
(* starts at and returns <<tree, position after it>>.  Position 0 is what  *)
(* p.err is in the code: nothing is there, so everything that follows fails *)
(* too.  Left out: positions in the source, the limits on nesting and on   *)
(* local variables, "global" declarations and named varargs.               *)
EXTENDS LuaSyntax

Sym(s)    == <<"sym", s>>
NameT(x)  == <<"name", x>>
ConstT(v) == <<"const", v>>
EOS       == <<"eos">>

Tok(ts, p) == IF p \in DOMAIN ts THEN ts[p] ELSE EOS
check(ts, p, s) == Tok(ts, p) = Sym(s)
IsNameT(ts, p) == Tok(ts, p)[1] = "name"
expect(ts, p, s) == IF check(ts, p, s) THEN p + 1 ELSE 0
Failed == <<NilE, 0>>
parseName(ts, p) == IF IsNameT(ts, p) THEN <<Tok(ts, p)[2], p + 1>> ELSE <<"", 0>>
\* r with its tree replaced.
As(r, tree) == <<tree, r[2]>>

-----------------------------------------------------------------------------
(* Binding powers: an operator goes on with what stands to its left when    *)
(* its left power exceeds the limit; its right operand is parsed with its   *)
(* right power as the limit.                                               *)

precedenceUnary == 12
priorities ==
  LET level == << {"or"}, {"and"}, {"<", ">", "<=", ">=", "~=", "=="}, {"|"}, {"~"}, {"&"}, {"<<", ">>"},
                  {}, {".."}, {"+", "-"}, {"*", "/", "//", "%"}, {}, {}, {"^"} >>
      ops == UNION Range(level)
      power(op) == CHOOSE i \in DOMAIN level : op \in level[i]
  IN  [op \in ops |-> [left |-> power(op), right |-> IF op \in {"..", "^"} THEN power(op) - 1 ELSE power(op)]]

IsBinop(ts, p) == Tok(ts, p)[1] = "sym" /\ Tok(ts, p)[2] \in DOMAIN priorities
IsUnop(ts, p) == Tok(ts, p)[1] = "sym" /\ Tok(ts, p)[2] \in {"not", "-", "~", "#"}
NewBinop(op, l, r) == IF op = "and" THEN And(l, r) ELSE IF op = "or" THEN Or(l, r) ELSE Bin(op, l, r)

RECURSIVE parseSubExpr(_, _, _), continueBinExpr(_, _, _), continueSuffixedExpr(_, _), parseSimpleExpr(_, _),
          parseFields(_, _, _), parseExprList(_, _), parseParams(_, _, _), parseBlock(_, _, _)

parseExpr(ts, p) == parseSubExpr(ts, p, 0)

\* (simpleexp | unop subexpr) { binop subexpr }
parseSubExpr(ts, p, limit) ==
  LET operand == parseSubExpr(ts, p + 1, precedenceUnary)
  IN  continueBinExpr(ts, IF IsUnop(ts, p) THEN As(operand, Un(Tok(ts, p)[2], operand[1])) ELSE parseSimpleExpr(ts, p), limit)

\* Fault: an operator as strong as the one before it takes its operand away.
BugContinueBinExpr(ts, r, limit) ==
  LET op == Tok(ts, r[2])[2]
      right == parseSubExpr(ts, r[2] + 1, priorities[op].right - 1)
  IN  IF IsBinop(ts, r[2]) /\ priorities[op].left > limit
      THEN continueBinExpr(ts, As(right, NewBinop(op, r[1], right[1])), limit)
      ELSE r
continueBinExpr(ts, r, limit) ==
  LET op == Tok(ts, r[2])[2]
      right == parseSubExpr(ts, r[2] + 1, priorities[op].right)
  IN  IF IsBinop(ts, r[2]) /\ priorities[op].left > limit
      THEN continueBinExpr(ts, As(right, NewBinop(op, r[1], right[1])), limit)
      ELSE r

-----------------------------------------------------------------------------
(* Lists: <<sequence, position>>.                                          *)

parseExprList(ts, p) ==
  LET first == parseExpr(ts, p)
      rest == parseExprList(ts, first[2] + 1)
  IN  IF check(ts, first[2], ",") THEN As(rest, <<first[1]>> \o rest[1]) ELSE As(first, <<first[1]>>)

RECURSIVE parseNameList(_, _)
parseNameList(ts, p) ==
  LET first == parseName(ts, p)
      rest == parseNameList(ts, first[2] + 1)
  IN  IF check(ts, first[2], ",") THEN As(rest, <<first[1]>> \o rest[1]) ELSE As(first, <<first[1]>>)

\* (...), {...} or a string.
parseFuncArgs(ts, p) ==
  LET list == parseExprList(ts, p + 1)
      one == parseSimpleExpr(ts, p)
  IN  IF check(ts, p, "(") THEN IF check(ts, p + 1, ")") THEN << <<>>, p + 2>> ELSE <<list[1], expect(ts, list[2], ")")>>
      ELSE IF check(ts, p, "{") \/ (Tok(ts, p)[1] = "const" /\ ~IsNum(Tok(ts, p)[2])) THEN As(one, <<one[1]>>)
      ELSE << <<>>, 0>>

-----------------------------------------------------------------------------
(* Expressions without operators.                                          *)

\* Parameters from p on; the position is that of the closing parenthesis.
parseParams(ts, p, ps) ==
  LET x == parseName(ts, p)
  IN  CASE check(ts, p, "...") -> <<ps, TRUE, p + 1>>
        [] ~check(ts, p, "...") /\ check(ts, x[2], ",") -> parseParams(ts, x[2] + 1, Append(ps, x[1]))
        [] OTHER -> <<Append(ps, x[1]), FALSE, x[2]>>

parseFuncBody(ts, p, isMethod) ==
  LET self == IF isMethod THEN <<"self">> ELSE <<>>
      open == expect(ts, p, "(")
      ps == IF check(ts, open, ")") THEN <<self, FALSE, open>> ELSE parseParams(ts, open, self)
      body == parseBlock(ts, expect(ts, ps[3], ")"), <<>>)
  IN  <<FuncE(ps[1], ps[2], body[1]), expect(ts, body[2], "end")>>

\* '[' expr ']' '=' expr | NAME '=' expr | expr
parseField(ts, p) ==
  LET key == parseExpr(ts, p + 1)
      eq == expect(ts, expect(ts, key[2], "]"), "=")
      keyed == parseExpr(ts, eq)
      named == parseExpr(ts, p + 2)
      plain == parseExpr(ts, p)
  IN  IF check(ts, p, "[") THEN (IF eq = 0 THEN Failed ELSE As(keyed, <<key[1], keyed[1]>>))
      ELSE IF IsNameT(ts, p) /\ check(ts, p + 1, "=") THEN As(named, <<S(Tok(ts, p)[2]), named[1]>>)
      ELSE As(plain, <<plain[1]>>)

parseFields(ts, p, items) ==
  LET f == parseField(ts, p)
      more == Append(items, f[1])
  IN  IF p = 0 \/ check(ts, p, "}") THEN <<items, p>>
      ELSE IF check(ts, f[2], ",") \/ check(ts, f[2], ";") THEN parseFields(ts, f[2] + 1, more)
      ELSE As(f, more)

parsePrimaryExpr(ts, p) ==
  LET inner == parseExpr(ts, p + 1)
  IN  IF IsNameT(ts, p) THEN <<Name(Tok(ts, p)[2]), p + 1>>
      ELSE IF check(ts, p, "(") THEN <<Paren(inner[1]), expect(ts, inner[2], ")")>>
      ELSE Failed

continueSuffixedExpr(ts, r) ==
  LET p == r[2]
      x == parseName(ts, p + 1)
      key == parseExpr(ts, p + 1)
      args == parseFuncArgs(ts, p)
      margs == parseFuncArgs(ts, x[2])
  IN  CASE check(ts, p, ".") -> continueSuffixedExpr(ts, As(x, Field(r[1], x[1])))
        [] check(ts, p, "[") -> continueSuffixedExpr(ts, <<Index(r[1], key[1]), expect(ts, key[2], "]")>>)
        [] check(ts, p, ":") -> continueSuffixedExpr(ts, As(margs, Method(r[1], x[1], margs[1])))
        [] check(ts, p, "(") \/ check(ts, p, "{") \/ (Tok(ts, p)[1] = "const" /\ ~IsNum(Tok(ts, p)[2])) ->
             continueSuffixedExpr(ts, As(args, CallE(r[1], args[1])))
        [] OTHER -> r

parseSuffixedExpr(ts, p) == continueSuffixedExpr(ts, parsePrimaryExpr(ts, p))

parseSimpleExpr(ts, p) ==
  LET items == parseFields(ts, p + 1, <<>>)
      t == Tok(ts, p)
  IN  CASE t[1] = "const" -> <<Const(t[2]), p + 1>>
        [] t = Sym("nil") -> <<NilE, p + 1>>
        [] t = Sym("true") -> <<True, p + 1>>
        [] t = Sym("false") -> <<False, p + 1>>
        [] t = Sym("...") -> <<Vararg, p + 1>>
        [] t = Sym("{") -> <<TableE(items[1]), expect(ts, items[2], "}")>>
        [] t = Sym("function") -> parseFuncBody(ts, p + 1, FALSE)
        [] OTHER -> parseSuffixedExpr(ts, p)

-----------------------------------------------------------------------------
(* Statements.                                                             *)

blockFollow(ts, p) == Tok(ts, p) \in {Sym("else"), Sym("elseif"), Sym("end"), Sym("until"), EOS}

\* A condition, a keyword and a block.
parseArm(ts, p, keyword) ==
  LET cond == parseExpr(ts, p)
      body == parseBlock(ts, expect(ts, cond[2], keyword), <<>>)
  IN  << <<cond[1], body[1]>>, body[2]>>

RECURSIVE parseArms(_, _, _)
parseArms(ts, p, arms) ==
  LET arm == parseArm(ts, p + 1, "then")
      all == Append(arms, arm[1])
  IN  IF check(ts, arm[2], "elseif") THEN parseArms(ts, arm[2], all) ELSE As(arm, all)

parseIfStmt(ts, p) ==
  LET arms == parseArms(ts, p, <<>>)
      els == parseBlock(ts, arms[2] + 1, <<>>)
  IN  IF check(ts, arms[2], "else") THEN <<If(arms[1], <<els[1]>>), expect(ts, els[2], "end")>>
      ELSE <<If(arms[1], <<>>), expect(ts, arms[2], "end")>>

parseForStmt(ts, p) ==
  LET xs == parseNameList(ts, p + 1)
      range == parseExprList(ts, p + 3)
      count == parseBlock(ts, expect(ts, range[2], "do"), <<>>)
      es == parseExprList(ts, expect(ts, xs[2], "in"))
      body == parseBlock(ts, expect(ts, es[2], "do"), <<>>)
  IN  IF IsNameT(ts, p + 1) /\ check(ts, p + 2, "=")
      THEN IF Len(range[1]) \in {2, 3} THEN <<ForNum(Tok(ts, p + 1)[2], range[1], count[1]), expect(ts, count[2], "end")>>
           ELSE Failed
      ELSE <<ForIn(xs[1], es[1], body[1]), expect(ts, body[2], "end")>>

\* function a.b.c:m body: the target, and whether it is a method.
RECURSIVE parseFuncName(_, _)
parseFuncName(ts, r) ==
  LET x == parseName(ts, r[2] + 1)
  IN  IF check(ts, r[2], ".") THEN parseFuncName(ts, As(x, Field(r[1], x[1])))
      ELSE IF check(ts, r[2], ":") THEN <<Field(r[1], x[1]), x[2], TRUE>>
      ELSE <<r[1], r[2], FALSE>>

parseFuncStmt(ts, p) ==
  LET x == parseName(ts, p + 1)
      t == parseFuncName(ts, As(x, Name(x[1])))
      f == parseFuncBody(ts, t[2], t[3])
  IN  As(f, Function(t[1], f[1]))

\* <const>, <close> or nothing.
parseAttrib(ts, p, default) ==
  IF ~check(ts, p, "<") THEN <<default, p>>
  ELSE IF IsNameT(ts, p + 1) /\ Tok(ts, p + 1)[2] \in {"const", "close"} THEN <<Tok(ts, p + 1)[2], expect(ts, p + 2, ">")>>
  ELSE <<"", 0>>

RECURSIVE parseAttNames(_, _, _)
parseAttNames(ts, p, default) ==
  LET x == parseName(ts, p)
      at == parseAttrib(ts, x[2], default)
      rest == parseAttNames(ts, at[2] + 1, default)
  IN  IF check(ts, at[2], ",") THEN << <<x[1]>> \o rest[1], <<at[1]>> \o rest[2], rest[3]>>
      ELSE << <<x[1]>>, <<at[1]>>, at[2]>>

\* At most one variable of a statement is to be closed.
parseLocalStmt(ts, p) ==
  LET fx == parseName(ts, p + 2)
      f == parseFuncBody(ts, fx[2], FALSE)
      default == parseAttrib(ts, p + 1, "")
      names == parseAttNames(ts, default[2], default[1])
      vals == parseExprList(ts, names[3] + 1)
      several == Cardinality({i \in DOMAIN names[2] : names[2][i] = "close"}) > 1
  IN  IF check(ts, p + 1, "function") THEN As(f, LocalFunction(fx[1], f[1]))
      ELSE IF several THEN Failed
      ELSE IF check(ts, names[3], "=") THEN As(vals, Local(names[1], names[2], vals[1]))
      ELSE <<Local(names[1], names[2], <<>>), names[3]>>

parseReturnStmt(ts, p) ==
  LET none == blockFollow(ts, p + 1) \/ check(ts, p + 1, ";")
      vals == IF none THEN << <<>>, p + 1>> ELSE parseExprList(ts, p + 1)
  IN  <<Return(vals[1]), IF check(ts, vals[2], ";") THEN vals[2] + 1 ELSE vals[2]>>

RECURSIVE parseTargets(_, _)
parseTargets(ts, p) ==
  LET e == parseSuffixedExpr(ts, p)
      rest == parseTargets(ts, e[2] + 1)
  IN  IF check(ts, e[2], ",") THEN As(rest, <<e[1]>> \o rest[1]) ELSE As(e, <<e[1]>>)

isLvalue(e) == e.is \in {"name", "field", "index"}

\* An assignment or a call.
parseExprStat(ts, p) ==
  LET targets == parseTargets(ts, p)
      vals == parseExprList(ts, targets[2] + 1)
      e == targets[1][1]
  IN  IF check(ts, targets[2], "=")
      THEN IF \A i \in DOMAIN targets[1] : isLvalue(targets[1][i]) THEN As(vals, Assign(targets[1], vals[1])) ELSE Failed
      ELSE IF Len(targets[1]) = 1 /\ e.is \in {"call", "method"} THEN As(targets, CallS(e))
      ELSE Failed

parseStatement(ts, p) ==
  LET t == Tok(ts, p)
      while == parseArm(ts, p + 1, "do")
      do == parseBlock(ts, p + 1, <<>>)
      cond == parseExpr(ts, expect(ts, do[2], "until"))
      x == parseName(ts, p + 1)
  IN  CASE t = Sym("if") -> parseIfStmt(ts, p)
        [] t = Sym("while") -> <<While(while[1][1], while[1][2]), expect(ts, while[2], "end")>>
        [] t = Sym("do") -> <<Do(do[1]), expect(ts, do[2], "end")>>
        [] t = Sym("for") -> parseForStmt(ts, p)
        [] t = Sym("repeat") -> As(cond, Repeat(do[1], cond[1]))
        [] t = Sym("function") -> parseFuncStmt(ts, p)
        [] t = Sym("local") -> parseLocalStmt(ts, p)
        [] t = Sym("return") -> parseReturnStmt(ts, p)
        [] t = Sym("break") -> <<Break, p + 1>>
        [] t = Sym("goto") -> As(x, GotoS(x[1]))
        [] t = Sym("::") -> <<LabelS(x[1]), expect(ts, x[2], "::")>>
        [] OTHER -> parseExprStat(ts, p)

\* Nothing follows a return statement in its block.
parseBlock(ts, p, block) ==
  LET st == parseStatement(ts, p)
      more == Append(block, st[1])
  IN  IF p = 0 \/ blockFollow(ts, p) THEN <<block, p>>
      ELSE IF check(ts, p, ";") THEN parseBlock(ts, p + 1, block)
      ELSE IF st[2] = 0 \/ st[1].is = "return" THEN As(st, more)
      ELSE parseBlock(ts, st[2], more)

\* Parse: the block, or <<>> and position 0.
Parse(ts) ==
  LET r == parseBlock(ts, 1, <<>>)
  IN  IF r[2] # 0 /\ Tok(ts, r[2]) = EOS THEN r ELSE << <<>>, 0>>
=============================================================================
