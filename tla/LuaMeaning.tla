----------------------------- MODULE LuaMeaning -----------------------------
(* What a program means, read off its syntax tree alone: no registers, no  *)
(* jumps, no instructions.  Every variable is a location of its own, a     *)
(* statement is evaluated to a new store, and leaving a block is a signal  *)
(* (break, goto, return) that the statements it crosses pass on.           *)
(*                                                                         *)
(* Two orders the language leaves open are fixed as the implementation     *)
(* fixes them: the stores of an assignment go right to left, and variables *)
(* are closed newest first.  A program that changes a variable by a call   *)
(* inside the very expression that reads it is outside this definition.    *)
EXTENDS LuaSyntax

\* s = [heap (location -> value), tables, fns (the closures made), trace,
\* answers (those left), tbc (values to be closed), sig, err].
Start(tables, answers) ==
  [heap |-> <<>>, tables |-> tables, fns |-> <<>>, trace |-> <<>>, answers |-> answers,
   tbc |-> <<>>, sig |-> <<>>, err |-> FALSE]

Fail(s) == [vs |-> <<>>, s |-> [s EXCEPT !.err = TRUE]]
Give(s, v) == [vs |-> <<v>>, s |-> s]
GiveIf(s, r) == IF r = <<>> THEN Fail(s) ELSE Give(s, r[1])
\* What evaluates to r goes on with then, unless it failed.
Bind(r, then(_)) == IF r.s.err THEN r ELSE then(r)
First(vs) == IF vs = <<>> THEN Nil ELSE vs[1]

\* New variables xs with the values vs; env = [vars (name -> location), va].
Declare(env, s, xs, vs) ==
  LET at(i) == Len(s.heap) + i
      new == {xs[i] : i \in DOMAIN xs}
      last(x) == CHOOSE i \in DOMAIN xs : xs[i] = x /\ \A j \in i + 1 .. Len(xs) : xs[j] # x
  IN  [env |-> [env EXCEPT !.vars = [x \in DOMAIN @ \cup new |-> IF x \in new THEN at(last(x)) ELSE @[x]]],
       s |-> [s EXCEPT !.heap = @ \o Pad(vs, Len(xs))]]

\* Closes the values above the first n.
CloseDown(s, n) ==
  LET due == Reverse(SubSeq(s.tbc, n + 1, Len(s.tbc)))
      events == [i \in DOMAIN due |-> <<"close", due[i]>>]
  IN  IF s.err THEN s
      ELSE [s EXCEPT !.tbc = SubSeq(@, 1, n), !.trace = @ \o SelectSeq(events, LAMBDA e : Truthy(e[2]))]

ReadIndex(s, t, k) == IF t[1] = "table" THEN <<GetKey(s.tables[t[2]], k)>> ELSE <<>>
Store(s, t, k, v) ==
  IF t[1] # "table" \/ k = Nil THEN [s EXCEPT !.err = TRUE]
  ELSE [s EXCEPT !.tables[t[2]] = SetKey(@, k, v)]

RECURSIVE Values(_, _, _), Call(_, _, _), Block(_, _, _), Run(_, _, _, _)

-----------------------------------------------------------------------------
(* Expressions.                                                            *)

Value(e, env, s) == LET r == Values(e, env, s) IN IF r.s.err THEN r ELSE Give(r.s, First(r.vs))

\* All values of a list, the last expression with all of its own.
List(es, env, s) ==
  FoldLeft(LAMBDA r, i :
             IF r.s.err THEN r
             ELSE LET one == IF i = Len(es) THEN Values(es[i], env, r.s) ELSE Value(es[i], env, r.s)
                  IN  [one EXCEPT !.vs = r.vs \o @],
           [vs |-> <<>>, s |-> s], [i \in DOMAIN es |-> i])

Operator(op, x, y, s) ==
  CASE op = ".." -> Concat(<<x, y>>)
    [] op = "==" -> <<Bool(x = y)>>
    [] op = "~=" -> <<Bool(x # y)>>
    [] op \in {"<", "<=", ">", ">="} ->
         LET r == IF op \in {"<", "<="} THEN LessThan(x, y, op = "<=") ELSE LessThan(y, x, op = ">=")
         IN  IF r = <<>> THEN <<>> ELSE <<Bool(r[1])>>
    [] OTHER -> Arithmetic(op, x, y)

Unary(op, x, s) ==
  CASE op = "not" -> <<Bool(~Truthy(x))>>
    [] op = "-" -> Arithmetic("-", Num(0), x)
    [] op = "#" /\ x[1] = "str" -> <<Num(Len(x[2]))>>
    [] op = "#" /\ x[1] = "table" -> <<Num(Border(s.tables[x[2]]))>>
    [] OTHER -> <<>>

Constructor(items, env, s) ==
  LET t == Len(s.tables) + 1
      put(st, k, v) == [st EXCEPT !.s = Store(@, <<"table", t>>, k, v)]
      add(st, i) ==
        LET item == items[i]
            all == IF i = Len(items) THEN Values(item[1], env, st.s) ELSE Value(item[1], env, st.s)
            pair == List(<<Paren(item[1]), Paren(item[2])>>, env, st.s)
        IN  IF st.s.err THEN st
            ELSE IF Len(item) = 2
            THEN IF pair.s.err THEN [st EXCEPT !.s = pair.s]
                 ELSE put([st EXCEPT !.s = pair.s], pair.vs[1], pair.vs[2])
            ELSE IF all.s.err THEN [st EXCEPT !.s = all.s]
            ELSE FoldLeft(LAMBDA g, v : [put(g, Num(g.n + 1), v) EXCEPT !.n = @ + 1],
                          [st EXCEPT !.s = all.s], all.vs)
      end == FoldLeft(add, [s |-> [s EXCEPT !.tables = Append(@, <<>>)], n |-> 0], [i \in DOMAIN items |-> i])
  IN  [vs |-> <<<<"table", t>>>>, s |-> end.s]

\* The values of an expression: one, except for a call and "...".
Values(e, env, s) ==
  CASE e.is = "const" -> Give(s, e.v)
    [] e.is = "name" -> Give(s, IF e.x \in DOMAIN env.vars THEN s.heap[env.vars[e.x]]
                                ELSE GetKey(s.tables[1], Str(e.x)))
    [] e.is = "vararg" -> [vs |-> env.va, s |-> s]
    [] e.is = "paren" -> Value(e.e, env, s)
    [] e.is = "func" -> [vs |-> <<<<"fn", Len(s.fns) + 1>>>>,
                         s |-> [s EXCEPT !.fns = Append(@, [f |-> e, vars |-> env.vars])]]
    [] e.is = "table" -> Constructor(e.items, env, s)
    [] e.is = "un" -> Bind(Value(e.e, env, s), LAMBDA r : GiveIf(r.s, Unary(e.op, r.vs[1], r.s)))
    [] e.is = "and" -> Bind(Value(e.l, env, s), LAMBDA r : IF Truthy(r.vs[1]) THEN Value(e.r, env, r.s) ELSE r)
    [] e.is = "or" -> Bind(Value(e.l, env, s), LAMBDA r : IF Truthy(r.vs[1]) THEN r ELSE Value(e.r, env, r.s))
    [] e.is = "bin" -> Bind(List(<<Paren(e.l), Paren(e.r)>>, env, s),
                            LAMBDA r : GiveIf(r.s, Operator(e.op, r.vs[1], r.vs[2], r.s)))
    [] e.is = "index" -> Bind(List(<<Paren(e.t), Paren(e.k)>>, env, s),
                              LAMBDA r : GiveIf(r.s, ReadIndex(r.s, r.vs[1], r.vs[2])))
    [] e.is = "field" -> Bind(Value(e.t, env, s), LAMBDA r : GiveIf(r.s, ReadIndex(r.s, r.vs[1], Str(e.s))))
    [] e.is = "call" -> Bind(Value(e.f, env, s),
                             LAMBDA f : Bind(List(e.as, env, f.s), LAMBDA r : Call(f.vs[1], r.vs, r.s)))
    [] e.is = "method" ->
         Bind(Value(e.o, env, s), LAMBDA o :
           Bind(GiveIf(o.s, ReadIndex(o.s, o.vs[1], Str(e.s))), LAMBDA f :
             Bind(List(e.as, env, f.s), LAMBDA r : Call(f.vs[1], o.vs \o r.vs, r.s))))

Call(f, args, s) ==
  LET called == [s EXCEPT !.trace = Append(@, <<"call", f[2], ShowAll(args)>>)]
      fn == s.fns[f[2]].f
      n == Len(fn.ps)
      d == Declare([vars |-> s.fns[f[2]].vars, va |-> SubSeq(args, n + 1, Len(args))], s, fn.ps, args)
      r == Block(fn.body, d.env, d.s)
  IN  CASE f[1] = "host" -> IF s.answers = <<>> THEN Fail(called)
                            ELSE [vs |-> Head(s.answers), s |-> [called EXCEPT !.answers = Tail(@)]]
        [] f[1] = "fn" -> [vs |-> IF r.sig = <<>> \/ r.err THEN <<>> ELSE r.sig[2], s |-> [r EXCEPT !.sig = <<>>]]
        [] OTHER -> Fail(s)

-----------------------------------------------------------------------------
(* Statements: [env, s].                                                   *)

Signal(s, sig) == IF s.err THEN s ELSE [s EXCEPT !.sig = sig]
\* A loop stops at a break of its body and at what leaves it for further away.
Stops(s) == s.err \/ s.sig # <<>>
Broken(s) == IF s.sig = <<"break">> THEN [s EXCEPT !.sig = <<>>] ELSE s

SetName(s, env, x, v) ==
  IF x \in DOMAIN env.vars THEN [s EXCEPT !.heap[env.vars[x]] = v] ELSE Store(s, <<"table", 1>>, Str(x), v)

\* The operands of the targets, the values, the stores from right to left.
Assignment(st, env, s0) ==
  LET exprs(t) == CASE t.is = "name" -> <<>>
                    [] t.is = "field" -> <<Paren(t.t), S(t.s)>>
                    [] t.is = "index" -> <<Paren(t.t), Paren(t.k)>>
      ops == FoldLeft(LAMBDA r, t : IF r.s.err THEN r
                                    ELSE LET o == List(exprs(t), env, r.s) IN [vs |-> Append(r.vs, o.vs), s |-> o.s],
                      [vs |-> <<>>, s |-> s0], st.ts)
      vals == List(st.es, env, ops.s)
      n == Len(st.ts)
      vs == Pad(vals.vs, n)
      put(s, i) == IF s.err THEN s
                   ELSE IF st.ts[i].is = "name" THEN SetName(s, env, st.ts[i].x, vs[i])
                   ELSE Store(s, ops.vs[i][1], ops.vs[i][2], vs[i])
  IN  IF ops.s.err THEN ops.s ELSE IF vals.s.err THEN vals.s
      ELSE FoldLeft(put, vals.s, Reverse([i \in 1 .. n |-> i]))

RECURSIVE WhileLoop(_, _, _), RepeatLoop(_, _, _), Count(_, _, _, _), Iterate(_, _, _, _)

WhileLoop(st, env, s) ==
  LET c == Value(st.c, env, s)
      b == Block(st.b, env, c.s)
  IN  IF c.s.err \/ ~Truthy(c.vs[1]) THEN c.s
      ELSE IF Stops(b) THEN Broken(b) ELSE WhileLoop(st, env, b)

\* The condition is inside the block.
RepeatLoop(st, env, s) ==
  LET r == Run(st.b, 1, << [env |-> env, tbc |-> Len(s.tbc)] >>, s)
      c == Value(st.c, r.env, r.s)
      left == CloseDown(r.s, Len(s.tbc))
      again == CloseDown(c.s, Len(s.tbc))
  IN  IF Stops(r.s) THEN Broken(left)
      ELSE IF c.s.err \/ Truthy(c.vs[1]) THEN again ELSE RepeatLoop(st, env, again)

\* Each iteration has a variable of its own.
Count(st, env, s, range) ==
  LET d == Declare(env, s, <<st.x>>, <<Num(range.i)>>)
      b == Block(st.b, d.env, d.s)
  IN  IF IF range.step > 0 THEN range.i > range.to ELSE range.i < range.to THEN s
      ELSE IF Stops(b) THEN Broken(b)
      ELSE Count(st, env, b, [range EXCEPT !.i = @ + range.step])

Numeric(st, env, s) ==
  LET r == List(st.es, env, s)
      vs == IF Len(st.es) = 3 THEN r.vs ELSE SubSeq(r.vs, 1, 2) \o <<Num(1)>>
      v == Pad(vs, 3)
  IN  IF r.s.err THEN r.s
      ELSE IF (\E i \in 1 .. 3 : ~IsNum(v[i])) \/ v[3] = Num(0) THEN [r.s EXCEPT !.err = TRUE]
      ELSE Count(st, env, r.s, [i |-> v[1][2], to |-> v[2][2], step |-> v[3][2]])

Iterate(st, env, s, it) ==
  LET c == Call(it[1], <<it[2], it[3]>>, s)
      d == Declare(env, c.s, st.xs, c.vs)
      b == Block(st.b, d.env, d.s)
  IN  IF c.s.err \/ First(c.vs) = Nil THEN c.s
      ELSE IF Stops(b) THEN Broken(b)
      ELSE Iterate(st, env, b, <<it[1], it[2], First(c.vs)>>)

Generic(st, env, s) ==
  LET r == List(st.es, env, s)
      it == Pad(r.vs, 4)
  IN  IF r.s.err THEN r.s
      ELSE IF ~IsClosable(it[4]) THEN [r.s EXCEPT !.err = TRUE]
      ELSE CloseDown(Iterate(st, env, [r.s EXCEPT !.tbc = Append(@, it[4])], it), Len(s.tbc))

RECURSIVE Arms(_, _, _, _)
Arms(arms, els, env, s) ==
  LET c == Value(arms[1][1], env, s) IN
  IF arms = <<>> THEN (IF els = <<>> THEN s ELSE Block(els[1], env, s))
  ELSE IF c.s.err THEN c.s
  ELSE IF Truthy(c.vs[1]) THEN Block(arms[1][2], env, c.s)
  ELSE Arms(Tail(arms), els, env, c.s)

\* local x <a>, ... = e, ...
Locals(st, env, s) ==
  LET r == List(st.es, env, s)
      d == Declare(env, r.s, st.xs, r.vs)
      vs == Pad(r.vs, Len(st.xs))
      C == {i \in DOMAIN st.as : st.as[i] = "close"}
      i == CHOOSE i \in C : TRUE
  IN  IF r.s.err THEN [env |-> env, s |-> r.s]
      ELSE IF C = {} THEN d
      ELSE IF IsClosable(vs[i]) THEN [d EXCEPT !.s.tbc = Append(@, vs[i])]
      ELSE [d EXCEPT !.s.err = TRUE]

LocalFn(st, env, s) ==
  LET d == Declare(env, s, <<st.x>>, <<Nil>>)
      f == Values(st.f, d.env, d.s)
  IN  [env |-> d.env, s |-> SetName(f.s, d.env, st.x, f.vs[1])]

Statement(st, env, s) ==
  LET r == List(st.es, env, s)
      same(t) == [env |-> env, s |-> t]
  IN  CASE st.is = "local" -> Locals(st, env, s)
        [] st.is = "localfunc" -> LocalFn(st, env, s)
        [] st.is = "funcstat" -> same(Assignment([ts |-> <<st.t>>, es |-> <<st.f>>], env, s))
        [] st.is = "assign" -> same(Assignment(st, env, s))
        [] st.is = "call" -> same(Values(st.e, env, s).s)
        [] st.is = "do" -> same(Block(st.b, env, s))
        [] st.is = "while" -> same(WhileLoop(st, env, s))
        [] st.is = "repeat" -> same(RepeatLoop(st, env, s))
        [] st.is = "if" -> same(Arms(st.arms, st.els, env, s))
        [] st.is = "fornum" -> same(Numeric(st, env, s))
        [] st.is = "forin" -> same(Generic(st, env, s))
        [] st.is = "break" -> same(Signal(s, <<"break">>))
        [] st.is = "goto" -> same(Signal(s, <<"goto", st.l>>))
        [] st.is = "label" -> same(s)
        [] st.is = "return" -> same(Signal(r.s, <<"return", r.vs>>))

\* A block from its i-th statement on; marks[j] is how statement j found things.
\* A goto to a label of the block goes back to how the label found them.
Run(b, i, marks, s) ==
  LET now == marks[i]
      r == Statement(b[i], now.env, s)
      here == {j \in DOMAIN b : b[j].is = "label" /\ r.s.sig = <<"goto", b[j].l>>}
      j == CHOOSE j \in here : TRUE
      back == IF j <= i THEN SubSeq(marks, 1, j) ELSE marks \o [n \in 1 .. j - i |-> now]
  IN  IF i > Len(b) \/ Stops(s) THEN [env |-> now.env, s |-> s]
      ELSE IF here # {} THEN Run(b, j, back, CloseDown([r.s EXCEPT !.sig = <<>>], back[j].tbc))
      ELSE Run(b, i + 1, Append(marks, [env |-> r.env, tbc |-> Len(r.s.tbc)]), r.s)

Block(b, env, s) == CloseDown(Run(b, 1, << [env |-> env, tbc |-> Len(s.tbc)] >>, s).s, Len(s.tbc))

\* What a run does to the outside, given what the host answers.
Meaning(block, tables, answers) ==
  LET s == Block(block, [vars |-> <<>>, va |-> <<>>], Start(tables, answers))
      returned == <<"return", IF s.sig = <<>> THEN <<>> ELSE ShowAll(s.sig[2])>>
  IN  IF s.err THEN [trace |-> s.trace, status |-> "error"]
      ELSE [trace |-> Append(s.trace, returned), status |-> "done"]

-----------------------------------------------------------------------------
(* Which programs the language admits.  env = [vars (name -> it may be     *)
(* assigned), va, loop, labels (those a goto may name), seen (those no     *)
(* label here may be called)].                                             *)

RECURSIVE LegalBlock(_, _, _), LegalExpr(_, _)

Scope(env, xs, free) ==
  [env EXCEPT !.vars = [x \in DOMAIN @ \cup Range(xs) |->
     IF x \in Range(xs) THEN free[Max({i \in DOMAIN xs : xs[i] = x})] ELSE @[x]]]
AllFree(xs) == [i \in DOMAIN xs |-> TRUE]

LegalBody(f, env) ==
  LegalBlock(f.body, Scope([env EXCEPT !.va = f.va, !.loop = FALSE, !.labels = {}, !.seen = {}], f.ps, AllFree(f.ps)), FALSE)

LegalAll(es, env) == \A i \in DOMAIN es : LegalExpr(es[i], env)
LegalExpr(e, env) ==
  CASE e.is \in {"const", "name"} -> TRUE
    [] e.is = "vararg" -> env.va
    [] e.is \in {"paren", "un"} -> LegalExpr(e.e, env)
    [] e.is \in {"bin", "and", "or"} -> LegalExpr(e.l, env) /\ LegalExpr(e.r, env)
    [] e.is = "index" -> LegalExpr(e.t, env) /\ LegalExpr(e.k, env)
    [] e.is = "field" -> LegalExpr(e.t, env)
    [] e.is = "call" -> LegalExpr(e.f, env) /\ LegalAll(e.as, env)
    [] e.is = "method" -> LegalExpr(e.o, env) /\ LegalAll(e.as, env)
    [] e.is = "table" -> \A i \in DOMAIN e.items : LegalAll(e.items[i], env)
    [] e.is = "func" -> LegalBody(e, env)

LegalTarget(t, env) ==
  IF t.is = "name" THEN (t.x \in DOMAIN env.vars => env.vars[t.x]) ELSE LegalExpr(t, env)

Inner(env) == [env EXCEPT !.loop = TRUE]
NewVars(st) == CASE st.is = "local" -> st.xs [] st.is = "localfunc" -> <<st.x>> [] OTHER -> <<>>

LegalStatement(st, env) ==
  CASE st.is = "local" -> LegalAll(st.es, env) /\ Cardinality({i \in DOMAIN st.as : st.as[i] = "close"}) <= 1
    [] st.is = "localfunc" -> LegalBody(st.f, Scope(env, <<st.x>>, <<TRUE>>))
    [] st.is = "funcstat" -> LegalTarget(st.t, env) /\ LegalBody(st.f, env)
    [] st.is = "assign" -> (\A i \in DOMAIN st.ts : LegalTarget(st.ts[i], env)) /\ LegalAll(st.es, env)
    [] st.is = "call" -> LegalExpr(st.e, env)
    [] st.is = "do" -> LegalBlock(st.b, env, FALSE)
    [] st.is = "while" -> LegalExpr(st.c, env) /\ LegalBlock(st.b, Inner(env), FALSE)
    [] st.is = "repeat" ->
         LET new == FlattenSeq([i \in DOMAIN st.b |-> NewVars(st.b[i])])
         IN  LegalBlock(st.b, Inner(env), TRUE) /\ LegalExpr(st.c, Scope(env, new, AllFree(new)))
    [] st.is = "if" -> /\ \A i \in DOMAIN st.arms : LegalExpr(st.arms[i][1], env) /\ LegalBlock(st.arms[i][2], env, FALSE)
                       /\ \A i \in DOMAIN st.els : LegalBlock(st.els[i], env, FALSE)
    [] st.is = "fornum" -> LegalAll(st.es, env) /\ LegalBlock(st.b, Scope(Inner(env), <<st.x>>, <<FALSE>>), FALSE)
    [] st.is = "forin" -> LegalAll(st.es, env)
         /\ LegalBlock(st.b, Scope(Inner(env), st.xs, [i \in DOMAIN st.xs |-> i # 1]), FALSE)
    [] st.is = "break" -> env.loop
    [] st.is = "goto" -> st.l \in env.labels
    [] st.is = "label" -> TRUE
    [] st.is = "return" -> LegalAll(st.es, env)

\* A goto may name a label of a block around it, unless a variable comes to life
\* between the two; at the end of a block, that of a repeat excepted, none is alive.
\* "outer" are the labels around the block, "free" what the statements before the
\* i-th leave in scope.
Reachable(b, i, isRepeat) ==
  {j \in DOMAIN b : b[j].is = "label" /\
     (\/ j < i
      \/ ~isRepeat /\ \A m \in j .. Len(b) : b[m].is = "label"
      \/ \A m \in i + 1 .. j : NewVars(b[m]) = <<>>)}
Declared(st, env) ==
  CASE st.is = "local" -> Scope(env, st.xs, [k \in DOMAIN st.xs |-> st.as[k] = ""])
    [] st.is = "localfunc" -> Scope(env, <<st.x>>, <<TRUE>>)
    [] st.is = "label" -> [env EXCEPT !.seen = @ \cup {st.l}]
    [] OTHER -> env

RECURSIVE LegalFrom(_, _, _, _, _)
LegalFrom(b, i, env, outer, isRepeat) ==
  i > Len(b) \/
    /\ LegalStatement(b[i], [env EXCEPT !.labels = outer \cup {b[j].l : j \in Reachable(b, i, isRepeat)}])
    /\ b[i].is = "label" => b[i].l \notin env.seen
    /\ LegalFrom(b, i + 1, Declared(b[i], env), outer, isRepeat)

LegalBlock(b, env, isRepeat) ==
  LegalFrom(b, 1, env, env.labels \ {b[j].l : j \in {j \in DOMAIN b : b[j].is = "label"}}, isRepeat)

Legal(block) == LegalBlock(block, [vars |-> <<>>, va |-> TRUE, loop |-> FALSE, labels |-> {}, seen |-> {}], FALSE)
=============================================================================
