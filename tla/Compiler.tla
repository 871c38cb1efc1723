------------------------------ MODULE Compiler ------------------------------
(* The code generator (compiler/compile_expr.go, compile_stmt.go and       *)
(* compile_control.go): every operator takes the state of the function it  *)
(* compiles into and returns that state with the instructions appended.    *)
(*                                                                         *)
(* Left out: line numbers and debug names, the explicit continuation queue *)
(* that stands for recursion on long operator chains, "global"             *)
(* declarations, a rebound _ENV, floats, and every limit but MaxRegs.      *)
EXTENDS FuncState

\* MaxArgC and OffsetSC: the largest integer key of GETI and SETI, and the
\* bound of the immediate operand of ADDI and of the comparisons.
MaxArgC  == 255
OffsetSC == 127

RECURSIVE compileExprToReg(_, _, _), compileExprMultiRet(_, _, _), compileFunc(_, _),
          compileBlock(_, _, _)

Move(fs, to, from) == IF to = from THEN fs ELSE Emit(fs, Instr("MOVE", to, from, 0, 0))
LoadConst(fs, reg, v) == Emit(fs, Instr("LOADK", reg, v, 0, 0))
LoadNil(fs, reg, n) == Emit(fs, Instr("LOADNIL", reg, n, 0, 0))
Jump(fs, target) == SJ(emitJump(fs), PC(fs), target)

\* The value of e in reg and every register above it free again.
Keep(fs, e, reg) == Reserve(compileExprToReg(fs, e, reg), reg + 1)
KeepAll(fs, es, base) ==
  FoldLeft(LAMBDA f, i : Keep(f, es[i], base + i - 1), fs, [i \in DOMAIN es |-> i])

-----------------------------------------------------------------------------
(* Constant folding: <<>>, or the number or scalar the expression stands for. *)

RECURSIVE numericValue(_)
numericValue(e) ==
  LET l == numericValue(e.l)
      r == numericValue(e.r)
      x == numericValue(e.e)
  IN  CASE e.is = "const" /\ IsNum(e.v) -> <<e.v[2]>>
        [] e.is = "bin" -> IF l = <<>> \/ r = <<>> THEN <<>> ELSE foldIntOp(e.op, l[1], r[1])
        [] e.is = "un" /\ e.op = "-" -> IF x = <<>> THEN <<>> ELSE <<-x[1]>>
        [] OTHER -> <<>>

tryFoldConstScalar(e) ==
  LET u == Unparen(e)
      n == numericValue(u)
  IN  IF u.is = "const" THEN <<u.v>> ELSE IF n = <<>> THEN <<>> ELSE <<Num(n[1])>>

smallIntConst(e) == e.is = "const" /\ IsNum(e.v) /\ e.v[2] \in -OffsetSC .. OffsetSC
isKeyConst(e) == e.is = "const" /\ IsNum(e.v) /\ e.v[2] \in 0 .. MaxArgC

-----------------------------------------------------------------------------
(* Names.                                                                  *)

RECURSIVE lookupInlinedAny(_, _)
lookupInlinedAny(fs, x) ==
  IF IndexOfLocal(fs, x) # 0 \/ fs.parent = <<>> THEN lookupInlined(fs, x)
  ELSE lookupInlinedAny(fs.parent[1], x)

\* x is an upvalue of fs afterwards, and of the functions between fs and the one
\* whose local variable it is; or nothing has changed.
RECURSIVE resolveUpvalue(_, _)
resolveUpvalue(fs, x) ==
  LET parent == fs.parent[1]
      reg == lookupLocal(parent, x)
      outer == resolveUpvalue(parent, x)
      idx == lookupUpvalue(outer, x)
  IN  IF lookupUpvalue(fs, x) >= 0 \/ fs.parent = <<>> THEN fs
      ELSE IF reg >= 0 THEN addUpvalue([fs EXCEPT !.parent = <<markCaptured(parent, x)>>], x, TRUE, reg)
      ELSE IF idx >= 0 THEN addUpvalue([fs EXCEPT !.parent = <<outer>>], x, FALSE, idx)
      ELSE fs

RECURSIVE isConstUpvalue(_, _)
isConstUpvalue(fs, x) ==
  fs.parent # <<>> /\ (isConst(fs.parent[1], x) \/ isConstUpvalue(fs.parent[1], x))

resolveEnv(fs) == resolveUpvalue(fs, "_ENV")

\* The register a bare local variable lives in, -1 for any other expression.
plainLocalReg(fs, e) ==
  LET u == Unparen(e) IN
  IF u.is = "name" /\ lookupInlinedAny(fs, u.x) = NoConst THEN lookupLocal(fs, u.x) ELSE -1

compileName(fs, x, reg) ==
  LET val == lookupInlinedAny(fs, x)
      up == resolveUpvalue(fs, x)
      env == resolveEnv(fs)
  IN  CASE val # NoConst -> LoadConst(fs, reg, val[1])
        [] val = NoConst /\ lookupLocal(fs, x) >= 0 -> Move(fs, reg, lookupLocal(fs, x))
        [] OTHER -> IF lookupUpvalue(up, x) >= 0
                    THEN Emit(up, Instr("GETUPVAL", reg, lookupUpvalue(up, x), 0, 0))
                    ELSE Emit(env, Instr("GETTABUP", reg, lookupUpvalue(env, "_ENV"), Str(x), 0))

-----------------------------------------------------------------------------
(* Operands.  A bare local variable is used where it lives, unless its      *)
(* register is in "avoid"; anything else gets a temporary.                 *)

indexAssignOperand(fs, e, avoid) ==
  LET r == plainLocalReg(fs, e) IN
  IF r >= 0 /\ r \notin avoid THEN [fs |-> fs, r |-> r]
  ELSE [fs |-> compileExprToReg(reserveReg(fs), e, fs.freeReg), r |-> fs.freeReg]

operandToReg(fs, e) == indexAssignOperand(fs, e, {})

\* The C operand of a store: a constant (k = 1) or a register.
storeValueOperand(fs, e) ==
  LET v == tryFoldConstScalar(e)
      o == operandToReg(fs, e)
  IN  IF v # <<>> THEN [fs |-> fs, c |-> v[1], k |-> 1] ELSE [fs |-> o.fs, c |-> o.r, k |-> 0]

-----------------------------------------------------------------------------
(* Operators.                                                              *)

Arith == [op \in {"+", "-", "*", "//"} |->
            CASE op = "+" -> "ADD" [] op = "-" -> "SUB" [] op = "*" -> "MUL" [] op = "//" -> "IDIV"]

\* x + imm, x - imm and imm + x.
emitBinopImmediate(fs, reg, operand, imm) ==
  LET o == operandToReg(fs, operand)
      added == Emit(Emit(o.fs, Instr("ADDI", reg, o.r, imm, 0)), Instr("MMBINI", o.r, imm, 0, 0))
  IN  IF plainLocalReg(fs, operand) >= 0 THEN added ELSE Free(added, o.r)

\* A target that is a live local variable is not written before the right
\* operand is read.
LeftOperand(fs, e, reg, base) ==
  LET r == plainLocalReg(fs, e)
      tmp == fs.freeReg
  IN  CASE r >= 0 -> [fs |-> fs, r |-> r]
        [] r < 0 /\ reg < NAct(fs) -> [fs |-> Free(compileExprToReg(reserveReg(fs), e, tmp), tmp + 1), r |-> tmp]
        [] OTHER -> [fs |-> Free(compileExprToReg(fs, e, reg), base), r |-> reg]

finishBinop(fs, e, reg, base, l) ==
  LET inPlace == plainLocalReg(fs, e.r)
      r == IF inPlace >= 0 THEN inPlace ELSE fs.freeReg
      read == IF inPlace >= 0 THEN fs ELSE compileExprToReg(fs, e.r, r)
  IN  Free(Emit(Emit(read, Instr(Arith[e.op], reg, l, r, 0)), Instr("MMBIN", l, r, 0, 0)), base)

RECURSIVE flattenConcat(_)
flattenConcat(e) ==
  IF e.is = "bin" /\ e.op = ".." THEN flattenConcat(e.l) \o flattenConcat(e.r) ELSE <<e>>

compileConcat(fs, e, reg) ==
  LET base == fs.freeReg
      es == flattenConcat(e)
      all == Emit(KeepAll(fs, es, base), Instr("CONCAT", base, Len(es), 0, 0))
  IN  Free(IF reg < base THEN Move(all, reg, base) ELSE all, base + 1)

isComparison(e) == e.is = "bin" /\ e.op \in {"==", "~=", "<", "<=", ">", ">="}
isImmediateEqConst(e) == smallIntConst(e) \/ (e.is = "const" /\ e.v[1] = "str")

\* A comparison with a constant operand; K < x is x > K.
tryComparisonImmediate(fs, e, k) ==
  LET onRight == IF e.op \in {"==", "~="} THEN isImmediateEqConst(e.r) ELSE smallIntConst(e.r)
      o == operandToReg(fs, IF onRight THEN e.l ELSE e.r)
      const == (IF onRight THEN e.r ELSE e.l).v
      lower == IF onRight THEN [op \in {"<", "<=", ">", ">="} |->
                    CASE op = "<" -> "LTI" [] op = "<=" -> "LEI" [] op = ">" -> "GTI" [] op = ">=" -> "GEI"]
               ELSE [op \in {"<", "<=", ">", ">="} |->
                    CASE op = "<" -> "GTI" [] op = "<=" -> "GEI" [] op = ">" -> "LTI" [] op = ">=" -> "LEI"]
      op == IF e.op \in {"==", "~="} THEN "EQK" ELSE lower[e.op]
      sense == IF e.op = "~=" THEN 1 - k ELSE k
  IN  Free(Emit(o.fs, Instr(op, o.r, const, 0, sense)), fs.freeReg)

takesImmediate(e) ==
  IF e.op \in {"==", "~="} THEN isImmediateEqConst(e.l) \/ isImmediateEqConst(e.r)
  ELSE smallIntConst(e.l) \/ smallIntConst(e.r)

\* The comparison alone: the instruction behind it is skipped when the result
\* differs from k, so that a jump there is taken when it is k.
compileComparisonTest(fs, e, invertSense) ==
  LET l == operandToReg(fs, e.l)
      r == operandToReg(l.fs, e.r)
      k == IF invertSense THEN 1 ELSE 0
      swap == e.op \in {">", ">="}
      op == CASE e.op \in {"==", "~="} -> "EQ" [] e.op \in {"<", ">"} -> "LT" [] e.op \in {"<=", ">="} -> "LE"
  IN  IF takesImmediate(e) THEN tryComparisonImmediate(fs, e, k)
      ELSE Free(Emit(r.fs, Instr(op, IF swap THEN r.r ELSE l.r, IF swap THEN l.r ELSE r.r, 0,
                                 IF e.op = "~=" THEN 1 - k ELSE k)), fs.freeReg)

compileComparison(fs, e, reg) ==
  LET test == compileComparisonTest(fs, e, FALSE)
      yes == emitJump(LoadConst(emitJump(test), reg, Bool(TRUE)))
      no == LoadConst(patchJump(yes, PC(test)), reg, Bool(FALSE))
  IN  Free(patchJump(no, PC(yes) - 1), fs.freeReg)

\* "and" (k = 0) and "or" (k = 1).
compileAndOr(fs, e, reg, k) ==
  LET test == compileComparisonTest(fs, e.l, k = 1)
      fused == emitJump(compileExprToReg(emitJump(test), e.r, reg))
      decided == LoadConst(patchJump(fused, PC(test)), reg, Bool(k = 1))
      tmp == fs.freeReg
      set == Emit(compileExprToReg(reserveReg(fs), e.l, tmp), Instr("TESTSET", reg, tmp, 0, k))
      here == Emit(Free(compileExprToReg(fs, e.l, reg), reg + 1), Instr("TEST", reg, 0, 0, k))
  IN  CASE isComparison(e.l) -> patchJump(decided, PC(fused) - 1)
        [] ~isComparison(e.l) /\ reg < NAct(fs) ->
             Free(patchJump(compileExprToReg(emitJump(set), e.r, reg), PC(set)), tmp)
        [] OTHER -> patchJump(compileExprToReg(emitJump(here), e.r, reg), PC(here))

compileBinop(fs, e, reg) ==
  LET folded == numericValue(e)
      base == Max({fs.freeReg, NAct(fs)})
      l == LeftOperand(fs, e.l, reg, base)
  IN  CASE e.op = ".." -> compileConcat(fs, e, reg)
        [] isComparison(e) -> compileComparison(fs, e, reg)
        [] OTHER ->
             IF folded # <<>> THEN LoadConst(fs, reg, Num(folded[1]))
             ELSE IF e.op = "+" /\ smallIntConst(e.r) THEN emitBinopImmediate(fs, reg, e.l, e.r.v[2])
             ELSE IF e.op = "+" /\ smallIntConst(e.l) THEN emitBinopImmediate(fs, reg, e.r, e.l.v[2])
             ELSE IF e.op = "-" /\ smallIntConst(e.r) THEN emitBinopImmediate(fs, reg, e.l, -e.r.v[2])
             ELSE finishBinop(l.fs, e, reg, base, l.r)

compileUnop(fs, e, reg) ==
  LET inPlace == plainLocalReg(fs, e.e)
      tmp == fs.freeReg
      r == IF inPlace >= 0 THEN inPlace ELSE IF reg < regTop(fs) THEN tmp ELSE reg
      read == CASE inPlace >= 0 -> fs
                [] inPlace < 0 /\ r # reg -> compileExprToReg(reserveReg(fs), e.e, r)
                [] OTHER -> compileExprToReg(fs, e.e, r)
      op == CASE e.op = "-" -> "UNM" [] e.op = "not" -> "NOT" [] e.op = "#" -> "LEN"
      done == Emit(read, Instr(op, reg, r, 0, 0))
  IN  IF inPlace < 0 /\ r # reg THEN Free(done, tmp) ELSE done

-----------------------------------------------------------------------------
(* Calls.                                                                  *)

\* The arguments from register "first" on, and CALL with the results nResults
\* stands for (0: all of them, n + 1: n of them).
CallWith(fs, base, first, as, nResults) ==
  LET open == as # <<>> /\ IsMultiRet(Last(as))
      args == IF open THEN compileExprMultiRet(KeepAll(fs, Front(as), first), Last(as), 0)
              ELSE KeepAll(fs, as, first)
  IN  Emit(args, Instr("CALL", base, IF open THEN 0 ELSE first - base + Len(as), nResults, 0))

\* f(...) and o:s(...), with the function in base.
compileCall(fs, e, base, nResults) ==
  LET low == Free(fs, Min({base, fs.freeReg}))
      fn == Reserve(compileExprToReg(low, e.f, base), base + 1)
      self == Reserve(Emit(compileExprToReg(low, e.o, base), Instr("SELF", base, base, Str(e.s), 0)), base + 2)
      called == CallWith(self, base, base + 2, e.as, nResults)
  IN  IF e.is = "call" THEN CallWith(fn, base, base + 1, e.as, nResults)
      ELSE IF e.as # <<>> /\ IsMultiRet(Last(e.as)) THEN called ELSE Free(called, base + 1)

\* One result, in reg; a live local variable is not overwritten before the call.
compileCallToReg(fs, e, reg) ==
  IF reg < regTop(fs) THEN Move(compileCall(fs, e, fs.freeReg, 2), reg, fs.freeReg)
  ELSE compileCall(fs, e, reg, 2)

\* n results from freeReg on, all of them if n = 0.
compileExprMultiRet(fs, e, n) ==
  LET c == IF n > 0 THEN n + 1 ELSE 0
      one == compileExprToReg(fs, e, fs.freeReg)
  IN  CASE e.is \in {"call", "method"} -> compileCall(fs, e, fs.freeReg, c)
        [] e.is = "vararg" ->
             IF fs.va THEN Emit(fs, Instr("VARARG", fs.freeReg, 0, c, 0)) ELSE Bad(fs)
        [] OTHER -> IF n > 1 THEN LoadNil(one, fs.freeReg + 1, n - 2) ELSE one

-----------------------------------------------------------------------------
(* Tables.                                                                 *)

\* [t][k] with t in its register, or evaluated into "reg" or a temporary.
compileIndex(fs, e, reg) ==
  LET u == Unparen(e.t)
      local == IF u.is = "name" THEN lookupLocal(fs, u.x) ELSE -1
      needFree == local < 0 /\ reg < NAct(fs)
      t == IF local >= 0 THEN local ELSE IF needFree THEN fs.freeReg ELSE reg
      read == CASE local >= 0 -> fs
                [] needFree -> compileExprToReg(reserveReg(fs), e.t, t)
                [] OTHER -> compileExprToReg(fs, e.t, t)
      key == read.freeReg
      get == CASE e.is = "field" -> Emit(read, Instr("GETK", reg, t, Str(e.s), 0))
               [] e.is = "index" /\ isKeyConst(e.k) -> Emit(read, Instr("GETK", reg, t, e.k.v, 0))
               [] OTHER -> Free(Emit(compileExprToReg(reserveReg(read), e.k, key),
                                     Instr("GETTABLE", reg, t, key, 0)), key)
  IN  IF needFree THEN Free(get, t) ELSE get

emitSetList(fs, reg, count, offset) == Emit(fs, Instr("SETLIST", reg, count, offset, 0))

\* One item of a constructor; st = [fs, n (array items), p (those not stored yet)].
TableItem(st, item, isLast, reg, flush) ==
  LET fs == st.fs
      n == st.n + 1
      p == st.p + 1
      room == Free(fs, Max({fs.freeReg, reg + p}))
      open == emitSetList(compileExprMultiRet(Free(fs, reg + p), item[1], 0), reg, 0, n - p + 1)
      kept == Free(compileExprToReg(room, item[1], reg + p), reg + p + 1)
      byConst == item[1].is = "const" /\ (item[1].v[1] = "str" \/ isKeyConst(item[1]))
      keyed == IF byConst THEN fs ELSE compileExprToReg(reserveReg(fs), item[1], fs.freeReg)
      val == storeValueOperand(keyed, item[2])
      set == IF byConst THEN Instr("SETK", reg, item[1].v, val.c, val.k)
             ELSE Instr("SETTABLE", reg, fs.freeReg, val.c, val.k)
  IN  IF Len(item) = 2 THEN [st EXCEPT !.fs = Free(Emit(val.fs, set), fs.freeReg)]
      ELSE IF isLast /\ IsMultiRet(item[1]) THEN [fs |-> Free(open, reg + 1), n |-> n, p |-> 0]
      ELSE IF p >= flush THEN [fs |-> Free(emitSetList(kept, reg, p, n - p + 1), reg + 1), n |-> n, p |-> 0]
      ELSE [fs |-> kept, n |-> n, p |-> p]

compileTable(fs, e, reg) ==
  LET start == Emit(Reserve(fs, Max({fs.freeReg, reg + 1})), Instr("NEWTABLE", reg, 0, 0, 0))
      flush == maxToStore(start)
      end == FoldLeft(LAMBDA st, i : TableItem(st, e.items[i], i = Len(e.items), reg, flush),
                      [fs |-> start, n |-> 0, p |-> 0], [i \in DOMAIN e.items |-> i])
  IN  Free(IF end.p > 0 THEN emitSetList(end.fs, reg, end.p, end.n - end.p + 1) ELSE end.fs, reg + 1)

\* As for a call, a live local variable is written last.
compileTableToReg(fs, e, reg) ==
  IF reg < regTop(fs) THEN Free(Move(compileTable(fs, e, fs.freeReg), reg, fs.freeReg), fs.freeReg + 1)
  ELSE compileTable(fs, e, reg)

compileExprToReg(fs0, e, reg) ==
  LET fs == IF reg >= fs0.freeReg THEN Reserve(fs0, reg + 1) ELSE fs0
      made == compileFunc(fs, e)
  IN  CASE e.is = "const" -> LoadConst(fs, reg, e.v)
        [] e.is = "name" -> compileName(fs, e.x, reg)
        [] e.is = "bin" -> compileBinop(fs, e, reg)
        [] e.is = "and" -> compileAndOr(fs, e, reg, 0)
        [] e.is = "or" -> compileAndOr(fs, e, reg, 1)
        [] e.is = "un" -> compileUnop(fs, e, reg)
        [] e.is \in {"call", "method"} -> compileCallToReg(fs, e, reg)
        [] e.is = "func" -> Emit(made, Instr("CLOSURE", reg, Len(made.protos) - 1, 0, 0))
        [] e.is = "table" -> compileTableToReg(fs, e, reg)
        [] e.is \in {"field", "index"} -> compileIndex(fs, e, reg)
        [] e.is = "paren" -> compileExprToReg(fs, e.e, reg)
        [] e.is = "vararg" -> IF fs.va THEN Emit(fs, Instr("VARARG", reg, 0, 2, 0)) ELSE Bad(fs)

-----------------------------------------------------------------------------
(* Functions.                                                              *)

Proto(fs) == [code |-> fs.code, np |-> fs.np, va |-> fs.va, stack |-> fs.maxReg,
              upvals |-> fs.upvals, protos |-> fs.protos]

\* closeFuncState: a goto left over has no label.
closeFuncState(fs) ==
  LET parent == fs.parent[1] IN
  [parent EXCEPT !.protos = Append(@, Proto(fs)), !.bad = @ \/ fs.bad \/ fs.gotos # <<>>]

IsReturn(i) == i.op \in {"RETURN", "RETURN0", "RETURN1", "TAILCALL"}

compileFunc(outer, fe) ==
  LET new == enterScope([newFuncState(Len(fe.ps), fe.va, <<outer>>) EXCEPT !.maxReg = 2], FALSE)
      params == Reserve(AddLocals(new, [i \in DOMAIN fe.ps |-> Var(fe.ps[i], i - 1, "", NoConst)]), Len(fe.ps))
      slot == AddLocals(Emit(params, Instr("VARARGPREP", Len(fe.ps), 0, 0, 0)),
                        <<Var("(vararg table)", Len(fe.ps), "", NoConst)>>)
      body == compileBlock(IF fe.va THEN reserveReg(slot) ELSE params, fe.body, TRUE)
      done == IF body.code # <<>> /\ IsReturn(Last(body.code)) THEN body
              ELSE Emit(body, Instr("RETURN0", 0, 0, 0, 0))
  IN  closeFuncState(leaveScope(done))

compileChunk(block) ==
  LET main == addUpvalue([newFuncState(0, TRUE, <<>>) EXCEPT !.maxReg = 2], "_ENV", TRUE, 0)
      start == Emit(enterScope(main, FALSE), Instr("VARARGPREP", 0, 0, 0, 0))
      end == leaveScope(Emit(compileBlock(start, block, TRUE), Instr("RETURN0", 0, 0, 0, 0)))
  IN  [proto |-> Proto(end), bad |-> end.bad \/ end.gotos # <<>>]

-----------------------------------------------------------------------------
(* Local variables and assignments.                                        *)

\* local x <a>, ... = e, ...: the last one is inlined if it is a <const> whose
\* value folds to a scalar.
compileLocal(fs, s) ==
  LET base == fs.freeReg
      nv == Len(s.es)
      nn == Len(s.xs)
      val == IF nv = nn /\ Last(s.as) = "const" THEN tryFoldConstScalar(Last(s.es)) ELSE NoConst
      inlined == IF val = NoConst THEN 0 ELSE 1
      regVars == nn - inlined
      named == SubSeq(s.es, 1, Min({nv, regVars}))
      multi == nv \in 1 .. nn - 1 /\ IsMultiRet(Last(s.es))
      extra == SubSeq(s.es, nn + 1, nv)
      read == IF multi THEN compileExprMultiRet(KeepAll(fs, Front(s.es), base), Last(s.es), nn - nv + 1)
              ELSE LET f == FoldLeft(LAMBDA g, e : Free(compileExprToReg(g, e, g.freeReg), base + nn),
                                     KeepAll(fs, named, base), extra)
                   IN  IF nv < nn THEN LoadNil(f, base + nv, nn - nv - 1) ELSE f
      vars == [i \in 1 .. nn |-> IF inlined = 1 /\ i = nn THEN Var(s.xs[i], -1, s.as[i], val)
                                 ELSE Var(s.xs[i], base + i - 1, s.as[i], NoConst)]
  IN  FoldLeft(LAMBDA f, i : IF s.as[i] = "close" THEN Emit(f, Instr("TBC", base + i - 1, 0, 0, 0)) ELSE f,
               AddLocals(Reserve(read, base + regVars), vars), [i \in 1 .. nn |-> i])

\* Stores the value in register src into the variable x.
assignName(fs, x, src) ==
  LET up == resolveUpvalue(fs, x)
      env == resolveEnv(fs)
      isUp == lookupUpvalue(up, x) >= 0
  IN  CASE lookupInlinedAny(fs, x) # NoConst -> Bad(fs)
        [] lookupLocal(fs, x) >= 0 -> IF isConst(fs, x) THEN Bad(fs) ELSE Move(fs, lookupLocal(fs, x), src)
        [] OTHER ->
             IF isUp /\ isConstUpvalue(up, x) THEN Bad(fs)
             ELSE IF isUp THEN Emit(up, Instr("SETUPVAL", src, lookupUpvalue(up, x), 0, 0))
             ELSE Emit(env, Instr("SETTABUP", lookupUpvalue(env, "_ENV"), Str(x), src, 0))

compileSetGlobal(fs, x, e) ==
  LET v == storeValueOperand(fs, e)
      env == resolveEnv(v.fs)
  IN  Free(Emit(env, Instr("SETTABUP", lookupUpvalue(env, "_ENV"), Str(x), v.c, v.k)), fs.freeReg)

compileSetIndex(fs, t, e) ==
  LET o == indexAssignOperand(fs, t.t, {})
      constKey == t.is = "field" \/ isKeyConst(t.k)
      k == indexAssignOperand(o.fs, t.k, {})
      v == storeValueOperand(IF constKey THEN o.fs ELSE k.fs, e)
      set == IF constKey THEN Instr("SETK", o.r, IF t.is = "field" THEN Str(t.s) ELSE t.k.v, v.c, v.k)
             ELSE Instr("SETTABLE", o.r, k.r, v.c, v.k)
  IN  Free(Emit(v.fs, set), fs.freeReg)

compileSingleAssign(fs, t, e) ==
  LET up == resolveUpvalue(fs, t.x)
      tmp == fs.freeReg
  IN  IF t.is # "name" THEN compileSetIndex(fs, t, e)
      ELSE IF lookupInlinedAny(fs, t.x) # NoConst THEN Bad(fs)
      ELSE IF lookupLocal(fs, t.x) >= 0
      THEN IF isConst(fs, t.x) THEN Bad(fs) ELSE compileExprToReg(fs, e, lookupLocal(fs, t.x))
      ELSE IF lookupUpvalue(up, t.x) >= 0
      THEN IF isConstUpvalue(up, t.x) THEN Bad(fs)
           ELSE Free(assignName(compileExprToReg(reserveReg(up), e, tmp), t.x, tmp), tmp)
      ELSE compileSetGlobal(fs, t.x, e)

RECURSIVE preRegisterUpvalues(_, _)
preRegisterUpvalues(fs, e) ==
  CASE e.is = "name" -> IF lookupInlinedAny(fs, e.x) # NoConst \/ lookupLocal(fs, e.x) >= 0 THEN fs
                        ELSE resolveUpvalue(fs, e.x)
    [] e.is = "field" -> preRegisterUpvalues(fs, e.t)
    [] e.is = "index" -> preRegisterUpvalues(preRegisterUpvalues(fs, e.t), e.k)
    [] OTHER -> fs

\* Fault: an operand that a later target assigns is read after that target.
BugConflicts(fs, ts, i) == {}
\* The local variables that targets after the i-th assign: an operand of the
\* i-th target in one of them is copied first (check_conflict).
Conflicts(fs, ts, i) ==
  {plainLocalReg(fs, ts[j]) : j \in {j \in i + 1 .. Len(ts) : ts[j].is = "name"}}

\* The table and key operands of one target; st = [fs, ops].
TargetOperands(st, t, avoid) ==
  LET o == indexAssignOperand(st.fs, t.t, avoid)
      k == indexAssignOperand(o.fs, t.k, avoid)
      konst == t.is = "field" \/ isKeyConst(t.k)
  IN  IF t.is = "name" THEN [st EXCEPT !.ops = Append(@, <<>>)]
      ELSE IF konst THEN [fs |-> o.fs, ops |-> Append(st.ops, <<"SETK", o.r, IF t.is = "field" THEN Str(t.s) ELSE t.k.v>>)]
      ELSE [fs |-> k.fs, ops |-> Append(st.ops, <<"SETTABLE", o.r, k.r>>)]

\* a, t[i] = e, f: operands left to right, then the values, then the stores
\* right to left.
compileMultiAssign(fs0, s) ==
  LET nt == Len(s.ts)
      nv == Len(s.es)
      pre == FoldLeft(preRegisterUpvalues, fs0, s.ts)
      lhs == FoldLeft(LAMBDA st, i : TargetOperands(st, s.ts[i], Conflicts(pre, s.ts, i)),
                      [fs |-> pre, ops |-> <<>>], [i \in 1 .. nt |-> i])
      base == lhs.fs.freeReg
      ready == [lhs.fs EXCEPT !.bad = @ \/ base + nt > MaxRegs]
      multi == nv < nt /\ IsMultiRet(Last(s.es))
      vals == IF multi
              THEN Reserve(compileExprMultiRet(KeepAll(ready, Front(s.es), base), Last(s.es), nt - nv + 1), base + nt)
              ELSE LET f == KeepAll(ready, s.es, base)
                   IN  IF nv < nt THEN Reserve(LoadNil(f, base + nv, nt - nv - 1), base + nt) ELSE f
      store(f, i) == IF lhs.ops[i] = <<>> THEN assignName(f, s.ts[i].x, base + i - 1)
                     ELSE Emit(f, Instr(lhs.ops[i][1], lhs.ops[i][2], lhs.ops[i][3], base + i - 1, 0))
  IN  Free(FoldLeft(store, vals, Reverse([i \in 1 .. nt |-> i])), fs0.freeReg)

compileAssign(fs, s) ==
  IF Len(s.ts) = 1 /\ Len(s.es) = 1 THEN compileSingleAssign(fs, s.ts[1], s.es[1])
  ELSE compileMultiAssign(fs, s)

\* function x () end, function t.a () end.
compileFuncStmt(fs, s) ==
  LET made == compileFunc(fs, s.f)
      reg == made.freeReg
      fn == Emit(reserveReg(made), Instr("CLOSURE", reg, Len(made.protos) - 1, 0, 0))
      t == fn.freeReg
      field == Emit(compileExprToReg(reserveReg(fn), s.t.t, t), Instr("SETK", t, Str(s.t.s), reg, 0))
  IN  Free(IF s.t.is = "name" THEN assignName(fn, s.t.x, reg) ELSE field, reg)

\* The variable is in scope in its own function.
compileLocalFunc(fs, s) ==
  LET reg == fs.freeReg
      made == compileFunc(reserveReg(AddLocals(fs, <<Var(s.x, reg, "", NoConst)>>)), s.f)
  IN  Emit(made, Instr("CLOSURE", reg, Len(made.protos) - 1, 0, 0))

-----------------------------------------------------------------------------
(* Control.                                                                *)

\* A tail call is not possible while a variable waits to be closed.
compileReturn(fs, s) ==
  LET base == fs.freeReg
      e == s.es[1]
      n == Len(s.es)
      call == compileCall(fs, e, base, 0)
      open == compileExprMultiRet(KeepAll(fs, Front(s.es), base), Last(s.es), 0)
  IN  CASE n = 0 -> Emit(fs, Instr("RETURN0", 0, 0, 0, 0))
        [] n = 1 /\ ~needsCloseTBC(fs) /\ e.is \in {"call", "method"} ->
             [call EXCEPT !.code[PC(call)].op = "TAILCALL"]
        [] OTHER ->
             IF IsMultiRet(Last(s.es)) THEN Emit(open, Instr("RETURN", base, 0, 0, 0))
             ELSE IF n = 1 THEN Emit(compileExprToReg(fs, e, base), Instr("RETURN1", base, 0, 0, 0))
             ELSE Emit(KeepAll(fs, s.es, base), Instr("RETURN", base, n + 1, 0, 0))

\* A test in front of a jump that is taken when the condition is jumpOnFalse's
\* opposite: FALSE for the jump over a body.
RECURSIVE compileCondJump(_, _, _)
compileCondJump(fs, e, jumpOnFalse) ==
  LET k == IF jumpOnFalse THEN 1 ELSE 0
      r == plainLocalReg(fs, e)
      reg == fs.freeReg
  IN  CASE e.is = "paren" -> compileCondJump(fs, e.e, jumpOnFalse)
        [] e.is = "un" /\ e.op = "not" -> compileCondJump(fs, e.e, ~jumpOnFalse)
        [] isComparison(e) -> compileComparisonTest(fs, e, jumpOnFalse)
        [] e.is = "name" /\ r >= 0 -> Emit(fs, Instr("TEST", r, 0, 0, k))
        [] OTHER -> Free(Emit(compileExprToReg(fs, e, reg), Instr("TEST", reg, 0, 0, k)), reg)

isConstTrue(e) == e = True
isConstFalsy(e) == e \in {False, NilE}

scoped(fs, b) == leaveScope(compileBlock(enterScope(fs, FALSE), b, TRUE))

\* One arm; st = [fs, exits].  A literal condition of the first arm needs no test.
IfArm(st, arm, first, more) ==
  LET fs == st.fs
      always == first /\ isConstTrue(arm[1])
      never == first /\ isConstFalsy(arm[1])
      test == IF never THEN fs ELSE compileCondJump(fs, arm[1], FALSE)
      body == IF always THEN scoped(fs, arm[2]) ELSE scoped(emitJump(test), arm[2])
      out == IF more THEN emitJump(body) ELSE body
  IN  [fs |-> IF always THEN out ELSE patchJump(out, PC(test)),
       exits |-> IF more THEN Append(st.exits, PC(body)) ELSE st.exits]

\* s.els is <<>> or <<block>>.
compileIf(fs, s) ==
  LET n == Len(s.arms)
      arms == FoldLeft(LAMBDA st, i : IfArm(st, s.arms[i], i = 1, i > 1 \/ n > 1 \/ s.els # <<>>),
                       [fs |-> fs, exits |-> <<>>], [i \in 1 .. n |-> i])
      all == IF s.els = <<>> THEN arms.fs ELSE scoped(arms.fs, s.els[1])
  IN  FoldLeft(patchJump, all, arms.exits)

CloseAt(fs, reg, needed) == IF needed THEN Emit(fs, Instr("CLOSE", reg, 0, 0, 0)) ELSE fs

\* The variables of the innermost scope, when one of them has to be closed.
CloseScope(fs) == CloseAt(fs, Last(fs.scopes).baseReg, needsClose(fs, Last(fs.scopes).nLocals))

compileWhile(fs, s) ==
  LET start == PC(fs)
      in == enterScope(fs, TRUE)
      test == IF isConstTrue(s.c) THEN in ELSE compileCondJump(in, s.c, FALSE)
      body == compileBlock(IF isConstTrue(s.c) THEN in ELSE emitJump(test), s.b, TRUE)
      left == leaveScope(Jump(CloseScope(body), start))
  IN  IF isConstTrue(s.c) THEN left ELSE patchJump(left, PC(test))

\* The condition sees the variables of the body.  When they have to be closed,
\* the way back closes them in a stub that the way out jumps over.
compileRepeat(fs, s) ==
  LET start == PC(fs)
      body == compileBlock(enterScope(fs, TRUE), s.b, FALSE)
      test == compileCondJump(body, s.c, FALSE)
      back == emitJump(test)
      stub == CloseScope(patchJump(emitJump(back), PC(test)))
      again == Jump(stub, start)
      exit == CloseScope(patchJump(again, PC(back)))
  IN  leaveScope(CASE isConstTrue(s.c) -> CloseScope(body)
                   [] isConstFalsy(s.c) -> Jump(CloseScope(body), start)
                   [] OTHER -> IF needsClose(back, Last(back.scopes).nLocals) THEN exit
                               ELSE SJ(back, PC(test), start))

State(reg) == Var("(for state)", reg, "", NoConst)

\* Instructions that jump by a length: SetBx.
SetLength(fs, pc, n) == [fs EXCEPT !.code[pc + 1].b = n]

\* Three registers: the counter and the step, then the loop variable.
compileForNum(fs, s) ==
  LET base == fs.freeReg
      in == enterScope(fs, TRUE)
      range == KeepAll(in, s.es, base)
      full == Reserve(IF Len(s.es) = 3 THEN range ELSE LoadConst(range, base + 2, Num(1)), base + 3)
      prep == Emit(full, Instr("FORPREP", base, 0, 0, 0))
      vars == AddLocals(prep, <<State(base), State(base + 1), Var(s.x, base + 2, "const", NoConst)>>)
      body == compileBlock(Header(vars, 3), s.b, TRUE)
      closed == CloseAt(body, base + 2, \E i \in 1 .. NAct(body) : LET v == body.locals[i] IN
                          v.reg >= base + 2 /\ (v.captured \/ v.attr = "close"))
      len == PC(closed) - PC(full) - 1
      loop == Emit(closed, Instr("FORLOOP", base, len, 0, 0))
  IN  leaveScope(SetLength(loop, PC(full), len))

\* Four registers for iterator, state, control and closing value, of which
\* TFORPREP swaps the last two: the loop variables start at base + 3.
compileForIn(fs, s) ==
  LET base == fs.freeReg
      in == enterScope(fs, TRUE)
      n == Len(s.es)
      multi == n <= 4 /\ IsMultiRet(Last(s.es))
      some == KeepAll(in, SubSeq(s.es, 1, Min({n, 4})), base)
      extra == FoldLeft(LAMBDA f, e : Free(compileExprToReg(f, e, f.freeReg), f.freeReg), some, SubSeq(s.es, 5, n))
      values == IF multi THEN compileExprMultiRet(KeepAll(in, Front(s.es), base), Last(s.es), 5 - n)
                ELSE FoldLeft(LAMBDA f, i : Reserve(LoadNil(f, base + i, 0), base + i + 1), extra,
                              [i \in 1 .. 4 - n |-> n + i - 1])
      four == Reserve(values, base + 4)
      prep == Emit(AddLocals(four, <<State(base), State(base + 1), [State(base + 2) EXCEPT !.attr = "close"]>>),
                   Instr("TFORPREP", base, 0, 0, 0))
      nx == Len(s.xs)
      vars == [i \in 1 .. nx |-> Var(s.xs[i], base + 2 + i, IF i = 1 THEN "const" ELSE "", NoConst)]
      body == compileBlock(Header(Reserve(AddLocals(prep, vars), base + 3 + nx), 3 + nx), s.b, TRUE)
      closed == CloseAt(body, base + 3, needsClose(body, Last(body.scopes).nLocals + 3))
      call == Emit(closed, Instr("TFORCALL", base, 0, nx, 0))
      len == PC(closed) - PC(four) - 1
      loop == Emit(call, Instr("TFORLOOP", base, len + 1, 0, 0))
  IN  leaveScope(SetLength(loop, PC(four), len))

compileStmt(fs, s) ==
  CASE s.is = "local" -> compileLocal(fs, s)
    [] s.is = "assign" -> compileAssign(fs, s)
    [] s.is = "call" -> compileCall(fs, s.e, fs.freeReg, 1)
    [] s.is = "do" -> scoped(fs, s.b)
    [] s.is = "while" -> compileWhile(fs, s)
    [] s.is = "repeat" -> compileRepeat(fs, s)
    [] s.is = "if" -> compileIf(fs, s)
    [] s.is = "fornum" -> compileForNum(fs, s)
    [] s.is = "forin" -> compileForIn(fs, s)
    [] s.is = "break" -> compileBreak(fs)
    [] s.is = "goto" -> compileGoto(fs, s.l)
    [] s.is = "return" -> compileReturn(fs, s)
    [] s.is = "localfunc" -> compileLocalFunc(fs, s)
    [] s.is = "funcstat" -> compileFuncStmt(fs, s)

\* A run of labels is compiled last to first; after any other statement the
\* temporaries are free.  Nothing is compiled after the first error.
compileBlock(fs, block, labelEndOpt) ==
  LET run == Max({n \in 0 .. Len(block) : \A i \in 1 .. n : block[i].is = "label"})
      labels == FoldLeft(LAMBDA f, i : compileLabel(f, block[i].l, labelEndOpt /\ run = Len(block)),
                         fs, Reverse([i \in 1 .. run |-> i]))
      stmt == compileStmt(fs, block[1])
  IN  IF block = <<>> \/ fs.bad THEN fs
      ELSE IF run > 0 THEN compileBlock(labels, SubSeq(block, run + 1, Len(block)), labelEndOpt)
      ELSE compileBlock(Free(stmt, regTop(stmt)), Tail(block), labelEndOpt)
=============================================================================
