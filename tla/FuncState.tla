----------------------------- MODULE FuncState -----------------------------
(* The state of the compiler for one function (compiler/compiler.go):      *)
(* registers, local variables, scopes, labels, and the jumps whose target  *)
(* or whose OP_CLOSE is not known yet.                                     *)
(*                                                                         *)
(* An instruction is a record of its operands; constants stand in it by    *)
(* value.  Code positions count from 0 as in the code, so instruction pc   *)
(* is code[pc + 1].                                                        *)
EXTENDS LuaSyntax

CONSTANT MaxRegs   \* limits.MaxRegs

Instr(op, a, b, c, k) == [op |-> op, a |-> a, b |-> b, c |-> c, k |-> k]

\* fs.parent is the function around this one, <<>> for the main chunk.
newFuncState(params, isVararg, parent) ==
  [parent |-> parent, code |-> <<>>, freeReg |-> 0, maxReg |-> 0, locals |-> <<>>, scopes |-> <<>>,
   labels |-> <<>>, gotos |-> <<>>, jumps |-> <<>>, closes |-> <<>>,
   upvals |-> <<>>, protos |-> <<>>, np |-> params, va |-> isVararg, bad |-> FALSE]

PC(fs) == Len(fs.code)
NAct(fs) == Len(fs.locals)
Emit(fs, i) == [fs EXCEPT !.code = Append(@, i)]
Bad(fs) == [fs EXCEPT !.bad = TRUE]

-----------------------------------------------------------------------------
(* Registers.                                                              *)

\* The first register above the first n local variables.  An inlined constant
\* is a local variable without a register.
regBaseForLocals(fs, n) == Max({0} \cup {fs.locals[i].reg + 1 : i \in 1 .. n})

regTop(fs) == regBaseForLocals(fs, NAct(fs))

\* fs.freeReg is set and the high-water mark follows.
Reserve(fs, r) ==
  [fs EXCEPT !.freeReg = r, !.maxReg = Max({@, r}), !.bad = @ \/ r > MaxRegs]
reserveReg(fs) == Reserve(fs, fs.freeReg + 1)
Free(fs, r) == [fs EXCEPT !.freeReg = r]

\* How many items of a constructor wait in registers for one OP_SETLIST.
maxToStore(fs) ==
  LET numFree == MaxRegs - fs.freeReg IN
  CASE numFree >= 160 -> numFree \div 5
    [] numFree \in 80 .. 159 -> 10
    [] OTHER -> 1

-----------------------------------------------------------------------------
(* Local variables and upvalues.                                           *)

NoConst == <<>>
Var(x, reg, attr, val) ==
  [x |-> x, reg |-> reg, attr |-> attr, captured |-> FALSE, val |-> val]

AddLocals(fs, vars) == [fs EXCEPT !.locals = @ \o vars]

\* The innermost variable of that name, 0 if there is none.
IndexOfLocal(fs, x) == Max({0} \cup {i \in 1 .. NAct(fs) : fs.locals[i].x = x})

\* -1: not a local variable that has a register.
lookupLocal(fs, x) ==
  LET i == IndexOfLocal(fs, x) IN
  IF i = 0 \/ fs.locals[i].val # NoConst THEN -1 ELSE fs.locals[i].reg

lookupInlined(fs, x) ==
  LET i == IndexOfLocal(fs, x) IN IF i = 0 THEN NoConst ELSE fs.locals[i].val

\* Fault: only a variable that was inlined counts.
BugIsConst(fs, x) == lookupInlined(fs, x) # NoConst
isConst(fs, x) ==
  LET i == IndexOfLocal(fs, x) IN
  i # 0 /\ (fs.locals[i].val # NoConst \/ fs.locals[i].attr \in {"const", "close"})

needsClose(fs, from) ==
  \E i \in from + 1 .. NAct(fs) : fs.locals[i].attr = "close" \/ fs.locals[i].captured
needsCloseTBC(fs) == \E i \in 1 .. NAct(fs) : fs.locals[i].attr = "close"

markCaptured(fs, x) == [fs EXCEPT !.locals[IndexOfLocal(fs, x)].captured = TRUE]

\* -1: no upvalue of that name yet.
lookupUpvalue(fs, x) ==
  LET I == {i \in DOMAIN fs.upvals : fs.upvals[i].x = x} IN
  IF I = {} THEN -1 ELSE (CHOOSE i \in I : TRUE) - 1
addUpvalue(fs, x, inStack, idx) ==
  [fs EXCEPT !.upvals = Append(@, [x |-> x, inStack |-> inStack, idx |-> idx])]

-----------------------------------------------------------------------------
(* Jumps.  A jump that leaves scopes gets an OP_CLOSE in front of it when    *)
(* one of them turns out to own a captured or to-be-closed variable: the     *)
(* dead OP_CLOSE behind it keeps the room.                                 *)

SJ(fs, jpc, target) == [fs EXCEPT !.code[jpc + 1].b = target - (jpc + 1)]
emitJump(fs) == Emit(fs, Instr("JMP", 0, 0, 0, 0))
\* Fault: the jump keeps its length of nothing.
BugPatchJump(fs, jpc) == fs
patchJump(fs, jpc) == SJ(fs, jpc, PC(fs))
emitClosePlaceholder(fs) == Emit(fs, Instr("CLOSE", regTop(fs), 0, 0, 0))

swapInClose(fs, jpc, level) ==
  [fs EXCEPT !.code[jpc + 2] = fs.code[jpc + 1],
             !.code[jpc + 1] = Instr("CLOSE", level, 0, 0, 0)]

activateClose(fs, j) ==
  LET e == fs.jumps[j]
      swapped == [swapInClose(fs, e.pc, e.level) EXCEPT !.jumps[j].active = TRUE, !.jumps[j].pc = @ + 1]
  IN  IF e.active THEN fs
      ELSE IF e.target >= 0 THEN SJ(swapped, e.pc + 1, e.target) ELSE swapped

\* A jump whose destination has dst local variables and register level "level":
\* its number in fs.jumps is Len(fs.jumps) afterwards.
recordJumpClose(fs, jpc, target, dst, level, closed) ==
  LET e == [pc |-> jpc, target |-> target, nLocals |-> NAct(fs), dst |-> dst,
            level |-> level, active |-> closed]
      known == [fs EXCEPT !.jumps = Append(@, e)]
  IN  IF ~closed /\ NAct(fs) > dst
      THEN [emitClosePlaceholder(known) EXCEPT !.closes = Append(@, Len(known.jumps))]
      ELSE known

\* At the end of a block: which of the jumps that left it have to close.
resolveBlockCloses(fs, scope, blockUpval) ==
  LET settle(f, j) ==
        LET e == f.jumps[j]
            reached == e.dst >= scope.nLocals
            g == IF blockUpval /\ (~reached \/ e.dst < e.nLocals) THEN activateClose(f, j) ELSE f
        IN  IF e.nLocals <= scope.nLocals THEN [f EXCEPT !.closes = Append(@, j)]
            ELSE IF reached THEN g
            ELSE [g EXCEPT !.jumps[j].nLocals = scope.nLocals, !.closes = Append(@, j)]
  IN  FoldLeft(settle, [fs EXCEPT !.closes = <<>>], fs.closes)

-----------------------------------------------------------------------------
(* Scopes.                                                                 *)

enterScope(fs, isLoop) ==
  [fs EXCEPT !.scopes = Append(@, [nLocals |-> NAct(fs), baseReg |-> regTop(fs),
      isLoop |-> isLoop, firstLabel |-> Len(fs.labels), firstGoto |-> Len(fs.gotos),
      header |-> 0, breaks |-> <<>>])]

Header(fs, n) == [fs EXCEPT !.scopes[Len(fs.scopes)].header = n]

leaveScope(fs) ==
  LET scope == Last(fs.scopes)
      blockUpval == NAct(fs) > scope.nLocals /\ needsClose(fs, scope.nLocals)
      closed == IF blockUpval THEN Emit(fs, Instr("CLOSE", scope.baseReg, 0, 0, 0)) ELSE fs
      left == [closed EXCEPT !.scopes = Front(@),
                             !.locals = SubSeq(@, 1, scope.nLocals),
                             !.labels = SubSeq(@, 1, scope.firstLabel)]
      settled == resolveBlockCloses(Free(left, regTop(left)), scope, blockUpval)
      escaped == [settled EXCEPT !.gotos = [i \in DOMAIN @ |->
                    IF @[i].nLocals > scope.nLocals
                    THEN [@[i] EXCEPT !.nLocals = scope.nLocals, !.needClose = @ \/ blockUpval]
                    ELSE @[i]]]
  IN  FoldLeft(LAMBDA f, j : patchJump(f, f.jumps[j].pc), escaped, scope.breaks)

\* The innermost loop, 0 if there is none.
findLoopScope(fs) == Max({0} \cup {i \in DOMAIN fs.scopes : fs.scopes[i].isLoop})

-----------------------------------------------------------------------------
(* break, goto and labels.                                                 *)

compileBreak(fs) ==
  LET i == findLoopScope(fs)
      scope == fs.scopes[i]
      closed == needsClose(fs, scope.nLocals)
      before == IF closed THEN Emit(fs, Instr("CLOSE", scope.baseReg, 0, 0, 0)) ELSE fs
      left == recordJumpClose(emitJump(before), PC(before), -1, scope.nLocals, scope.baseReg, closed)
  IN  IF i = 0 THEN Bad(fs)
      ELSE [left EXCEPT !.scopes[i].breaks = Append(@, Len(left.jumps))]

compileGoto(fs, l) ==
  LET I == {i \in DOMAIN fs.labels : fs.labels[i].l = l}
      lbl == fs.labels[Min(I)]
      level == regBaseForLocals(fs, lbl.nLocals)
      closed == needsClose(fs, lbl.nLocals)
      before == IF closed THEN Emit(fs, Instr("CLOSE", level, 0, 0, 0)) ELSE fs
      back == SJ(emitJump(before), PC(before), lbl.pc)
      forward == IF NAct(fs) > 0 THEN emitClosePlaceholder(emitJump(fs)) ELSE emitJump(fs)
  IN  IF I # {} THEN recordJumpClose(back, PC(before), lbl.pc, lbl.nLocals, level, closed)
      ELSE [forward EXCEPT !.gotos = Append(@,
              [l |-> l, pc |-> PC(fs), nLocals |-> NAct(fs), hasClose |-> NAct(fs) > 0,
               needClose |-> FALSE])]

\* A goto this label answers: it gets its OP_CLOSE when it leaves the scope of a
\* captured or to-be-closed variable, and its jump.
resolveGoto(fs, g, scope, n) ==
  IF g.hasClose /\ (g.needClose \/ (n < g.nLocals /\ needsClose(fs, scope.nLocals)))
  THEN patchJump(swapInClose(fs, g.pc, regBaseForLocals(fs, n)), g.pc + 1)
  ELSE patchJump(fs, g.pc)

\* A label at the end of its block lies outside the scope of the block's own
\* variables, those of a loop's header excepted.  A goto that would enter the scope
\* of a variable is an error.
compileLabel(fs, l, atBlockEnd) ==
  LET scope == Last(fs.scopes)
      n == IF atBlockEnd THEN scope.nLocals + scope.header ELSE NAct(fs)
      labelled == [fs EXCEPT !.labels = Append(@, [l |-> l, pc |-> PC(fs), nLocals |-> n])]
      mine(i) == i > scope.firstGoto /\ fs.gotos[i].l = l
      resolve(f, i) ==
        IF mine(i) /\ fs.gotos[i].nLocals >= n THEN resolveGoto(f, fs.gotos[i], scope, n)
        ELSE [(IF mine(i) THEN Bad(f) ELSE f) EXCEPT !.gotos = Append(@, fs.gotos[i])]
  IN  IF \E i \in DOMAIN fs.labels : fs.labels[i].l = l THEN Bad(fs)
      ELSE FoldLeft(resolve, [labelled EXCEPT !.gotos = <<>>], [i \in DOMAIN fs.gotos |-> i])
=============================================================================
