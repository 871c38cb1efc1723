---------------------------- MODULE Interpreter ----------------------------
(* The dispatch loop (vm/vm_exec.go, execute) running what the compiler    *)
(* made of a program: one action per group of instructions.                *)
(*                                                                         *)
(* A Go function of the host is external: a call of one is recorded in     *)
(* "trace" with its arguments and returns any of Answers.  A closable      *)
(* object is external too: closing it is recorded.                         *)
(*                                                                         *)
(* What loads a text and what a program means are parameters: CompileText  *)
(* and SourceMeaning in every instance.                                    *)
EXTENDS Compiler, Parser, LuaPrinter

CONSTANTS
  Load(_),      \* what load makes of a program's text
  MeantBy(_, _, _),  \* what a program does, given the tables and the host's answers
  Programs,     \* a sequence of programs (blocks of statements)
  Tables,       \* the tables they start with; the first holds the global variables
  Answers,      \* what a call of a host function may return (sequences of values)
  MaxAnswers,   \* bound: host calls of one run; the next one raises an error
  StackSize     \* bound: slots of the register stack

\* A program is printed; load parses its text, then compiles the tree.
CompileText(source) ==
  LET block == Parse(PrintBlock(source))
  IN  IF block[2] = 0 THEN [proto |-> <<>>, bad |-> TRUE] ELSE compileChunk(block[1])
Compiled == FoldLeft(LAMBDA acc, block : Append(acc, Load(block)), <<>>, Programs)

VARIABLES
  prog,      \* the program that runs, an index into Programs
  stack,     \* vm.stack: 0 .. StackSize - 1 -> value
  top,       \* vm.top
  frames,    \* vm.callStack: [cl, pc, base, va]
  closures,  \* the closures made so far: [path, ups]; path finds the prototype
  upvals,    \* the upvalues made so far: [open, at, v]
  tables,    \* the tables made so far: key -> value; the first holds the globals
  tbc,       \* vm.tbcVars: the slots of the variables to be closed
  trace,     \* what the program did to the outside
  answers,   \* what the host functions returned
  status     \* "running", "done", "error", "rejected" by the compiler

memory == <<closures, upvals, tables>>
outside == <<trace, answers>>
vars == <<prog, stack, top, frames, memory, tbc, outside, status>>

-----------------------------------------------------------------------------
RECURSIVE ProtoAt(_, _)
ProtoAt(proto, path) == IF path = <<>> THEN proto ELSE ProtoAt(proto.protos[path[1]], Tail(path))
ProtoOf(cl) == ProtoAt(Compiled[prog].proto, closures[cl].path)

F == Last(frames)
P == ProtoOf(F.cl)
FrameTop(f) == f.base + ProtoOf(f.cl).stack
AtEnd == F.pc = Len(P.code)
I == P.code[F.pc + 1]
Ready(ops) == status = "running" /\ ~AtEnd /\ I.op \in ops

R(i) == stack[F.base + i]
\* R[i], R[i + 1], ... := vs
Write(st, i, vs) == [j \in DOMAIN st |-> IF j - i \in 0 .. Len(vs) - 1 THEN vs[j - i + 1] ELSE st[j]]
Clear(st, from, to) == [j \in DOMAIN st |-> IF j \in from .. to - 1 THEN Nil ELSE st[j]]
\* The stack slots from .. to - 1.
Slots(st, from, to) == [i \in 1 .. to - from |-> st[from + i - 1]]

Step(fs, skip) == [fs EXCEPT ![Len(fs)].pc = @ + 1 + skip]
Next1 == frames' = Step(frames, 0)
Goto(skip) == frames' = Step(frames, skip)

\* The run ends with an error.
Raise == status' = "error" /\ UNCHANGED <<prog, stack, top, frames, memory, tbc, outside>>
\* R[A] := v, next instruction.
Result(v) ==
  /\ stack' = Write(stack, F.base + I.a, <<v>>)
  /\ Next1
  /\ UNCHANGED <<prog, top, memory, tbc, outside, status>>
\* <<>>: the operation has no result.
Try(r) == IF r = <<>> THEN Raise ELSE Result(r[1])

-----------------------------------------------------------------------------
(* Upvalues and variables to be closed.                                    *)

UpGet(u) == IF upvals[u].open THEN stack[upvals[u].at] ELSE upvals[u].v
Up(i) == closures[F.cl].ups[i + 1]

\* Fault: the slot's value is not copied out.
BugCloseUps(ups, level) ==
  [u \in DOMAIN ups |-> IF ups[u].open /\ ups[u].at > level
                        THEN [open |-> FALSE, at |-> 0, v |-> stack[ups[u].at]] ELSE ups[u]]
CloseUps(ups, level) ==
  [u \in DOMAIN ups |-> IF ups[u].open /\ ups[u].at >= level
                        THEN [open |-> FALSE, at |-> 0, v |-> stack[ups[u].at]] ELSE ups[u]]

\* The variables at "level" and above, newest first; nil and false are not closed.
Closes(level) ==
  LET due == Reverse(SelectSeq(tbc, LAMBDA i : i >= level))
  IN  [i \in DOMAIN due |-> <<"close", stack[due[i]]>>]
CloseFrom(level, then) ==
  /\ upvals' = CloseUps(upvals, level)
  /\ tbc' = SelectSeq(tbc, LAMBDA i : i < level)
  /\ trace' = trace \o SelectSeq(Closes(level), LAMBDA e : Truthy(e[2])) \o then

\* One upvalue of a new closure: [ups (all upvalues), mine].
Capture(acc, d) ==
  LET at == F.base + d.idx
      found == {u \in DOMAIN acc.ups : acc.ups[u].open /\ acc.ups[u].at = at}
  IN  IF ~d.inStack THEN [acc EXCEPT !.mine = Append(@, Up(d.idx))]
      ELSE IF found # {} THEN [acc EXCEPT !.mine = Append(@, CHOOSE u \in found : TRUE)]
      ELSE [ups |-> Append(acc.ups, [open |-> TRUE, at |-> at, v |-> Nil]),
            mine |-> Append(acc.mine, Len(acc.ups) + 1)]

-----------------------------------------------------------------------------
(* Tables.                                                                 *)

Get(t, k) == IF t[1] = "table" THEN <<GetKey(tables[t[2]], k)>> ELSE <<>>
Store(t, k, v) ==
  IF t[1] # "table" \/ k = Nil THEN Raise
  ELSE /\ tables' = [tables EXCEPT ![t[2]] = SetKey(@, k, v)]
       /\ Next1
       /\ UNCHANGED <<prog, stack, top, closures, upvals, tbc, outside, status>>
\* The C operand of a store.
RK == IF I.k = 1 THEN I.c ELSE R(I.c)

Length(v) == CASE v[1] = "str" -> <<Num(Len(v[2]))>>
               [] v[1] = "table" -> <<Num(Border(tables[v[2]]))>>
               [] OTHER -> <<>>

-----------------------------------------------------------------------------
(* Calls and returns.                                                      *)

\* The values R[A + 1], ...: B - 1 of them, or all up to vm.top.
Args == LET from == F.base + I.a + 1 IN Slots(stack, from, IF I.b = 0 THEN top ELSE from + I.b - 1)

\* The registers of the callee's frame at "base", and the frame.
Enter(cl, args, base, under, fs) ==
  LET p == ProtoOf(cl)
      params == Pad(args, p.np)
      slot == IF p.va THEN <<Nil>> ELSE <<>>
  IN  /\ stack' = Write(under, base, params \o slot)
      /\ frames' = Append(fs, [cl |-> cl, pc |-> 0, base |-> base,
                               va |-> IF p.va THEN SubSeq(args, p.np + 1, Len(args)) ELSE <<>>])
      /\ top' = base + p.stack

\* The results of a call go where the caller's instruction wants them; the
\* registers above them are cleared up to "end".
CallResults(st, f, i, results, end) ==
  LET n == IF i.c = 0 THEN Len(results) ELSE i.c - 1
      at == f.base + i.a
  IN  /\ stack' = Clear(Write(st, at, Pad(results, n)), at + n, end)
      /\ top' = IF i.c = 0 THEN at + n ELSE FrameTop(f)
IteratorResults(st, f, i, results, end) ==
  /\ stack' = Write(Clear(st, FrameTop(f), end), f.base + i.a + 3, Pad(results, i.c))
  /\ top' = FrameTop(f)

\* What the main chunk returns goes to its caller, the host.
ToHost(results) == IF Len(frames) = 1 THEN << <<"return", ShowAll(results)>> >> ELSE <<>>

\* popInLoopFrame, and the ends of call and doCall.
PopFrame(results) ==
  LET rest == Front(frames)
      f == Last(rest)
      i == ProtoOf(f.cl).code[f.pc]
  IN  IF Len(frames) = 1
      THEN /\ status' = "done"
           /\ frames' = <<>>
           /\ UNCHANGED <<prog, stack, top, closures, tables, answers>>
      ELSE /\ frames' = rest
           /\ IF i.op = "TFORCALL" THEN IteratorResults(stack, f, i, results, FrameTop(F))
              ELSE CallResults(stack, f, i, results, FrameTop(F))
           /\ UNCHANGED <<prog, closures, tables, answers, status>>

\* A host function runs and returns r.
Answer(f, args, r) ==
  /\ Len(answers) < MaxAnswers
  /\ trace' = Append(trace, <<"call", f[2], ShowAll(args)>>)
  /\ answers' = Append(answers, r)

HostRaises(f, args) ==
  /\ Len(answers) = MaxAnswers
  /\ status' = "error"
  /\ trace' = Append(trace, <<"call", f[2], ShowAll(args)>>)
  /\ UNCHANGED <<prog, stack, top, frames, memory, tbc, answers>>

-----------------------------------------------------------------------------
(* The instructions.                                                       *)

DoLoad ==
  /\ Ready({"LOADK", "MOVE", "GETUPVAL"})
  /\ Result(CASE I.op = "LOADK" -> I.b [] I.op = "MOVE" -> R(I.b) [] I.op = "GETUPVAL" -> UpGet(Up(I.b)))

DoLoadNil ==
  /\ Ready({"LOADNIL"})
  /\ stack' = Clear(stack, F.base + I.a, F.base + I.a + I.b + 1)
  /\ Next1
  /\ UNCHANGED <<prog, top, memory, tbc, outside, status>>

DoSetUpval ==
  /\ Ready({"SETUPVAL"})
  /\ LET u == Up(I.b) IN
       IF upvals[u].open
       THEN stack' = [stack EXCEPT ![upvals[u].at] = R(I.a)] /\ UNCHANGED upvals
       ELSE upvals' = [upvals EXCEPT ![u].v = R(I.a)] /\ UNCHANGED stack
  /\ Next1
  /\ UNCHANGED <<prog, top, closures, tables, tbc, outside, status>>

DoGet ==
  /\ Ready({"GETTABUP", "GETK", "GETTABLE"})
  /\ Try(CASE I.op = "GETTABUP" -> Get(UpGet(Up(I.b)), I.c)
           [] I.op = "GETK" -> Get(R(I.b), I.c)
           [] I.op = "GETTABLE" -> Get(R(I.b), R(I.c)))

DoSet ==
  /\ Ready({"SETTABUP", "SETK", "SETTABLE"})
  /\ CASE I.op = "SETTABUP" -> Store(UpGet(Up(I.a)), I.b, RK)
       [] I.op = "SETK" -> Store(R(I.a), I.b, RK)
       [] I.op = "SETTABLE" -> Store(R(I.a), R(I.b), RK)

DoNewTable ==
  /\ Ready({"NEWTABLE"})
  /\ tables' = Append(tables, <<>>)
  /\ stack' = Write(stack, F.base + I.a, << <<"table", Len(tables) + 1>> >>)
  /\ Next1
  /\ UNCHANGED <<prog, top, closures, upvals, tbc, outside, status>>

\* With B = 0 the items reach up to vm.top, which goes back to the frame's.
DoSetList ==
  /\ Ready({"SETLIST"})
  /\ LET from == F.base + I.a + 1
         items == Slots(stack, from, IF I.b = 0 THEN top ELSE from + I.b)
     IN  tables' = [tables EXCEPT ![R(I.a)[2]] =
                     FoldLeft(LAMBDA tab, i : SetKey(tab, Num(I.c + i - 1), items[i]), @,
                              [i \in DOMAIN items |-> i])]
  /\ top' = IF I.b = 0 THEN FrameTop(F) ELSE top
  /\ Next1
  /\ UNCHANGED <<prog, stack, closures, upvals, tbc, outside, status>>

DoSelf ==
  /\ Ready({"SELF"})
  /\ LET m == Get(R(I.b), I.c) IN
       IF m = <<>> THEN Raise
       ELSE /\ stack' = Write(stack, F.base + I.a, <<m[1], R(I.b)>>)
            /\ Next1
            /\ UNCHANGED <<prog, top, memory, tbc, outside, status>>

\* The MMBIN behind an arithmetic instruction does nothing.
ArithOps == {"ADD", "SUB", "MUL", "IDIV"}
OpOf(i) == CHOOSE op \in DOMAIN Arith : Arith[op] = i
DoArithmetic ==
  /\ Ready(ArithOps \cup {"ADDI", "UNM", "NOT", "LEN", "CONCAT"})
  /\ Try(CASE I.op \in ArithOps -> Arithmetic(OpOf(I.op), R(I.b), R(I.c))
           [] I.op = "ADDI" -> Arithmetic("+", R(I.b), Num(I.c))
           [] I.op = "UNM" -> Arithmetic("-", Num(0), R(I.b))
           [] I.op = "NOT" -> <<Bool(~Truthy(R(I.b)))>>
           [] I.op = "LEN" -> Length(R(I.b))
           [] I.op = "CONCAT" -> Concat(Slots(stack, F.base + I.a, F.base + I.a + I.b)))

DoNothing ==
  /\ Ready({"MMBIN", "MMBINI", "VARARGPREP"})
  /\ Next1
  /\ UNCHANGED <<prog, stack, top, memory, tbc, outside, status>>

\* The next instruction is skipped when the result differs from k.
Skip(yes) ==
  /\ Goto(IF yes # (I.k = 1) THEN 1 ELSE 0)
  /\ UNCHANGED <<prog, stack, top, memory, tbc, outside, status>>

DoCompare ==
  /\ Ready({"EQ", "LT", "LE", "EQK", "LTI", "LEI", "GTI", "GEI"})
  /\ LET x == R(I.a)
         y == IF I.op \in {"EQ", "LT", "LE"} THEN R(I.b) ELSE I.b
         r == CASE I.op \in {"EQ", "EQK"} -> <<x = y>>
                [] I.op \in {"LT", "LTI"} -> LessThan(x, y, FALSE)
                [] I.op \in {"LE", "LEI"} -> LessThan(x, y, TRUE)
                [] I.op = "GTI" -> LessThan(y, x, FALSE)
                [] I.op = "GEI" -> LessThan(y, x, TRUE)
     IN  IF r = <<>> THEN Raise ELSE Skip(r[1])

DoTest == Ready({"TEST"}) /\ Skip(Truthy(R(I.a)))

DoTestSet ==
  /\ Ready({"TESTSET"})
  /\ IF Truthy(R(I.b)) # (I.k = 1) THEN Skip(I.k # 1) ELSE Result(R(I.b))

DoJump ==
  /\ Ready({"JMP"})
  /\ Goto(I.b)
  /\ UNCHANGED <<prog, stack, top, memory, tbc, outside, status>>

DoClose ==
  /\ Ready({"CLOSE"})
  /\ CloseFrom(F.base + I.a, <<>>)
  /\ Next1
  /\ UNCHANGED <<prog, stack, top, closures, tables, answers, status>>

DoTbc ==
  /\ Ready({"TBC"})
  /\ IF IsClosable(R(I.a))
     THEN /\ tbc' = Append(tbc, F.base + I.a)
          /\ Next1
          /\ UNCHANGED <<prog, stack, top, memory, outside, status>>
     ELSE Raise

DoClosure ==
  /\ Ready({"CLOSURE"})
  /\ LET new == FoldLeft(Capture, [ups |-> upvals, mine |-> <<>>], P.protos[I.b + 1].upvals) IN
       /\ upvals' = new.ups
       /\ closures' = Append(closures, [path |-> Append(closures[F.cl].path, I.b + 1), ups |-> new.mine])
  /\ stack' = Write(stack, F.base + I.a, << <<"fn", Len(closures) + 1>> >>)
  /\ Next1
  /\ UNCHANGED <<prog, top, tables, tbc, outside, status>>

DoVararg ==
  /\ Ready({"VARARG"})
  /\ LET n == IF I.c = 0 THEN Len(F.va) ELSE I.c - 1 IN
       /\ stack' = Write(stack, F.base + I.a, Pad(F.va, n))
       /\ top' = IF I.c = 0 THEN F.base + I.a + n ELSE top
  /\ Next1
  /\ UNCHANGED <<prog, memory, tbc, outside, status>>

\* R[A]: how many more iterations, R[A + 1]: the step, R[A + 2]: the variable.
DoForPrep ==
  /\ Ready({"FORPREP"})
  /\ LET init == R(I.a)
         limit == R(I.a + 1)
         step == R(I.a + 2)
         runs == IF step[2] > 0 THEN init[2] <= limit[2] ELSE init[2] >= limit[2]
         count == IF step[2] > 0 THEN (limit[2] - init[2]) \div step[2]
                  ELSE (init[2] - limit[2]) \div (-step[2])
     IN  IF ~(IsNum(init) /\ IsNum(limit) /\ IsNum(step)) \/ step = Num(0) THEN Raise
         ELSE /\ stack' = IF runs THEN Write(stack, F.base + I.a, <<Num(count), step, init>>) ELSE stack
              /\ Goto(IF runs THEN 0 ELSE I.b + 1)
              /\ UNCHANGED <<prog, top, memory, tbc, outside, status>>

DoForLoop ==
  /\ Ready({"FORLOOP"})
  /\ LET count == R(I.a)[2] IN
       /\ stack' = IF count = 0 THEN stack
                   ELSE Write(stack, F.base + I.a,
                              <<Num(count - 1), R(I.a + 1), Num(R(I.a + 2)[2] + R(I.a + 1)[2])>>)
       /\ Goto(IF count = 0 THEN 0 ELSE -(I.b + 1))
  /\ UNCHANGED <<prog, top, memory, tbc, outside, status>>

\* The control and the closing value change places; the latter is to be closed.
DoTForPrep ==
  /\ Ready({"TFORPREP"})
  /\ IF IsClosable(R(I.a + 3))
     THEN /\ stack' = Write(stack, F.base + I.a + 2, <<R(I.a + 3), R(I.a + 2)>>)
          /\ tbc' = Append(tbc, F.base + I.a + 2)
          /\ Goto(I.b)
          /\ UNCHANGED <<prog, top, memory, outside, status>>
     ELSE Raise

DoTForLoop ==
  /\ Ready({"TFORLOOP"})
  /\ Goto(IF R(I.a + 3) = Nil THEN 0 ELSE -(I.b + 1))
  /\ UNCHANGED <<prog, stack, top, memory, tbc, outside, status>>

Callee == R(I.a)
IteratorArgs == <<R(I.a + 1), R(I.a + 3)>>

\* The callee's registers start where the caller's end.
DoCallLua ==
  /\ Ready({"CALL", "TFORCALL"})
  /\ Callee[1] = "fn"
  /\ Enter(Callee[2], IF I.op = "CALL" THEN Args ELSE IteratorArgs, FrameTop(F), stack, Step(frames, 0))
  /\ UNCHANGED <<prog, memory, tbc, outside, status>>

\* The arguments are where they are; four slots behind them are cleared; the
\* results start at the function's own register.
DoCallHost ==
  /\ Ready({"CALL"})
  /\ Callee[1] = "host"
  /\ \E r \in Answers :
       /\ Answer(Callee, Args, r)
       /\ LET end == F.base + I.a + 1 + Len(Args)
          IN  CallResults(Write(Clear(stack, end, end + 4), F.base + I.a, r), F, I, r, FrameTop(F))
  /\ Next1
  /\ UNCHANGED <<prog, memory, tbc, status>>

\* An iterator of the host works above the control variable.
DoIterateHost ==
  /\ Ready({"TFORCALL"})
  /\ Callee[1] = "host"
  /\ \E r \in Answers :
       /\ Answer(Callee, IteratorArgs, r)
       /\ LET staged == Write(stack, F.base + I.a + 4, <<Callee>> \o IteratorArgs)
          IN  /\ stack' = Write(Write(staged, F.base + I.a + 4, r), F.base + I.a + 3, Pad(r, I.c))
              /\ top' = top
  /\ Next1
  /\ UNCHANGED <<prog, memory, tbc, status>>

\* A tail call closes the frame's variables and takes the frame over.
DoTailCallLua ==
  /\ Ready({"TAILCALL"})
  /\ Callee[1] = "fn"
  /\ CloseFrom(F.base, <<>>)
  /\ LET end == F.base + ProtoOf(Callee[2]).stack
     IN  Enter(Callee[2], Args, F.base, Clear(stack, end, FrameTop(F)), Front(frames))
  /\ UNCHANGED <<prog, closures, tables, answers, status>>

\* A host function is called, and what it returns is returned.
DoTailCallHost ==
  /\ Ready({"TAILCALL"})
  /\ Callee[1] = "host"
  /\ \E r \in Answers :
       /\ Len(answers) < MaxAnswers
       /\ answers' = Append(answers, r)
       /\ trace' = Append(trace, <<"call", Callee[2], ShowAll(Args)>>) \o ToHost(r)
       /\ upvals' = CloseUps(upvals, F.base)
       /\ IF Len(frames) = 1
          THEN status' = "done" /\ frames' = <<>> /\ UNCHANGED <<stack, top>>
          ELSE /\ frames' = Front(frames)
               /\ LET f == Last(Front(frames))
                      i == ProtoOf(f.cl).code[f.pc]
                  IN  IF i.op = "TFORCALL" THEN IteratorResults(stack, f, i, r, FrameTop(F))
                      ELSE CallResults(stack, f, i, r, FrameTop(F))
               /\ UNCHANGED status
  /\ UNCHANGED <<prog, closures, tables, tbc>>

DoCallBad ==
  /\ Ready({"CALL", "TAILCALL", "TFORCALL"})
  /\ CASE Callee[1] = "fn" -> FALSE
       [] Callee[1] = "host" -> HostRaises(Callee, IF I.op = "TFORCALL" THEN IteratorArgs ELSE Args)
       [] OTHER -> Raise

\* The results are read before anything is closed.
DoReturn ==
  /\ Ready({"RETURN", "RETURN0", "RETURN1"})
  /\ LET from == F.base + I.a
         results == CASE I.op = "RETURN0" -> <<>>
                      [] I.op = "RETURN1" -> <<R(I.a)>>
                      [] I.op = "RETURN" -> Slots(stack, from, IF I.b = 0 THEN top ELSE from + I.b - 1)
     IN  /\ CloseFrom(F.base, ToHost(results))
         /\ PopFrame(results)

\* The code may end without a return instruction.
DoRunOff ==
  /\ status = "running" /\ AtEnd
  /\ PopFrame(<<>>)
  /\ UNCHANGED <<upvals, tbc, trace>>

\* The program has ended, with an error perhaps.
Finished == status # "running" /\ UNCHANGED vars

-----------------------------------------------------------------------------
Init ==
  /\ prog \in DOMAIN Compiled
  /\ stack = [i \in 0 .. StackSize - 1 |-> Nil]
  /\ tables = Tables
  /\ upvals = << [open |-> FALSE, at |-> 0, v |-> <<"table", 1>>] >>
  /\ closures = << [path |-> <<>>, ups |-> <<1>>] >>
  /\ tbc = <<>> /\ trace = <<>> /\ answers = <<>>
  /\ LET c == Compiled[prog] IN
       IF c.bad THEN status = "rejected" /\ frames = <<>> /\ top = 0
       ELSE /\ status = "running"
            /\ frames = << [cl |-> 1, pc |-> 0, base |-> 0, va |-> <<>>] >>
            /\ top = c.proto.stack

Next ==
  \/ DoLoad \/ DoLoadNil \/ DoSetUpval \/ DoGet \/ DoSet \/ DoNewTable \/ DoSetList \/ DoSelf
  \/ DoArithmetic \/ DoNothing \/ DoCompare \/ DoTest \/ DoTestSet \/ DoJump
  \/ DoClose \/ DoTbc \/ DoClosure \/ DoVararg
  \/ DoForPrep \/ DoForLoop \/ DoTForPrep \/ DoTForLoop
  \/ DoCallLua \/ DoCallHost \/ DoIterateHost \/ DoTailCallLua \/ DoTailCallHost \/ DoCallBad
  \/ DoReturn \/ DoRunOff \/ Finished

Spec == Init /\ [][Next]_vars /\ WF_vars(Next)

-----------------------------------------------------------------------------
Source == INSTANCE LuaMeaning
SourceMeaning(block, given, answered) ==
  LET end == Source!Meaning(block, given, answered)
  IN  [trace |-> end.trace, status |-> end.status]

LegalPrograms == LET all == Programs IN {p \in DOMAIN all : Source!Legal(all[p])}

\* A program that has ended did to the outside what its source says, and ended
\* the way its source says (compiler and dispatch loop together).
MeansItsSource ==
  status \in {"done", "error"} =>
    [trace |-> trace, status |-> status] = MeantBy(Programs[prog], Tables, answers)

\* The compiler rejects the programs that break a rule of the language, no
\* others: assignments to constants, jumps into the scope of a variable or to
\* no label, break outside a loop, ... outside a vararg function.
RejectsExactly ==
  status = "rejected" <=> prog \notin LegalPrograms

\* vm.top, where the next frame of a host function goes, is the end of the
\* running frame's registers, except between an instruction that leaves a list
\* of values of any length and the one that takes it (the tail call's "vm.top
\* sits in the middle of the callee's live registers").
\* And an open upvalue is a register of a frame that is still there, the only
\* one of its register.
FramesKeepRegisters ==
  /\ top <= StackSize
  /\ (status = "running" /\ top # FrameTop(F)) =>
       /\ ~AtEnd
       /\ I.op \in {"CALL", "TAILCALL", "RETURN", "SETLIST"} /\ I.b = 0
       /\ top >= F.base + I.a
  /\ status = "running" =>
    \A u \in DOMAIN upvals : upvals[u].open =>
      /\ \E i \in DOMAIN frames : upvals[u].at \in frames[i].base .. FrameTop(frames[i]) - 1
      /\ \A w \in DOMAIN upvals : (upvals[w].open /\ upvals[w].at = upvals[u].at) => w = u

\* No jump leads into a loop the source does not have: every program ends, as
\* the host refuses the call after MaxAnswers.
Terminates == <>(status # "running")
=============================================================================
