------------------------------- MODULE Unwind -------------------------------
(***************************************************************************)
(* How one VM of golua unwinds: Lua calls, protected calls, the closing of *)
(* to-be-closed variables, open upvalues and xpcall's message handler, as  *)
(* vm/vm.go, vm/vm_upvalue.go, vm/vm_exec.go and stdlib/globals.go         *)
(* implement them with Go panics and deferred recovers.                    *)
(*                                                                         *)
(* The Lua program is arbitrary: a running Lua frame may at any moment     *)
(* declare a variable, leave a block, call, return or raise an error.      *)
(* What the model fixes is the interpreter's part: the Go stack ("go")     *)
(* with the local variables of the Go functions on it, and the VM's fields *)
(* these functions share: callStack ("cs"), top, the register stack,       *)
(* tbcVars ("tbc"), openUpvalues ("uv") and the message handler ("mh").    *)
(*                                                                         *)
(* A Lua value is left out unless it is a variable's: "stack" maps the     *)
(* registers that hold a to-be-closed object or a captured local to the    *)
(* number of that variable.  Error values are numbered in the order they   *)
(* are raised, and -e stands for what the message handler makes of error   *)
(* e.  Lua functions take no parameters and have NLocals local variables.  *)
(***************************************************************************)
EXTENDS Integers, Sequences, FiniteSets, TLC, SequencesExt, Functions

CONSTANTS
    Roots,         \* how the VM's outermost function is called: "run", "co"
    Kinds,         \* the protected calls a Lua function may make
    NLocals,       \* local variables of a Lua function
    InnerCloses,   \* bound: pending variables of a handler callCloseHandlers runs
    InnerAsked,    \* the same when a message handler will be asked
    InnerCaptures, \* may closures capture the locals of such a handler?
    MaxVars,       \* bound: variables ever declared
    MaxErr,        \* bound: errors ever raised
    MaxDepth,      \* bound: frames on the call stack when a Lua function calls
    ClosingDepth,  \* the same in the handlers of a coroutine that is closed
    MaxTries,      \* failures of the message handler that are retried (200)
    KillMidUnwind  \* may a coroutine be closed inside an unwinding's handler?

ASSUME UnwindAssumption ==
    /\ Roots \subseteq {"run", "co"} /\ Roots # {}
    /\ Kinds \subseteq {"pcall", "xpcall", "callback"}
    /\ {NLocals, InnerCloses, InnerAsked, MaxVars, MaxErr, MaxDepth, ClosingDepth,
        MaxTries} \subseteq Nat
    /\ {InnerCaptures, KillMidUnwind} \subseteq BOOLEAN

VARIABLES
    go,       \* the Go stack: the calls in progress, outermost first
    cs,       \* vm.callStack: the base register of each call frame
    top,      \* vm.top
    stack,    \* vm.stack: the registers that hold a variable
    tbc,      \* vm.tbcVars
    uv,       \* vm.openUpvalues, each with the variable it was made for
    mh,       \* vm.msgHandler (the xpcall it is of, 0: nil), -Used, -Result
    panic,    \* the error a Go panic carries down the stack, 0: none
    nvars,    \* variables declared so far
    nerr,     \* errors raised so far
    closed    \* variables whose __close has been called, and captured locals

vars == <<go, cs, top, stack, tbc, uv, mh, panic, nvars, nerr, closed>>
machine == <<cs, top, stack, tbc, uv>>
counts == <<nvars, nerr, closed>>

-----------------------------------------------------------------------------
(***************************************************************************)
(* The records of the Go stack.                                            *)
(***************************************************************************)
NoHandler == [h |-> 0, used |-> FALSE, ans |-> 0]

\* A Lua function being executed; "of" is the variable whose __close it is.
LuaFrame(base, v) == [k |-> "lua", base |-> base, n |-> 0, of |-> v]

\* closeUpvaluesWithError: the positions in tbcVars still to be closed.
Scope(level, todo, ret) ==
    [k |-> "scope", level |-> level, todo |-> todo, ret |-> ret]

\* ProtectedCall with its saved state, its recovery's progress and its error;
\* raw is the error last raised on its behalf.
Protected(kind, t, c) ==
    [k |-> "pc", kind |-> kind, st |-> "body", top |-> t, cs |-> Len(c),
     uv |-> Len(uv), mh |-> IF kind = "pcall" THEN mh ELSE NoHandler,
     h |-> 0, err |-> 0, raw |-> 0]

\* callMsgHandler.
Handling(err, snap, back) ==
    [k |-> "msgh", err |-> err, snap |-> snap, back |-> back, tries |-> 0]

\* callCloseHandlers, and CloseAllTBC, which has its own copy of the loop.
Closers(list, err, use, all) ==
    [k |-> "closers", list |-> list, err |-> err, use |-> use, all |-> all,
     st |-> "next", last |-> 0, tbc |-> 0, cs |-> 0, top |-> 0]

MaxStack == NLocals + 3
NumArgs(kind) == IF kind = "pcall" THEN 1 ELSE 2

SkipsTBC == {"callback", "co"}   \* called with skipTBCCleanup

On(k) == go # <<>> /\ Last(go).k = k
Calm(k) == panic = 0 /\ On(k)
Running == Calm("lua")

Held(s) == IF s \in DOMAIN stack THEN stack[s] ELSE 0
Wipe(lo, hi) == Restrict(stack, DOMAIN stack \ (lo .. hi - 1))
WithLast(r) == Append(Front(go), r)

\* vm.call: a frame at t, above call stack c, for the __close of v (or none).
EnterLua(g, c, t, v) ==
    /\ go' = Append(g, LuaFrame(t, v))
    /\ cs' = Append(c, t)
    /\ top' = t + MaxStack

\* callCloseMetamethod: nil (a cleared register) has nothing to run.
CallClose(g, slot) ==
    IF Held(slot) = 0
    THEN go' = g /\ UNCHANGED <<cs, top, closed>>
    ELSE EnterLua(g, cs, top, Held(slot)) /\ closed' = closed \cup {Held(slot)}

-----------------------------------------------------------------------------
Init ==
    /\ \E r \in Roots :
        go = <<[k |-> "pc", kind |-> r, st |-> "body", top |-> 0, cs |-> 0,
                uv |-> 0, mh |-> NoHandler, h |-> 0, err |-> 0, raw |-> 0],
               LuaFrame(0, 0)>>
    /\ cs = <<0>> /\ top = MaxStack
    /\ stack = <<>> /\ tbc = <<>> /\ uv = <<>>
    /\ mh = NoHandler /\ panic = 0
    /\ nvars = 0 /\ nerr = 0 /\ closed = {}

(***************************************************************************)
(* What a running Lua function may do.                                     *)
(***************************************************************************)
\* The loop over close handlers whose recover an error raised now would reach.
Exposing ==
    {i \in DOMAIN go : /\ go[i].k = "closers"
                       /\ \A j \in i + 1 .. Len(go) :
                             /\ go[j].k # "closers"
                             /\ go[j].k = "pc" => go[j].kind = "callback"}

Declare ==
    LET f == Last(go)
    IN  /\ Running
        /\ f.n < NLocals
        /\ nvars < MaxVars
        /\ nvars' = nvars + 1
        /\ go' = WithLast([f EXCEPT !.n = @ + 1])
        /\ stack' = (f.base + f.n :> nvars + 1) @@ stack
        /\ UNCHANGED <<cs, top, mh, panic, nerr>>

\* local x <close> = ...   (OP_TBC)
DeclareClose ==
    /\ Declare
    /\ \A i \in Exposing :
          Len(tbc) < go[i].tbc + IF go[i].use THEN InnerAsked ELSE InnerCloses
    /\ tbc' = Append(tbc, Last(go).base + Last(go).n)
    /\ UNCHANGED <<uv, closed>>

\* local x; function() ... x ... end   (OP_CLOSURE: findOrCreateUpvalue)
DeclareCaptured ==
    LET slot == Last(go).base + Last(go).n
    IN  /\ Declare
        /\ Exposing = {} \/ InnerCaptures
        /\ uv' = IF \E i \in DOMAIN uv : uv[i].at = slot THEN uv
                 ELSE Append(uv, [at |-> slot, of |-> nvars + 1])
        /\ closed' = closed \cup {nvars + 1}
        /\ UNCHANGED tbc

\* closeUpvalues(level), on OP_CLOSE and on the returns.
CloseScope(level, ret) ==
    /\ uv' = SelectSeq(uv, LAMBDA u : u.at < level)
    /\ go' = Append(go, Scope(level, SelectSeq([i \in 1 .. Len(tbc) |-> i],
                                              LAMBDA i : tbc[i] >= level), ret))
    /\ UNCHANGED <<cs, top, stack, tbc, mh, panic, counts>>

EndBlock ==
    /\ Running
    /\ \E i \in 0 .. Last(go).n - 1 : CloseScope(Last(go).base + i, FALSE)

Return == Running /\ CloseScope(Last(go).base, TRUE)

HasRoom == Len(cs) < IF go[1].k = "pc" THEN MaxDepth ELSE ClosingDepth

Call ==
    /\ Running /\ HasRoom
    /\ EnterLua(go, cs, top, 0)
    /\ UNCHANGED <<stack, tbc, uv, mh, panic, counts>>

\* The ProtectedCall an error is raised on behalf of: a library function that
\* called back raises the error again.
Boundary ==
    {i \in DOMAIN go : /\ go[i].k = "pc" /\ go[i].kind # "callback"
                       /\ \A j \in i + 1 .. Len(go) :
                             go[j].k = "pc" => go[j].kind = "callback"}

Raise ==
    /\ Running /\ nerr < MaxErr
    /\ nerr' = nerr + 1 /\ panic' = nerr + 1
    /\ go' = [i \in DOMAIN go |-> IF i \in Boundary
                                  THEN [go[i] EXCEPT !.raw = nerr + 1] ELSE go[i]]
    /\ UNCHANGED <<machine, mh, nvars, closed>>

\* The message handler while the call runs.
\* Fault: pcall leaves the handler of the xpcall around it in place.
BugHandlerFor(kind) ==
    IF kind = "xpcall" THEN [NoHandler EXCEPT !.h = Len(go) + 1] ELSE mh
HandlerFor(kind) ==
    IF kind = "pcall" THEN NoHandler
    ELSE IF kind = "xpcall" THEN [NoHandler EXCEPT !.h = Len(go) + 1]
    ELSE mh

\* pcall, xpcall, or a library function that calls back into Lua: the native
\* function has a frame of its own among the caller's registers.
ProtectedCall(kind) ==
    LET f == Last(go)
        base == f.base + f.n
        t == base + 1 + NumArgs(kind)
        c == Append(cs, base)
    IN  /\ Running /\ HasRoom
        /\ EnterLua(Append(go, Protected(kind, t, c)), c, t, 0)
        /\ stack' = Wipe(base, t + 4)
        /\ mh' = HandlerFor(kind)
        /\ UNCHANGED <<tbc, uv, panic, counts>>

-----------------------------------------------------------------------------
(***************************************************************************)
(* Leaving a scope: the handlers are called one by one, unprotected.       *)
(***************************************************************************)
ScopeNext ==
    LET s == Last(go)
        pos == Last(s.todo)
    IN  /\ Calm("scope") /\ s.todo # <<>>
        /\ tbc' = RemoveAt(tbc, pos)
        /\ CallClose(WithLast([s EXCEPT !.todo = Front(@)]), tbc[pos])
        /\ UNCHANGED <<stack, uv, mh, panic, nvars, nerr>>

\* The block is left: its registers are free again.
BlockDone ==
    LET s == Last(go)
        f == Last(Front(go))
    IN  /\ Calm("scope") /\ s.todo = <<>> /\ ~s.ret
        /\ go' = Append(Front(Front(go)), [f EXCEPT !.n = s.level - f.base])
        /\ UNCHANGED <<machine, mh, panic, counts>>

\* The function returns to whoever called it: vm.call's and popInLoopFrame's
\* tail, then the caller's next step.
FrameDone ==
    LET s == Last(go)
        f == Last(Front(go))
        below == Front(Front(go))
        r == Last(below)
    IN  /\ Calm("scope") /\ s.todo = <<>> /\ s.ret
        /\ go' = IF r.k \in {"pc", "closers"}
                 THEN Append(Front(below),
                             [r EXCEPT !.st = IF r.k = "pc" THEN "done" ELSE "next"])
                 ELSE below
        /\ cs' = Front(cs) /\ top' = f.base
        /\ stack' = Wipe(f.base, f.base + MaxStack)
        /\ UNCHANGED <<tbc, uv, mh, panic, counts>>

-----------------------------------------------------------------------------
(***************************************************************************)
(* A panic: Lua frames and scopes have no recover.  The outermost caller   *)
(* (runCoroutine, ClosePendingTBC) swallows what nothing below catches.    *)
(***************************************************************************)
Catching == {i \in DOMAIN go : go[i].k \notin {"lua", "scope"}}

Propagate ==
    /\ panic # 0 /\ (On("lua") \/ On("scope"))
    /\ go' = SubSeq(go, 1, Max(Catching \cup {0}))
    /\ panic' = IF Catching = {} THEN 0 ELSE panic
    /\ UNCHANGED <<machine, mh, counts>>

\* s[:n], unless s is shorter.
Cut(s, n) == IF Len(s) > n THEN SubSeq(s, 1, n) ELSE s

\* What ProtectedCall's recovery does to the call stack, the to-be-closed
\* variables and the upvalues of the frames that are gone, and its error.
\* Fault: the call stack keeps the frames of the functions that failed.
BugTruncated(p) == cs
Truncated(p) == Cut(cs, p.cs)

Kept(p) == SelectSeq(tbc, LAMBDA s : s < p.top)

\* Fault: the lowest register of the frames that are gone is not one of theirs.
BugGone(p) == SelectSeq(tbc, LAMBDA s : s > p.top)
Gone(p) == SelectSeq(tbc, LAMBDA s : s >= p.top)

\* Fault: the upvalues of the frames that are gone stay open.
BugSurviving(p) == uv
Surviving(p) == SubSeq(uv, 1, p.uv)

\* Fault: an error of a close handler does not replace the original.
BugFinalErr(p) == p.err
FinalErr(p) == IF panic = 0 THEN p.err
               ELSE IF p.h # 0 /\ mh.used THEN mh.ans ELSE panic

\* Truncate the call stack and, when there is a message handler, take it and
\* call it first.
Recover ==
    LET p == Last(go)
        q == [p EXCEPT !.st = "handled", !.err = panic, !.h = mh.h]
    IN  /\ panic # 0 /\ On("pc") /\ p.st = "body"
        /\ panic' = 0
        /\ go' = IF mh.h = 0 THEN WithLast(q)
                 ELSE Append(WithLast(q), Handling(panic, cs, Truncated(p)))
        /\ cs' = Truncated(p)
        /\ mh' = [mh EXCEPT !.h = 0]
        /\ UNCHANGED <<top, stack, tbc, uv, counts>>

\* ... then close the to-be-closed variables of the frames that are gone
CloseTBC ==
    LET p == Last(go)
        err == IF mh.used THEN mh.ans ELSE p.err
    IN  /\ Calm("pc") /\ p.st = "handled" /\ p.kind \notin SkipsTBC
        /\ tbc' = Kept(p)
        /\ mh' = IF p.h = 0 THEN mh ELSE [mh EXCEPT !.h = p.h]
        /\ go' = Append(WithLast([p EXCEPT !.st = "closing"]),
                        Closers(Gone(p), err, p.h # 0, FALSE))
        /\ UNCHANGED <<cs, top, stack, uv, panic, counts>>

\* ... unless skipTBCCleanup leaves them, top and the upvalues to others,
SkipTBC ==
    LET p == Last(go)
    IN  /\ Calm("pc") /\ p.st = "handled" /\ p.kind \in SkipsTBC
        /\ go' = WithLast([p EXCEPT !.st = "report"])
        /\ UNCHANGED <<machine, mh, panic, counts>>

\* ... and when the handlers have run, restore top and close the upvalues.
Recovered ==
    LET p == Last(go)
    IN  /\ On("pc") /\ p.st = "closing"
        /\ panic' = 0
        /\ go' = WithLast([p EXCEPT !.st = "report", !.err = FinalErr(p)])
        /\ mh' = [mh EXCEPT !.h = 0]
        /\ top' = p.top
        /\ uv' = Surviving(p)
        /\ UNCHANGED <<cs, stack, tbc, counts>>

-----------------------------------------------------------------------------
(***************************************************************************)
(* What the caller of ProtectedCall does with its outcome.                 *)
(***************************************************************************)
\* The native function that made the call returns to its Lua caller (doCall).
BackToLua ==
    LET f == go[Len(go) - 1]
    IN  /\ go' = Front(go)
        /\ cs' = Front(cs)
        /\ top' = f.base + MaxStack
        /\ stack' = Wipe(f.base + f.n, f.base + MaxStack)

Outcome(kind) == Calm("pc") /\ Last(go).kind = kind

PcallReturns ==
    /\ Outcome("pcall") /\ Last(go).st \in {"done", "report"}
    /\ BackToLua
    /\ mh' = Last(go).mh
    /\ UNCHANGED <<tbc, uv, panic, counts>>

XpcallReturns ==
    /\ Outcome("xpcall")
    /\ \/ Last(go).st \in {"done", "answered"}
       \/ Last(go).st = "report" /\ mh.used
    /\ BackToLua
    /\ mh' = NoHandler
    /\ UNCHANGED <<tbc, uv, panic, counts>>

\* "Fallback: call the message handler now".
XpcallFallback ==
    /\ Outcome("xpcall") /\ Last(go).st = "report" /\ ~mh.used
    /\ EnterLua(Append(WithLast([Last(go) EXCEPT !.st = "fallback"]),
                       Protected("hcall", top, cs)), cs, top, 0)
    /\ UNCHANGED <<stack, tbc, uv, mh, panic, counts>>

CallbackReturns ==
    /\ Outcome("callback") /\ Last(go).st = "done"
    /\ BackToLua
    /\ UNCHANGED <<tbc, uv, mh, panic, counts>>

\* The library function raises the callback's error again.
CallbackRaises ==
    /\ Outcome("callback") /\ Last(go).st = "report"
    /\ go' = Front(go) /\ panic' = Last(go).err
    /\ UNCHANGED <<machine, mh, counts>>

RootEnds ==
    /\ Outcome("run") \/ Outcome("co")
    /\ Last(go).st \in {"done", "report"}
    /\ go' = <<>>
    /\ UNCHANGED <<machine, mh, panic, counts>>

-----------------------------------------------------------------------------
(***************************************************************************)
(* callMsgHandler: call the handler on the call stack of the error, again  *)
(* if it fails, and keep its result.                                       *)
(***************************************************************************)
TryHandler ==
    LET m == Last(go)
    IN  /\ Calm("msgh")
        /\ EnterLua(Append(go, Protected("hcall", top, m.snap)), m.snap, top, 0)
        /\ UNCHANGED <<stack, tbc, uv, mh, panic, counts>>

HandlerFails ==
    LET m == Last(Front(go))
    IN  /\ Outcome("hcall") /\ Last(go).st = "report"
        /\ m.k = "msgh" /\ m.tries < MaxTries
        /\ go' = Append(Front(Front(go)), [m EXCEPT !.tries = @ + 1])
        /\ UNCHANGED <<machine, mh, panic, counts>>

\* The handler returned, or failed too often ("error in error handling").
HandlerAnswers ==
    LET m == Last(Front(go))
    IN  /\ Outcome("hcall") /\ m.k = "msgh"
        /\ \/ Last(go).st = "done"
           \/ Last(go).st = "report" /\ m.tries >= MaxTries
        /\ go' = Front(Front(go))
        /\ cs' = m.back
        /\ mh' = [mh EXCEPT !.used = TRUE, !.ans = -m.err]
        /\ UNCHANGED <<top, stack, tbc, uv, panic, counts>>

FallbackAnswers ==
    LET x == Last(Front(go))
    IN  /\ Outcome("hcall") /\ x.k = "pc" /\ Last(go).st \in {"done", "report"}
        /\ go' = Append(Front(Front(go)), [x EXCEPT !.st = "answered"])
        /\ UNCHANGED <<machine, mh, panic, counts>>

-----------------------------------------------------------------------------
(***************************************************************************)
(* callCloseHandlers: the handlers of a list of registers, last one first, *)
(* each protected by a recover of its own.                                 *)
(***************************************************************************)
\* Fault: first declared, first closed.
BugNextToClose(list) == Head(list)
NextToClose(list) == Last(list)

CloserNext ==
    LET c == Last(go)
        slot == NextToClose(c.list)
    IN  /\ Calm("closers") /\ c.st = "next" /\ c.list # <<>>
        /\ CallClose(WithLast([c EXCEPT
                        !.list = Front(@),
                        !.st = IF Held(slot) = 0 THEN "next" ELSE "running",
                        !.tbc = Len(tbc), !.cs = Len(cs), !.top = top]), slot)
        /\ UNCHANGED <<stack, tbc, uv, mh, panic, nvars, nerr>>

\* A handler failed: its error is the one that later handlers get and that is
\* raised in the end.  CloseAllTBC leaves top and the call stack as they are.
CloserFails ==
    LET c == Last(go)
        ask == c.use /\ mh.h # 0 /\ panic # c.err
        d == [c EXCEPT !.last = panic, !.err = panic,
                       !.st = IF ask THEN "asked" ELSE "failed"]
    IN  /\ panic # 0 /\ On("closers") /\ c.st = "running"
        /\ panic' = 0
        /\ top' = IF c.all THEN top ELSE c.top
        /\ go' = IF ask THEN Append(WithLast(d), Handling(panic, cs, cs))
                 ELSE WithLast(d)
        /\ UNCHANGED <<cs, stack, tbc, uv, mh, counts>>

CloserAnswered ==
    LET c == Last(go)
    IN  /\ Calm("closers") /\ c.st = "asked"
        /\ go' = WithLast([c EXCEPT !.st = "failed",
                                    !.err = IF mh.used THEN mh.ans ELSE @])
        /\ UNCHANGED <<machine, mh, panic, counts>>

\* Close what the failed handler had declared itself.
CloserInner ==
    LET c == Last(go)
        inner == SubSeq(tbc, c.tbc + 1, Len(tbc))
    IN  /\ Calm("closers") /\ c.st = "failed"
        /\ cs' = IF c.all THEN cs ELSE Cut(cs, c.cs)
        /\ tbc' = Cut(tbc, c.tbc)
        /\ go' = IF inner = <<>> THEN WithLast([c EXCEPT !.st = "next"])
                 ELSE Append(WithLast([c EXCEPT !.st = "inner"]),
                             Closers(inner, c.err, c.use, FALSE))
        /\ UNCHANGED <<top, stack, uv, mh, panic, counts>>

CloserInnerDone ==
    LET c == Last(go)
    IN  /\ On("closers") /\ c.st = "inner"
        /\ panic' = 0
        /\ go' = WithLast(IF panic = 0 THEN [c EXCEPT !.st = "next"]
                          ELSE [c EXCEPT !.st = "next", !.last = panic, !.err = panic])
        /\ UNCHANGED <<machine, mh, counts>>

\* All handlers have run: the last error, if any, is raised again.  When it is
\* CloseAllTBC that ends without one, runtime.Goexit ends the coroutine.
CloserDone ==
    LET c == Last(go)
    IN  /\ Calm("closers") /\ c.st = "next" /\ c.list = <<>>
        /\ go' = IF c.all /\ c.last = 0 THEN <<>> ELSE Front(go)
        /\ panic' = IF Len(go) = 1 THEN 0 ELSE c.last
        /\ UNCHANGED <<machine, mh, counts>>

-----------------------------------------------------------------------------
(***************************************************************************)
(* The coroutine is closed from outside: while it is suspended in a yield  *)
(* (not across a C-call boundary), or after an error has ended it.         *)
(***************************************************************************)
Yieldable ==
    \A i \in DOMAIN go :
        /\ go[i].k = "pc" => go[i].kind \notin {"run", "callback", "hcall"}
        /\ go[i].k = "closers" => ~go[i].all /\ i > 1

\* closingCoroutine: of what is suspended, Lua frames are never resumed and the
\* ProtectedCalls that run their body panic again, so these leave the Go stack
\* at once; a recovery in progress would still catch an error.
Kill ==
    LET recovering == SelectSeq(go, LAMBDA r : /\ r.k \notin {"lua", "scope"}
                                               /\ r.k = "pc" => r.st # "body")
    IN  /\ Running /\ Yieldable
        /\ KillMidUnwind \/ recovering = <<>>
        /\ go' = Append(recovering, Closers(tbc, 0, FALSE, TRUE))
        /\ tbc' = <<>> /\ cs' = <<>>
        /\ top' = Last(go).base + Last(go).n + 1
        /\ UNCHANGED <<stack, uv, mh, panic, counts>>

ClosePendingTBC ==
    /\ go = <<>> /\ tbc # <<>>
    /\ go' = <<Closers(tbc, 0, FALSE, FALSE)>>
    /\ tbc' = <<>> /\ cs' = <<>>
    /\ UNCHANGED <<top, stack, uv, mh, panic, counts>>

Finished == go = <<>> /\ tbc = <<>> /\ UNCHANGED vars

Next ==
    \/ DeclareClose \/ DeclareCaptured \/ EndBlock \/ Return \/ Call \/ Raise
    \/ \E kind \in Kinds : ProtectedCall(kind)
    \/ ScopeNext \/ BlockDone \/ FrameDone
    \/ Propagate \/ Recover \/ CloseTBC \/ SkipTBC \/ Recovered
    \/ PcallReturns \/ XpcallReturns \/ XpcallFallback
    \/ CallbackReturns \/ CallbackRaises \/ RootEnds
    \/ TryHandler \/ HandlerFails \/ HandlerAnswers \/ FallbackAnswers
    \/ CloserNext \/ CloserFails \/ CloserAnswered \/ CloserInner
    \/ CloserInnerDone \/ CloserDone
    \/ Kill \/ ClosePendingTBC \/ Finished

Spec == Init /\ [][Next]_vars

-----------------------------------------------------------------------------
(***************************************************************************)
(* Properties.                                                             *)
(***************************************************************************)
Vars == 1 .. nvars

\* The registers whose variables are still to be closed: those of tbcVars and
\* of the lists the loops over close handlers have taken out of it.
Pending ==
    ToSet(tbc) \cup
    UNION {ToSet(go[i].list) : i \in {j \in DOMAIN go : go[j].k = "closers"}}

Calls == {i \in DOMAIN go : go[i].k = "pc"}

\* Nothing is forgotten or closed twice: whatever fails on the way, the registers
\* that are still to be closed hold exactly the variables no handler has been
\* called for (tbcVars and the lists taken from it name registers only, and the
\* handlers run on the same stack).
PendingIsUnclosed == {Held(s) : s \in Pending} = Vars \ closed

\* Handlers are called last declared first across all frames, scopes, recoveries
\* and failed handlers: when one is called, everything younger has been called.
ClosedInOrder ==
    [][\A v \in closed' \ closed : \A w \in Vars : w > v => w \in closed]_vars

\* Whatever has been caught, truncated and closed: a Lua function that goes on finds
\* its own frame last on callStack (execute re-reads it after every scope), and top
\* just behind its registers.
FramesRestored ==
    Running => Last(cs) = Last(go).base /\ top = Last(go).base + MaxStack

\* ... and nothing of the frames that are gone left in tbcVars or openUpvalues for it
\* to close in their stead. And an open upvalue's register holds the variable it was
\* made for until somebody closes it: no frame reuses a register that a closure can
\* read.
StacksRestored ==
    /\ FramesRestored
    /\ Running => LET f == Last(go) IN
        /\ \A s \in ToSet(tbc) : s < f.base + f.n
        /\ \A i \in DOMAIN uv : uv[i].at < f.base + f.n
    /\ go # <<>> => \A i \in DOMAIN uv : Held(uv[i].at) = uv[i].of

\* What pcall and the outermost call report is the last error raised on their
\* behalf, be it by the body, by a handler that closes its variables, or by one
\* that closes the variables of such a handler.
ReportsLast ==
    \A i \in Calls :
        go[i].st = "report" /\ go[i].kind \in {"pcall", "run", "co"}
            => go[i].err = go[i].raw

\* A message handler that is set is that of an xpcall in progress, with no pcall
\* inside it: pcall shields its body from it, and no path out of either leaves
\* it behind.
HandlerIsLive ==
    go # <<>> /\ go[1].k = "pc" /\ mh.h # 0 =>
        /\ mh.h \in Calls /\ go[mh.h].kind = "xpcall"
        /\ \A i \in Calls : i > mh.h => go[i].kind # "pcall"

\* What xpcall returns is its message handler's answer to the last error raised
\* on its behalf ("the message handler is called AGAIN with the __close error,
\* and that result replaces the original").  The code does not keep this: see
\* the README.
XpcallReportsHandled ==
    \A i \in Calls :
        go[i].kind = "xpcall" /\ go[i].st = "report" /\ mh.used
            => mh.ans = -go[i].raw
=============================================================================
