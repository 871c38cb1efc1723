------------------------------ MODULE Coroutine ------------------------------
(***************************************************************************)
(* The coroutine scheduler of golua (stdlib/coroutine.go and the hooks it  *)
(* uses in package vm).  Every coroutine is a VM of its own that runs on a *)
(* goroutine of its own against the globals, tables and caches of the      *)
(* family, which nothing locks: the scheduler has to make the VMs of a     *)
(* family take turns.  Control moves over three channels per coroutine:    *)
(* resumeCh (capacity 1), yieldCh (capacity 1) and doneCh (closed once).   *)
(*                                                                         *)
(* A VM is always in one place, pc[v].  pc is attached to the VM and not   *)
(* to the goroutine because the <close> handlers of a dead coroutine run   *)
(* on the goroutine of whoever closes it: that caller is then at "pending" *)
(* and the dead VM at "run".                                               *)
(*                                                                         *)
(* The definitions named Bug... are seeded faults: wrong variants of the   *)
(* definition that follows, which no behaviour uses, kept to show which    *)
(* property would notice them.                                             *)
(***************************************************************************)
EXTENDS Integers, FiniteSets

CONSTANTS
  Co,             \* the coroutines a behaviour may create (ids 1, 2, ...)
  Main,           \* the root VM, driven by the host's goroutine (id 0)
  None,           \* "no coroutine"
  Ctx,            \* the contexts the host may give the root VM
  MaxTbc,         \* bound on the to-be-closed variables of each coroutine
  MaxCloseDepth   \* maxCCalls: nested coroutine.close / close-handler runs

ASSUME CoroutineAssumption ==
  /\ IsFiniteSet(Co)
  /\ Main \notin Co
  /\ None \notin Co
  /\ Ctx # {}
  /\ MaxTbc \in [Co -> Nat]
  /\ MaxCloseDepth \in Nat

VM == Co \cup {Main}

VARIABLES
  reg,            \* coRegistry.coroutines: the ids the registry maps
  status,         \* Coroutine.status ("none": the id is not allocated yet)
  started,        \* Coroutine.started
  resumeChClosed, \* Coroutine.resumeChClosed, and resumeCh is closed
  reapAbandoned,  \* Coroutine.reapAbandoned
  resumeCh,       \* arguments buffered in resumeCh
  yieldCh,        \* values buffered in yieldCh
  doneCh,         \* doneCh is closed
  err,            \* Coroutine.err
  tbc,            \* to-be-closed variables pending on the VM (VM.tbcVars)
  todo,           \* handlers CloseAllTBC or ClosePendingTBC has yet to run
  terminated,     \* VM.terminated
  ctxOf,          \* VM.ctx
  cancelled,      \* the contexts that have been cancelled
  pc,             \* where the VM is
  on,             \* the coroutine a library call of the VM is about
  wrap,           \* that call is a coroutine.wrap function, not resume
  mode,           \* which Lua the VM executes: its body or close handlers
  lastPanic,      \* last error of the close handlers run so far
  closeDepth,     \* VM.closeDepth, shared by the family
  pending,        \* coroutines the sweep of VM.Close has not reached yet
  expired         \* history: a wait for an abandoned coroutine timed out

regVars  == <<reg, status, started, reapAbandoned, err>>
chanVars == <<resumeCh, resumeChClosed, yieldCh, doneCh>>
envVars  == <<ctxOf, cancelled, terminated>>
callVars == <<on, wrap>>
luaVars  == <<tbc, todo, mode, lastPanic>>
hostVars == <<closeDepth, pending, expired>>
vars == <<regVars, chanVars, envVars, pc, callVars, luaVars, hostVars>>

(***************************************************************************)
(* run        executing Lua             call      poll passed, in a native *)
(* exiting    unwinding with os.exit    resuming  resume passed its checks *)
(* waiting    select of resume          awaiting  awaitCoroutineStop       *)
(* yielding   about to send on yieldCh  parked    receiving from resumeCh  *)
(* closing    close passed its checks   joining   close waits for doneCh   *)
(* joindead   close of a dead coroutine waits for doneCh                   *)
(* pending    runs the handlers of the dead VM on[v] (ClosePendingTBC)     *)
(* fresh      created, no goroutine     start     goroutine launched       *)
(* dying      about to close doneCh     gone      goroutine has returned   *)
(* host, sweep, reap, reaphard, closed  the host's side of the root VM     *)
(***************************************************************************)
Label == {"run", "call", "exiting", "resuming", "waiting", "awaiting",
          "yielding", "parked", "closing", "joining", "joindead", "pending",
          "fresh", "start", "dying", "gone",
          "host", "sweep", "reap", "reaphard", "closed"}

Status == {"none", "suspended", "running", "normal", "dead"}
Panic  == {"none", "error", "self", "exit"}

Init ==
  /\ reg = {}
  /\ status = [c \in Co |-> "none"]
  /\ started = [c \in Co |-> FALSE]
  /\ resumeChClosed = [c \in Co |-> FALSE]
  /\ reapAbandoned = [c \in Co |-> FALSE]
  /\ resumeCh = [c \in Co |-> 0]
  /\ yieldCh = [c \in Co |-> 0]
  /\ doneCh = [c \in Co |-> FALSE]
  /\ err = [c \in Co |-> "none"]
  /\ tbc = [v \in VM |-> 0]
  /\ todo = [v \in VM |-> 0]
  /\ terminated = [v \in VM |-> FALSE]
  /\ \E x \in Ctx : ctxOf = [v \in VM |-> x]
  /\ cancelled = {}
  /\ pc = [v \in VM |-> IF v = Main THEN "host" ELSE "fresh"]
  /\ on = [v \in VM |-> None]
  /\ wrap = [v \in VM |-> FALSE]
  /\ mode = [v \in VM |-> "body"]
  /\ lastPanic = [v \in VM |-> "none"]
  /\ closeDepth = 0
  /\ pending = {}
  /\ expired = FALSE

-----------------------------------------------------------------------------
(* Helpers.                                                                *)

\* Fault: the poll looks at Terminate alone.
BugInterrupted(v) == terminated[v]

\* CheckInterrupt reports an error: the VM must unwind at this poll.
Interrupted(v) == terminated[v] \/ ctxOf[v] \in cancelled

Goto(v, l) == pc' = [pc EXCEPT ![v] = l]

\* v enters (or leaves, with c = None) the part of a library call about c.
About(v, c, w) == /\ on' = [on EXCEPT ![v] = c]
                  /\ wrap' = [wrap EXCEPT ![v] = w]

\* "if co := reg.coroutines[id]; co != nil { co.status = s }"
Mark(v, s) == IF v \in reg THEN [status EXCEPT ![v] = s] ELSE status

\* EnterCloseChain reports an overflow.
CloseChainFull == closeDepth + 1 > MaxCloseDepth

\* CloseAllTBC on v's own goroutine: take tbcVars over, run the last handler.
TakeHandlers(v, m) ==
  /\ tbc' = [tbc EXCEPT ![v] = 0]
  /\ todo' = [todo EXCEPT ![v] = tbc[v] - 1]
  /\ mode' = [mode EXCEPT ![v] = m]
  /\ lastPanic' = [lastPanic EXCEPT ![v] = "none"]

\* ClosePendingTBC of the dead VM c on the goroutine of v: nothing pending, or
\* an overflow that drops the handlers, or v stays away while c executes them.
ClosePendingTBC(v, c) ==
  \/ /\ tbc[c] = 0 \/ CloseChainFull
     /\ tbc' = [tbc EXCEPT ![c] = 0]
     /\ Goto(v, "run") /\ About(v, None, FALSE)
     /\ UNCHANGED <<todo, mode, lastPanic, closeDepth>>
  \/ /\ tbc[c] > 0 /\ ~CloseChainFull
     /\ pc' = [pc EXCEPT ![v] = "pending", ![c] = "run"]
     /\ TakeHandlers(c, "pending")
     /\ closeDepth' = closeDepth + 1
     /\ UNCHANGED callVars

-----------------------------------------------------------------------------
(* The host: VM.Run, SetContext, cancelling a context.                     *)

HostRun ==
  /\ pc[Main] = "host"
  /\ Goto(Main, "run")
  /\ UNCHANGED <<regVars, chanVars, envVars, callVars, luaVars, hostVars>>

SetContext(x) ==
  /\ pc[Main] = "host"
  /\ ctxOf[Main] # x
  /\ ctxOf' = [ctxOf EXCEPT ![Main] = x]
  /\ UNCHANGED <<regVars, chanVars, cancelled, terminated, pc, callVars,
                 luaVars, hostVars>>

Cancel(x) ==
  /\ x \notin cancelled
  /\ cancelled' = cancelled \cup {x}
  /\ UNCHANGED <<regVars, chanVars, ctxOf, terminated, pc, callVars, luaVars,
                 hostVars>>

-----------------------------------------------------------------------------
(* Executing Lua.                                                          *)

\* OP_CALL polls before it calls; the native that follows finds pc = "call".
Poll(v) ==
  /\ pc[v] = "run"
  /\ ~Interrupted(v)
  /\ Goto(v, "call")
  /\ UNCHANGED <<regVars, chanVars, envVars, callVars, luaVars, hostVars>>

\* Any other function, or a library call that reports an error: resuming or
\* closing what may not be, yielding where it is not allowed.
CallReturns(v) ==
  /\ pc[v] = "call"
  /\ Goto(v, "run")
  /\ UNCHANGED <<regVars, chanVars, envVars, callVars, luaVars, hostVars>>

\* A <close> variable comes into scope in the body of a coroutine.
DeclareTbc(v) ==
  /\ v \in Co
  /\ pc[v] = "run" /\ mode[v] = "body"
  /\ tbc[v] < MaxTbc[v]
  /\ tbc' = [tbc EXCEPT ![v] = @ + 1]
  /\ UNCHANGED <<regVars, chanVars, envVars, pc, callVars, todo, mode,
                 lastPanic, hostVars>>

\* It goes out of scope: its handler runs as ordinary Lua of the body.
LeaveScope(v) ==
  /\ pc[v] = "run" /\ mode[v] = "body"
  /\ tbc[v] > 0
  /\ tbc' = [tbc EXCEPT ![v] = @ - 1]
  /\ UNCHANGED <<regVars, chanVars, envVars, pc, callVars, todo, mode,
                 lastPanic, hostVars>>

\* The main chunk returns or fails: VM.Run hands back to the host.
MainReturns ==
  /\ pc[Main] = "run"
  /\ Goto(Main, "host")
  /\ UNCHANGED <<regVars, chanVars, envVars, callVars, luaVars, hostVars>>

\* The body of a coroutine returns: every scope has been left by then.
BodyReturns(v) ==
  /\ v \in Co
  /\ pc[v] = "run" /\ mode[v] = "body" /\ tbc[v] = 0
  /\ status' = [status EXCEPT ![v] = "dead"]
  /\ Goto(v, "dying")
  /\ UNCHANGED <<reg, started, reapAbandoned, err, chanVars, envVars,
                 callVars, luaVars, hostVars>>

\* It fails: ProtectedCallCoroutine leaves its <close> variables pending.
BodyFails(v) ==
  /\ v \in Co
  /\ pc[v] = "run" /\ mode[v] = "body"
  /\ status' = [status EXCEPT ![v] = "dead"]
  /\ err' = [err EXCEPT ![v] = "error"]
  /\ Goto(v, "dying")
  /\ UNCHANGED <<reg, started, reapAbandoned, chanVars, envVars, callVars,
                 luaVars, hostVars>>

\* os.exit panics with LuaExitError.
Exit(v) ==
  /\ pc[v] = "call"
  /\ Goto(v, "exiting")
  /\ UNCHANGED <<regVars, chanVars, envVars, callVars, luaVars, hostVars>>

\* The sentinel leaves the main chunk, or the body of a coroutine.
ExitMain ==
  /\ pc[Main] = "exiting"
  /\ Goto(Main, "host")
  /\ UNCHANGED <<regVars, chanVars, envVars, callVars, luaVars, hostVars>>

ExitBody(v) ==
  /\ v \in Co
  /\ pc[v] = "exiting" /\ mode[v] = "body"
  /\ status' = [status EXCEPT ![v] = "dead"]
  /\ err' = [err EXCEPT ![v] = "exit"]
  /\ Goto(v, "dying")
  /\ UNCHANGED <<reg, started, reapAbandoned, chanVars, envVars, callVars,
                 luaVars, hostVars>>

-----------------------------------------------------------------------------
(* coroutine.create and coroutine.wrap.  Every coroutine may be resumed and *)
(* closed through its thread and called through its wrapper: the thread of *)
(* a wrapper is its upvalue 1 and coroutine.running() inside it.           *)

Create(v, c) ==
  /\ pc[v] = "call"
  /\ status[c] = "none"
  /\ status' = [status EXCEPT ![c] = "suspended"]
  /\ reg' = reg \cup {c}
  /\ ctxOf' = [ctxOf EXCEPT ![c] = ctxOf[v]]
  /\ terminated' = [terminated EXCEPT ![c] = terminated[v]]
  /\ Goto(v, "run")
  /\ UNCHANGED <<started, reapAbandoned, err, chanVars, cancelled, callVars,
                 luaVars, hostVars>>

-----------------------------------------------------------------------------
(* coroutine.resume (w = FALSE) and the function coroutine.wrap returns.    *)

\* Only resume looks the coroutine up in the registry; a wrapper holds it.
ResumeCheck(v, c, w) ==
  /\ pc[v] = "call"
  /\ status[c] = "suspended"
  /\ w \/ c \in reg
  /\ Goto(v, "resuming")
  /\ About(v, c, w)
  /\ UNCHANGED <<regVars, chanVars, envVars, luaVars, hostVars>>

\* The caller is marked normal and, under co.mu, the arguments are sent.
ResumeSend(v) ==
  /\ pc[v] = "resuming"
  /\ LET c == on[v] IN
       /\ ~resumeChClosed[c]
       /\ resumeCh[c] = 0
       /\ started' = [started EXCEPT ![c] = TRUE]
       /\ status' = [Mark(v, "normal") EXCEPT ![c] = "running"]
       /\ resumeCh' = [resumeCh EXCEPT ![c] = 1]
       /\ pc' = [pc EXCEPT ![v] = "waiting",
                           ![c] = IF started[c] THEN @ ELSE "start"]
  /\ UNCHANGED <<reg, reapAbandoned, err, resumeChClosed, yieldCh, doneCh,
                 envVars, callVars, luaVars, hostVars>>

\* Somebody closed the coroutine since it was checked.
ResumeTooLate(v) ==
  /\ pc[v] = "resuming"
  /\ resumeChClosed[on[v]]
  /\ status' = Mark(v, "running")
  /\ Goto(v, "run") /\ About(v, None, FALSE)
  /\ UNCHANGED <<reg, started, reapAbandoned, err, chanVars, envVars,
                 luaVars, hostVars>>

\* The three branches of the select: a yield, the end, the context.
RecvYield(v) ==
  /\ pc[v] = "waiting"
  /\ yieldCh[on[v]] = 1
  /\ yieldCh' = [yieldCh EXCEPT ![on[v]] = 0]
  /\ status' = Mark(v, "running")
  /\ Goto(v, "run") /\ About(v, None, FALSE)
  /\ UNCHANGED <<reg, started, reapAbandoned, err, resumeCh, resumeChClosed,
                 doneCh, envVars, luaVars, hostVars>>

RecvDone(v) ==
  /\ pc[v] = "waiting"
  /\ doneCh[on[v]]
  /\ status' = Mark(v, "running")
  /\ \/ /\ err[on[v]] = "exit"
        /\ Goto(v, "exiting") /\ About(v, None, FALSE)
        /\ UNCHANGED <<luaVars, closeDepth>>
     \/ /\ err[on[v]] = "none" \/ (err[on[v]] = "error" /\ ~wrap[v])
        /\ Goto(v, "run") /\ About(v, None, FALSE)
        /\ UNCHANGED <<luaVars, closeDepth>>
     \/ /\ err[on[v]] = "error" /\ wrap[v]
        /\ ClosePendingTBC(v, on[v])
  /\ UNCHANGED <<reg, started, reapAbandoned, err, chanVars, envVars,
                 pending, expired>>

RecvCtx(v) ==
  /\ pc[v] = "waiting"
  /\ ctxOf[v] \in cancelled
  /\ status' = Mark(v, "running")
  /\ Goto(v, "awaiting")
  /\ UNCHANGED <<reg, started, reapAbandoned, err, chanVars, envVars,
                 callVars, luaVars, hostVars>>

-----------------------------------------------------------------------------
(* awaitCoroutineStop.                                                     *)

AwaitDone(v) ==
  /\ pc[v] = "awaiting"
  /\ doneCh[on[v]]
  /\ Goto(v, "run") /\ About(v, None, FALSE)
  /\ UNCHANGED <<regVars, chanVars, envVars, luaVars, hostVars>>

\* Fault: the wait only looks whether a value is there.
BugAwaitYield(v) ==
  /\ pc[v] = "awaiting"
  /\ yieldCh[on[v]] = 1
  /\ Goto(v, "run") /\ About(v, None, FALSE)
  /\ UNCHANGED <<regVars, chanVars, envVars, luaVars, hostVars>>

\* The yielded values are dropped with the abandoned resume.
AwaitYield(v) ==
  /\ pc[v] = "awaiting"
  /\ yieldCh[on[v]] = 1
  /\ yieldCh' = [yieldCh EXCEPT ![on[v]] = 0]
  /\ Goto(v, "run") /\ About(v, None, FALSE)
  /\ UNCHANGED <<regVars, resumeCh, resumeChClosed, doneCh, envVars, luaVars,
                 hostVars>>

\* coroutineStopGrace is over: the resumer goes on next to the coroutine.
AwaitTimer(v) ==
  /\ pc[v] = "awaiting"
  /\ expired' = TRUE
  /\ Goto(v, "run") /\ About(v, None, FALSE)
  /\ UNCHANGED <<regVars, chanVars, envVars, luaVars, closeDepth, pending>>

-----------------------------------------------------------------------------
(* runCoroutine.                                                           *)

\* The goroutine takes its first arguments and calls the function.
StartCo(c) ==
  /\ pc[c] = "start"
  /\ resumeCh[c] = 1
  /\ resumeCh' = [resumeCh EXCEPT ![c] = 0]
  /\ status' = [status EXCEPT ![c] = "running"]
  /\ Goto(c, "run")
  /\ UNCHANGED <<reg, started, reapAbandoned, err, resumeChClosed, yieldCh,
                 doneCh, envVars, callVars, luaVars, hostVars>>

\* Fault: a coroutine that ended by os.exit does not close doneCh.
BugDoneClose(c) ==
  /\ pc[c] = "dying"
  /\ doneCh' = [doneCh EXCEPT ![c] = err[c] # "exit"]
  /\ Goto(c, "gone")
  /\ UNCHANGED <<regVars, resumeCh, resumeChClosed, yieldCh, envVars,
                 callVars, luaVars, hostVars>>

\* The outermost defer: close(co.doneCh).
DoneClose(c) ==
  /\ pc[c] = "dying"
  /\ doneCh' = [doneCh EXCEPT ![c] = TRUE]
  /\ Goto(c, "gone")
  /\ UNCHANGED <<regVars, resumeCh, resumeChClosed, yieldCh, envVars,
                 callVars, luaVars, hostVars>>

-----------------------------------------------------------------------------
(* coroutine.yield.                                                        *)

\* IsYieldableContext: not in the main thread, nor in a close handler that
\* CloseAllTBC or ClosePendingTBC runs.
Yield(v) ==
  /\ v \in Co
  /\ pc[v] = "call" /\ mode[v] = "body"
  /\ status' = Mark(v, "suspended")
  /\ Goto(v, "yielding")
  /\ UNCHANGED <<reg, started, reapAbandoned, err, chanVars, envVars,
                 callVars, luaVars, hostVars>>

YieldSend(v) ==
  /\ pc[v] = "yielding"
  /\ yieldCh[v] = 0
  /\ yieldCh' = [yieldCh EXCEPT ![v] = 1]
  /\ Goto(v, "parked")
  /\ UNCHANGED <<regVars, resumeCh, resumeChClosed, doneCh, envVars, callVars,
                 luaVars, hostVars>>

\* It is resumed; under a cancelled context it raises before it is marked.
Wake(v) ==
  /\ pc[v] = "parked"
  /\ resumeCh[v] = 1
  /\ resumeCh' = [resumeCh EXCEPT ![v] = 0]
  /\ status' = IF ctxOf[v] \in cancelled THEN status ELSE Mark(v, "running")
  /\ Goto(v, "run")
  /\ UNCHANGED <<reg, started, reapAbandoned, err, resumeChClosed, yieldCh,
                 doneCh, envVars, callVars, luaVars, hostVars>>

\* Fault: the closed coroutine leaves without running its handlers.
BugWakeClosed(v) ==
  /\ pc[v] = "parked"
  /\ resumeCh[v] = 0 /\ resumeChClosed[v]
  /\ Goto(v, "dying")
  /\ UNCHANGED <<regVars, chanVars, envVars, callVars, luaVars, hostVars>>

\* resumeCh is closed: run the close handlers, then leave by Goexit.
WakeClosed(v) ==
  /\ pc[v] = "parked"
  /\ resumeCh[v] = 0 /\ resumeChClosed[v]
  /\ IF tbc[v] = 0
       THEN Goto(v, "dying") /\ UNCHANGED luaVars
       ELSE Goto(v, "run") /\ TakeHandlers(v, "killed")
  /\ UNCHANGED <<regVars, chanVars, envVars, callVars, hostVars>>

-----------------------------------------------------------------------------
(* Close handlers.                                                         *)

\* coroutine.close of the running coroutine: its handlers, then the sentinel.
SelfClose(v) ==
  /\ v \in Co
  /\ pc[v] = "call" /\ mode[v] = "body"
  /\ IF tbc[v] = 0
       THEN /\ Goto(v, "dying")
            /\ status' = [status EXCEPT ![v] = "dead"]
            /\ UNCHANGED luaVars
       ELSE Goto(v, "run") /\ TakeHandlers(v, "self") /\ UNCHANGED status
  /\ UNCHANGED <<reg, started, reapAbandoned, err, chanVars, envVars,
                 callVars, hostVars>>

\* A handler of v ends: it returns, raises, calls os.exit, or closes its own
\* coroutine (by then tbcVars is empty: only the sentinel is left of that).
HandlerEnd(v, p) ==
  /\ v \in Co /\ mode[v] # "body"
  /\ pc[v] = CASE p = "exit" -> "exiting"
               [] p = "self" -> "call"
               [] OTHER      -> "run"

\* lastPanic once a handler has ended with p.
LastPanic(v, p) == IF p = "none" THEN lastPanic[v] ELSE p

NextHandler(v, p) ==
  /\ HandlerEnd(v, p)
  /\ todo[v] > 0
  /\ todo' = [todo EXCEPT ![v] = @ - 1]
  /\ lastPanic' = [lastPanic EXCEPT ![v] = LastPanic(v, p)]
  /\ Goto(v, "run")
  /\ UNCHANGED <<regVars, chanVars, envVars, callVars, tbc, mode, hostVars>>

\* The last panic is re-raised and runCoroutine records it; a coroutine closed
\* from outside leaves by Goexit when there was none, its status untouched.
OwnHandlersDone(v, p) ==
  /\ HandlerEnd(v, p)
  /\ mode[v] \in {"killed", "self"}
  /\ todo[v] = 0
  /\ LET lp == LastPanic(v, p) IN
       /\ err' = CASE lp \in {"error", "exit"} -> [err EXCEPT ![v] = lp]
                   [] lp = "self" /\ mode[v] = "self"
                                       -> [err EXCEPT ![v] = "error"]
                   [] OTHER            -> err
       /\ status' = IF lp = "none" /\ mode[v] = "killed" THEN status
                    ELSE [status EXCEPT ![v] = "dead"]
  /\ Goto(v, "dying")
  /\ UNCHANGED <<reg, started, reapAbandoned, chanVars, envVars, callVars,
                 luaVars, hostVars>>

\* ClosePendingTBC turns any panic into the error its caller reports.
PendingHandlersDone(v, p) ==
  /\ HandlerEnd(v, p)
  /\ mode[v] = "pending"
  /\ todo[v] = 0
  /\ \E u \in VM :
       /\ pc[u] = "pending" /\ on[u] = v
       /\ pc' = [pc EXCEPT ![u] = "run", ![v] = "gone"]
       /\ About(u, None, FALSE)
  /\ mode' = [mode EXCEPT ![v] = "body"]
  /\ closeDepth' = closeDepth - 1
  /\ UNCHANGED <<regVars, chanVars, envVars, tbc, todo, lastPanic, pending,
                 expired>>

-----------------------------------------------------------------------------
(* coroutine.close of another coroutine.                                   *)

\* A dead one leaves the registry; its VM is taken over once doneCh is closed.
CloseDead(v, c) ==
  /\ pc[v] = "call"
  /\ c # v /\ c \in reg
  /\ status[c] = "dead"
  /\ reg' = reg \ {c}
  /\ Goto(v, "joindead") /\ About(v, c, FALSE)
  /\ UNCHANGED <<status, started, reapAbandoned, err, chanVars, envVars,
                 luaVars, hostVars>>

\* Fault: status dead is taken for the end of the goroutine.
BugJoinDead(v) ==
  /\ pc[v] = "joindead"
  /\ err' = [err EXCEPT ![on[v]] = "none"]
  /\ ClosePendingTBC(v, on[v])
  /\ UNCHANGED <<reg, status, started, reapAbandoned, chanVars, envVars,
                 pending, expired>>

JoinDead(v) ==
  /\ pc[v] = "joindead"
  /\ LET c == on[v] IN
       /\ started[c] /\ ~reapAbandoned[c] => doneCh[c]
       /\ err' = [err EXCEPT ![c] = "none"]
       /\ IF reapAbandoned[c]
            THEN /\ Goto(v, "run") /\ About(v, None, FALSE)
                 /\ UNCHANGED <<luaVars, closeDepth>>
            ELSE ClosePendingTBC(v, c)
  /\ UNCHANGED <<reg, status, started, reapAbandoned, chanVars, envVars,
                 pending, expired>>

\* Fault: the registry forgets the coroutine before its channel is closed.
BugCloseBegin(v, c) ==
  /\ pc[v] = "call"
  /\ c # v /\ c \in reg
  /\ status[c] = "suspended"
  /\ ~CloseChainFull
  /\ reg' = reg \ {c}
  /\ closeDepth' = closeDepth + 1
  /\ Goto(v, "closing") /\ About(v, c, FALSE)
  /\ UNCHANGED <<status, started, reapAbandoned, err, chanVars, envVars,
                 luaVars, pending, expired>>

\* A suspended one: the close chain is entered, then the channel is closed.
CloseBegin(v, c) ==
  /\ pc[v] = "call"
  /\ c # v /\ c \in reg
  /\ status[c] = "suspended"
  /\ ~CloseChainFull
  /\ closeDepth' = closeDepth + 1
  /\ Goto(v, "closing") /\ About(v, c, FALSE)
  /\ UNCHANGED <<regVars, chanVars, envVars, luaVars, pending, expired>>

CloseMark(v) ==
  /\ pc[v] = "closing"
  /\ LET c == on[v] IN
       \/ /\ started[c] /\ ~resumeChClosed[c]
          /\ status' = [status EXCEPT ![c] = "running"]
          /\ resumeChClosed' = [resumeChClosed EXCEPT ![c] = TRUE]
          /\ Goto(v, "joining")
          /\ UNCHANGED <<reg, callVars, closeDepth>>
       \/ /\ ~started[c]
          /\ status' = [status EXCEPT ![c] = "dead"]
          /\ resumeChClosed' = [resumeChClosed EXCEPT ![c] = TRUE]
          /\ reg' = reg \ {c}
          /\ closeDepth' = closeDepth - 1
          /\ Goto(v, "run") /\ About(v, None, FALSE)
       \/ /\ started[c] /\ resumeChClosed[c]   \* close of a closed channel
          /\ status' = [status EXCEPT ![c] = "running"]
          /\ closeDepth' = closeDepth - 1
          /\ Goto(v, "run") /\ About(v, None, FALSE)
          /\ UNCHANGED <<reg, resumeChClosed>>
  /\ UNCHANGED <<started, reapAbandoned, err, resumeCh, yieldCh, doneCh,
                 envVars, luaVars, pending, expired>>

\* Fault: close does not wait for the handlers of the coroutine.
BugJoinNow(v) ==
  /\ pc[v] = "joining"
  /\ status' = [status EXCEPT ![on[v]] = "dead"]
  /\ reg' = reg \ {on[v]}
  /\ closeDepth' = closeDepth - 1
  /\ Goto(v, "run") /\ About(v, None, FALSE)
  /\ UNCHANGED <<started, reapAbandoned, err, chanVars, envVars, luaVars,
                 pending, expired>>

\* Fault: the close chain is not left.
BugJoinStays(v) ==
  /\ pc[v] = "joining"
  /\ doneCh[on[v]]
  /\ status' = [status EXCEPT ![on[v]] = "dead"]
  /\ reg' = reg \ {on[v]}
  /\ Goto(v, "run") /\ About(v, None, FALSE)
  /\ UNCHANGED <<started, reapAbandoned, err, chanVars, envVars, luaVars,
                 hostVars>>

JoinDone(v) ==
  /\ pc[v] = "joining"
  /\ doneCh[on[v]]
  /\ status' = [status EXCEPT ![on[v]] = "dead"]
  /\ reg' = reg \ {on[v]}
  /\ closeDepth' = closeDepth - 1
  /\ Goto(v, "run") /\ About(v, None, FALSE)
  /\ UNCHANGED <<started, reapAbandoned, err, chanVars, envVars, luaVars,
                 pending, expired>>

-----------------------------------------------------------------------------
(* VM.Close runs reapCoroutines on the host's goroutine.                   *)

CloseVM ==
  /\ pc[Main] = "host"
  /\ pending' = reg
  /\ reg' = {}
  /\ Goto(Main, "sweep")
  /\ UNCHANGED <<status, started, reapAbandoned, err, chanVars, envVars,
                 callVars, luaVars, closeDepth, expired>>

Reapable(c) == started[c] /\ status[c] = "suspended" /\ ~resumeChClosed[c]

ReapSkip(c) ==
  /\ pc[Main] = "sweep"
  /\ c \in pending /\ ~Reapable(c)
  /\ pending' = pending \ {c}
  /\ UNCHANGED <<regVars, chanVars, envVars, pc, callVars, luaVars,
                 closeDepth, expired>>

ReapBegin(c) ==
  /\ pc[Main] = "sweep"
  /\ c \in pending /\ Reapable(c)
  /\ pending' = pending \ {c}
  /\ status' = [status EXCEPT ![c] = "running"]
  /\ resumeChClosed' = [resumeChClosed EXCEPT ![c] = TRUE]
  /\ Goto(Main, "reap") /\ About(Main, c, FALSE)
  /\ UNCHANGED <<reg, started, reapAbandoned, err, resumeCh, yieldCh, doneCh,
                 envVars, luaVars, closeDepth, expired>>

ReapDone ==
  /\ pc[Main] \in {"reap", "reaphard"}
  /\ doneCh[on[Main]]
  /\ status' = [status EXCEPT ![on[Main]] = "dead"]
  /\ Goto(Main, "sweep") /\ About(Main, None, FALSE)
  /\ UNCHANGED <<reg, started, reapAbandoned, err, chanVars, envVars, luaVars,
                 hostVars>>

\* The grace, or the context of the caller of VM.Close, ran out: Terminate.
ReapGrace ==
  /\ pc[Main] = "reap"
  /\ terminated' = [terminated EXCEPT ![on[Main]] = TRUE]
  /\ Goto(Main, "reaphard")
  /\ UNCHANGED <<regVars, chanVars, ctxOf, cancelled, callVars, luaVars,
                 hostVars>>

\* Fault: there is no hard bound.
BugReapHard ==
  /\ pc[Main] = "reaphard"
  /\ doneCh[on[Main]]
  /\ Goto(Main, "closed")
  /\ UNCHANGED <<regVars, chanVars, envVars, callVars, luaVars, hostVars>>

\* So did the hard bound: the sweep ends, the coroutines left stay parked.
ReapHard ==
  /\ pc[Main] = "reaphard"
  /\ status' = [status EXCEPT ![on[Main]] = "dead"]
  /\ reapAbandoned' = [reapAbandoned EXCEPT ![on[Main]] = TRUE]
  /\ Goto(Main, "closed") /\ About(Main, None, FALSE)
  /\ UNCHANGED <<reg, started, err, chanVars, envVars, luaVars, hostVars>>

SweepEnd ==
  /\ pc[Main] = "sweep"
  /\ pending = {}
  /\ Goto(Main, "closed")
  /\ UNCHANGED <<regVars, chanVars, envVars, callVars, luaVars, hostVars>>

-----------------------------------------------------------------------------
(* What the Lua program may choose, and what the scheduler then does.      *)

LuaChoice(v) ==
  \/ Poll(v) \/ DeclareTbc(v) \/ LeaveScope(v)
  \/ Exit(v) \/ Yield(v) \/ SelfClose(v)
  \/ \E c \in Co : \/ Create(v, c) \/ CloseDead(v, c) \/ CloseBegin(v, c)
                   \/ \E w \in BOOLEAN : ResumeCheck(v, c, w)

\* The Lua that v executes comes to an end: it returns, fails or is closed.
HandlerOver(v, p) ==
  NextHandler(v, p) \/ OwnHandlersDone(v, p) \/ PendingHandlersDone(v, p)

LuaEnds(v) ==
  \/ v = Main /\ MainReturns
  \/ BodyReturns(v) \/ BodyFails(v)
  \/ \E p \in Panic \ {"exit"} : HandlerOver(v, p)

\* The error of an interrupt poll, which no pcall of the program stops for
\* longer than until the next poll.
Unwind(v) ==
  /\ Interrupted(v)
  /\ \/ v = Main /\ MainReturns
     \/ BodyFails(v)
     \/ HandlerOver(v, "error")

\* Steps in which the program has no say.
Sched(v) ==
  \/ CallReturns(v)
  \/ v = Main /\ ExitMain
  \/ ExitBody(v) \/ HandlerOver(v, "exit")
  \/ ResumeSend(v) \/ ResumeTooLate(v)
  \/ RecvYield(v) \/ RecvDone(v) \/ RecvCtx(v)
  \/ AwaitDone(v) \/ AwaitYield(v)
  \/ YieldSend(v) \/ Wake(v) \/ WakeClosed(v)
  \/ JoinDead(v) \/ CloseMark(v) \/ JoinDone(v)
  \/ v # Main /\ (StartCo(v) \/ DoneClose(v))

Sweep == \/ \E c \in Co : ReapSkip(c) \/ ReapBegin(c)
         \/ ReapDone \/ SweepEnd

Timer(v) == \/ AwaitTimer(v)
            \/ v = Main /\ (ReapGrace \/ ReapHard)

Host == \/ HostRun \/ CloseVM
        \/ \E x \in Ctx : SetContext(x) \/ Cancel(x)

Next == \/ Host \/ Sweep
        \/ \E v \in VM : LuaChoice(v) \/ LuaEnds(v) \/ Sched(v) \/ Timer(v)

Spec == Init /\ [][Next]_vars

\* Go runs every goroutine that can run, timers fire, and a VM that has been
\* interrupted reaches a poll.  Nothing says a Lua program ever ends.
Fairness == /\ WF_vars(Sweep)
            /\ \A v \in VM : /\ WF_vars(Sched(v))
                             /\ WF_vars(Unwind(v))
                             /\ WF_vars(Timer(v))

FairSpec == Spec /\ Fairness

-----------------------------------------------------------------------------
(* Properties.                                                             *)

TypeOK ==
  /\ reg \subseteq Co
  /\ status \in [Co -> Status]
  /\ started \in [Co -> BOOLEAN]
  /\ resumeChClosed \in [Co -> BOOLEAN]
  /\ reapAbandoned \in [Co -> BOOLEAN]
  /\ resumeCh \in [Co -> {0, 1}]
  /\ yieldCh \in [Co -> {0, 1}]
  /\ doneCh \in [Co -> BOOLEAN]
  /\ err \in [Co -> Panic]
  /\ tbc \in [VM -> Nat]
  /\ todo \in [VM -> Nat]
  /\ terminated \in [VM -> BOOLEAN]
  /\ ctxOf \in [VM -> Ctx]
  /\ cancelled \subseteq Ctx
  /\ pc \in [VM -> Label]
  /\ on \in [VM -> Co \cup {None}]
  /\ wrap \in [VM -> BOOLEAN]
  /\ mode \in [VM -> {"body", "killed", "self", "pending"}]
  /\ lastPanic \in [VM -> Panic]
  /\ closeDepth \in Int
  /\ pending \subseteq Co
  /\ expired \in BOOLEAN

\* v is executing code on some goroutine: its Lua, or the scheduler for it.
Active(v) == pc[v] \in {"run", "call", "exiting", "resuming", "closing",
                        "yielding", "start", "dying",
                        "host", "sweep"}

\* v waits for the coroutine on[v] to stop.
Waits(v) == pc[v] \in {"waiting", "awaiting", "joining", "joindead",
                       "reap", "reaphard"}

\* What it waits for has happened: it can go on.
Woken(v) == /\ Waits(v)
            /\ \/ doneCh[on[v]]
               \/ pc[v] \in {"waiting", "awaiting"} /\ yieldCh[on[v]] = 1
               \/ pc[v] = "joindead" /\ ~started[on[v]]

\* The VM whose turn it is: it executes, or has just been told to go on.
HasTurn(v) ==
  \/ Active(v) \/ Woken(v)
  \/ pc[v] = "parked" /\ (resumeCh[v] = 1 \/ resumeChClosed[v])

\* "The VMs of one family take turns": they share globals, tables and caches
\* without a lock, so no two of them may ever execute at once - unless a resume
\* gave up waiting for a coroutine that did not stop within the grace.
TakeTurns == ~expired => \A v, w \in VM : HasTurn(v) /\ HasTurn(w) => v = w

\* Somebody always has the turn: the VMs never all wait for one another, and
\* no wake-up is lost between the three channels.  This has to hold after a wait
\* was given up, too, when several VMs execute - but for VM.Close, which stops
\* waiting for a coroutine when the grace is over, and may then wait for one that
\* waits for others.
SomebodyMoves ==
  \/ pc[Main] = "closed"
  \/ expired /\ pc[Main] \in {"reap", "reaphard"}
  \/ \E v \in VM : HasTurn(v)

\* A coroutine that others see as suspended can be resumed: it is parked, or
\* was never started, with its three channels open and empty.  resume relies on
\* it for its send under co.mu, which must not block, and close for its close
\* of resumeCh, which must happen once.  And what a coroutine yields is received
\* by the one resume that woke it: while the value is in yieldCh exactly one VM
\* waits for that coroutine.
HandshakesMeet ==
  ~expired =>
    \A c \in Co :
      /\ status[c] = "suspended" /\ (\E v \in VM \ {c} : Active(v)) =>
           /\ pc[c] = IF started[c] THEN "parked" ELSE "fresh"
           /\ resumeCh[c] = 0 /\ yieldCh[c] = 0
           /\ ~resumeChClosed[c] /\ ~doneCh[c]
      /\ yieldCh[c] = 1 =>
           \E v \in VM : /\ pc[v] \in {"waiting", "awaiting"} /\ on[v] = c
                         /\ \A w \in VM : Waits(w) /\ on[w] = c => w = v

\* Whoever runs the close handlers of a dead VM on a goroutine of its own owns
\* that VM: its goroutine has closed doneCh (the last thing it does) or never
\* existed.  No timeout excuses a breach.
VMOwnership ==
  \A v \in VM : pc[v] = "pending" => (started[on[v]] => doneCh[on[v]])

\* A coroutine that was closed has run every one of its close handlers by the
\* time the closer, or the sweep of VM.Close, sees it finished.
CloseDrains ==
  ~expired => \A c \in Co : doneCh[c] /\ resumeChClosed[c] => tbc[c] = 0 /\ todo[c] = 0

\* EnterCloseChain and ExitCloseChain pair up on every path of coroutine.close, so
\* that the family's depth counts exactly the closes in progress: a leak would end in
\* a family that can close nothing any more.
CloseDepthBalanced ==
  closeDepth = Cardinality({v \in VM : pc[v] \in {"closing", "joining",
                                                  "pending"}})

\* A parked goroutine can always be found again: it is in the registry, or the
\* sweep of VM.Close has it on its list, unless its channel has been closed -
\* as long as VM.Close has not been called, or has a list of its own.
ParkedIsRegistered ==
  pc[Main] \notin {"sweep", "reap", "reaphard", "closed"} =>
    \A c \in Co : pc[c] = "parked" /\ ~resumeChClosed[c] => c \in reg

\* "A blocking <close> handler can neither hang VM.Close nor outlive it": the
\* first half, whatever the handlers do.
CloseReturns == pc[Main] = "sweep" ~> pc[Main] = "closed"

\* Cancelling the contexts of a family gets the host its goroutine back, however
\* deep the coroutines are nested in each other and in close handlers.
CancelUnwinds ==
  (\A v \in VM : ctxOf[v] \in cancelled) ~> (pc[Main] \in {"host", "closed"})

-----------------------------------------------------------------------------
(* What the documentation and the comments say and the code does not do.   *)

\* coroutine_close_test.go: closing an already dead coroutine always works.
\* A close handler that coroutine.wrap runs on the dead VM marks that coroutine
\* normal and running again when it resumes another one.
DeadCanBeClosed ==
  pc[Main] = "host" /\ ~expired => \A c \in Co : doneCh[c] => status[c] = "dead"

\* SyncInstructionBudget: ownership of a coroutine's VM does not pass to a closer
\* merely because the coroutine has been observed dead.  A wrap function leaves
\* the coroutine whose handlers it runs registered and dead: a handler further
\* up the same stack closes it again, and ClearCallStack wipes a VM in use.
DeadVMHasOneOwner ==
  ~expired =>
    \A v, w \in VM : pc[v] = "pending" /\ pc[w] = "joindead" => on[v] # on[w]

\* wontfix/coroutine-goroutine-leak: VM.Close reaps the goroutines of all
\* still-suspended coroutines.  Close handlers create and resume others.
NoneLeftAfterClose ==
  pc[Main] = "closed" /\ ~expired =>
    (\E c \in Co : reapAbandoned[c]) \/ (\A c \in Co : pc[c] # "parked")

\* reapCoroutine: Terminate "is what makes the second wait terminate rather
\* than merely expire".  A VM that waits in a resume does not poll.
TerminateUnwinds ==
  \A c \in Co : (terminated[c] /\ mode[c] = "killed") ~> doneCh[c]

\* awaitCoroutineStop: every caller is here because of a cancellation that the
\* coroutine's VM observes at its next poll.  A coroutine keeps the context it
\* was created under.
AwaitedIsInterrupted ==
  \A v \in VM : pc[v] = "awaiting" => Interrupted(on[v])

\* DefaultExitHandler: the sentinel of os.exit propagates through ProtectedCall
\* boundaries.  The recovers around close handlers turn it into an error.
ExitIsNotCaught ==
  [][\A v \in VM : pc[v] = "exiting" => pc'[v] \in {"exiting", "dying", "host"}]_vars
=============================================================================
