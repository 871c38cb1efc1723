------------------------------ MODULE LuaChannel ------------------------------
(***************************************************************************)
(* The channels of golua: vm/chan_provider.go, and the Lua operations on   *)
(* them in stdlib/chan.go.  Goroutines of the host and VMs share a channel *)
(* and any of them may close it while others send.  Go panics on a send on *)
(* a closed channel, so Close first refuses new senders (closed), then     *)
(* wakes the blocked ones (done), waits until every send in flight is over *)
(* (senders, a sync.WaitGroup) and only then closes the value channel.     *)
(*                                                                         *)
(* A value channel is Go's: a buffer of Size[c] values, and with Size 0 a  *)
(* meeting of a sender and a receiver.  A value Go hands to a receiver     *)
(* that is already parked passes through the buffer here.                  *)
(*                                                                         *)
(* The definitions named Bug... are seeded faults that no behaviour uses.  *)
(***************************************************************************)
EXTENDS Integers, Sequences, FiniteSets

CONSTANTS
  Chan,      \* the channels
  Size,      \* Size[c]: the size channel c was made with
  Host,      \* goroutines of the host: they call LuaChannel's methods
  Lua,       \* VMs, all under one context: ch:send, ch:recv, chan.select ...
  MaxSends   \* bound on the values a goroutine tries to send

ASSUME ChannelAssumption ==
  /\ Size \in [Chan -> Nat]
  /\ Host \cap Lua = {}
  /\ IsFiniteSet(Host) /\ IsFiniteSet(Lua)
  /\ MaxSends \in Nat

Proc == Host \cup Lua

VARIABLES
  closed,     \* LuaChannel.closed
  done,       \* LuaChannel.done is closed
  senders,    \* LuaChannel.senders
  chClosed,   \* LuaChannel.ch is closed
  buf,        \* the values buffered in LuaChannel.ch
  accepted,   \* history: the values ch has accepted, in order
  taken,      \* history: how many of them have left it
  cancelled,  \* the context of the VMs has been cancelled
  pc,         \* where the goroutine is
  of,         \* the channels its call is about
  until,      \* the other branches of its select: the context, a timeout
  value,      \* how many values it has tried to send
  told        \* what its call has come to, and on which channel

chanVars  == <<closed, done, senders, chClosed>>
valueVars == <<buf, accepted, taken>>
callVars  == <<of, until, value>>
vars == <<chanVars, valueVars, cancelled, pc, callVars, told>>

(***************************************************************************)
(* idle      between calls         woken      a blocking call of Lua is    *)
(* sending   select of Send                   over, CheckInterrupt is next *)
(* trying    select of TrySend     receiving  select of Recv, chan.select  *)
(* leaving   about to senders.Done closing    Close has set closed         *)
(*                                 draining   senders.Wait                 *)
(***************************************************************************)
Label == {"idle", "sending", "trying", "leaving", "receiving", "woken",
          "closing", "draining"}

Value == Proc \X (1..MaxSends)

Nothing == [is |-> "nothing"]
Outcome == {Nothing}
             \cup [is : {"sent", "closed", "end"}, on : Chan]
             \cup [is : {"got"}, on : Chan, value : Value]

Init ==
  /\ closed = [c \in Chan |-> FALSE]
  /\ done = [c \in Chan |-> FALSE]
  /\ senders = [c \in Chan |-> 0]
  /\ chClosed = [c \in Chan |-> FALSE]
  /\ buf = [c \in Chan |-> <<>>]
  /\ accepted = [c \in Chan |-> <<>>]
  /\ taken = [c \in Chan |-> 0]
  /\ cancelled = FALSE
  /\ pc = [p \in Proc |-> "idle"]
  /\ of = [p \in Proc |-> {}]
  /\ until = [p \in Proc |-> {}]
  /\ value = [p \in Proc |-> 0]
  /\ told = [p \in Proc |-> Nothing]

-----------------------------------------------------------------------------
(* Helpers.                                                                *)

Goto(p, l)    == pc' = [pc EXCEPT ![p] = l]
Tell(p, o)    == told' = [told EXCEPT ![p] = o]
Call(p, C, u) == /\ of' = [of EXCEPT ![p] = C]
                 /\ until' = [until EXCEPT ![p] = u]
Return(p, l)  == Goto(p, l) /\ Call(p, {}, {})

\* Where p goes when a select with the other branches u is over: the blocking
\* calls of Lua, all of which look at the context, have a checkpoint.
After(p, u) == IF p \in Lua /\ "ctx" \in u THEN "woken" ELSE "idle"

\* The other branches a blocking call of p may have: v.Context() is never nil,
\* the context a host passes may be.
Branches(p) == IF p \in Lua THEN {{"ctx"}} ELSE {{}, {"ctx"}}

Message(p) == <<p, value[p]>>
Sent(c)    == [is |-> "sent", on |-> c]
Got(c, v)  == [is |-> "got", on |-> c, value |-> v]
Closed(c)  == [is |-> "closed", on |-> c]
End(c)     == [is |-> "end", on |-> c]

\* "val := <-c.ch": a buffered value ...
Take(p, c) ==
  /\ buf[c] # <<>>
  /\ buf' = [buf EXCEPT ![c] = Tail(@)]
  /\ taken' = [taken EXCEPT ![c] = @ + 1]
  /\ Tell(p, Got(c, Head(buf[c])))
  /\ UNCHANGED accepted

\* ... the end of the stream ...
Drained(p, c) ==
  /\ buf[c] = <<>> /\ chClosed[c]
  /\ Tell(p, End(c))
  /\ UNCHANGED valueVars

\* ... or, unbuffered, the value q is offering.
Pass(q, p, c) ==
  /\ Size[c] = 0
  /\ pc[q] \in {"sending", "trying"} /\ of[q] = {c}
  /\ accepted' = [accepted EXCEPT ![c] = Append(@, Message(q))]
  /\ taken' = [taken EXCEPT ![c] = @ + 1]
  /\ told' = [told EXCEPT ![q] = Sent(c), ![p] = Got(c, Message(q))]
  /\ UNCHANGED buf

-----------------------------------------------------------------------------
(* Send and TrySend.                                                       *)


\* enterSend, one step under mu; l is the select that follows it.
EnterSend(p, c, l, u) ==
  /\ pc[p] = "idle"
  /\ value[p] < MaxSends
  /\ value' = [value EXCEPT ![p] = @ + 1]
  /\ \/ /\ ~closed[c]
        /\ senders' = [senders EXCEPT ![c] = @ + 1]
        /\ Goto(p, l) /\ Call(p, {c}, u) /\ Tell(p, Nothing)
     \/ /\ closed[c]
        /\ Return(p, After(p, u)) /\ Tell(p, Closed(c))
        /\ UNCHANGED senders
  /\ UNCHANGED <<closed, done, chClosed, valueVars, cancelled>>

Send(p, c)    == \E u \in Branches(p) : EnterSend(p, c, "sending", u)
TrySend(p, c) == EnterSend(p, c, "trying", {})

\* The branches of their selects.  Pass is the one of an unbuffered channel.
SendValue(p, c) ==
  /\ pc[p] \in {"sending", "trying"} /\ of[p] = {c}
  /\ Len(buf[c]) < Size[c]
  /\ buf' = [buf EXCEPT ![c] = Append(@, Message(p))]
  /\ accepted' = [accepted EXCEPT ![c] = Append(@, Message(p))]
  /\ Tell(p, Sent(c))
  /\ Goto(p, "leaving")
  /\ UNCHANGED <<chanVars, taken, cancelled, callVars>>

\* Fault: Send does not watch done.
BugSendDone(p, c) ==
  /\ pc[p] = "sending" /\ of[p] = {c}
  /\ chClosed[c]
  /\ Tell(p, Closed(c))
  /\ Goto(p, "leaving")
  /\ UNCHANGED <<chanVars, valueVars, cancelled, callVars>>

SendDone(p, c) ==
  /\ pc[p] = "sending" /\ of[p] = {c}
  /\ done[c]
  /\ Tell(p, Closed(c))
  /\ Goto(p, "leaving")
  /\ UNCHANGED <<chanVars, valueVars, cancelled, callVars>>

SendCtx(p) ==
  /\ pc[p] = "sending"
  /\ "ctx" \in until[p] /\ cancelled
  /\ Goto(p, "leaving")
  /\ UNCHANGED <<chanVars, valueVars, cancelled, callVars, told>>

\* Fault: the try that found no room forgets "defer c.senders.Done()".
BugTrySendFull(p, c) ==
  /\ pc[p] = "trying" /\ of[p] = {c}
  /\ Len(buf[c]) = Size[c]
  /\ Return(p, "idle")
  /\ UNCHANGED <<chanVars, valueVars, cancelled, value, told>>

\* Unbuffered: a receiver at its select may not have parked yet, and be missed.
TrySendFull(p, c) ==
  /\ pc[p] = "trying" /\ of[p] = {c}
  /\ Len(buf[c]) = Size[c]
  /\ Goto(p, "leaving")
  /\ UNCHANGED <<chanVars, valueVars, cancelled, callVars, told>>

SendersDone(p, c) ==
  /\ pc[p] = "leaving" /\ of[p] = {c}
  /\ senders' = [senders EXCEPT ![c] = @ - 1]
  /\ Return(p, After(p, until[p]))
  /\ UNCHANGED <<closed, done, chClosed, valueVars, cancelled, value, told>>

-----------------------------------------------------------------------------
(* Recv, chan.select and TryRecv.                                          *)

Recv(p, c) ==
  /\ pc[p] = "idle"
  /\ \E u \in Branches(p) : Call(p, {c}, u)
  /\ Goto(p, "receiving") /\ Tell(p, Nothing)
  /\ UNCHANGED <<chanVars, valueVars, cancelled, value>>

Select(p, C, u) ==
  /\ p \in Lua /\ pc[p] = "idle"
  /\ Call(p, C, {"ctx"} \cup u)
  /\ Goto(p, "receiving") /\ Tell(p, Nothing)
  /\ UNCHANGED <<chanVars, valueVars, cancelled, value>>

RecvValue(p, c) ==
  /\ pc[p] = "receiving" /\ c \in of[p]
  /\ \/ Take(p, c) \/ Drained(p, c)
  /\ Return(p, After(p, until[p]))
  /\ UNCHANGED <<chanVars, cancelled, value>>

Meet(q, p, c) ==
  /\ pc[p] = "receiving" /\ c \in of[p]
  /\ Pass(q, p, c)
  /\ pc' = [pc EXCEPT ![q] = "leaving", ![p] = After(p, until[p])]
  /\ Call(p, {}, {})
  /\ UNCHANGED <<chanVars, cancelled, value>>

\* Fault: the context is not among the branches of the select.
BugRecvGivesUp(p) ==
  /\ pc[p] = "receiving"
  /\ "timeout" \in until[p]
  /\ Return(p, After(p, until[p]))
  /\ UNCHANGED <<chanVars, valueVars, cancelled, value, told>>

RecvGivesUp(p) ==
  /\ pc[p] = "receiving"
  /\ \/ "ctx" \in until[p] /\ cancelled
     \/ "timeout" \in until[p]
  /\ Return(p, After(p, until[p]))
  /\ UNCHANGED <<chanVars, valueVars, cancelled, value, told>>

TryRecv(p, c) ==
  /\ pc[p] = "idle"
  /\ \/ (Take(p, c) \/ Drained(p, c)) /\ UNCHANGED pc
     \/ \E q \in Proc : /\ pc[q] = "sending"   \* two tries never meet
                        /\ Pass(q, p, c) /\ Goto(q, "leaving")
     \/ /\ buf[c] = <<>> /\ ~chClosed[c]
        /\ Tell(p, Nothing) /\ UNCHANGED <<valueVars, pc>>
  /\ UNCHANGED <<chanVars, cancelled, callVars>>

\* The checkpoint: an interrupted VM drops what the call came to, and every
\* error of Send reaches Lua as "interrupted".
Checkpoint(p) ==
  /\ pc[p] = "woken"
  /\ \/ cancelled /\ Tell(p, Nothing)
     \/ ~cancelled /\ Tell(p, IF told[p].is = "closed" THEN Nothing ELSE told[p])
  /\ Goto(p, "idle")
  /\ UNCHANGED <<chanVars, valueVars, cancelled, callVars>>

-----------------------------------------------------------------------------
(* Close.                                                                  *)

\* One step under mu; the second Close is refused.
Close(p, c) ==
  /\ pc[p] = "idle"
  /\ \/ /\ ~closed[c]
        /\ closed' = [closed EXCEPT ![c] = TRUE]
        /\ Goto(p, "closing") /\ Call(p, {c}, {}) /\ Tell(p, Nothing)
     \/ /\ closed[c]
        /\ Tell(p, Closed(c))
        /\ UNCHANGED <<closed, pc, of, until>>
  /\ UNCHANGED <<done, senders, chClosed, valueVars, cancelled, value>>

CloseDone(p, c) ==
  /\ pc[p] = "closing" /\ of[p] = {c}
  /\ done' = [done EXCEPT ![c] = TRUE]
  /\ Goto(p, "draining")
  /\ UNCHANGED <<closed, senders, chClosed, valueVars, cancelled, callVars, told>>

\* Fault: the value channel is closed without waiting for the senders.
BugCloseCh(p, c) ==
  /\ pc[p] = "draining" /\ of[p] = {c}
  /\ chClosed' = [chClosed EXCEPT ![c] = TRUE]
  /\ Return(p, "idle")
  /\ UNCHANGED <<closed, done, senders, valueVars, cancelled, value, told>>

CloseCh(p, c) ==
  /\ pc[p] = "draining" /\ of[p] = {c}
  /\ senders[c] = 0
  /\ chClosed' = [chClosed EXCEPT ![c] = TRUE]
  /\ Return(p, "idle")
  /\ UNCHANGED <<closed, done, senders, valueVars, cancelled, value, told>>

-----------------------------------------------------------------------------
Cancel ==
  /\ ~cancelled
  /\ cancelled' = TRUE
  /\ UNCHANGED <<chanVars, valueVars, pc, callVars, told>>

\* A goroutine begins a call, or makes one that does not block.
Begin(p) ==
  \/ \E c \in Chan : \/ Send(p, c) \/ TrySend(p, c) \/ Recv(p, c)
                     \/ TryRecv(p, c) \/ Close(p, c)
  \/ \E C \in SUBSET Chan, u \in {{}, {"timeout"}} :
       (C # {} \/ u # {}) /\ Select(p, C, u)

\* It goes on with the call it is in.
Step(p) ==
  \/ SendCtx(p) \/ RecvGivesUp(p) \/ Checkpoint(p)
  \/ \E c \in Chan : \/ SendValue(p, c) \/ SendDone(p, c)
                     \/ TrySendFull(p, c) \/ SendersDone(p, c)
                     \/ RecvValue(p, c) \/ CloseDone(p, c) \/ CloseCh(p, c)
                     \/ \E q \in Proc : Meet(q, p, c)

Next == Cancel \/ \E p \in Proc : Begin(p) \/ Step(p)

Spec == Init /\ [][Next]_vars

\* Go runs every goroutine that can run, and wakes those a channel makes ready.
FairSpec == Spec /\ \A p \in Proc : WF_vars(Step(p))

-----------------------------------------------------------------------------
(* Properties.                                                             *)

\* Among the types: the counter of a WaitGroup is never negative.
TypeOK ==
  /\ closed \in [Chan -> BOOLEAN]
  /\ done \in [Chan -> BOOLEAN]
  /\ senders \in [Chan -> Nat]
  /\ chClosed \in [Chan -> BOOLEAN]
  /\ buf \in [Chan -> Seq(Value)]
  /\ accepted \in [Chan -> Seq(Value)]
  /\ taken \in [Chan -> Nat]
  /\ cancelled \in BOOLEAN
  /\ pc \in [Proc -> Label]
  /\ of \in [Proc -> SUBSET Chan]
  /\ until \in [Proc -> SUBSET {"ctx", "timeout"}]
  /\ value \in [Proc -> 0..MaxSends]
  /\ told \in [Proc -> Outcome]

InFlight(c) == {p \in Proc : pc[p] \in {"sending", "trying", "leaving"}
                             /\ of[p] = {c}}
Closers(c)  == {p \in Proc : pc[p] \in {"closing", "draining"} /\ of[p] = {c}}

\* "A send can never observe an already-closed channel": it would panic, on a
\* goroutine of the host that nothing protects.
NoSendOnClosed ==
  \A c \in Chan : chClosed[c] =>
    \A p \in Proc : pc[p] \in {"sending", "trying"} => of[p] # {c}

\* The WaitGroup counts exactly the sends between enterSend and their return:
\* one too many and Close never returns, one too few and it returns too early
\* or the counter goes negative and panics.
SendersCounted == \A c \in Chan : senders[c] = Cardinality(InFlight(c))

\* done and ch are closed at most once, whoever calls Close at the same time:
\* one closer between its check and its close(ch), none after it.
OneCloser ==
  \A c \in Chan : /\ Cardinality(Closers(c)) <= 1
                  /\ chClosed[c] => Closers(c) = {}
                  /\ done[c] => closed[c]

\* The registration of a send "strictly precedes Close's Wait": once the
\* channel is closed the counter only falls, as sync.WaitGroup demands.
NoAddAfterClose ==
  [][\A c \in Chan : closed[c] => senders'[c] <= senders[c]]_vars

\* What the callers see of the channels is what AbstractChannel promises.
Abs == INSTANCE AbstractChannel
         WITH sent <- accepted, got <- taken, closing <- closed,
              shut <- chClosed

Implements == Abs!Spec

\* Close waits for the senders it has woken, and they all leave: it returns even
\* when nobody receives and nothing is cancelled.
CloseReturns ==
  \A p \in Proc : pc[p] = "closing" ~> pc[p] = "idle"

\* A close releases those who are blocked on the channel: the receivers once it
\* is drained, the senders at once.
CloseReleases ==
  \A p \in Proc, c \in Chan :
    closed[c] /\ of[p] = {c} /\ pc[p] \in {"sending", "receiving"}
      ~> pc[p] = "idle"

\* Cancelling the context of the VMs ends every call of theirs.
CancelReleases ==
  \A p \in Lua : cancelled /\ pc[p] # "idle" ~> pc[p] = "idle"
=============================================================================
