-------------------------- MODULE LuaChannelProofs --------------------------
(* Theorems about the channels and their proofs.                           *)
EXTENDS LuaChannel, FiniteSetTheorems, TLAPS

-----------------------------------------------------------------------------
(* The inductive invariant.  TypeOK alone is not inductive: that what is    *)
(* sent is a Value depends on the sender having counted it, and that the   *)
(* WaitGroup is never negative on what it counts.                          *)

\* Everything of TypeOK but that the counter is not negative.
Typed ==
  /\ closed \in [Chan -> BOOLEAN]
  /\ done \in [Chan -> BOOLEAN]
  /\ senders \in [Chan -> Int]
  /\ chClosed \in [Chan -> BOOLEAN]
  /\ buf \in [Chan -> Seq(Value)]
  /\ accepted \in [Chan -> Seq(Value)]
  /\ taken \in [Chan -> Nat]
  /\ cancelled \in BOOLEAN
  /\ pc \in [Proc -> Label]
  /\ of \in [Proc -> SUBSET Chan]
  /\ until \in [Proc -> SUBSET {"ctx", "timeout"}]
  /\ value \in [Proc -> 0..MaxSends]
  /\ told \in [Proc -> Outcome]

\* A sender at its select offers a value it has counted.
Offered == \A p \in Proc : pc[p] \in {"sending", "trying"} => value[p] > 0

\* The close of a channel is in order: closed, then done, then ch, each by the
\* one closer, and ch only when no send is in flight.
CloseInOrder ==
  \A c \in Chan :
    /\ done[c] => closed[c]
    /\ chClosed[c] => closed[c] /\ Closers(c) = {} /\ InFlight(c) = {}
    /\ Closers(c) # {} => closed[c]
    /\ \A p, q \in Closers(c) : p = q

IInv == Typed /\ Offered /\ SendersCounted /\ CloseInOrder

-----------------------------------------------------------------------------
(* Types.                                                                  *)

\* The initial state has the types.
LEMMA InitTyped == Init => Typed
<1> SUFFICES ASSUME Init PROVE Typed
  OBVIOUS
<1>1. Nothing \in Outcome
  BY DEF Outcome
<1>2. told \in [Proc -> Outcome]
  BY <1>1 DEF Init
<1>3. buf \in [Chan -> Seq(Value)] /\ accepted \in [Chan -> Seq(Value)]
  BY DEF Init
<1>4. value \in [Proc -> 0..MaxSends]
  BY ChannelAssumption DEF Init
<1>5. /\ of \in [Proc -> SUBSET Chan]
      /\ until \in [Proc -> SUBSET {"ctx", "timeout"}]
  BY DEF Init
<1>6. pc \in [Proc -> Label]
  BY DEF Init, Label
<1>7. senders \in [Chan -> Int] /\ taken \in [Chan -> Nat]
  BY DEF Init
<1>8. /\ closed \in [Chan -> BOOLEAN] /\ done \in [Chan -> BOOLEAN]
      /\ chClosed \in [Chan -> BOOLEAN] /\ cancelled \in BOOLEAN
  BY DEF Init
<1> QED
  BY <1>2, <1>3, <1>4, <1>5, <1>6, <1>7, <1>8 DEF Typed

\* The outcomes a call may be told.
LEMMA Outcomes ==
  ASSUME NEW c \in Chan, NEW v \in Value
  PROVE  /\ Nothing \in Outcome /\ Sent(c) \in Outcome /\ Got(c, v) \in Outcome
         /\ Closed(c) \in Outcome /\ End(c) \in Outcome
  BY DEF Outcome, Sent, Got, Closed, End

\* Receiving keeps what it assigns in its types.
LEMMA TakeTyped ==
  ASSUME Typed, NEW p \in Proc, NEW c \in Chan, Take(p, c) \/ Drained(p, c)
  PROVE  /\ buf' \in [Chan -> Seq(Value)] /\ accepted' \in [Chan -> Seq(Value)]
         /\ taken' \in [Chan -> Nat] /\ told' \in [Proc -> Outcome]
<1>1. CASE Take(p, c)
  <2>1. Head(buf[c]) \in Value /\ Tail(buf[c]) \in Seq(Value)
    BY <1>1 DEF Typed, Take
  <2>2. Got(c, Head(buf[c])) \in Outcome
    BY <2>1, Outcomes
  <2> QED
    BY <1>1, <2>1, <2>2 DEF Typed, Take, Tell
<1>2. CASE Drained(p, c)
  <2>1. End(c) \in Outcome
    BY DEF Outcome, End
  <2> QED
    BY <1>2, <2>1 DEF Typed, Drained, Tell, valueVars
<1> QED
  BY <1>1, <1>2

\* Handing a value from a sender to a receiver keeps the types.
LEMMA PassTyped ==
  ASSUME Typed, Offered, NEW p \in Proc, NEW q \in Proc, NEW c \in Chan,
         Pass(q, p, c)
  PROVE  /\ buf' \in [Chan -> Seq(Value)] /\ accepted' \in [Chan -> Seq(Value)]
         /\ taken' \in [Chan -> Nat] /\ told' \in [Proc -> Outcome]
<1>1. Message(q) \in Value
  BY ChannelAssumption DEF Pass, Offered, Typed, Message, Value
<1>2. Sent(c) \in Outcome /\ Got(c, Message(q)) \in Outcome
  BY <1>1, Outcomes
<1>3. told' \in [Proc -> Outcome]
  BY <1>2 DEF Pass, Typed
<1>4. accepted' \in [Chan -> Seq(Value)]
  BY <1>1 DEF Pass, Typed
<1>5. taken' \in [Chan -> Nat]
  BY DEF Pass, Typed
<1> QED
  BY <1>3, <1>4, <1>5 DEF Pass, Typed

\* Every step keeps the types, and a sender's offer a value.
LEMMA TypedStep == Typed /\ Offered /\ [Next]_vars => Typed' /\ Offered'
<1> SUFFICES ASSUME Typed, Offered, [Next]_vars PROVE Typed' /\ Offered'
  OBVIOUS
<1> USE DEF Typed, Offered, Label, chanVars, valueVars, callVars,
            Goto, Tell, Call, Return, After
<1> USE ChannelAssumption
<1>1. CASE Cancel
  BY <1>1 DEF Cancel
<1>2. ASSUME NEW p \in Proc, NEW c \in Chan, NEW l \in {"sending", "trying"},
             NEW u \in SUBSET {"ctx", "timeout"}, EnterSend(p, c, l, u)
      PROVE  Typed' /\ Offered'
  <2>1. Nothing \in Outcome /\ Closed(c) \in Outcome
    BY DEF Outcome, Closed
  <2>2. value' \in [Proc -> 0..MaxSends] /\ value'[p] > 0
    BY <1>2 DEF EnterSend
  <2>3. pc' \in [Proc -> Label]
    BY <1>2 DEF EnterSend
  <2>4. told' \in [Proc -> Outcome]
    BY ZenonT(40), <1>2, <2>1 DEF EnterSend
  <2>5. /\ of' \in [Proc -> SUBSET Chan]
        /\ until' \in [Proc -> SUBSET {"ctx", "timeout"}]
    <3>1. \/ Call(p, {c}, u) \/ Call(p, {}, {})
      BY <1>2 DEF EnterSend
    <3>2. {c} \in SUBSET Chan /\ {} \in SUBSET {"ctx", "timeout"}
      OBVIOUS
    <3> QED
      BY ZenonT(40), <3>1, <3>2
  <2>6. senders' \in [Chan -> Int]
    BY <1>2 DEF EnterSend
  <2>7. Offered'
    BY <1>2, <2>2 DEF EnterSend
  <2> QED
    BY <1>2, <2>2, <2>3, <2>4, <2>5, <2>6, <2>7 DEF EnterSend
<1>3. ASSUME NEW p \in Proc, NEW c \in Chan, SendValue(p, c)
      PROVE  Typed' /\ Offered'
  <2>1. Message(p) \in Value
    BY <1>3 DEF SendValue, Message, Value
  <2>2. Sent(c) \in Outcome
    BY DEF Outcome, Sent
  <2> QED
    BY <1>3, <2>1, <2>2 DEF SendValue
<1>4. ASSUME NEW p \in Proc, NEW c \in Chan, SendDone(p, c)
      PROVE  Typed' /\ Offered'
  <2>1. Closed(c) \in Outcome
    BY DEF Outcome, Closed
  <2> QED
    BY <1>4, <2>1 DEF SendDone
<1>5. ASSUME NEW p \in Proc, SendCtx(p) PROVE Typed' /\ Offered'
  BY <1>5 DEF SendCtx
<1>6. ASSUME NEW p \in Proc, NEW c \in Chan, TrySendFull(p, c)
      PROVE  Typed' /\ Offered'
  BY <1>6 DEF TrySendFull
<1>7. ASSUME NEW p \in Proc, NEW c \in Chan, SendersDone(p, c)
      PROVE  Typed' /\ Offered'
  BY <1>7 DEF SendersDone
<1>8. ASSUME NEW p \in Proc, NEW c \in Chan, Recv(p, c)
      PROVE  Typed' /\ Offered'
  <2>1. Nothing \in Outcome /\ Branches(p) \subseteq SUBSET {"ctx", "timeout"}
    BY DEF Outcome, Branches
  <2> QED
    BY <1>8, <2>1 DEF Recv
<1>9. ASSUME NEW p \in Proc, NEW C \in SUBSET Chan,
             NEW u \in SUBSET {"ctx", "timeout"}, Select(p, C, u)
      PROVE  Typed' /\ Offered'
  <2>1. Nothing \in Outcome
    BY DEF Outcome
  <2> QED
    BY <1>9, <2>1 DEF Select
<1>10. ASSUME NEW p \in Proc, NEW c \in Chan, RecvValue(p, c)
       PROVE  Typed' /\ Offered'
  <2>1. /\ buf' \in [Chan -> Seq(Value)] /\ accepted' \in [Chan -> Seq(Value)]
        /\ taken' \in [Chan -> Nat] /\ told' \in [Proc -> Outcome]
    BY <1>10, TakeTyped DEF RecvValue
  <2> QED
    BY <1>10, <2>1 DEF RecvValue
<1>11. ASSUME NEW p \in Proc, NEW q \in Proc, NEW c \in Chan, Meet(q, p, c)
       PROVE  Typed' /\ Offered'
  <2>1. /\ buf' \in [Chan -> Seq(Value)] /\ accepted' \in [Chan -> Seq(Value)]
        /\ taken' \in [Chan -> Nat] /\ told' \in [Proc -> Outcome]
    BY <1>11, PassTyped DEF Meet
  <2> QED
    BY <1>11, <2>1 DEF Meet
<1>12. ASSUME NEW p \in Proc, RecvGivesUp(p) PROVE Typed' /\ Offered'
  BY <1>12 DEF RecvGivesUp
<1>13. ASSUME NEW p \in Proc, NEW c \in Chan, TryRecv(p, c)
       PROVE  Typed' /\ Offered'
  <2>1. /\ buf' \in [Chan -> Seq(Value)] /\ accepted' \in [Chan -> Seq(Value)]
        /\ taken' \in [Chan -> Nat] /\ told' \in [Proc -> Outcome]
    <3>1. Nothing \in Outcome
      BY DEF Outcome
    <3>2. CASE Take(p, c) \/ Drained(p, c)
      BY <3>2, TakeTyped
    <3>3. ASSUME NEW q \in Proc, Pass(q, p, c)
          PROVE  /\ buf' \in [Chan -> Seq(Value)]
                 /\ accepted' \in [Chan -> Seq(Value)]
                 /\ taken' \in [Chan -> Nat] /\ told' \in [Proc -> Outcome]
      BY <3>3, PassTyped
    <3> QED
      BY <1>13, <3>1, <3>2, <3>3 DEF TryRecv
  <2>2. pc' \in [Proc -> Label] /\ Offered'
    BY <1>13 DEF TryRecv
  <2> QED
    BY <1>13, <2>1, <2>2 DEF TryRecv
<1>14. ASSUME NEW p \in Proc, Checkpoint(p) PROVE Typed' /\ Offered'
  <2>1. Nothing \in Outcome
    BY DEF Outcome
  <2> QED
    BY <1>14, <2>1 DEF Checkpoint
<1>15. ASSUME NEW p \in Proc, NEW c \in Chan, Close(p, c)
       PROVE  Typed' /\ Offered'
  <2>1. Nothing \in Outcome /\ Closed(c) \in Outcome
    BY DEF Outcome, Closed
  <2>2. told' \in [Proc -> Outcome]
    BY <1>15, <2>1 DEF Close
  <2>3. pc' \in [Proc -> Label] /\ Offered'
    BY <1>15 DEF Close
  <2>4. /\ of' \in [Proc -> SUBSET Chan]
        /\ until' \in [Proc -> SUBSET {"ctx", "timeout"}]
    <3>1. \/ Call(p, {c}, {}) \/ UNCHANGED <<of, until>>
      BY <1>15 DEF Close
    <3>2. {c} \in SUBSET Chan /\ {} \in SUBSET {"ctx", "timeout"}
      OBVIOUS
    <3> QED
      BY ZenonT(40), <3>1, <3>2
  <2> QED
    BY <1>15, <2>2, <2>3, <2>4 DEF Close
<1>16. ASSUME NEW p \in Proc, NEW c \in Chan, CloseDone(p, c)
       PROVE  Typed' /\ Offered'
  BY <1>16 DEF CloseDone
<1>17. ASSUME NEW p \in Proc, NEW c \in Chan, CloseCh(p, c)
       PROVE  Typed' /\ Offered'
  BY <1>17 DEF CloseCh
<1>18. CASE UNCHANGED vars
  BY <1>18 DEF vars
<1> HIDE DEF Typed, Offered, Label
<1> QED
  BY <1>1, <1>2, <1>3, <1>4, <1>5, <1>6, <1>7, <1>8, <1>9, <1>10, <1>11, <1>12,
     <1>13, <1>14, <1>15, <1>16, <1>17, <1>18
     DEF Next, Begin, Step, Send, TrySend, Branches

-----------------------------------------------------------------------------
(* The counter and the order of a close.                                   *)

\* Finitely many sends are in flight.
LEMMA InFlightFinite == \A c \in Chan : IsFiniteSet(InFlight(c))
<1>1. IsFiniteSet(Proc)
  BY ChannelAssumption, FS_Union DEF Proc
<1> QED
  BY <1>1, FS_Subset DEF InFlight

\* A step in which nobody enters or leaves a send, and nobody a close.
LEMMA QuietStep ==
  ASSUME Typed, SendersCounted, CloseInOrder, UNCHANGED chanVars,
         \A c \in Chan : /\ InFlight(c)' = InFlight(c)
                         /\ Closers(c)' = Closers(c)
  PROVE  SendersCounted' /\ CloseInOrder'
<1>1. SendersCounted'
  BY DEF SendersCounted, chanVars
<1> QED
  BY <1>1 DEF CloseInOrder, chanVars

\* Every step keeps the count and the order.
LEMMA CountStep ==
  Typed /\ SendersCounted /\ CloseInOrder /\ [Next]_vars
    => SendersCounted' /\ CloseInOrder'
<1> SUFFICES ASSUME Typed, SendersCounted, CloseInOrder, [Next]_vars
             PROVE  SendersCounted' /\ CloseInOrder'
  OBVIOUS
<1>1. CASE Cancel
  BY <1>1, QuietStep DEF Cancel, callVars, InFlight, Closers
<1>2. ASSUME NEW p \in Proc, NEW c \in Chan, NEW l \in {"sending", "trying"},
             NEW u \in SUBSET {"ctx", "timeout"}, EnterSend(p, c, l, u)
      PROVE  SendersCounted' /\ CloseInOrder'
  <2>1. CASE closed[c]
    <3>1. \A d \in Chan : InFlight(d)' = InFlight(d) /\ Closers(d)' = Closers(d)
      BY <1>2, <2>1 DEF Typed, EnterSend, Return, Goto, Call, After, InFlight,
                        Closers
    <3> QED
      BY <1>2, <2>1, <3>1, QuietStep DEF EnterSend, chanVars
  <2>2. CASE ~closed[c]
    <3>0. /\ pc[p] = "idle"
          /\ pc' = [pc EXCEPT ![p] = l] /\ of' = [of EXCEPT ![p] = {c}]
      BY <1>2, <2>2 DEF EnterSend, Goto, Call
    <3>1. /\ InFlight(c)' = InFlight(c) \cup {p} /\ p \notin InFlight(c)
          /\ \A d \in Chan \ {c} : InFlight(d)' = InFlight(d)
      BY <3>0 DEF Typed, InFlight
    <3>2. \A d \in Chan : Closers(d)' = Closers(d)
      BY <1>2, <2>2 DEF Typed, EnterSend, Goto, Call, Closers
    <3>3. Cardinality(InFlight(c)') = Cardinality(InFlight(c)) + 1
      BY <3>1, InFlightFinite, FS_AddElement
    <3>4. SendersCounted'
      BY <1>2, <2>2, <3>1, <3>3 DEF Typed, SendersCounted, EnterSend
    <3>5. CloseInOrder'
      BY <1>2, <2>2, <3>1, <3>2 DEF CloseInOrder, EnterSend
    <3> QED
      BY <3>4, <3>5
  <2> QED
    BY <2>1, <2>2
<1>3. ASSUME NEW p \in Proc, NEW c \in Chan, SendValue(p, c)
      PROVE  SendersCounted' /\ CloseInOrder'
  BY <1>3, QuietStep DEF Typed, SendValue, Goto, callVars, InFlight, Closers
<1>4. ASSUME NEW p \in Proc, NEW c \in Chan, SendDone(p, c)
      PROVE  SendersCounted' /\ CloseInOrder'
  BY <1>4, QuietStep DEF Typed, SendDone, Goto, callVars, InFlight, Closers
<1>5. ASSUME NEW p \in Proc, SendCtx(p)
      PROVE  SendersCounted' /\ CloseInOrder'
  BY <1>5, QuietStep DEF Typed, SendCtx, Goto, callVars, InFlight, Closers
<1>6. ASSUME NEW p \in Proc, NEW c \in Chan, TrySendFull(p, c)
      PROVE  SendersCounted' /\ CloseInOrder'
  BY <1>6, QuietStep DEF Typed, TrySendFull, Goto, callVars, InFlight, Closers
<1>7. ASSUME NEW p \in Proc, NEW c \in Chan, SendersDone(p, c)
      PROVE  SendersCounted' /\ CloseInOrder'
  <2>1. /\ InFlight(c)' = InFlight(c) \ {p} /\ p \in InFlight(c)
        /\ \A d \in Chan \ {c} : InFlight(d)' = InFlight(d)
    BY <1>7 DEF Typed, SendersDone, Return, Goto, Call, After, InFlight
  <2>2. \A d \in Chan : Closers(d)' = Closers(d)
    BY <1>7 DEF Typed, SendersDone, Return, Goto, Call, After, Closers
  <2>3. Cardinality(InFlight(c)') = Cardinality(InFlight(c)) - 1
    BY <2>1, InFlightFinite, FS_RemoveElement
  <2>4. SendersCounted'
    BY <1>7, <2>1, <2>3 DEF Typed, SendersCounted, SendersDone
  <2>5. CloseInOrder'
    BY <1>7, <2>1, <2>2 DEF CloseInOrder, SendersDone
  <2> QED
    BY <2>4, <2>5
<1>8. ASSUME NEW p \in Proc, NEW c \in Chan, Recv(p, c)
      PROVE  SendersCounted' /\ CloseInOrder'
  BY <1>8, QuietStep DEF Typed, Recv, Goto, Call, InFlight, Closers
<1>9. ASSUME NEW p \in Proc, NEW C \in SUBSET Chan,
             NEW u \in SUBSET {"ctx", "timeout"}, Select(p, C, u)
      PROVE  SendersCounted' /\ CloseInOrder'
  BY <1>9, QuietStep DEF Typed, Select, Goto, Call, InFlight, Closers
<1>10. ASSUME NEW p \in Proc, NEW c \in Chan, RecvValue(p, c)
       PROVE  SendersCounted' /\ CloseInOrder'
  BY <1>10, QuietStep DEF Typed, RecvValue, Return, Goto, Call, After, InFlight,
                          Closers
<1>11. ASSUME NEW p \in Proc, NEW q \in Proc, NEW c \in Chan, Meet(q, p, c)
       PROVE  SendersCounted' /\ CloseInOrder'
  BY <1>11, QuietStep DEF Typed, Meet, Pass, Call, After, InFlight, Closers
<1>12. ASSUME NEW p \in Proc, RecvGivesUp(p)
       PROVE  SendersCounted' /\ CloseInOrder'
  BY <1>12, QuietStep DEF Typed, RecvGivesUp, Return, Goto, Call, After,
                          InFlight, Closers
<1>13. ASSUME NEW p \in Proc, NEW c \in Chan, TryRecv(p, c)
       PROVE  SendersCounted' /\ CloseInOrder'
  BY <1>13, QuietStep DEF Typed, TryRecv, Goto, callVars, InFlight, Closers
<1>14. ASSUME NEW p \in Proc, Checkpoint(p)
       PROVE  SendersCounted' /\ CloseInOrder'
  BY <1>14, QuietStep DEF Typed, Checkpoint, Goto, callVars, InFlight, Closers
<1>15. ASSUME NEW p \in Proc, NEW c \in Chan, Close(p, c)
       PROVE  SendersCounted' /\ CloseInOrder'
  <2>1. CASE closed[c]
    <3>1. \A d \in Chan : InFlight(d)' = InFlight(d) /\ Closers(d)' = Closers(d)
      BY <1>15, <2>1 DEF Typed, Close, InFlight, Closers
    <3> QED
      BY <1>15, <2>1, <3>1, QuietStep DEF Close, chanVars
  <2>2. CASE ~closed[c]
    <3>1. \A d \in Chan : InFlight(d)' = InFlight(d)
      BY <1>15, <2>2 DEF Typed, Close, Goto, Call, InFlight
    <3>0. /\ pc[p] = "idle"
          /\ pc' = [pc EXCEPT ![p] = "closing"] /\ of' = [of EXCEPT ![p] = {c}]
          /\ closed' = [closed EXCEPT ![c] = TRUE] /\ UNCHANGED <<done, chClosed>>
      BY <1>15, <2>2 DEF Close, Goto, Call
    <3>2. /\ Closers(c)' = Closers(c) \cup {p}
          /\ \A d \in Chan \ {c} : Closers(d)' = Closers(d)
      BY <3>0 DEF Typed, Closers
    <3>3. Closers(c) = {} /\ ~chClosed[c]
      BY <2>2 DEF CloseInOrder
    <3>4. SendersCounted'
      BY <1>15, <3>1 DEF SendersCounted, Close
    <3>5. CloseInOrder'
      BY <3>0, <3>1, <3>2, <3>3 DEF Typed, CloseInOrder
    <3> QED
      BY <3>4, <3>5
  <2> QED
    BY <2>1, <2>2
<1>16. ASSUME NEW p \in Proc, NEW c \in Chan, CloseDone(p, c)
       PROVE  SendersCounted' /\ CloseInOrder'
  <2>1. /\ \A d \in Chan : InFlight(d)' = InFlight(d)
        /\ \A d \in Chan : Closers(d)' = Closers(d)
    BY <1>16 DEF Typed, CloseDone, Goto, callVars, InFlight, Closers
  <2>2. p \in Closers(c)
    BY <1>16 DEF CloseDone, Closers
  <2>3. SendersCounted'
    BY <1>16, <2>1 DEF SendersCounted, CloseDone
  <2>4. CloseInOrder'
    BY <1>16, <2>1, <2>2 DEF Typed, CloseInOrder, CloseDone
  <2> QED
    BY <2>3, <2>4
<1>17. ASSUME NEW p \in Proc, NEW c \in Chan, CloseCh(p, c)
       PROVE  SendersCounted' /\ CloseInOrder'
  <2>1. /\ \A d \in Chan : InFlight(d)' = InFlight(d)
        /\ Closers(c)' = Closers(c) \ {p}
        /\ \A d \in Chan \ {c} : Closers(d)' = Closers(d)
    BY <1>17 DEF Typed, CloseCh, Return, Goto, Call, InFlight, Closers
  <2>2. p \in Closers(c)
    BY <1>17 DEF CloseCh, Closers
  <2>3. InFlight(c) = {}
    BY <1>17, InFlightFinite, FS_EmptySet DEF CloseCh, SendersCounted
  <2>4. SendersCounted'
    BY <1>17, <2>1 DEF SendersCounted, CloseCh
  <2>5. CloseInOrder'
    BY <1>17, <2>1, <2>2, <2>3 DEF Typed, CloseInOrder, CloseCh
  <2> QED
    BY <2>4, <2>5
<1>18. CASE UNCHANGED vars
  BY <1>18, QuietStep DEF vars, InFlight, Closers, callVars
<1> QED
  BY <1>1, <1>2, <1>3, <1>4, <1>5, <1>6, <1>7, <1>8, <1>9, <1>10, <1>11, <1>12,
     <1>13, <1>14, <1>15, <1>16, <1>17, <1>18
     DEF Next, Begin, Step, Send, TrySend, Branches

-----------------------------------------------------------------------------
(* Theorems.                                                               *)

\* The invariant holds throughout.
LEMMA Inductive == Spec => []IInv
<1>1. Init => IInv
  <2> SUFFICES ASSUME Init PROVE IInv
    OBVIOUS
  <2>1. \A c \in Chan : InFlight(c) = {} /\ Closers(c) = {}
    BY DEF Init, InFlight, Closers
  <2>2. SendersCounted
    BY <2>1, FS_EmptySet DEF Init, SendersCounted
  <2>3. CloseInOrder
    BY <2>1 DEF Init, CloseInOrder
  <2>4. Offered
    BY DEF Init, Offered
  <2> QED
    BY <2>2, <2>3, <2>4, InitTyped DEF IInv
<1>2. IInv /\ [Next]_vars => IInv'
  BY TypedStep, CountStep DEF IInv
<1> QED
  BY <1>1, <1>2, PTL DEF Spec

\* The variables keep their types, and senders never becomes negative, which
\* would panic in sync.WaitGroup, for any number of goroutines and channels.
THEOREM TypeCorrect == Spec => []TypeOK
<1>1. IInv => TypeOK
  <2> SUFFICES ASSUME IInv PROVE TypeOK
    OBVIOUS
  <2>1. \A c \in Chan : senders[c] \in Nat
    BY InFlightFinite, FS_CardinalityType DEF IInv, SendersCounted
  <2>2. senders \in [Chan -> Nat]
    BY <2>1 DEF IInv, Typed
  <2> QED
    BY <2>2 DEF IInv, Typed, TypeOK
<1> QED
  BY <1>1, Inductive, PTL

\* No send ever finds its value channel closed: nothing panics on a goroutine
\* of the host, however many senders and closers there are.
THEOREM NeverSendsOnClosed == Spec => []NoSendOnClosed
<1>1. IInv => NoSendOnClosed
  BY DEF IInv, CloseInOrder, InFlight, NoSendOnClosed
<1> QED
  BY <1>1, Inductive, PTL

\* The WaitGroup counts the sends in flight.
THEOREM CountsSenders == Spec => []SendersCounted
<1>1. IInv => SendersCounted
  BY DEF IInv
<1> QED
  BY <1>1, Inductive, PTL

\* Each channel is closed by one goroutine, once.
THEOREM ClosedOnce == Spec => []OneCloser
<1>1. IInv => OneCloser
  <2> SUFFICES ASSUME IInv, NEW c \in Chan
               PROVE  /\ Cardinality(Closers(c)) <= 1
                      /\ chClosed[c] => Closers(c) = {}
                      /\ done[c] => closed[c]
    BY DEF OneCloser
  <2>1. CASE Closers(c) = {}
    BY <2>1, FS_EmptySet DEF IInv, CloseInOrder
  <2>2. ASSUME NEW p \in Closers(c) PROVE Cardinality(Closers(c)) = 1
    <3>1. Closers(c) = {p}
      BY <2>2 DEF IInv, CloseInOrder
    <3> QED
      BY <3>1, FS_Singleton
  <2> QED
    BY <2>1, <2>2 DEF IInv, CloseInOrder
<1> QED
  BY <1>1, Inductive, PTL

\* Once a channel is closed its WaitGroup only falls.
THEOREM AddPrecedesWait == Spec => NoAddAfterClose
<1>1. IInv /\ [Next]_vars => [\A c \in Chan : closed[c] => senders'[c] <= senders[c]]_vars
  <2> SUFFICES ASSUME Typed, Next, NEW d \in Chan, closed[d]
               PROVE  senders'[d] <= senders[d]
    BY DEF IInv
  <2>1. ASSUME NEW p \in Proc, NEW c \in Chan, NEW l \in {"sending", "trying"},
               NEW u \in SUBSET {"ctx", "timeout"}, EnterSend(p, c, l, u)
        PROVE  senders'[d] <= senders[d]
    <3>1. CASE closed[c]
      BY <2>1, <3>1 DEF Typed, EnterSend
    <3>2. CASE ~closed[c]
      <4>1. c # d /\ senders' = [senders EXCEPT ![c] = @ + 1]
        BY <2>1, <3>2 DEF EnterSend
      <4> QED
        BY <4>1 DEF Typed
    <3> QED
      BY <3>1, <3>2
  <2>2. ASSUME NEW p \in Proc, NEW c \in Chan, SendersDone(p, c)
        PROVE  senders'[d] <= senders[d]
    BY <2>2 DEF Typed, SendersDone
  <2>3. CASE UNCHANGED senders
    BY <2>3 DEF Typed
  <2>4. ASSUME NEW p \in Proc, Begin(p) PROVE senders'[d] <= senders[d]
    BY <2>1, <2>3, <2>4
       DEF Begin, Send, TrySend, Branches, Recv, Select, TryRecv, Close, chanVars
  <2>5. ASSUME NEW p \in Proc, Step(p) PROVE senders'[d] <= senders[d]
    BY <2>2, <2>3, <2>5
       DEF Step, SendValue, SendDone, SendCtx, TrySendFull, RecvValue, Meet,
           RecvGivesUp, Checkpoint, CloseDone, CloseCh, chanVars
  <2> QED
    BY <2>3, <2>4, <2>5 DEF Next, Cancel, chanVars
<1> QED
  BY <1>1, Inductive, PTL DEF Spec, NoAddAfterClose

-----------------------------------------------------------------------------
(* The channels implement AbstractChannel.                                 *)

\* The buffer holds what has been accepted and not been taken, in order.
Queued ==
  \A c \in Chan :
    /\ Len(buf[c]) <= Size[c]
    /\ Len(buf[c]) = Len(accepted[c]) - taken[c]
    /\ \A i \in 1..Len(buf[c]) : buf[c][i] = accepted[c][taken[c] + i]

\* Receiving takes the oldest accepted value that has not been taken.
LEMMA TakeQueued ==
  ASSUME Typed, Queued, NEW p \in Proc, NEW c \in Chan, Take(p, c)
  PROVE  /\ Queued'
         /\ taken[c] < Len(accepted[c])
         /\ Head(buf[c]) = accepted[c][taken[c] + 1]
<1> DEFINE b == buf[c]  t == taken[c]
<1>1. b \in Seq(Value) /\ b # <<>> /\ Len(b) \in Nat \ {0} /\ t \in Nat
  BY DEF Typed, Take
<1>2. /\ buf' = [buf EXCEPT ![c] = Tail(b)]
      /\ taken' = [taken EXCEPT ![c] = t + 1]
      /\ accepted' = accepted
  BY DEF Take
<1>3. /\ buf'[c] = Tail(b) /\ taken'[c] = t + 1
      /\ \A d \in Chan \ {c} : buf'[d] = buf[d] /\ taken'[d] = taken[d]
  BY <1>2 DEF Typed
<1>4. /\ Len(Tail(b)) = Len(b) - 1
      /\ \A i \in 1..Len(Tail(b)) : Tail(b)[i] = b[i + 1]
  BY <1>1
<1>5. /\ Len(b) <= Size[c] /\ Len(b) = Len(accepted[c]) - t
      /\ \A i \in 1..Len(b) : b[i] = accepted[c][t + i]
  BY DEF Queued
<1>6. Len(accepted[c]) \in Nat /\ Size[c] \in Nat
  BY ChannelAssumption DEF Typed
<1>7. \A i \in 1..Len(Tail(b)) : Tail(b)[i] = accepted[c][(t + 1) + i]
  <2> TAKE i \in 1..Len(Tail(b))
  <2>1. i + 1 \in 1..Len(b) /\ t + (i + 1) = (t + 1) + i
    BY <1>1, <1>4
  <2> QED
    BY <1>4, <1>5, <2>1
<1>8. /\ Len(Tail(b)) <= Size[c] /\ Len(Tail(b)) = Len(accepted[c]) - (t + 1)
  BY <1>1, <1>4, <1>5, <1>6
<1>9. Queued'
  <2> HIDE DEF b, t
  <2>1. ASSUME NEW d \in Chan, d # c
        PROVE  /\ Len(buf'[d]) <= Size[d]
               /\ Len(buf'[d]) = Len(accepted'[d]) - taken'[d]
               /\ \A i \in 1..Len(buf'[d]) : buf'[d][i] = accepted'[d][taken'[d] + i]
    <3>1. buf'[d] = buf[d] /\ taken'[d] = taken[d] /\ accepted'[d] = accepted[d]
      BY <1>2, <1>3, <2>1
    <3> QED
      BY <3>1 DEF Queued
  <2>2. /\ Len(buf'[c]) <= Size[c]
        /\ Len(buf'[c]) = Len(accepted'[c]) - taken'[c]
        /\ \A i \in 1..Len(buf'[c]) : buf'[c][i] = accepted'[c][taken'[c] + i]
    BY <1>2, <1>3, <1>7, <1>8
  <2> QED
    BY <2>1, <2>2 DEF Queued
<1>10. Head(b) = b[1] /\ 1 \in 1..Len(b)
  BY <1>1
<1>11. t < Len(accepted[c]) /\ Head(b) = accepted[c][t + 1]
  <2> HIDE DEF b, t
  <2> QED
    BY <1>1, <1>5, <1>6, <1>10
<1> QED
  BY <1>9, <1>11

\* A value accepted, in the buffer or on its way through.
LEMMA PassQueued ==
  ASSUME Typed, Queued, NEW p \in Proc, NEW q \in Proc, NEW c \in Chan,
         Pass(q, p, c)
  PROVE  Queued'
<1>1. /\ accepted' = [accepted EXCEPT ![c] = Append(accepted[c], Message(q))]
      /\ taken' = [taken EXCEPT ![c] = taken[c] + 1] /\ buf' = buf
      /\ Size[c] = 0
  BY DEF Pass
<1>2. Len(buf[c]) = 0 /\ Len(accepted[c]) = taken[c]
  BY <1>1 DEF Queued, Typed
<1>3. Len(accepted'[c]) = Len(accepted[c]) + 1 /\ taken'[c] = taken[c] + 1
  BY <1>1 DEF Typed
<1>4. \A d \in Chan \ {c} : accepted'[d] = accepted[d] /\ taken'[d] = taken[d]
  BY <1>1 DEF Typed
<1>5. /\ Len(buf'[c]) <= Size[c] /\ Len(buf'[c]) = Len(accepted'[c]) - taken'[c]
      /\ \A i \in 1..Len(buf'[c]) : buf'[c][i] = accepted'[c][taken'[c] + i]
  BY <1>1, <1>2, <1>3 DEF Typed
<1> QED
  BY <1>1, <1>4, <1>5 DEF Queued

\* A value put into the buffer is queued last.
LEMMA SendQueued ==
  ASSUME Typed, Queued, NEW p \in Proc, NEW c \in Chan, SendValue(p, c)
  PROVE  Queued'
<1> DEFINE m == Message(p)
<1>1. /\ accepted' = [accepted EXCEPT ![c] = Append(accepted[c], m)]
      /\ buf' = [buf EXCEPT ![c] = Append(buf[c], m)]
      /\ taken' = taken /\ Len(buf[c]) < Size[c]
  BY DEF SendValue
<1>2. /\ accepted'[c] = Append(accepted[c], m) /\ buf'[c] = Append(buf[c], m)
      /\ \A d \in Chan \ {c} : accepted'[d] = accepted[d] /\ buf'[d] = buf[d]
  BY <1>1 DEF Typed
<1>3. /\ Len(Append(buf[c], m)) = Len(buf[c]) + 1
      /\ Len(Append(accepted[c], m)) = Len(accepted[c]) + 1
      /\ Len(buf[c]) \in Nat /\ Len(accepted[c]) \in Nat /\ taken[c] \in Nat
      /\ Size[c] \in Nat
  BY ChannelAssumption DEF Typed
<1>4. /\ Len(buf[c]) = Len(accepted[c]) - taken[c]
      /\ \A i \in 1..Len(buf[c]) : buf[c][i] = accepted[c][taken[c] + i]
  BY DEF Queued
<1>5. \A i \in 1..Len(Append(buf[c], m)) :
        Append(buf[c], m)[i] = Append(accepted[c], m)[taken[c] + i]
  <2> TAKE i \in 1..Len(Append(buf[c], m))
  <2>1. CASE i = Len(buf[c]) + 1
    <3>1. taken[c] + i = Len(accepted[c]) + 1
      BY <1>3, <1>4, <2>1
    <3> QED
      BY <2>1, <3>1 DEF Typed
  <2>2. CASE i \in 1..Len(buf[c])
    <3>1. taken[c] + i \in 1..Len(accepted[c])
      BY <1>3, <1>4, <2>2
    <3>2. /\ Append(buf[c], m)[i] = buf[c][i]
          /\ Append(accepted[c], m)[taken[c] + i] = accepted[c][taken[c] + i]
      BY <2>2, <3>1 DEF Typed
    <3> QED
      BY <1>4, <2>2, <3>2
  <2>3. i = Len(buf[c]) + 1 \/ i \in 1..Len(buf[c])
    <3>1. i \in 1..(Len(buf[c]) + 1)
      BY <1>3
    <3> QED
      BY <1>3, <3>1
  <2> QED
    BY <2>1, <2>2, <2>3
<1>6. /\ Len(buf'[c]) <= Size[c] /\ Len(buf'[c]) = Len(accepted'[c]) - taken[c]
  BY <1>1, <1>2, <1>3, <1>4
<1>7. ASSUME NEW d \in Chan, d # c
      PROVE  /\ Len(buf'[d]) <= Size[d]
             /\ Len(buf'[d]) = Len(accepted'[d]) - taken'[d]
             /\ \A i \in 1..Len(buf'[d]) : buf'[d][i] = accepted'[d][taken'[d] + i]
  <2>1. buf'[d] = buf[d] /\ taken'[d] = taken[d] /\ accepted'[d] = accepted[d]
    BY <1>1, <1>2, <1>7
  <2> QED
    BY <2>1 DEF Queued
<1>8. \A i \in 1..Len(buf'[c]) : buf'[c][i] = accepted'[c][taken'[c] + i]
  <2>1. taken'[c] = taken[c]
    BY <1>1
  <2> HIDE DEF m
  <2> QED
    BY <1>2, <1>5, <2>1
<1>9. taken'[c] = taken[c]
  BY <1>1
<1> QED
  BY <1>6, <1>7, <1>8, <1>9 DEF Queued

\* Every step keeps the queue.
LEMMA QueuedStep == Typed /\ Queued /\ [Next]_vars => Queued'
<1> SUFFICES ASSUME Typed, Queued, [Next]_vars PROVE Queued'
  OBVIOUS
<1>1. CASE UNCHANGED valueVars
  BY <1>1 DEF Queued, valueVars
<1>2. ASSUME NEW p \in Proc, NEW c \in Chan, Take(p, c) PROVE Queued'
  BY <1>2, TakeQueued
<1>3. ASSUME NEW p \in Proc, NEW q \in Proc, NEW c \in Chan, Pass(q, p, c)
      PROVE  Queued'
  BY <1>3, PassQueued
<1>4. ASSUME NEW p \in Proc, NEW c \in Chan, SendValue(p, c) PROVE Queued'
  BY <1>4, SendQueued
<1>5. ASSUME NEW p \in Proc, NEW c \in Chan, TryRecv(p, c) PROVE Queued'
  BY <1>1, <1>2, <1>3, <1>5 DEF TryRecv, Drained
<1>6. ASSUME NEW p \in Proc, NEW c \in Chan, RecvValue(p, c) PROVE Queued'
  BY <1>1, <1>2, <1>6 DEF RecvValue, Drained
<1>7. ASSUME NEW p \in Proc, Begin(p) PROVE Queued'
  BY <1>1, <1>5, <1>7
     DEF Begin, Send, TrySend, EnterSend, Recv, Select, Close
<1>8. ASSUME NEW p \in Proc, Step(p) PROVE Queued'
  BY <1>1, <1>3, <1>4, <1>6, <1>8
     DEF Step, SendCtx, RecvGivesUp, Checkpoint, SendDone, TrySendFull,
         SendersDone, CloseDone, CloseCh, Meet
<1>9. CASE UNCHANGED vars
  BY <1>1, <1>9 DEF vars
<1> QED
  BY <1>1, <1>7, <1>8, <1>9 DEF Next, Cancel

\* Receiving is receiving the oldest value, or hearing of the end.
LEMMA TakeRefines ==
  ASSUME IInv, Queued, NEW p \in Proc, NEW c \in Chan,
         Take(p, c) \/ Drained(p, c), UNCHANGED chanVars
  PROVE  Abs!Get(p, c) \/ Abs!End(p, c)
<1>1. CASE Take(p, c)
  <2>1. taken[c] < Len(accepted[c]) /\ Head(buf[c]) = accepted[c][taken[c] + 1]
    BY <1>1, TakeQueued DEF IInv
  <2> QED
    BY <1>1, <2>1 DEF Take, Tell, Got, chanVars, Abs!Get
<1>2. CASE Drained(p, c)
  <2>1. taken[c] = Len(accepted[c])
    <3>1. Len(buf[c]) = 0
      BY <1>2 DEF Drained
    <3> QED
      BY <3>1 DEF IInv, Typed, Queued
  <2> QED
    BY <1>2, <2>1 DEF Drained, Tell, End, chanVars, valueVars, Abs!End
<1> QED
  BY <1>1, <1>2

\* A value handed from a sender to a receiver is one meeting of the abstract channel.
LEMMA PassRefines ==
  ASSUME IInv, NEW p \in Proc, NEW q \in Proc, NEW c \in Chan, p # q,
         Pass(q, p, c), UNCHANGED chanVars
  PROVE  Abs!Meet(q, p, c, Message(q))
<1>1. ~chClosed[c]
  BY DEF Pass, IInv, CloseInOrder, InFlight
<1> QED
  BY <1>1 DEF Pass, Sent, Got, chanVars, Abs!Meet

\* Every step is one of the abstract channels, or is not seen by the callers.
LEMMA RefineStep == IInv /\ Queued /\ [Next]_vars => [Abs!Next]_(Abs!vars)
<1> SUFFICES ASSUME IInv, Queued, [Next]_vars
             PROVE  Abs!Next \/ UNCHANGED Abs!vars
  OBVIOUS
<1>1. CASE UNCHANGED <<chanVars, valueVars, told>>
  BY <1>1 DEF chanVars, valueVars, Abs!vars
<1>2. ASSUME NEW p \in Proc, UNCHANGED <<closed, chClosed, valueVars>>,
             Tell(p, Nothing)
      PROVE  Abs!Next
  <2>1. Abs!Forget(p)
    BY <1>2 DEF Tell, Nothing, valueVars, Abs!Forget, Abs!Nothing
  <2> QED
    BY <2>1 DEF Abs!Next
<1>3. ASSUME NEW p \in Proc, NEW c \in Chan, closed[c],
             UNCHANGED <<closed, chClosed, valueVars>>, Tell(p, Closed(c))
      PROVE  Abs!Next
  <2>1. Abs!Refuse(p, c)
    BY <1>3 DEF Tell, Closed, valueVars, Abs!Refuse
  <2> QED
    BY <2>1 DEF Abs!Next
<1>4. ASSUME NEW p \in Proc, NEW c \in Chan, SendValue(p, c) PROVE Abs!Next
  <2>1. Message(p) \in Value
    BY <1>4, ChannelAssumption
       DEF SendValue, IInv, Offered, Typed, Message, Value
  <2>2. ~chClosed[c]
    BY <1>4 DEF SendValue, IInv, CloseInOrder, InFlight
  <2>3. Len(accepted[c]) - taken[c] < Size[c]
    BY <1>4 DEF SendValue, Queued
  <2>4. Abs!Put(p, c, Message(p))
    BY <1>4, <2>2, <2>3 DEF SendValue, Tell, Sent, chanVars, Abs!Put
  <2> QED
    BY <2>1, <2>4 DEF Abs!Next
<1>5. ASSUME NEW p \in Proc, NEW c \in Chan, Take(p, c) \/ Drained(p, c),
             UNCHANGED chanVars
      PROVE  Abs!Next
  BY <1>5, TakeRefines DEF Abs!Next
<1>6. ASSUME NEW p \in Proc, NEW q \in Proc, NEW c \in Chan, p # q,
             Pass(q, p, c), UNCHANGED chanVars
      PROVE  Abs!Next
  <2>1. Message(q) \in Value
    BY <1>6, ChannelAssumption DEF Pass, IInv, Offered, Typed, Message, Value
  <2>2. Abs!Meet(q, p, c, Message(q))
    BY <1>6, PassRefines
  <2> QED
    BY <2>1, <2>2 DEF Abs!Next
<1>7. ASSUME NEW p \in Proc, NEW c \in Chan, SendDone(p, c) PROVE Abs!Next
  <2>1. closed[c]
    BY <1>7 DEF SendDone, IInv, CloseInOrder
  <2> QED
    BY <1>3, <1>7, <2>1 DEF SendDone, chanVars
<1>8. ASSUME NEW p \in Proc, NEW c \in Chan, TryRecv(p, c)
      PROVE  Abs!Next \/ UNCHANGED Abs!vars
  <2>1. ASSUME NEW q \in Proc, pc[q] = "sending" PROVE p # q
    BY <1>8, <2>1 DEF TryRecv
  <2> QED
    BY <1>2, <1>5, <1>6, <1>8, <2>1 DEF TryRecv, chanVars
<1>9. ASSUME NEW p \in Proc, NEW q \in Proc, NEW c \in Chan, Meet(q, p, c)
      PROVE  Abs!Next
  BY <1>6, <1>9 DEF Meet, Pass
<1>10. ASSUME NEW p \in Proc, NEW c \in Chan, Close(p, c) PROVE Abs!Next
  <2>1. CASE closed[c]
    BY <1>3, <1>10, <2>1 DEF Close
  <2>2. CASE ~closed[c]
    <3>1. Abs!BeginClose(p, c)
      BY <1>10, <2>2
         DEF Close, Tell, Nothing, valueVars, Abs!BeginClose, Abs!Nothing
    <3> QED
      BY <3>1 DEF Abs!Next
  <2> QED
    BY <2>1, <2>2
<1>11. ASSUME NEW p \in Proc, NEW c \in Chan, CloseCh(p, c) PROVE Abs!Next
  <2>1. closed[c] /\ ~chClosed[c]
    BY <1>11 DEF CloseCh, IInv, CloseInOrder, Closers
  <2>2. Abs!EndClose(c)
    BY <1>11, <2>1 DEF CloseCh, valueVars, Abs!EndClose
  <2> QED
    BY <2>2 DEF Abs!Next
<1>12. ASSUME NEW p \in Proc, Checkpoint(p)
       PROVE  Abs!Next \/ UNCHANGED Abs!vars
  <2>1. CASE Tell(p, Nothing)
    BY <1>2, <1>12, <2>1 DEF Checkpoint, chanVars
  <2>2. CASE Tell(p, told[p])
    <3>1. told' = told
      BY <2>2 DEF Tell, IInv, Typed
    <3> QED
      BY <1>1, <1>12, <3>1 DEF Checkpoint
  <2> QED
    BY <1>12, <2>1, <2>2 DEF Checkpoint
<1>13. ASSUME NEW p \in Proc, NEW c \in Chan, NEW l, NEW u,
              EnterSend(p, c, l, u)
       PROVE  Abs!Next
  BY <1>2, <1>3, <1>13 DEF EnterSend
<1>14. ASSUME NEW p \in Proc, Begin(p)
       PROVE  Abs!Next \/ UNCHANGED Abs!vars
  BY <1>2, <1>8, <1>10, <1>13, <1>14
     DEF Begin, Send, TrySend, Recv, Select, chanVars
<1>15. ASSUME NEW p \in Proc, NEW c \in Chan, TrySendFull(p, c)
       PROVE  UNCHANGED Abs!vars
  BY <1>15 DEF TrySendFull, chanVars, valueVars, Abs!vars
<1>16. ASSUME NEW p \in Proc, NEW c \in Chan,
              SendersDone(p, c) \/ CloseDone(p, c)
       PROVE  UNCHANGED Abs!vars
  BY <1>16 DEF SendersDone, CloseDone, valueVars, Abs!vars
<1>17. ASSUME NEW p \in Proc, NEW c \in Chan, RecvValue(p, c) PROVE Abs!Next
  BY <1>5, <1>17 DEF RecvValue
<1>18. ASSUME NEW p \in Proc, SendCtx(p) \/ RecvGivesUp(p)
       PROVE  UNCHANGED Abs!vars
  BY <1>18 DEF SendCtx, RecvGivesUp, chanVars, valueVars, Abs!vars
<1>19. ASSUME NEW p \in Proc, Step(p)
       PROVE  Abs!Next \/ UNCHANGED Abs!vars
  BY <1>4, <1>7, <1>9, <1>11, <1>12, <1>15, <1>16, <1>17, <1>18, <1>19 DEF Step
<1>20. CASE Cancel
  BY <1>1, <1>20 DEF Cancel
<1>21. CASE UNCHANGED vars
  BY <1>1, <1>21 DEF vars
<1> QED
  BY <1>14, <1>19, <1>20, <1>21 DEF Next

\* Whatever the goroutines of the host and the VMs do, what their calls return
\* is what the bounded FIFO pipes of AbstractChannel may answer.
THEOREM ChannelsImplementAbstract == Spec => Implements
<1>1. Init => Queued
  <2> SUFFICES ASSUME Init, NEW c \in Chan
               PROVE  /\ Len(buf[c]) <= Size[c]
                      /\ Len(buf[c]) = Len(accepted[c]) - taken[c]
                      /\ \A i \in 1..Len(buf[c]) :
                            buf[c][i] = accepted[c][taken[c] + i]
    BY DEF Queued
  <2>1. buf[c] = <<>> /\ accepted[c] = <<>> /\ taken[c] = 0 /\ Size[c] \in Nat
    BY ChannelAssumption DEF Init
  <2> QED
    BY <2>1
<1>2. IInv /\ Queued /\ [Next]_vars => Queued'
  BY QueuedStep DEF IInv
<1>3. Init => Abs!Init
  BY DEF Init, Nothing, Abs!Init, Abs!Nothing
<1> QED
  BY <1>1, <1>2, <1>3, Inductive, RefineStep, PTL DEF Spec, Implements, Abs!Spec
=============================================================================
