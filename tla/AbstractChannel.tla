--------------------------- MODULE AbstractChannel ---------------------------
(***************************************************************************)
(* What channels promise to those who call them, whichever goroutine they  *)
(* are on: each is a bounded first-in first-out pipe that is closed once.  *)
(* Nothing is accepted after the close, everything accepted before it can  *)
(* still be received, and only then does a receiver hear of the end.       *)
(*                                                                         *)
(* LuaChannel implements this specification (LuaChannel!Implements).       *)
(***************************************************************************)
EXTENDS Integers, Sequences

CONSTANTS
  Chan,     \* the channels
  Proc,     \* the goroutines that use them
  Value,    \* what they send
  Size      \* how many accepted values may wait in each

VARIABLES
  sent,     \* the values a channel has accepted, in order
  got,      \* how many of them have been received
  closing,  \* a Close has begun: senders may be refused
  shut,     \* it has ended: no value is accepted any more
  told      \* what the call of each goroutine has come to

vars == <<sent, got, closing, shut, told>>

Nothing == [is |-> "nothing"]

Init ==
  /\ sent = [c \in Chan |-> <<>>]
  /\ got = [c \in Chan |-> 0]
  /\ closing = [c \in Chan |-> FALSE]
  /\ shut = [c \in Chan |-> FALSE]
  /\ told = [p \in Proc |-> Nothing]

\* A value is accepted: while there is room, and before the close has ended.
Put(p, c, v) ==
  /\ ~shut[c]
  /\ Len(sent[c]) - got[c] < Size[c]
  /\ sent' = [sent EXCEPT ![c] = Append(@, v)]
  /\ told' = [told EXCEPT ![p] = [is |-> "sent", on |-> c]]
  /\ UNCHANGED <<got, closing, shut>>

\* The oldest value is received.
Get(p, c) ==
  /\ got[c] < Len(sent[c])
  /\ got' = [got EXCEPT ![c] = @ + 1]
  /\ told' = [told EXCEPT ![p] = [is |-> "got", on |-> c,
                                  value |-> sent[c][got[c] + 1]]]
  /\ UNCHANGED <<sent, closing, shut>>

\* A sender and a receiver meet on a channel where nothing can wait.
Meet(p, q, c, v) ==
  /\ ~shut[c]
  /\ Size[c] = 0 /\ p # q
  /\ sent' = [sent EXCEPT ![c] = Append(@, v)]
  /\ got' = [got EXCEPT ![c] = @ + 1]
  /\ told' = [told EXCEPT ![p] = [is |-> "sent", on |-> c],
                          ![q] = [is |-> "got", on |-> c, value |-> v]]
  /\ UNCHANGED <<closing, shut>>

\* A send, or a second close, is refused.
Refuse(p, c) ==
  /\ closing[c]
  /\ told' = [told EXCEPT ![p] = [is |-> "closed", on |-> c]]
  /\ UNCHANGED <<sent, got, closing, shut>>

\* The end of the stream: closed and drained.
End(p, c) ==
  /\ shut[c] /\ got[c] = Len(sent[c])
  /\ told' = [told EXCEPT ![p] = [is |-> "end", on |-> c]]
  /\ UNCHANGED <<sent, got, closing, shut>>

\* A call gives up, or the next one begins.
Forget(p) ==
  /\ told' = [told EXCEPT ![p] = Nothing]
  /\ UNCHANGED <<sent, got, closing, shut>>

\* The first Close of a channel begins, and ends.
BeginClose(p, c) ==
  /\ ~closing[c]
  /\ closing' = [closing EXCEPT ![c] = TRUE]
  /\ told' = [told EXCEPT ![p] = Nothing]
  /\ UNCHANGED <<sent, got, shut>>

EndClose(c) ==
  /\ closing[c] /\ ~shut[c]
  /\ shut' = [shut EXCEPT ![c] = TRUE]
  /\ UNCHANGED <<sent, got, closing, told>>

Next ==
  \/ \E p \in Proc : Forget(p)
  \/ \E c \in Chan : EndClose(c)
  \/ \E p \in Proc, c \in Chan :
       \/ Get(p, c) \/ Refuse(p, c) \/ End(p, c) \/ BeginClose(p, c)
       \/ \E v \in Value : Put(p, c, v) \/ \E q \in Proc : Meet(p, q, c, v)

Spec == Init /\ [][Next]_vars
=============================================================================
