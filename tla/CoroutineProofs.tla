-------------------------- MODULE CoroutineProofs --------------------------
(***************************************************************************)
(* Theorems about the coroutine scheduler and their proofs.                *)
(*                                                                         *)
(* The VMs of a family take turns.  TakeTurns, SomebodyMoves and           *)
(* HandshakesMeet are about what several VMs and three channels do at the  *)
(* same moment, and none of them is inductive.  The invariant that is has  *)
(* two halves: Baton, about who has the turn and who waits for it, and     *)
(* Shakes, about what the channels, the statuses and the pending handlers  *)
(* of a coroutine can be where it is.  A step changes the first in one of  *)
(* a few ways, each a lemma (BatonKept ... BatonLeft): the VM goes on, is  *)
(* answered, tells a coroutine to go on, stops, steps aside for another.   *)
(*                                                                         *)
(* Both are void once resume or VM.Close has given up a wait.  What is     *)
(* left of SomebodyMoves then rests on another invariant, Late.            *)
(***************************************************************************)
EXTENDS Coroutine, FiniteSetTheorems, LoopProofs, TLAPS

-----------------------------------------------------------------------------
(* Type correctness.                                                       *)

\* Taking over the handlers of a dead VM keeps what it assigns in its types.
LEMMA ClosePendingTBCType ==
  ASSUME TypeOK, NEW v \in VM, NEW c \in Co \cup {None}, ClosePendingTBC(v, c)
  PROVE  /\ tbc' \in [VM -> Nat] /\ todo' \in [VM -> Nat]
         /\ mode' \in [VM -> {"body", "killed", "self", "pending"}]
         /\ lastPanic' \in [VM -> Panic]
         /\ pc' \in [VM -> Label]
         /\ on' \in [VM -> Co \cup {None}]
         /\ wrap' \in [VM -> BOOLEAN]
         /\ closeDepth' \in Int
<1> USE DEF TypeOK, VM, Label, Panic, callVars, Goto, About, TakeHandlers
<1>1. CASE tbc[c] = 0 \/ CloseChainFull
  <2>1. tbc' \in [VM -> Nat]
    BY <1>1 DEF ClosePendingTBC
  <2>2. pc' \in [VM -> Label]
    BY <1>1 DEF ClosePendingTBC
  <2>3. on' \in [VM -> Co \cup {None}]
    BY <1>1 DEF ClosePendingTBC
  <2>4. wrap' \in [VM -> BOOLEAN]
    BY <1>1 DEF ClosePendingTBC
  <2> QED
    BY <1>1, <2>1, <2>2, <2>3, <2>4 DEF ClosePendingTBC
<1>2. CASE tbc[c] > 0 /\ ~CloseChainFull
  <2>1. tbc' \in [VM -> Nat]
    BY <1>2 DEF ClosePendingTBC
  <2>2. todo' \in [VM -> Nat]
    BY <1>2 DEF ClosePendingTBC
  <2>3. pc' \in [VM -> Label]
    BY <1>2 DEF ClosePendingTBC
  <2>4. /\ mode' \in [VM -> {"body", "killed", "self", "pending"}]
        /\ lastPanic' \in [VM -> Panic]
    BY <1>2 DEF ClosePendingTBC
  <2>5. closeDepth' \in Int
    BY <1>2 DEF ClosePendingTBC
  <2> QED
    BY <1>2, <2>1, <2>2, <2>3, <2>4, <2>5 DEF ClosePendingTBC
<1> QED
  BY <1>1, <1>2 DEF ClosePendingTBC

\* Every step keeps the variables of the scheduler in their types.
LEMMA TypeStep == TypeOK /\ [Next]_vars => TypeOK'
<1> SUFFICES ASSUME TypeOK, [Next]_vars PROVE TypeOK'
  OBVIOUS
<1> USE DEF TypeOK, VM, Label, Status, Panic, regVars, chanVars, envVars,
            callVars, luaVars, hostVars, Goto, About, Mark
<1>1. CASE HostRun
  BY <1>1 DEF HostRun
<1>2. CASE CloseVM
  BY <1>2 DEF CloseVM
<1>3. ASSUME NEW x \in Ctx, SetContext(x) PROVE TypeOK'
  BY <1>3 DEF SetContext
<1>4. ASSUME NEW x \in Ctx, Cancel(x) PROVE TypeOK'
  BY <1>4 DEF Cancel
<1>5. ASSUME NEW c \in Co, ReapSkip(c) PROVE TypeOK'
  BY <1>5 DEF ReapSkip
<1>6. ASSUME NEW c \in Co, ReapBegin(c) PROVE TypeOK'
  BY <1>6 DEF ReapBegin
<1>7. CASE ReapDone
  BY <1>7 DEF ReapDone
<1>8. CASE SweepEnd
  BY <1>8 DEF SweepEnd
<1>9. ASSUME NEW v \in VM, Poll(v) PROVE TypeOK'
  BY <1>9 DEF Poll
<1>10. ASSUME NEW v \in VM, DeclareTbc(v) PROVE TypeOK'
  BY <1>10 DEF DeclareTbc
<1>11. ASSUME NEW v \in VM, LeaveScope(v) PROVE TypeOK'
  BY <1>11 DEF LeaveScope
<1>12. ASSUME NEW v \in VM, Exit(v) PROVE TypeOK'
  BY <1>12 DEF Exit
<1>13. ASSUME NEW v \in VM, Yield(v) PROVE TypeOK'
  BY <1>13 DEF Yield
<1>14. ASSUME NEW v \in VM, SelfClose(v) PROVE TypeOK'
  <2>1. CASE tbc[v] = 0
    BY <1>14, <2>1 DEF SelfClose
  <2>2. CASE tbc[v] # 0
    BY <1>14, <2>2 DEF SelfClose, TakeHandlers
  <2> QED
    BY <2>1, <2>2
<1>15. ASSUME NEW v \in VM, NEW c \in Co, Create(v, c) PROVE TypeOK'
  BY <1>15 DEF Create
<1>16. ASSUME NEW v \in VM, NEW c \in Co, CloseDead(v, c) PROVE TypeOK'
  BY <1>16 DEF CloseDead
<1>17. ASSUME NEW v \in VM, NEW c \in Co, CloseBegin(v, c) PROVE TypeOK'
  BY <1>17 DEF CloseBegin
<1>18. ASSUME NEW v \in VM, NEW c \in Co, NEW w \in BOOLEAN, ResumeCheck(v, c, w) PROVE TypeOK'
  BY <1>18 DEF ResumeCheck
<1>19. CASE MainReturns
  BY <1>19 DEF MainReturns
<1>20. ASSUME NEW v \in VM, BodyReturns(v) PROVE TypeOK'
  BY <1>20 DEF BodyReturns
<1>21. ASSUME NEW v \in VM, BodyFails(v) PROVE TypeOK'
  BY <1>21 DEF BodyFails
<1>22. ASSUME NEW v \in VM, NEW p \in Panic, NextHandler(v, p) PROVE TypeOK'
  BY <1>22 DEF NextHandler, HandlerEnd, LastPanic
<1>23. ASSUME NEW v \in VM, NEW p \in Panic, OwnHandlersDone(v, p) PROVE TypeOK'
  BY <1>23 DEF OwnHandlersDone, HandlerEnd, LastPanic
<1>24. ASSUME NEW v \in VM, NEW p \in Panic, PendingHandlersDone(v, p) PROVE TypeOK'
  BY <1>24 DEF PendingHandlersDone, HandlerEnd, LastPanic
<1>25. ASSUME NEW v \in VM, CallReturns(v) PROVE TypeOK'
  BY <1>25 DEF CallReturns
<1>26. CASE ExitMain
  BY <1>26 DEF ExitMain
<1>27. ASSUME NEW v \in VM, ExitBody(v) PROVE TypeOK'
  BY <1>27 DEF ExitBody
<1>28. ASSUME NEW v \in VM, ResumeSend(v) PROVE TypeOK'
  BY <1>28 DEF ResumeSend
<1>29. ASSUME NEW v \in VM, ResumeTooLate(v) PROVE TypeOK'
  BY <1>29 DEF ResumeTooLate
<1>30. ASSUME NEW v \in VM, RecvYield(v) PROVE TypeOK'
  BY <1>30 DEF RecvYield
<1>31. ASSUME NEW v \in VM, RecvDone(v) PROVE TypeOK'
  <2>1. status' \in [Co -> Status]
    BY <1>31 DEF RecvDone
  <2>2. CASE err[on[v]] = "error" /\ wrap[v]
    <3>1. on[v] \in Co \cup {None} /\ ClosePendingTBC(v, on[v])
      BY <1>31, <2>2 DEF RecvDone
    <3>2. /\ tbc' \in [VM -> Nat] /\ todo' \in [VM -> Nat]
          /\ mode' \in [VM -> {"body", "killed", "self", "pending"}]
          /\ lastPanic' \in [VM -> Panic]
          /\ pc' \in [VM -> Label]
          /\ on' \in [VM -> Co \cup {None}]
          /\ wrap' \in [VM -> BOOLEAN]
          /\ closeDepth' \in Int
      BY <3>1, ClosePendingTBCType
    <3>3. UNCHANGED <<reg, started, reapAbandoned, err, chanVars, envVars,
                      pending, expired>>
      BY <1>31 DEF RecvDone
    <3> QED
      BY <2>1, <3>2, <3>3
  <2>3. CASE ~(err[on[v]] = "error" /\ wrap[v])
    <3>1. pc' \in [VM -> Label]
      BY <1>31, <2>3 DEF RecvDone
    <3>2. on' \in [VM -> Co \cup {None}] /\ wrap' \in [VM -> BOOLEAN]
      BY <1>31, <2>3 DEF RecvDone
    <3>3. UNCHANGED <<luaVars, closeDepth>>
      BY <1>31, <2>3 DEF RecvDone
    <3>4. UNCHANGED <<reg, started, reapAbandoned, err, chanVars, envVars,
                      pending, expired>>
      BY <1>31 DEF RecvDone
    <3> QED
      BY <2>1, <3>1, <3>2, <3>3, <3>4
  <2> QED
    BY <2>2, <2>3
<1>32. ASSUME NEW v \in VM, RecvCtx(v) PROVE TypeOK'
  BY <1>32 DEF RecvCtx
<1>33. ASSUME NEW v \in VM, AwaitDone(v) PROVE TypeOK'
  BY <1>33 DEF AwaitDone
<1>34. ASSUME NEW v \in VM, AwaitYield(v) PROVE TypeOK'
  BY <1>34 DEF AwaitYield
<1>35. ASSUME NEW v \in VM, YieldSend(v) PROVE TypeOK'
  BY <1>35 DEF YieldSend
<1>36. ASSUME NEW v \in VM, Wake(v) PROVE TypeOK'
  BY <1>36 DEF Wake
<1>37. ASSUME NEW v \in VM, WakeClosed(v) PROVE TypeOK'
  BY <1>37 DEF WakeClosed, TakeHandlers
<1>38. ASSUME NEW v \in VM, JoinDead(v) PROVE TypeOK'
  <2>1. err' \in [Co -> Panic]
    BY <1>38 DEF JoinDead
  <2>2. CASE reapAbandoned[on[v]]
    <3>1. /\ pc' \in [VM -> Label]
          /\ on' \in [VM -> Co \cup {None}]
          /\ wrap' \in [VM -> BOOLEAN]
      BY ZenonT(40), <1>38, <2>2 DEF JoinDead
    <3> QED
      BY <1>38, <2>1, <2>2, <3>1 DEF JoinDead
  <2>3. CASE ~reapAbandoned[on[v]]
    <3>1. ClosePendingTBC(v, on[v])
      BY <1>38, <2>3 DEF JoinDead
    <3> QED
      BY <1>38, <2>1, <3>1, ClosePendingTBCType DEF JoinDead
  <2> QED
    BY <2>2, <2>3
<1>39. ASSUME NEW v \in VM, CloseMark(v) PROVE TypeOK'
  <2>1. reg' \subseteq Co
    BY <1>39 DEF CloseMark
  <2>2. /\ status' \in [Co -> Status]
        /\ resumeChClosed' \in [Co -> BOOLEAN]
    BY ZenonT(40), <1>39 DEF CloseMark
  <2>3. pc' \in [VM -> Label]
    BY <1>39 DEF CloseMark
  <2>4. on' \in [VM -> Co \cup {None}] /\ wrap' \in [VM -> BOOLEAN]
    BY ZenonT(40), <1>39 DEF CloseMark
  <2>5. closeDepth' \in Int
    BY <1>39 DEF CloseMark
  <2> QED
    BY <1>39, <2>1, <2>2, <2>3, <2>4, <2>5 DEF CloseMark
<1>40. ASSUME NEW v \in VM, JoinDone(v) PROVE TypeOK'
  <2>1. reg' \subseteq Co /\ status' \in [Co -> Status]
    BY <1>40 DEF JoinDone
  <2>2. pc' \in [VM -> Label]
    BY <1>40 DEF JoinDone
  <2>3. on' \in [VM -> Co \cup {None}] /\ wrap' \in [VM -> BOOLEAN]
    BY <1>40 DEF JoinDone
  <2>4. closeDepth' \in Int
    BY <1>40 DEF JoinDone
  <2> QED
    BY <1>40, <2>1, <2>2, <2>3, <2>4 DEF JoinDone
<1>41. ASSUME NEW v \in VM, StartCo(v) PROVE TypeOK'
  BY <1>41 DEF StartCo
<1>42. ASSUME NEW v \in VM, DoneClose(v) PROVE TypeOK'
  BY <1>42 DEF DoneClose
<1>43. ASSUME NEW v \in VM, AwaitTimer(v) PROVE TypeOK'
  BY <1>43 DEF AwaitTimer
<1>44. CASE ReapGrace
  BY <1>44 DEF ReapGrace
<1>45. CASE ReapHard
  BY <1>45 DEF ReapHard
<1>46. CASE UNCHANGED vars
  BY <1>46 DEF vars
<1> QED
  BY <1>1, <1>2, <1>3, <1>4, <1>5, <1>6, <1>7, <1>8, <1>9, <1>10, <1>11,
     <1>12, <1>13, <1>14, <1>15, <1>16, <1>17, <1>18, <1>19, <1>20, <1>21,
     <1>22, <1>23, <1>24, <1>25, <1>26, <1>27, <1>28, <1>29, <1>30, <1>31,
     <1>32, <1>33, <1>34, <1>35, <1>36, <1>37, <1>38, <1>39, <1>40, <1>41,
     <1>42, <1>43, <1>44, <1>45, <1>46
     DEF Next, Host, Sweep, LuaChoice, LuaEnds, HandlerOver, Sched, Timer

\* So do the initial states.
LEMMA InitType == ASSUME Init PROVE TypeOK
<1> USE DEF Init, TypeOK, VM, Label, Status, Panic
<1>1. /\ reg \subseteq Co
      /\ status \in [Co -> Status]
      /\ started \in [Co -> BOOLEAN]
      /\ resumeChClosed \in [Co -> BOOLEAN]
      /\ reapAbandoned \in [Co -> BOOLEAN]
  OBVIOUS
<1>2. /\ resumeCh \in [Co -> {0, 1}]
      /\ yieldCh \in [Co -> {0, 1}]
      /\ doneCh \in [Co -> BOOLEAN]
      /\ err \in [Co -> Panic]
  OBVIOUS
<1>3. tbc \in [VM -> Nat] /\ todo \in [VM -> Nat]
  OBVIOUS
<1>4. ctxOf \in [VM -> Ctx] /\ cancelled \subseteq Ctx
  OBVIOUS
<1>5. terminated \in [VM -> BOOLEAN] /\ wrap \in [VM -> BOOLEAN]
  OBVIOUS
<1>6. pc \in [VM -> Label] /\ on \in [VM -> Co \cup {None}]
  OBVIOUS
<1>7. /\ mode \in [VM -> {"body", "killed", "self", "pending"}]
      /\ lastPanic \in [VM -> Panic]
  OBVIOUS
<1>8. closeDepth \in Int
  OBVIOUS
<1>9. pending \subseteq Co
  OBVIOUS
<1>10. expired \in BOOLEAN
  OBVIOUS
<1> QED
  BY <1>1, <1>2, <1>3, <1>4, <1>5, <1>6, <1>7, <1>8, <1>9, <1>10

\* The scheduler of every family keeps its variables in their types.
THEOREM TypeCorrect == Spec => []TypeOK
  BY InitType, TypeStep, PTL DEF Spec

-----------------------------------------------------------------------------
(* Ownership of the VM of a dead coroutine.  VMOwnership is not inductive:  *)
(* that a VM with handlers to run was ever started, and that a library call *)
(* is about a coroutine at all, has to come along.                          *)

\* The states in which a library call of v is about the coroutine on[v].
InCall(v) == pc[v] \in {"resuming", "waiting", "awaiting", "closing",
                        "joining", "joindead", "pending", "reap", "reaphard"}

OwnInv ==
  /\ TypeOK
  /\ \A v \in VM : InCall(v) => on[v] \in Co
  /\ \A c \in Co : pc[c] # "fresh" => started[c]
  /\ \A c \in Co : tbc[c] > 0 => started[c]
  /\ \A v \in VM : pc[v] = "pending" => doneCh[on[v]]

\* Every step keeps the owner of a dead VM its only user.
LEMMA OwnStep == OwnInv /\ [Next]_vars => OwnInv'
<1> SUFFICES ASSUME OwnInv, [Next]_vars PROVE OwnInv'
  OBVIOUS
<1>0. TypeOK'
  BY TypeStep DEF OwnInv
<1> USE CoroutineAssumption, <1>0
    DEF OwnInv, InCall, TypeOK, VM, regVars, chanVars, envVars, callVars,
        luaVars, hostVars, Goto, About, Mark
<1>1. CASE HostRun
  BY <1>1 DEF HostRun
<1>2. CASE CloseVM
  BY <1>2 DEF CloseVM
<1>3. ASSUME NEW x \in Ctx, SetContext(x) PROVE OwnInv'
  BY <1>3 DEF SetContext
<1>4. ASSUME NEW x \in Ctx, Cancel(x) PROVE OwnInv'
  BY <1>4 DEF Cancel
<1>5. ASSUME NEW c \in Co, ReapSkip(c) PROVE OwnInv'
  BY <1>5 DEF ReapSkip
<1>6. ASSUME NEW c \in Co, ReapBegin(c) PROVE OwnInv'
  BY <1>6 DEF ReapBegin
<1>7. CASE ReapDone
  BY <1>7 DEF ReapDone
<1>8. CASE SweepEnd
  BY <1>8 DEF SweepEnd
<1>9. ASSUME NEW v \in VM, Poll(v) PROVE OwnInv'
  BY <1>9 DEF Poll
<1>10. ASSUME NEW v \in VM, DeclareTbc(v) PROVE OwnInv'
  BY <1>10 DEF DeclareTbc
<1>11. ASSUME NEW v \in VM, LeaveScope(v) PROVE OwnInv'
  BY <1>11 DEF LeaveScope
<1>12. ASSUME NEW v \in VM, Exit(v) PROVE OwnInv'
  BY <1>12 DEF Exit
<1>13. ASSUME NEW v \in VM, Yield(v) PROVE OwnInv'
  BY <1>13 DEF Yield
<1>14. ASSUME NEW v \in VM, SelfClose(v) PROVE OwnInv'
  BY <1>14 DEF SelfClose, TakeHandlers
<1>15. ASSUME NEW v \in VM, NEW c \in Co, Create(v, c) PROVE OwnInv'
  BY <1>15 DEF Create
<1>16. ASSUME NEW v \in VM, NEW c \in Co, CloseDead(v, c) PROVE OwnInv'
  BY <1>16 DEF CloseDead
<1>17. ASSUME NEW v \in VM, NEW c \in Co, CloseBegin(v, c) PROVE OwnInv'
  BY <1>17 DEF CloseBegin
<1>18. ASSUME NEW v \in VM, NEW c \in Co, NEW w \in BOOLEAN, ResumeCheck(v, c, w) PROVE OwnInv'
  BY <1>18 DEF ResumeCheck
<1>19. CASE MainReturns
  BY <1>19 DEF MainReturns
<1>20. ASSUME NEW v \in VM, BodyReturns(v) PROVE OwnInv'
  BY <1>20 DEF BodyReturns
<1>21. ASSUME NEW v \in VM, BodyFails(v) PROVE OwnInv'
  BY <1>21 DEF BodyFails
<1>22. ASSUME NEW v \in VM, NEW p \in Panic, NextHandler(v, p) PROVE OwnInv'
  BY <1>22 DEF NextHandler, HandlerEnd, LastPanic
<1>23. ASSUME NEW v \in VM, NEW p \in Panic, OwnHandlersDone(v, p) PROVE OwnInv'
  BY <1>23 DEF OwnHandlersDone, HandlerEnd, LastPanic
<1>24. ASSUME NEW v \in VM, NEW p \in Panic, PendingHandlersDone(v, p) PROVE OwnInv'
  BY <1>24 DEF PendingHandlersDone, HandlerEnd, LastPanic
<1>25. ASSUME NEW v \in VM, CallReturns(v) PROVE OwnInv'
  BY <1>25 DEF CallReturns
<1>26. CASE ExitMain
  BY <1>26 DEF ExitMain
<1>27. ASSUME NEW v \in VM, ExitBody(v) PROVE OwnInv'
  BY <1>27 DEF ExitBody
<1>28. ASSUME NEW v \in VM, ResumeSend(v) PROVE OwnInv'
  BY <1>28 DEF ResumeSend
<1>29. ASSUME NEW v \in VM, ResumeTooLate(v) PROVE OwnInv'
  BY <1>29 DEF ResumeTooLate
<1>30. ASSUME NEW v \in VM, RecvYield(v) PROVE OwnInv'
  BY <1>30 DEF RecvYield
<1>31. ASSUME NEW v \in VM, RecvDone(v) PROVE OwnInv'
  BY <1>31 DEF RecvDone, ClosePendingTBC, TakeHandlers
<1>32. ASSUME NEW v \in VM, RecvCtx(v) PROVE OwnInv'
  BY <1>32 DEF RecvCtx
<1>33. ASSUME NEW v \in VM, AwaitDone(v) PROVE OwnInv'
  BY <1>33 DEF AwaitDone
<1>34. ASSUME NEW v \in VM, AwaitYield(v) PROVE OwnInv'
  BY <1>34 DEF AwaitYield
<1>35. ASSUME NEW v \in VM, YieldSend(v) PROVE OwnInv'
  BY <1>35 DEF YieldSend
<1>36. ASSUME NEW v \in VM, Wake(v) PROVE OwnInv'
  BY <1>36 DEF Wake
<1>37. ASSUME NEW v \in VM, WakeClosed(v) PROVE OwnInv'
  BY SMTT(30), <1>37 DEF WakeClosed, TakeHandlers
<1>38. ASSUME NEW v \in VM, JoinDead(v) PROVE OwnInv'
  <2>1. CASE reapAbandoned[on[v]]
    BY <1>38, <2>1 DEF JoinDead
  <2>2. CASE ~reapAbandoned[on[v]]
    <3>1. /\ pc[v] = "joindead"
          /\ started[on[v]] => doneCh[on[v]]
          /\ ClosePendingTBC(v, on[v])
          /\ UNCHANGED <<started, doneCh>>
      BY <1>38, <2>2 DEF JoinDead
    <3>2. CASE tbc[on[v]] = 0 \/ CloseChainFull
      <4>1. /\ pc' = [pc EXCEPT ![v] = "run"]
            /\ on' = [on EXCEPT ![v] = None]
            /\ tbc' = [tbc EXCEPT ![on[v]] = 0]
        BY <3>1, <3>2 DEF ClosePendingTBC
      <4> QED
        BY <3>1, <4>1
    <3>3. CASE tbc[on[v]] > 0 /\ ~CloseChainFull
      <4>1. /\ pc' = [pc EXCEPT ![v] = "pending", ![on[v]] = "run"]
            /\ UNCHANGED on
            /\ tbc' = [tbc EXCEPT ![on[v]] = 0]
        BY <3>1, <3>3 DEF ClosePendingTBC, TakeHandlers
      <4>2. on[v] \in Co /\ started[on[v]] /\ doneCh[on[v]]
        BY <3>1, <3>3
      <4> QED
        BY <3>1, <4>1, <4>2
    <3> QED
      BY <3>1, <3>2, <3>3 DEF ClosePendingTBC
  <2> QED
    BY <2>1, <2>2
<1>39. ASSUME NEW v \in VM, CloseMark(v) PROVE OwnInv'
  BY <1>39 DEF CloseMark
<1>40. ASSUME NEW v \in VM, JoinDone(v) PROVE OwnInv'
  BY <1>40 DEF JoinDone
<1>41. ASSUME NEW v \in VM, StartCo(v) PROVE OwnInv'
  BY <1>41 DEF StartCo
<1>42. ASSUME NEW v \in VM, DoneClose(v) PROVE OwnInv'
  BY <1>42 DEF DoneClose
<1>43. ASSUME NEW v \in VM, AwaitTimer(v) PROVE OwnInv'
  BY <1>43 DEF AwaitTimer
<1>44. CASE ReapGrace
  BY <1>44 DEF ReapGrace
<1>45. CASE ReapHard
  BY <1>45 DEF ReapHard
<1>46. CASE UNCHANGED vars
  BY <1>46 DEF vars
<1> HIDE CoroutineAssumption, <1>0
    DEF OwnInv, InCall, TypeOK, VM, regVars, chanVars, envVars, callVars,
        luaVars, hostVars, Goto, About, Mark
<1> QED
  BY <1>1, <1>2, <1>3, <1>4, <1>5, <1>6, <1>7, <1>8, <1>9, <1>10, <1>11,
     <1>12, <1>13, <1>14, <1>15, <1>16, <1>17, <1>18, <1>19, <1>20, <1>21,
     <1>22, <1>23, <1>24, <1>25, <1>26, <1>27, <1>28, <1>29, <1>30, <1>31,
     <1>32, <1>33, <1>34, <1>35, <1>36, <1>37, <1>38, <1>39, <1>40, <1>41,
     <1>42, <1>43, <1>44, <1>45, <1>46
     DEF Next, Host, Sweep, LuaChoice, LuaEnds, HandlerOver, Sched, Timer, Panic

\* Whoever runs the close handlers of a dead coroutine's VM does so after the
\* goroutine of that coroutine has finished with it (coroutine.close of a dead
\* coroutine, and the error path of a wrap function).
THEOREM DeadVMOwnership == Spec => []VMOwnership
<1>1. ASSUME Init PROVE OwnInv
  <2>1. TypeOK
    BY <1>1, InitType
  <2>2. /\ \A v \in VM : ~InCall(v) /\ pc[v] # "pending"
        /\ \A c \in Co : pc[c] = "fresh" /\ tbc[c] = 0
    BY <1>1, CoroutineAssumption DEF Init, InCall, VM
  <2> QED
    BY <2>1, <2>2 DEF OwnInv
<1>2. OwnInv => VMOwnership
  BY DEF OwnInv, VMOwnership
<1>3. Init => OwnInv
  BY <1>1
<1> QED
  BY <1>2, <1>3, OwnStep, PTL DEF Spec

-----------------------------------------------------------------------------
(* The life cycle.  What the proofs below need to know of the places a VM,  *)
(* a goroutine and an id can be in: none of it depends on a timeout.        *)

\* Where a VM may be: the labels of the host's side are the root VM's alone, and
\* those of a goroutine of its own are the coroutines'.
Places ==
  /\ pc[Main] \notin {"fresh", "start", "yielding", "parked", "dying", "gone"}
  /\ mode[Main] = "body"
  /\ \A c \in Co : pc[c] \notin {"host", "sweep", "reap", "reaphard", "closed"}

\* Close handlers run with nothing left to be closed, and nowhere else are
\* handlers left over; a coroutine does not yield from one.
Modes ==
  \A v \in VM :
    /\ mode[v] # "body" => tbc[v] = 0
    /\ mode[v] = "body" => todo[v] = 0
    /\ pc[v] \in {"fresh", "start", "yielding", "parked"} => mode[v] = "body"

\* doneCh is closed exactly when the goroutine has returned; from then on the VM
\* only ever executes the handlers it left pending.
Ends ==
  \A c \in Co :
    /\ doneCh[c] => pc[c] = "gone" \/ mode[c] = "pending"
    /\ pc[c] = "gone" => doneCh[c] /\ mode[c] # "pending"
    /\ mode[c] = "pending" => doneCh[c] /\ pc[c] # "dying"

\* A VM whose pending handlers run has one owner.
Owners ==
  /\ \A v \in VM : pc[v] = "pending" => mode[on[v]] = "pending"
  /\ \A v, w \in VM :
       pc[v] = "pending" /\ pc[w] = "pending" /\ on[v] = on[w] => v = w

\* An id is new until it is allocated, and its goroutine until it is started.
Ids ==
  /\ \A c \in Co :
       /\ status[c] = "none" => pc[c] = "fresh" /\ ~resumeChClosed[c]
       /\ c \in reg \cup pending => status[c] # "none"
       /\ pc[c] = "fresh" => ~started[c]
  /\ \A v \in VM : InCall(v) => status[on[v]] # "none"

\* Until VM.Close sweeps, a coroutine that can still be resumed or closed is
\* registered, and one that is dead has no way back to a yield.
Known ==
  pc[Main] \notin {"sweep", "reap", "reaphard", "closed"} =>
    \A c \in Co :
      /\ (status[c] # "none" /\ ~resumeChClosed[c] /\ ~doneCh[c]
            /\ pc[c] \notin {"dying", "gone"}) => c \in reg
      /\ status[c] = "dead" =>
           pc[c] \in {"dying", "gone"} \/ doneCh[c] \/ resumeChClosed[c]

LifeInv == OwnInv /\ Places /\ Modes /\ Ends /\ Owners /\ Ids /\ Known


\* What a step may not do if Known is to hold after it.
LEMMA KnownKept ==
  ASSUME Known,
         pc[Main] \in {"sweep", "reap", "reaphard", "closed"} =>
           pc'[Main] \in {"sweep", "reap", "reaphard", "closed"},
         \A c \in Co : status[c] = "none" => status'[c] = "none",
         \A c \in Co : resumeChClosed[c] => resumeChClosed'[c],
         \A c \in Co : doneCh[c] => doneCh'[c],
         \A c \in Co : pc[c] \in {"dying", "gone"} =>
                         pc'[c] \in {"dying", "gone"} \/ doneCh'[c],
         \A c \in Co : c \in reg => c \in reg' \/ resumeChClosed'[c],
         \A c \in Co : status'[c] = "dead" => status[c] = "dead" \/ resumeChClosed'[c]
  PROVE  Known'
  BY DEF Known

\* ClosePendingTBC hands the turn to a VM whose goroutine has returned, and to
\* none that somebody else owns.
LEMMA LifeTakesOver ==
  ASSUME LifeInv, OwnInv', NEW v \in VM,
         pc[v] \in {"waiting", "joindead"}, started[on[v]] => doneCh[on[v]],
         ClosePendingTBC(v, on[v]), status' \in {status, Mark(v, "running")},
         UNCHANGED <<reg, started, doneCh, resumeChClosed, pending>>
  PROVE  LifeInv'
<1> DEFINE c == on[v]
<1>1. c \in Co
  BY DEF LifeInv, OwnInv, InCall
<1>2. CASE tbc[c] = 0 \/ CloseChainFull
  <2>1. /\ pc' = [pc EXCEPT ![v] = "run"] /\ on' = [on EXCEPT ![v] = None]
        /\ tbc' = [tbc EXCEPT ![c] = 0] /\ UNCHANGED <<todo, mode>>
    BY <1>2 DEF ClosePendingTBC, Goto, About
  <2> HIDE DEF c
  <2> QED
    BY <1>1, <2>1, CoroutineAssumption
       DEF LifeInv, OwnInv, InCall, TypeOK, VM, Mark, Places, Modes, Ends, Owners, Ids, Known
<1>3. CASE tbc[c] > 0 /\ ~CloseChainFull
  <2>0. ~(tbc[c] = 0 \/ CloseChainFull)
    BY <1>1, <1>3 DEF LifeInv, OwnInv, TypeOK, VM
  <2>1. /\ pc' = [pc EXCEPT ![v] = "pending", ![c] = "run"] /\ on' = on
        /\ tbc' = [tbc EXCEPT ![c] = 0] /\ todo' = [todo EXCEPT ![c] = tbc[c] - 1]
        /\ mode' = [mode EXCEPT ![c] = "pending"]
    BY <2>0 DEF ClosePendingTBC, TakeHandlers, callVars
  <2>2. doneCh[c] /\ mode[c] = "body" /\ pc[c] = "gone" /\ c # v
    BY <1>1, <1>3 DEF LifeInv, OwnInv, TypeOK, VM, Modes, Ends
  <2>3. \A u \in VM : pc[u] = "pending" => on[u] # c
    BY <2>2 DEF LifeInv, Owners
  <2>4. v \in VM /\ c \in VM
    BY <1>1 DEF VM
  <2>5. Places' /\ Modes' /\ Ends'
    BY <1>1, <2>1, <2>2, <2>4, CoroutineAssumption
       DEF LifeInv, OwnInv, TypeOK, VM, Places, Modes, Ends
  <2>6. Owners'
    BY <1>1, <2>1, <2>2, <2>3, <2>4 DEF c, LifeInv, OwnInv, TypeOK, Owners
  <2>7. Ids'
    BY <1>1, <2>1, <2>2, <2>4, CoroutineAssumption
       DEF c, LifeInv, OwnInv, InCall, TypeOK, VM, Mark, Ids
  <2>8. Known'
    <3>1. status' = status \/ (v \in reg /\ status' = [status EXCEPT ![v] = "running"])
      BY DEF Mark
    <3>2. \A d \in Co : pc'[d] = pc[d] \/ d = v \/ doneCh[d]
      BY <2>1, <2>2, <2>4 DEF LifeInv, OwnInv, TypeOK, VM
    <3>3. pc'[Main] = pc[Main] \/ Main = v
      BY <1>1, <2>1, <2>2, <2>4, CoroutineAssumption DEF LifeInv, OwnInv, TypeOK, VM
    <3> HIDE DEF c
    <3> QED
      BY <3>1, <3>2, <3>3 DEF LifeInv, OwnInv, TypeOK, Known
  <2> QED
    BY <2>5, <2>6, <2>7, <2>8 DEF LifeInv
<1> QED
  BY <1>2, <1>3 DEF ClosePendingTBC

\* Every step keeps the life cycle.
LEMMA LifeStep == LifeInv /\ [Next]_vars => LifeInv'
<1> SUFFICES ASSUME LifeInv, [Next]_vars PROVE LifeInv'
  OBVIOUS
<1>0. OwnInv'
  BY OwnStep DEF LifeInv
<1> USE CoroutineAssumption, <1>0
    DEF LifeInv, OwnInv, InCall, TypeOK, VM, regVars, chanVars, envVars,
        callVars, luaVars, hostVars, Goto, About, Mark,
        Places, Modes, Ends, Owners, Ids, Known
<1>1. CASE HostRun
  BY <1>1 DEF HostRun
<1>2. CASE CloseVM
  BY <1>2 DEF CloseVM
<1>3. ASSUME NEW x \in Ctx, SetContext(x) PROVE LifeInv'
  BY <1>3 DEF SetContext
<1>4. ASSUME NEW x \in Ctx, Cancel(x) PROVE LifeInv'
  BY <1>4 DEF Cancel
<1>5. ASSUME NEW c \in Co, ReapSkip(c) PROVE LifeInv'
  BY <1>5 DEF ReapSkip
<1>6. ASSUME NEW c \in Co, ReapBegin(c) PROVE LifeInv'
  BY <1>6 DEF ReapBegin
<1>7. CASE ReapDone
  BY <1>7 DEF ReapDone
<1>8. CASE SweepEnd
  BY <1>8 DEF SweepEnd
<1>9. ASSUME NEW v \in VM, Poll(v) PROVE LifeInv'
  BY <1>9 DEF Poll
<1>10. ASSUME NEW v \in VM, DeclareTbc(v) PROVE LifeInv'
  BY <1>10 DEF DeclareTbc
<1>11. ASSUME NEW v \in VM, LeaveScope(v) PROVE LifeInv'
  BY <1>11 DEF LeaveScope
<1>12. ASSUME NEW v \in VM, Exit(v) PROVE LifeInv'
  BY <1>12 DEF Exit
<1>13. ASSUME NEW v \in VM, Yield(v) PROVE LifeInv'
  BY <1>13 DEF Yield
<1>14. ASSUME NEW v \in VM, SelfClose(v) PROVE LifeInv'
  <2>1. /\ v \in Co /\ pc[v] = "call" /\ mode[v] = "body"
        /\ UNCHANGED <<reg, started, resumeChClosed, doneCh, pending, on>>
    BY <1>14 DEF SelfClose
  <2>2. CASE tbc[v] = 0
    <3>1. /\ pc' = [pc EXCEPT ![v] = "dying"] /\ status' = [status EXCEPT ![v] = "dead"]
          /\ UNCHANGED <<tbc, todo, mode>>
      BY <1>14, <2>2 DEF SelfClose
    <3> QED
      BY <2>1, <2>2, <3>1
  <2>3. CASE tbc[v] > 0
    <3>1. /\ pc' = [pc EXCEPT ![v] = "run"] /\ tbc' = [tbc EXCEPT ![v] = 0]
          /\ todo' = [todo EXCEPT ![v] = tbc[v] - 1]
          /\ mode' = [mode EXCEPT ![v] = "self"] /\ UNCHANGED status
      BY <1>14, <2>3 DEF SelfClose, TakeHandlers
    <3> QED
      BY <2>1, <2>3, <3>1
  <2> QED
    BY <2>1, <2>2, <2>3
<1>15. ASSUME NEW v \in VM, NEW c \in Co, Create(v, c) PROVE LifeInv'
  BY <1>15 DEF Create
<1>16. ASSUME NEW v \in VM, NEW c \in Co, CloseDead(v, c) PROVE LifeInv'
  BY <1>16 DEF CloseDead
<1>17. ASSUME NEW v \in VM, NEW c \in Co, CloseBegin(v, c) PROVE LifeInv'
  BY <1>17 DEF CloseBegin
<1>18. ASSUME NEW v \in VM, NEW c \in Co, NEW w \in BOOLEAN, ResumeCheck(v, c, w) PROVE LifeInv'
  BY <1>18 DEF ResumeCheck
<1>19. CASE MainReturns
  BY <1>19 DEF MainReturns
<1>20. ASSUME NEW v \in VM, BodyReturns(v) PROVE LifeInv'
  BY <1>20 DEF BodyReturns
<1>21. ASSUME NEW v \in VM, BodyFails(v) PROVE LifeInv'
  BY <1>21 DEF BodyFails
<1>22. ASSUME NEW v \in VM, NEW p \in Panic, NextHandler(v, p) PROVE LifeInv'
  BY <1>22 DEF NextHandler, HandlerEnd, LastPanic
<1>23. ASSUME NEW v \in VM, NEW p \in Panic, OwnHandlersDone(v, p) PROVE LifeInv'
  BY <1>23 DEF OwnHandlersDone, HandlerEnd, LastPanic
<1>24. ASSUME NEW v \in VM, NEW p \in Panic, PendingHandlersDone(v, p) PROVE LifeInv'
  <2>1. v \in Co /\ mode[v] = "pending" /\ todo[v] = 0
    BY <1>24 DEF PendingHandlersDone, HandlerEnd
  <2>2. PICK u \in VM :
          /\ pc[u] = "pending" /\ on[u] = v
          /\ pc' = [pc EXCEPT ![u] = "run", ![v] = "gone"]
          /\ on' = [on EXCEPT ![u] = None]
    BY <1>24 DEF PendingHandlersDone
  <2>3. /\ mode' = [mode EXCEPT ![v] = "body"]
        /\ UNCHANGED <<tbc, todo, doneCh, resumeChClosed, regVars, pending>>
    BY <1>24 DEF PendingHandlersDone
  <2>4. pc[v] \in {"run", "call", "exiting"}
    BY <1>24 DEF PendingHandlersDone, HandlerEnd
  <2>5. Places' /\ Modes' /\ Ends'
    BY <2>1, <2>2, <2>3, <2>4
  <2>6. Owners'
    BY <2>1, <2>2, <2>3, <2>4
  <2>7. Ids' /\ Known'
    BY <2>1, <2>2, <2>3, <2>4
  <2> QED
    BY <2>5, <2>6, <2>7
<1>25. ASSUME NEW v \in VM, CallReturns(v) PROVE LifeInv'
  BY <1>25 DEF CallReturns
<1>26. CASE ExitMain
  BY <1>26 DEF ExitMain
<1>27. ASSUME NEW v \in VM, ExitBody(v) PROVE LifeInv'
  BY <1>27 DEF ExitBody
<1>28. ASSUME NEW v \in VM, ResumeSend(v) PROVE LifeInv'
  <2> DEFINE c == on[v]
  <2>1. /\ c \in Co /\ status[c] # "none" /\ pc[v] = "resuming" /\ ~resumeChClosed[c]
        /\ started' = [started EXCEPT ![c] = TRUE]
        /\ status' = [Mark(v, "normal") EXCEPT ![c] = "running"]
        /\ pc' = [pc EXCEPT ![v] = "waiting", ![c] = IF started[c] THEN @ ELSE "start"]
        /\ UNCHANGED <<reg, pending, resumeChClosed, doneCh, mode, tbc, todo, on>>
    BY <1>28 DEF ResumeSend
  <2> HIDE DEF c
  <2>2. Places' /\ Modes' /\ Ends' /\ Owners'
    BY <2>1
  <2>3. Ids'
    BY <2>1
  <2>4. Known'
    <3>1. /\ \A d \in Co : status[d] = "none" => status'[d] = "none"
          /\ \A d \in Co : status'[d] = "dead" => status[d] = "dead"
          /\ \A d \in Co : pc[d] \in {"dying", "gone"} => pc'[d] \in {"dying", "gone"}
      BY <2>1
    <3>2. pc'[Main] = pc[Main] \/ pc[Main] = "resuming"
      BY <2>1
    <3>3. UNCHANGED <<reg, resumeChClosed, doneCh>>
      BY <2>1
    <3> HIDE DEF LifeInv, OwnInv, TypeOK, Known
    <3> QED
      BY <3>1, <3>2, <3>3, KnownKept DEF LifeInv
  <2> QED
    BY <2>2, <2>3, <2>4
<1>29. ASSUME NEW v \in VM, ResumeTooLate(v) PROVE LifeInv'
  <2>1. Places' /\ Modes' /\ Ends' /\ Owners'
    BY <1>29 DEF ResumeTooLate
  <2>2. Ids' /\ Known'
    BY <1>29 DEF ResumeTooLate
  <2> QED
    BY <2>1, <2>2
<1>30. ASSUME NEW v \in VM, RecvYield(v) PROVE LifeInv'
  BY <1>30 DEF RecvYield
<1>31. ASSUME NEW v \in VM, RecvDone(v) PROVE LifeInv'
  <2>1. CASE err[on[v]] = "error" /\ wrap[v]
    BY <1>31, <2>1, LifeTakesOver DEF RecvDone
  <2>2. CASE ~(err[on[v]] = "error" /\ wrap[v])
    <3>1. /\ pc[v] = "waiting" /\ status' = Mark(v, "running")
          /\ pc' = [pc EXCEPT ![v] = "run"] \/ pc' = [pc EXCEPT ![v] = "exiting"]
          /\ on' = [on EXCEPT ![v] = None]
          /\ UNCHANGED <<reg, started, resumeChClosed, doneCh, pending, tbc, todo, mode>>
      BY <1>31, <2>2 DEF RecvDone
    <3> QED
      BY <3>1
  <2> QED
    BY <2>1, <2>2
<1>32. ASSUME NEW v \in VM, RecvCtx(v) PROVE LifeInv'
  BY <1>32 DEF RecvCtx
<1>33. ASSUME NEW v \in VM, AwaitDone(v) PROVE LifeInv'
  BY <1>33 DEF AwaitDone
<1>34. ASSUME NEW v \in VM, AwaitYield(v) PROVE LifeInv'
  BY <1>34 DEF AwaitYield
<1>35. ASSUME NEW v \in VM, YieldSend(v) PROVE LifeInv'
  BY <1>35 DEF YieldSend
<1>36. ASSUME NEW v \in VM, Wake(v) PROVE LifeInv'
  BY <1>36 DEF Wake
<1>37. ASSUME NEW v \in VM, WakeClosed(v) PROVE LifeInv'
  <2>1. /\ v \in VM /\ pc[v] = "parked" /\ resumeChClosed[v]
        /\ UNCHANGED <<reg, started, status, resumeChClosed, doneCh, pending, on>>
    BY <1>37 DEF WakeClosed
  <2>2. v \in Co
    BY <2>1
  <2>3. CASE tbc[v] = 0
    <3>1. pc' = [pc EXCEPT ![v] = "dying"] /\ UNCHANGED <<tbc, todo, mode>>
      BY <1>37, <2>3 DEF WakeClosed
    <3> QED
      BY <2>1, <2>2, <2>3, <3>1
  <2>4. CASE tbc[v] > 0
    <3>1. /\ pc' = [pc EXCEPT ![v] = "run"] /\ tbc' = [tbc EXCEPT ![v] = 0]
          /\ todo' = [todo EXCEPT ![v] = tbc[v] - 1]
          /\ mode' = [mode EXCEPT ![v] = "killed"]
      BY <1>37, <2>4 DEF WakeClosed, TakeHandlers
    <3> QED
      BY <2>1, <2>2, <2>4, <3>1
  <2> QED
    BY <2>1, <2>2, <2>3, <2>4
<1>38. ASSUME NEW v \in VM, JoinDead(v) PROVE LifeInv'
  <2>1. CASE reapAbandoned[on[v]]
    <3>1. /\ pc[v] = "joindead" /\ pc' = [pc EXCEPT ![v] = "run"] /\ on' = [on EXCEPT ![v] = None]
          /\ UNCHANGED <<reg, status, started, resumeChClosed, doneCh, pending, tbc, todo, mode>>
      BY <1>38, <2>1 DEF JoinDead
    <3> QED
      BY <3>1
  <2>2. CASE ~reapAbandoned[on[v]]
    BY <1>38, <2>2, LifeTakesOver DEF JoinDead
  <2> QED
    BY <2>1, <2>2
<1>39. ASSUME NEW v \in VM, CloseMark(v) PROVE LifeInv'
  <2> DEFINE c == on[v]
  <2>1. /\ c \in Co /\ c = on[v] /\ status[c] # "none" /\ pc[v] = "closing"
        /\ UNCHANGED <<started, doneCh, mode, tbc, todo, pending>>
        /\ \/ /\ UNCHANGED reg /\ resumeChClosed' = [resumeChClosed EXCEPT ![c] = TRUE]
              /\ status' = [status EXCEPT ![c] = "running"]
              /\ started[c]
              /\ pc' = [pc EXCEPT ![v] = "joining"] /\ on' = on
           \/ /\ reg' = reg \ {c} /\ resumeChClosed' = [resumeChClosed EXCEPT ![c] = TRUE]
              /\ status' = [status EXCEPT ![c] = "dead"]
              /\ pc' = [pc EXCEPT ![v] = "run"] /\ on' = [on EXCEPT ![v] = None]
           \/ /\ UNCHANGED <<reg, resumeChClosed>>
              /\ status' = [status EXCEPT ![c] = "running"]
              /\ started[c]
              /\ pc' = [pc EXCEPT ![v] = "run"] /\ on' = [on EXCEPT ![v] = None]
    BY <1>39 DEF CloseMark
  <2> HIDE DEF c
  <2>2. Places' /\ Modes' /\ Ends' 
    BY <2>1
  <2>3. Owners'
    <3>1. \A u \in VM : pc'[u] = "pending" => pc[u] = "pending" /\ on'[u] = on[u]
      BY <2>1
    <3> QED
      BY <2>1, <3>1
  <2>4. Ids'
    <3>1. \A u \in VM : (pc'[u] = pc[u] /\ on'[u] = on[u]) \/ ~InCall(u)' \/ (u = v /\ on'[u] = c)
      BY <2>1
    <3>2. \A d \in Co : status'[d] = "none" => status[d] = "none" /\ d # c
      BY <2>1
    <3>3. \A d \in Co : d # c => resumeChClosed'[d] = resumeChClosed[d]
      BY <2>1
    <3>4. /\ \A d \in Co : d # v => pc'[d] = pc[d]
          /\ v \in Co => pc[v] # "fresh" /\ pc'[v] # "fresh"
          /\ reg' \subseteq reg
          /\ UNCHANGED <<started, pending>>
      BY <2>1
    <3>5. /\ \A d \in Co : status'[d] = "none" => pc'[d] = "fresh" /\ ~resumeChClosed'[d]
          /\ \A d \in Co : d \in reg' \cup pending' => status'[d] # "none"
          /\ \A d \in Co : pc'[d] = "fresh" => ~started'[d]
      BY <3>2, <3>3, <3>4
    <3>6. \A u \in VM : InCall(u)' => status'[on'[u]] # "none"
      BY <2>1, <3>1, <3>2
    <3> QED
      BY <3>5, <3>6
  <2>5. Known'
    <3>1. pc'[Main] = pc[Main] \/ pc[Main] = "closing"
      BY <2>1
    <3>2. /\ \A d \in Co : status[d] = "none" => status'[d] = "none"
          /\ \A d \in Co : resumeChClosed[d] => resumeChClosed'[d]
          /\ \A d \in Co : pc[d] \in {"dying", "gone"} => pc'[d] \in {"dying", "gone"}
          /\ \A d \in Co : d \in reg => d \in reg' \/ resumeChClosed'[d]
          /\ \A d \in Co : status'[d] = "dead" => status[d] = "dead" \/ resumeChClosed'[d]
      BY <2>1
    <3>3. UNCHANGED doneCh
      BY <2>1
    <3> HIDE DEF LifeInv, OwnInv, TypeOK, Known
    <3> QED
      BY <3>1, <3>2, <3>3, KnownKept DEF LifeInv
  <2> QED
    BY <2>2, <2>3, <2>4, <2>5
<1>40. ASSUME NEW v \in VM, JoinDone(v) PROVE LifeInv'
  BY <1>40 DEF JoinDone
<1>41. ASSUME NEW v \in VM, StartCo(v) PROVE LifeInv'
  BY <1>41 DEF StartCo
<1>42. ASSUME NEW v \in VM, DoneClose(v) PROVE LifeInv'
  BY <1>42 DEF DoneClose
<1>43. ASSUME NEW v \in VM, AwaitTimer(v) PROVE LifeInv'
  BY <1>43 DEF AwaitTimer
<1>44. CASE ReapGrace
  BY <1>44 DEF ReapGrace
<1>45. CASE ReapHard
  BY <1>45 DEF ReapHard
<1>46. CASE UNCHANGED vars
  BY <1>46 DEF vars
<1> HIDE CoroutineAssumption, <1>0
         DEF LifeInv, OwnInv, InCall, TypeOK, VM, regVars, chanVars, envVars,
             callVars, luaVars, hostVars, Goto, About, Mark,
             Places, Modes, Ends, Owners, Ids, Known
<1> QED
  BY <1>1, <1>2, <1>3, <1>4, <1>5, <1>6, <1>7, <1>8, <1>9, <1>10, <1>11,
     <1>12, <1>13, <1>14, <1>15, <1>16, <1>17, <1>18, <1>19, <1>20, <1>21,
     <1>22, <1>23, <1>24, <1>25, <1>26, <1>27, <1>28, <1>29, <1>30, <1>31,
     <1>32, <1>33, <1>34, <1>35, <1>36, <1>37, <1>38, <1>39, <1>40, <1>41,
     <1>42, <1>43, <1>44, <1>45, <1>46
  DEF Next, Host, Sweep, LuaChoice, LuaEnds, HandlerOver, Sched, Timer, Panic

-----------------------------------------------------------------------------
(* The close chain.                                                        *)

\* The VMs whose close is in progress: those that CloseDepthBalanced counts.
Closing(v) == pc[v] \in {"closing", "joining", "pending"}

\* What a step may do to the chain: nothing, or one VM enters it or leaves it
\* and the depth of the family follows.
Quiet ==
  closeDepth' = closeDepth /\ \A u \in VM : Closing(u)' <=> Closing(u)

Enters(v) ==
  /\ closeDepth' = closeDepth + 1
  /\ ~Closing(v) /\ Closing(v)'
  /\ \A u \in VM \ {v} : Closing(u)' <=> Closing(u)

Leaves(v) ==
  /\ closeDepth' = closeDepth - 1
  /\ Closing(v) /\ ~Closing(v)'
  /\ \A u \in VM \ {v} : Closing(u)' <=> Closing(u)

Moves == Quiet \/ \E v \in VM : Enters(v) \/ Leaves(v)

\* ClosePendingTBC enters the chain exactly when it hands the turn to the dead
\* VM.
LEMMA TakeOverMoves ==
  ASSUME LifeInv, NEW v \in VM, pc[v] \in {"waiting", "joindead"}, on[v] \in Co,
         started[on[v]] => doneCh[on[v]], ClosePendingTBC(v, on[v])
  PROVE  Moves
<1> PICK c \in Co : c = on[v]
  OBVIOUS
<1>0. OwnInv /\ TypeOK /\ c \in VM
  BY DEF LifeInv, OwnInv, VM
<1>1. CASE tbc[c] = 0 \/ CloseChainFull
  <2>0. ~(tbc[c] > 0 /\ ~CloseChainFull)
    BY <1>0, <1>1 DEF TypeOK
  <2>1. pc' = [pc EXCEPT ![v] = "run"] /\ closeDepth' = closeDepth
    BY <2>0 DEF ClosePendingTBC, Goto
  <2> QED
    BY <1>0, <2>1 DEF Moves, Quiet, Closing, TypeOK
<1>2. CASE tbc[c] > 0 /\ ~CloseChainFull
  <2>1. ~(tbc[c] = 0 \/ CloseChainFull)
    BY <1>0, <1>2 DEF TypeOK
  <2>2. pc' = [pc EXCEPT ![v] = "pending", ![c] = "run"] /\ closeDepth' = closeDepth + 1
    BY <2>1 DEF ClosePendingTBC
  <2>3. pc[c] = "gone" /\ c # v
    BY <1>0, <1>2 DEF LifeInv, OwnInv, TypeOK, Modes, Ends
  <2>4. Enters(v)
    BY <1>0, <2>2, <2>3 DEF Enters, Closing, TypeOK
  <2> QED
    BY <2>4 DEF Moves
<1> QED
  BY <1>1, <1>2 DEF ClosePendingTBC

\* Every step pairs EnterCloseChain and ExitCloseChain with the places of the
\* VMs that called them.
LEMMA DepthStep == LifeInv /\ [Next]_vars => Moves
<1> SUFFICES ASSUME LifeInv, [Next]_vars PROVE Moves
  OBVIOUS
<1>0. OwnInv /\ TypeOK
  BY DEF LifeInv, OwnInv
<1> USE CoroutineAssumption, <1>0
    DEF TypeOK, VM, regVars, chanVars, envVars, callVars, luaVars, hostVars,
        Goto, Closing, Moves, Quiet
<1>1. CASE HostRun
  BY <1>1 DEF HostRun
<1>2. CASE CloseVM
  BY <1>2 DEF CloseVM
<1>3. ASSUME NEW x \in Ctx, SetContext(x) PROVE Moves
  BY <1>3 DEF SetContext
<1>4. ASSUME NEW x \in Ctx, Cancel(x) PROVE Moves
  BY <1>4 DEF Cancel
<1>5. ASSUME NEW c \in Co, ReapSkip(c) PROVE Moves
  BY <1>5 DEF ReapSkip
<1>6. ASSUME NEW c \in Co, ReapBegin(c) PROVE Moves
  BY <1>6 DEF ReapBegin
<1>7. CASE ReapDone
  BY <1>7 DEF ReapDone
<1>8. CASE SweepEnd
  BY <1>8 DEF SweepEnd
<1>9. ASSUME NEW v \in VM, Poll(v) PROVE Moves
  BY <1>9 DEF Poll
<1>10. ASSUME NEW v \in VM, DeclareTbc(v) PROVE Moves
  BY <1>10 DEF DeclareTbc
<1>11. ASSUME NEW v \in VM, LeaveScope(v) PROVE Moves
  BY <1>11 DEF LeaveScope
<1>12. ASSUME NEW v \in VM, Exit(v) PROVE Moves
  BY <1>12 DEF Exit
<1>13. ASSUME NEW v \in VM, Yield(v) PROVE Moves
  BY <1>13 DEF Yield
<1>14. ASSUME NEW v \in VM, SelfClose(v) PROVE Moves
  BY <1>14 DEF SelfClose
<1>15. ASSUME NEW v \in VM, NEW c \in Co, Create(v, c) PROVE Moves
  BY <1>15 DEF Create
<1>16. ASSUME NEW v \in VM, NEW c \in Co, CloseDead(v, c) PROVE Moves
  BY <1>16 DEF CloseDead
<1>17. ASSUME NEW v \in VM, NEW c \in Co, CloseBegin(v, c) PROVE Moves
  <2>1. Enters(v)
    BY <1>17 DEF CloseBegin, Enters
  <2> QED
    BY <2>1
<1>18. ASSUME NEW v \in VM, NEW c \in Co, NEW w \in BOOLEAN, ResumeCheck(v, c, w) PROVE Moves
  BY <1>18 DEF ResumeCheck
<1>19. CASE MainReturns
  BY <1>19 DEF MainReturns
<1>20. ASSUME NEW v \in VM, BodyReturns(v) PROVE Moves
  BY <1>20 DEF BodyReturns
<1>21. ASSUME NEW v \in VM, BodyFails(v) PROVE Moves
  BY <1>21 DEF BodyFails
<1>22. ASSUME NEW v \in VM, NEW p \in Panic, NextHandler(v, p) PROVE Moves
  BY <1>22 DEF NextHandler, HandlerEnd
<1>23. ASSUME NEW v \in VM, NEW p \in Panic, OwnHandlersDone(v, p) PROVE Moves
  BY <1>23 DEF OwnHandlersDone, HandlerEnd
<1>24. ASSUME NEW v \in VM, NEW p \in Panic, PendingHandlersDone(v, p) PROVE Moves
  <2>1. PICK u \in VM : /\ pc[u] = "pending"
                        /\ pc' = [pc EXCEPT ![u] = "run", ![v] = "gone"]
    BY <1>24 DEF PendingHandlersDone
  <2>2. pc[v] \in {"run", "call", "exiting"} /\ closeDepth' = closeDepth - 1
    BY <1>24 DEF PendingHandlersDone, HandlerEnd
  <2>3. Leaves(u)
    BY <2>1, <2>2 DEF Leaves
  <2> QED
    BY <2>3
<1>25. ASSUME NEW v \in VM, CallReturns(v) PROVE Moves
  BY <1>25 DEF CallReturns
<1>26. CASE ExitMain
  BY <1>26 DEF ExitMain
<1>27. ASSUME NEW v \in VM, ExitBody(v) PROVE Moves
  BY <1>27 DEF ExitBody
<1>28. ASSUME NEW v \in VM, ResumeSend(v) PROVE Moves
  <2>1. PICK c \in Co : c = on[v]
    BY <1>28 DEF ResumeSend, OwnInv, InCall
  <2>2. /\ pc[v] = "resuming" /\ closeDepth' = closeDepth
        /\ pc' = [pc EXCEPT ![v] = "waiting", ![c] = IF started[c] THEN @ ELSE "start"]
    BY <1>28, <2>1 DEF ResumeSend
  <2>3. ~started[c] => pc[c] = "fresh"
    BY DEF OwnInv
  <2> QED
    BY <2>2, <2>3
<1>29. ASSUME NEW v \in VM, ResumeTooLate(v) PROVE Moves
  BY <1>29 DEF ResumeTooLate
<1>30. ASSUME NEW v \in VM, RecvYield(v) PROVE Moves
  BY <1>30 DEF RecvYield
<1>31. ASSUME NEW v \in VM, RecvDone(v) PROVE Moves
  <2>1. on[v] \in Co /\ pc[v] = "waiting" /\ doneCh[on[v]]
    BY <1>31 DEF RecvDone, OwnInv, InCall
  <2>2. CASE err[on[v]] = "error" /\ wrap[v]
    BY <1>31, <2>1, <2>2, TakeOverMoves DEF RecvDone
  <2>3. CASE ~(err[on[v]] = "error" /\ wrap[v])
    BY <1>31, <2>3 DEF RecvDone
  <2> QED
    BY <2>2, <2>3
<1>32. ASSUME NEW v \in VM, RecvCtx(v) PROVE Moves
  BY <1>32 DEF RecvCtx
<1>33. ASSUME NEW v \in VM, AwaitDone(v) PROVE Moves
  BY <1>33 DEF AwaitDone
<1>34. ASSUME NEW v \in VM, AwaitYield(v) PROVE Moves
  BY <1>34 DEF AwaitYield
<1>35. ASSUME NEW v \in VM, YieldSend(v) PROVE Moves
  BY <1>35 DEF YieldSend
<1>36. ASSUME NEW v \in VM, Wake(v) PROVE Moves
  BY <1>36 DEF Wake
<1>37. ASSUME NEW v \in VM, WakeClosed(v) PROVE Moves
  BY <1>37 DEF WakeClosed
<1>38. ASSUME NEW v \in VM, JoinDead(v) PROVE Moves
  <2>1. on[v] \in Co /\ pc[v] = "joindead"
    BY <1>38 DEF JoinDead, OwnInv, InCall
  <2>2. CASE reapAbandoned[on[v]]
    BY <1>38, <2>2 DEF JoinDead
  <2>3. CASE ~reapAbandoned[on[v]]
    BY <1>38, <2>1, <2>3, TakeOverMoves DEF JoinDead
  <2> QED
    BY <2>2, <2>3
<1>39. ASSUME NEW v \in VM, CloseMark(v) PROVE Moves
  <2>1. pc[v] = "closing"
    BY <1>39 DEF CloseMark
  <2>2. CASE pc' = [pc EXCEPT ![v] = "joining"] /\ closeDepth' = closeDepth
    BY <2>1, <2>2
  <2>3. CASE pc' = [pc EXCEPT ![v] = "run"] /\ closeDepth' = closeDepth - 1
    <3>1. Leaves(v)
      BY <2>1, <2>3 DEF Leaves
    <3> QED
      BY <3>1
  <2> QED
    BY <1>39, <2>2, <2>3 DEF CloseMark
<1>40. ASSUME NEW v \in VM, JoinDone(v) PROVE Moves
  <2>1. Leaves(v)
    BY <1>40 DEF JoinDone, Leaves
  <2> QED
    BY <2>1
<1>41. ASSUME NEW v \in VM, StartCo(v) PROVE Moves
  BY <1>41 DEF StartCo
<1>42. ASSUME NEW v \in VM, DoneClose(v) PROVE Moves
  BY <1>42 DEF DoneClose
<1>43. ASSUME NEW v \in VM, AwaitTimer(v) PROVE Moves
  BY <1>43 DEF AwaitTimer
<1>44. CASE ReapGrace
  BY <1>44 DEF ReapGrace
<1>45. CASE ReapHard
  BY <1>45 DEF ReapHard
<1>46. CASE UNCHANGED vars
  BY <1>46 DEF vars
<1> HIDE CoroutineAssumption, <1>0
         DEF TypeOK, VM, regVars, chanVars, envVars, callVars, luaVars, hostVars,
             Goto, Closing, Moves, Quiet
<1> QED
  BY <1>1, <1>2, <1>3, <1>4, <1>5, <1>6, <1>7, <1>8, <1>9, <1>10, <1>11,
     <1>12, <1>13, <1>14, <1>15, <1>16, <1>17, <1>18, <1>19, <1>20, <1>21,
     <1>22, <1>23, <1>24, <1>25, <1>26, <1>27, <1>28, <1>29, <1>30, <1>31,
     <1>32, <1>33, <1>34, <1>35, <1>36, <1>37, <1>38, <1>39, <1>40, <1>41,
     <1>42, <1>43, <1>44, <1>45, <1>46
  DEF Next, Host, Sweep, LuaChoice, LuaEnds, HandlerOver, Sched, Timer, Panic

\* Initially nothing has happened: no id is allocated, no channel is in use.
LEMMA InitLife == Init => LifeInv
<1> SUFFICES ASSUME Init PROVE LifeInv
  OBVIOUS
<1>1. TypeOK
  BY InitType
<1>2. /\ \A v \in VM : /\ ~InCall(v) /\ pc[v] # "pending" /\ mode[v] = "body"
                       /\ todo[v] = 0
      /\ \A c \in Co : /\ pc[c] = "fresh" /\ tbc[c] = 0 /\ status[c] = "none"
                       /\ ~resumeChClosed[c] /\ ~doneCh[c] /\ ~started[c]
      /\ reg = {} /\ pending = {} /\ pc[Main] = "host"
  BY CoroutineAssumption DEF Init, InCall, VM
<1>3. Main \in VM
  BY DEF VM
<1>4. OwnInv
  BY <1>1, <1>2 DEF OwnInv
<1>5. Places /\ Modes /\ Ends
  BY <1>2, <1>3 DEF Places, Modes, Ends, VM
<1>6. Owners /\ Ids /\ Known
  BY <1>2 DEF Owners, Ids, Known
<1> QED
  BY <1>4, <1>5, <1>6 DEF LifeInv

\* The life cycle of the coroutines is what runCoroutine, the registry and the
\* hooks make of it, whatever the timeouts do.
THEOREM LifeCycle == Spec => []LifeInv
  BY InitLife, LifeStep, PTL DEF Spec

\* A parked goroutine can be found again: the registry has it, or its channel is
\* closed, until VM.Close takes the list over.
THEOREM ParkedRegistered == Spec => []ParkedIsRegistered
<1>1. LifeInv => ParkedIsRegistered
  <2> SUFFICES ASSUME LifeInv, NEW c \in Co, Known, Ids, Ends, Modes,
                      pc[Main] \notin {"sweep", "reap", "reaphard", "closed"},
                      pc[c] = "parked", ~resumeChClosed[c]
               PROVE  c \in reg
    BY DEF LifeInv, ParkedIsRegistered
  <2>1. status[c] # "none" /\ ~doneCh[c]
    BY DEF Ids, Ends, Modes, VM
  <2> QED
    BY <2>1 DEF Known
<1> QED
  BY <1>1, LifeCycle, PTL

\* EnterCloseChain and ExitCloseChain pair up on every path of coroutine.close
\* and of the error path of a wrap function.
THEOREM DepthBalanced == Spec => []CloseDepthBalanced
<1> DEFINE Closers == {v \in VM : Closing(v)}
           Counted == closeDepth = Cardinality(Closers)
<1>1. IsFiniteSet(VM)
  BY CoroutineAssumption, FS_AddElement DEF VM
<1>2. IsFiniteSet(Closers) /\ IsFiniteSet(Closers')
  <2>1. Closers \subseteq VM /\ Closers' \subseteq VM
    OBVIOUS
  <2> QED
    BY <1>1, <2>1, FS_Subset
<1>3. CloseDepthBalanced <=> Counted
  BY DEF CloseDepthBalanced, Closing
<1>4. Init => Counted
  <2> SUFFICES ASSUME Init PROVE Counted
    OBVIOUS
  <2>1. Closers = {} /\ closeDepth = 0
    BY CoroutineAssumption DEF Init, Closing, VM
  <2> QED
    BY <2>1, FS_EmptySet
<1>5. LifeInv /\ Counted /\ [Next]_vars => Counted'
  <2> SUFFICES ASSUME LifeInv, Counted, Moves PROVE Counted'
    BY DepthStep
  <2>1. CASE Quiet
    <3>1. Closers' = Closers /\ closeDepth' = closeDepth
      BY <2>1 DEF Quiet
    <3> QED
      BY <3>1
  <2>2. ASSUME NEW v \in VM, Enters(v) PROVE Counted'
    <3>1. Closers' = Closers \cup {v} /\ v \notin Closers /\ closeDepth' = closeDepth + 1
      BY <2>2 DEF Enters
    <3>2. Cardinality(Closers') = Cardinality(Closers) + 1
      BY <1>2, <3>1, FS_AddElement
    <3> QED
      BY <3>1, <3>2
  <2>3. ASSUME NEW v \in VM, Leaves(v) PROVE Counted'
    <3>1. Closers' = Closers \ {v} /\ v \in Closers /\ closeDepth' = closeDepth - 1
      BY <2>3 DEF Leaves
    <3>2. Cardinality(Closers') = Cardinality(Closers) - 1
      BY <1>2, <3>1, FS_RemoveElement
    <3> QED
      BY <3>1, <3>2
  <2> QED
    BY <2>1, <2>2, <2>3 DEF Moves
<1> HIDE DEF Counted
<1> QED
  BY <1>3, <1>4, <1>5, LifeCycle, PTL DEF Spec

-----------------------------------------------------------------------------
(* The invariant of the turns.                                             *)

\* The coroutine is parked and nobody has told it to go on.
Idle(c) == pc[c] = "parked" /\ resumeCh[c] = 0 /\ ~resumeChClosed[c]

\* It was told to run and has neither yielded nor ended.
Engaged(c) == pc[c] \notin {"fresh", "gone"} /\ ~doneCh[c] /\ ~Idle(c)

OneTurn == \A v, w \in VM : HasTurn(v) /\ HasTurn(w) => v = w

\* What the three channels may hold where the coroutine is.
Channels ==
  \A c \in Co :
    /\ pc[c] \notin {"start", "parked"} => resumeCh[c] = 0
    /\ pc[c] # "parked" => yieldCh[c] = 0
    /\ pc[c] = "start" => resumeCh[c] = 1 /\ ~resumeChClosed[c]
    /\ pc[c] = "parked" /\ (resumeCh[c] = 1 \/ resumeChClosed[c]) => yieldCh[c] = 0
    /\ pc[c] = "parked" /\ resumeCh[c] = 1 => ~resumeChClosed[c]
    /\ resumeChClosed[c] =>
         pc[c] \in {"fresh", "parked", "dying", "gone"} \/ mode[c] = "killed"

\* A coroutine is waited for by one VM, and only while that will be answered.
OneWaiter ==
  \A v, w \in VM : Waits(v) /\ Waits(w) /\ on[v] = on[w] => v = w

Waited ==
  \A v \in VM :
    /\ Waits(v) => Woken(v) \/ Engaged(on[v])
    /\ pc[v] = "joindead" => doneCh[on[v]]
    /\ pc[v] \in {"joining", "reap", "reaphard"} => resumeChClosed[on[v]]

\* And it is waited for while it runs, or has a value to give: the one exception
\* is a coroutine whose close VM.Close gave up on.
Answered ==
  \A c \in Co :
    /\ yieldCh[c] = 1 =>
         \E v \in VM : pc[v] \in {"waiting", "awaiting"} /\ on[v] = c
    /\ Engaged(c) /\ (resumeChClosed[c] => pc[Main] # "closed") =>
         \E v \in VM : Waits(v) /\ on[v] = c

\* A coroutine that others see as suspended was not told to go on.
Suspended ==
  /\ \A c \in Co : status[c] = "suspended" =>
       /\ pc[c] \in {"fresh", "yielding", "parked"}
       /\ resumeCh[c] = 0 /\ ~resumeChClosed[c]
  /\ \A v \in VM : pc[v] \in {"resuming", "closing"} => status[on[v]] = "suspended"

\* One that is registered as dead has left its body.
Dead ==
  /\ \A c \in reg : status[c] = "dead" => started[c] /\ (doneCh[c] \/ pc[c] = "dying")
  /\ pending \cap reg = {}
  /\ pc[Main] \in {"reap", "reaphard"} => on[Main] \notin reg

\* One whose channel is closed has no handlers left once it ends.
Drained ==
  \A c \in Co : resumeChClosed[c] =>
    \/ pc[c] \in {"fresh", "parked"}
    \/ tbc[c] = 0 /\ (pc[c] \in {"dying", "gone"} => todo[c] = 0)

\* Somebody has the turn.
SomebodyTurns == pc[Main] # "closed" => \E v \in VM : HasTurn(v)

\* The turn and those who wait for it.
Baton == OneTurn /\ SomebodyTurns /\ OneWaiter /\ Waited /\ Answered

\* The handshakes.
Shakes == Channels /\ Suspended /\ Dead /\ Drained

-----------------------------------------------------------------------------
(* How the turn passes.                                                    *)

\* The VMs in S alone have moved.
OnlyMove(S) == \A u \in VM \ S : pc'[u] = pc[u] /\ on'[u] = on[u]

\* The handshakes of every coroutine but c are as they were.
OnlyShakes(c) ==
  \A d \in Co \ {c} :
    /\ resumeCh'[d] = resumeCh[d] /\ resumeChClosed'[d] = resumeChClosed[d]
    /\ yieldCh'[d] = yieldCh[d] /\ doneCh'[d] = doneCh[d] /\ started'[d] = started[d]

\* The VM whose turn it is goes on.
LEMMA BatonKept ==
  ASSUME LifeInv, Baton, NEW v \in VM, OnlyMove({v}), OnlyShakes(v),
         UNCHANGED <<resumeChClosed, yieldCh, doneCh, started>>,
         HasTurn(v), ~Waits(v), Active(v)'
  PROVE  Baton'
<1> USE DEF Baton, OnlyMove, OnlyShakes
<1>1. \A u \in VM : /\ Waits(u)' <=> Waits(u)
                    /\ Woken(u)' <=> Woken(u)
                    /\ HasTurn(u)' <=> HasTurn(u)
                    /\ Waits(u) => on'[u] = on[u] /\ pc'[u] = pc[u]
  <2> TAKE u \in VM
  <2>1. CASE u = v
    BY <2>1 DEF Active, Waits, Woken, HasTurn
  <2>2. CASE u # v
    <3>1. pc[u] = "parked" => u \in Co \ {v}
      BY <2>2 DEF LifeInv, Places, VM
    <3> QED
      BY <2>2, <3>1 DEF Active, Waits, Woken, HasTurn
  <2> QED
    BY <2>1, <2>2
<1>2. \A c \in Co : Engaged(c)' <=> Engaged(c)
  BY DEF HasTurn, Woken, Active, Engaged, Idle, VM
<1>3. pc'[Main] = "closed" <=> pc[Main] = "closed"
  BY DEF HasTurn, Woken, Active, VM
<1>4. OneTurn' /\ SomebodyTurns'
  BY <1>1, <1>3 DEF OneTurn, SomebodyTurns
<1>5. OneWaiter'
  BY <1>1 DEF OneWaiter
<1>6. Waited'
  <2> SUFFICES ASSUME NEW u \in VM
               PROVE  /\ Waits(u)' => Woken(u)' \/ Engaged(on[u])'
                      /\ pc'[u] = "joindead" => doneCh'[on'[u]]
                      /\ pc'[u] \in {"joining", "reap", "reaphard"} => resumeChClosed'[on'[u]]
    BY DEF Waited
  <2>1. CASE Waits(u)
    <3>1. on[u] \in Co
      BY <2>1 DEF LifeInv, OwnInv, InCall, Waits
    <3> QED
      BY <1>1, <1>2, <2>1, <3>1 DEF Waited
  <2>2. CASE ~Waits(u)
    BY <1>1, <2>2 DEF Waits
  <2> QED
    BY <2>1, <2>2
<1>7. Answered'
  <2>1. ASSUME NEW c \in Co, yieldCh'[c] = 1
        PROVE  \E u \in VM : pc'[u] \in {"waiting", "awaiting"} /\ on'[u] = c
    <3>1. PICK u \in VM : pc[u] \in {"waiting", "awaiting"} /\ on[u] = c
      BY <2>1 DEF Answered
    <3> QED
      BY <1>1, <3>1 DEF Waits
  <2>2. ASSUME NEW c \in Co, Engaged(c)', resumeChClosed'[c] => pc'[Main] # "closed"
        PROVE  \E u \in VM : Waits(u)' /\ on'[u] = c
    <3>1. PICK u \in VM : Waits(u) /\ on[u] = c
      BY <1>2, <1>3, <2>2 DEF Answered
    <3> QED
      BY <1>1, <3>1
  <2> QED
    BY <2>1, <2>2 DEF Answered
<1> QED
  BY <1>4, <1>5, <1>6, <1>7

\* The VM that waited for c and was answered goes on.
LEMMA BatonBack ==
  ASSUME LifeInv, Baton, Channels, NEW v \in VM, OnlyMove({v}), OnlyShakes(on[v]),
         UNCHANGED <<resumeCh, resumeChClosed, doneCh, started>>, yieldCh'[on[v]] = 0,
         Waits(v), Woken(v), Active(v)'
  PROVE  Baton'
<1> DEFINE c == on[v]
<1> USE DEF Baton, OnlyMove, OnlyShakes
<1>1. c \in Co /\ ~Engaged(c)
  <2>1. c \in Co
    BY DEF LifeInv, OwnInv, InCall, Waits
  <2>2. CASE doneCh[c]
    BY <2>1, <2>2 DEF Engaged
  <2>3. CASE yieldCh[c] = 1
    BY <2>1, <2>3 DEF Channels, Engaged, Idle, LifeInv, OwnInv, TypeOK
  <2> QED
    BY <2>1, <2>2, <2>3 DEF Woken, Waited
<1>2. \A u \in VM : u # v /\ Waits(u) => on[u] \in Co \ {c}
  BY DEF OneWaiter, LifeInv, OwnInv, InCall, Waits
<1>3. \A u \in VM : /\ Waits(u)' <=> Waits(u) /\ u # v
                    /\ u # v => (Woken(u)' <=> Woken(u))
                    /\ HasTurn(u)' <=> HasTurn(u)
                    /\ u # v => on'[u] = on[u] /\ pc'[u] = pc[u]
  BY <1>1, <1>2 DEF Active, Waits, Woken, HasTurn
<1>4. \A d \in Co : Engaged(d)' <=> Engaged(d)
  BY DEF Waits, Active, Engaged, Idle, VM
<1>5. pc'[Main] = "closed" <=> pc[Main] = "closed"
  BY DEF Waits, Active, VM
<1>6. OneTurn' /\ SomebodyTurns'
  BY <1>3, <1>5 DEF OneTurn, SomebodyTurns
<1>7. OneWaiter'
  BY <1>3 DEF OneWaiter
<1>8. Waited'
  <2> SUFFICES ASSUME NEW u \in VM, Waits(u)'
               PROVE  /\ Woken(u)' \/ Engaged(on[u])'
                      /\ pc'[u] = "joindead" => doneCh'[on'[u]]
                      /\ pc'[u] \in {"joining", "reap", "reaphard"} => resumeChClosed'[on'[u]]
    BY DEF Waited, Waits
  <2> QED
    BY <1>2, <1>3, <1>4 DEF Waited
<1>9. Answered'
  <2>1. ASSUME NEW d \in Co, yieldCh'[d] = 1
        PROVE  \E u \in VM : pc'[u] \in {"waiting", "awaiting"} /\ on'[u] = d
    <3>1. d # c /\ yieldCh[d] = 1
      BY <2>1
    <3>2. PICK u \in VM : pc[u] \in {"waiting", "awaiting"} /\ on[u] = d
      BY <3>1 DEF Answered
    <3> QED
      BY <1>3, <3>1, <3>2
  <2>2. ASSUME NEW d \in Co, Engaged(d)', resumeChClosed'[d] => pc'[Main] # "closed"
        PROVE  \E u \in VM : Waits(u)' /\ on'[u] = d
    <3>1. PICK u \in VM : Waits(u) /\ on[u] = d
      BY <1>4, <1>5, <2>2 DEF Answered
    <3> QED
      BY <1>1, <1>3, <1>4, <2>2, <3>1
  <2> QED
    BY <2>1, <2>2 DEF Answered
<1> QED
  BY <1>6, <1>7, <1>8, <1>9

\* It tells c to go on and waits for it.
LEMMA BatonTold ==
  ASSUME LifeInv, Baton, NEW v \in VM, NEW c \in Co, OnlyMove({v, c}), OnlyShakes(c),
         UNCHANGED <<yieldCh, doneCh>>, on'[c] = on[c],
         Active(v), ~doneCh[c], yieldCh[c] = 0, pc[c] = "fresh" \/ Idle(c),
         pc'[v] \in {"waiting", "joining", "reap"}, on'[v] = c,
         pc'[v] # "waiting" => resumeChClosed'[c],
         HasTurn(c)', pc'[c] \in {"start", "parked"}
  PROVE  Baton'
<1> USE DEF Baton, OnlyMove, OnlyShakes
<1>1. c # v
  BY DEF Active, Idle
<1>2. \A u \in VM : u # v => ~HasTurn(u)
  BY DEF OneTurn, HasTurn
<1>3. \A u \in VM : Waits(u) => u # v /\ u # c /\ on[u] \in Co \ {c}
  <2>1. \A u \in VM : Waits(u) => u # v /\ u # c /\ on[u] \in Co
    BY DEF LifeInv, OwnInv, InCall, Waits, Active, Idle
  <2>2. ~Engaged(c)
    BY DEF Engaged
  <2> QED
    BY <1>2, <2>1, <2>2 DEF Waited, HasTurn
<1>4. \A u \in VM : /\ Waits(u)' <=> Waits(u) \/ u = v
                    /\ Waits(u) => (Woken(u)' <=> Woken(u))
                    /\ HasTurn(u)' => u = c
  <2>1. \A u \in VM : Waits(u)' <=> Waits(u) \/ u = v
    BY <1>3 DEF Waits
  <2>2. \A u \in VM : Waits(u) => (Woken(u)' <=> Woken(u))
    BY <1>3 DEF Woken, Waits
  <2>3. \A u \in VM : u # v /\ u # c => ~HasTurn(u)'
    <3> TAKE u \in VM
    <3> HAVE u # v /\ u # c
    <3>1. ~Active(u)' /\ (Woken(u)' => Waits(u))
      BY <1>2, <2>1 DEF Active, HasTurn, Woken
    <3>2. pc'[u] = "parked" => u \in Co \ {c}
      BY DEF LifeInv, Places, VM
    <3> QED
      BY <1>2, <2>2, <3>1, <3>2 DEF HasTurn
  <2>4. ~HasTurn(v)'
    BY DEF HasTurn, Active, Woken
  <2> QED
    BY <2>1, <2>2, <2>3, <2>4
<1>5. \A d \in Co \ {c} : Engaged(d)' <=> Engaged(d)
  BY DEF Active, Engaged, Idle, VM
<1>6. Engaged(c)'
  BY DEF Engaged, HasTurn, Active, Woken, Waits, Idle
<1>7. pc'[Main] = "closed" <=> pc[Main] = "closed"
  BY CoroutineAssumption DEF Active, VM
<1>8. OneTurn' /\ SomebodyTurns'
  BY <1>4 DEF OneTurn, SomebodyTurns, VM
<1>9. OneWaiter'
  BY <1>3, <1>4 DEF OneWaiter
<1>10. Waited'
  <2> SUFFICES ASSUME NEW u \in VM, Waits(u)'
               PROVE  /\ Woken(u)' \/ Engaged(on[u])'
                      /\ pc'[u] = "joindead" => doneCh'[on'[u]]
                      /\ pc'[u] \in {"joining", "reap", "reaphard"} => resumeChClosed'[on'[u]]
    BY DEF Waited, Waits
  <2>1. CASE u = v
    BY <1>6, <2>1
  <2>2. CASE u # v
    BY <1>3, <1>4, <1>5, <2>2 DEF Waited
  <2> QED
    BY <2>1, <2>2
<1>11. Answered'
  <2>1. ASSUME NEW d \in Co, yieldCh'[d] = 1
        PROVE  \E u \in VM : pc'[u] \in {"waiting", "awaiting"} /\ on'[u] = d
    <3>1. PICK u \in VM : pc[u] \in {"waiting", "awaiting"} /\ on[u] = d
      BY <2>1 DEF Answered
    <3> QED
      BY <1>3, <3>1 DEF Waits
  <2>2. ASSUME NEW d \in Co \ {c}, Engaged(d)', resumeChClosed'[d] => pc'[Main] # "closed"
        PROVE  \E u \in VM : Waits(u)' /\ on'[u] = d
    <3>1. PICK u \in VM : Waits(u) /\ on[u] = d
      BY <1>5, <1>7, <2>2 DEF Answered
    <3> QED
      BY <1>3, <1>4, <3>1
  <2>3. Waits(v)' /\ on'[v] = c
    BY <1>4
  <2> QED
    BY <2>1, <2>2, <2>3 DEF Answered
<1> QED
  BY <1>8, <1>9, <1>10, <1>11

\* c, whose turn it was, stops: whoever waits for it is woken.
LEMMA BatonStops ==
  ASSUME LifeInv, Baton, NEW c \in Co, OnlyMove({c}), OnlyShakes(c),
         UNCHANGED <<resumeCh, resumeChClosed, started>>, on'[c] = on[c],
         Active(c), Engaged(c), pc'[c] \in {"parked", "gone"}, ~Engaged(c)', ~HasTurn(c)',
         doneCh'[c] \/ (yieldCh'[c] = 1 /\ ~doneCh'[c] /\ ~resumeChClosed[c]),
         doneCh'[c] => yieldCh'[c] = 0
  PROVE  Baton'
<1> USE DEF Baton, OnlyMove, OnlyShakes
<1>1. \A u \in VM : u # c => ~HasTurn(u)
  BY DEF OneTurn, HasTurn, VM
<1>2. \A u \in VM : Waits(u) => u # c /\ on[u] \in Co /\ pc[u] # "joindead"
  BY <1>1 DEF LifeInv, OwnInv, InCall, Waits, Active, Woken, HasTurn, Waited
<1>3. \A u \in VM : /\ Waits(u)' <=> Waits(u)
                    /\ Waits(u) => on'[u] = on[u] /\ pc'[u] = pc[u]
  BY DEF Active, Waits
<1>4. \A u \in VM : HasTurn(u)' <=> Waits(u) /\ on[u] = c
  <2> TAKE u \in VM
  <2>1. CASE Waits(u) /\ on[u] = c
    <3>1. ~doneCh'[c] => pc[u] \in {"waiting", "awaiting"}
      BY <1>2, <2>1 DEF Waited, Waits
    <3> QED
      BY <1>3, <2>1, <3>1 DEF HasTurn, Woken
  <2>2. CASE Waits(u) /\ on[u] # c
    <3>1. ~Woken(u) /\ on[u] \in Co \ {c}
      BY <1>1, <1>2, <2>2 DEF HasTurn
    <3> QED
      BY <1>1, <1>2, <1>3, <2>2, <3>1 DEF HasTurn, Woken, Active, Waits
  <2>3. CASE ~Waits(u) /\ u # c
    <3>1. pc[u] = "parked" => u \in Co \ {c}
      BY <2>3 DEF LifeInv, Places, VM
    <3> QED
      BY <1>1, <1>3, <2>3, <3>1 DEF HasTurn, Woken, Active
  <2> QED
    BY <1>2, <2>1, <2>2, <2>3
<1>5. \A d \in Co : Engaged(d)' => Engaged(d) /\ d # c
  BY DEF Engaged, Idle, VM
<1>6. pc'[Main] = pc[Main]
  BY CoroutineAssumption DEF VM
<1>7. OneTurn'
  BY <1>4 DEF OneTurn, OneWaiter
<1>8. SomebodyTurns'
  <2>1. pc[Main] # "closed" => \E u \in VM : Waits(u) /\ on[u] = c
    BY DEF Answered
  <2> QED
    BY <1>4, <1>6, <2>1 DEF SomebodyTurns
<1>9. OneWaiter'
  BY <1>3 DEF OneWaiter
<1>10. Waited'
  <2> SUFFICES ASSUME NEW u \in VM, Waits(u)'
               PROVE  /\ Woken(u)' \/ Engaged(on[u])'
                      /\ pc'[u] = "joindead" => doneCh'[on'[u]]
                      /\ pc'[u] \in {"joining", "reap", "reaphard"} => resumeChClosed'[on'[u]]
    BY DEF Waited, Waits
  <2>1. pc'[u] # "joindead" /\ (pc'[u] \in {"joining", "reap", "reaphard"} => resumeChClosed'[on'[u]])
    BY <1>2, <1>3 DEF Waited
  <2>2. CASE on[u] = c
    <3>1. HasTurn(u)' /\ ~Active(u)' /\ pc'[u] # "parked"
      BY <1>3, <1>4, <2>2 DEF Active, Waits
    <3> QED
      BY <2>1, <3>1 DEF HasTurn
  <2>3. CASE on[u] # c
    <3>1. Engaged(on[u]) /\ on[u] \in Co \ {c} /\ on'[u] = on[u]
      BY <1>1, <1>2, <1>3, <2>3 DEF Waited, HasTurn
    <3>2. Engaged(on[u])'
      BY <3>1 DEF Engaged, Idle, VM
    <3> QED
      BY <2>1, <3>2
  <2> QED
    BY <2>2, <2>3
<1>11. Answered'
  <2>1. ASSUME NEW d \in Co, yieldCh'[d] = 1
        PROVE  \E u \in VM : pc'[u] \in {"waiting", "awaiting"} /\ on'[u] = d
    <3>1. CASE d = c
      <4>1. PICK u \in VM : Waits(u) /\ on[u] = c
        BY <2>1, <3>1 DEF Answered
      <4>2. pc[u] \in {"waiting", "awaiting"}
        BY <1>2, <2>1, <3>1, <4>1 DEF Waited, Waits
      <4> QED
        BY <1>3, <3>1, <4>1, <4>2
    <3>2. CASE d # c
      <4>1. PICK u \in VM : pc[u] \in {"waiting", "awaiting"} /\ on[u] = d
        BY <2>1, <3>2 DEF Answered
      <4> QED
        BY <1>3, <4>1 DEF Waits
    <3> QED
      BY <3>1, <3>2
  <2>2. ASSUME NEW d \in Co, Engaged(d)', resumeChClosed'[d] => pc'[Main] # "closed"
        PROVE  \E u \in VM : Waits(u)' /\ on'[u] = d
    <3>1. PICK u \in VM : Waits(u) /\ on[u] = d
      BY <1>5, <1>6, <2>2 DEF Answered
    <3> QED
      BY <1>3, <3>1
  <2> QED
    BY <2>1, <2>2 DEF Answered
<1> QED
  BY <1>7, <1>8, <1>9, <1>10, <1>11

\* A VM takes over the dead VM c, or gives it back: v steps aside for w.
LEMMA BatonOver ==
  ASSUME LifeInv, Baton, Channels, NEW v \in VM, NEW w \in VM, NEW c \in Co,
         OnlyMove({v, w}), UNCHANGED <<chanVars, started>>, v # w,
         doneCh[c],
         \/ w = c /\ Waits(v) /\ on[v] = c /\ pc[w] = "gone" /\ pc'[v] = "pending"
         \/ v = c /\ Active(v) /\ pc[w] = "pending" /\ pc'[v] = "gone",
         Active(w)'
  PROVE  Baton'
<1> USE DEF Baton, OnlyMove, chanVars
<1>1. HasTurn(v) /\ \A u \in VM : u # v => ~HasTurn(u)
  BY DEF OneTurn, HasTurn, Woken
<1>2. \A u \in VM : u # v /\ Waits(u) => u # w /\ on[u] \in Co \ {c}
  BY <1>1 DEF LifeInv, OwnInv, InCall, Waits, Active, HasTurn, Woken
<1>3. \A u \in VM : /\ Waits(u)' <=> Waits(u) /\ u # v
                    /\ Waits(u)' => /\ Woken(u)' <=> Woken(u)
                                    /\ on'[u] = on[u] /\ pc'[u] = pc[u]
                    /\ HasTurn(u)' <=> u = w
  <2> TAKE u \in VM
  <2>1. CASE u = v
    BY <2>1 DEF Waits, HasTurn, Active, Woken
  <2>2. CASE u = w
    BY <2>2 DEF Waits, HasTurn, Active, Woken
  <2>3. CASE u # v /\ u # w
    BY <1>1, <1>2, <2>3 DEF Waits, HasTurn, Active, Woken
  <2> QED
    BY <2>1, <2>2, <2>3
<1>4. ~Engaged(c) /\ \A d \in Co : Engaged(d)' <=> Engaged(d)
  BY DEF Active, Waits, Engaged, Idle, VM
<1>5. pc'[Main] = "closed" <=> pc[Main] = "closed"
  BY DEF Active, Waits, VM
<1>6. OneTurn' /\ SomebodyTurns'
  BY <1>3 DEF OneTurn, SomebodyTurns
<1>7. OneWaiter'
  BY <1>3 DEF OneWaiter
<1>8. Waited'
  <2> SUFFICES ASSUME NEW u \in VM, Waits(u)'
               PROVE  /\ Woken(u)' \/ Engaged(on[u])'
                      /\ pc'[u] = "joindead" => doneCh'[on'[u]]
                      /\ pc'[u] \in {"joining", "reap", "reaphard"} => resumeChClosed'[on'[u]]
    BY DEF Waited, Waits
  <2> QED
    BY <1>2, <1>3, <1>4 DEF Waited
<1>9. Answered'
  <2>0. yieldCh[c] = 0
    BY DEF Channels, LifeInv, Ends, Modes, VM
  <2>1. ASSUME NEW d \in Co, yieldCh'[d] = 1
        PROVE  \E u \in VM : pc'[u] \in {"waiting", "awaiting"} /\ on'[u] = d
    <3>1. PICK u \in VM : pc[u] \in {"waiting", "awaiting"} /\ on[u] = d
      BY <2>1 DEF Answered
    <3>2. u # v
      BY <2>0, <2>1, <3>1 DEF Active
    <3> QED
      BY <1>3, <3>1, <3>2 DEF Waits
  <2>2. ASSUME NEW d \in Co, Engaged(d)', resumeChClosed'[d] => pc'[Main] # "closed"
        PROVE  \E u \in VM : Waits(u)' /\ on'[u] = d
    <3>1. PICK u \in VM : Waits(u) /\ on[u] = d
      BY <1>4, <1>5, <2>2 DEF Answered
    <3>2. u # v
      BY <1>4, <2>2, <3>1 DEF Active, Waits
    <3> QED
      BY <1>3, <3>1, <3>2
  <2> QED
    BY <2>1, <2>2 DEF Answered
<1> QED
  BY <1>6, <1>7, <1>8, <1>9

\* A VM that waits goes on waiting, another way or for a dead coroutine.
LEMMA BatonWaits ==
  ASSUME LifeInv, Baton, NEW v \in VM, OnlyMove({v}), UNCHANGED <<chanVars, started>>,
         \/ pc[v] = "waiting" /\ pc'[v] = "awaiting" /\ on'[v] = on[v]
         \/ pc[v] = "reap" /\ pc'[v] = "reaphard" /\ on'[v] = on[v]
         \/ Active(v) /\ pc'[v] = "joindead" /\ on'[v] \in Co /\ doneCh[on'[v]]
  PROVE  Baton'
<1> USE DEF Baton, OnlyMove, chanVars
<1>1. \A u \in VM : /\ Waits(u)' <=> Waits(u) \/ u = v
                    /\ HasTurn(u)' <=> HasTurn(u)
                    /\ Waits(u) => Active(u)' = Active(u) /\ on'[u] = on[u] /\ (Woken(u)' <=> Woken(u))
  BY DEF Waits, HasTurn, Active, Woken
<1>2. \A d \in Co : Engaged(d)' <=> Engaged(d)
  BY DEF Active, Engaged, Idle, VM
<1>3. pc'[Main] = "closed" <=> pc[Main] = "closed"
  BY DEF Active, VM
<1>4. OneTurn' /\ SomebodyTurns'
  BY <1>1, <1>3 DEF OneTurn, SomebodyTurns
<1>5. OneWaiter'
  <2>1. Active(v) => \A u \in VM : Waits(u) => on[u] # on'[v]
    BY DEF OneTurn, HasTurn, Woken, Waits, Active
  <2> QED
    BY <1>1, <2>1 DEF OneWaiter, Waits
<1>6. Waited'
  <2> SUFFICES ASSUME NEW u \in VM, Waits(u)'
               PROVE  /\ Woken(u)' \/ Engaged(on[u])'
                      /\ pc'[u] = "joindead" => doneCh'[on'[u]]
                      /\ pc'[u] \in {"joining", "reap", "reaphard"} => resumeChClosed'[on'[u]]
    BY DEF Waited, Waits
  <2>1. CASE Waits(u)
    <3>1. on[u] \in Co
      BY <2>1 DEF LifeInv, OwnInv, InCall, Waits
    <3> QED
      BY <1>1, <1>2, <2>1, <3>1 DEF Waited, Active, Waits
  <2>2. CASE ~Waits(u)
    BY <1>1, <2>2 DEF Waits, Woken
  <2> QED
    BY <2>1, <2>2
<1>7. Answered'
  <2>1. ASSUME NEW d \in Co, yieldCh'[d] = 1
        PROVE  \E u \in VM : pc'[u] \in {"waiting", "awaiting"} /\ on'[u] = d
    <3>1. PICK u \in VM : pc[u] \in {"waiting", "awaiting"} /\ on[u] = d
      BY <2>1 DEF Answered
    <3> QED
      BY <3>1 DEF Active
  <2>2. ASSUME NEW d \in Co, Engaged(d)', resumeChClosed'[d] => pc'[Main] # "closed"
        PROVE  \E u \in VM : Waits(u)' /\ on'[u] = d
    <3>1. PICK u \in VM : Waits(u) /\ on[u] = d
      BY <1>2, <1>3, <2>2 DEF Answered
    <3> QED
      BY <1>1, <3>1
  <2> QED
    BY <2>1, <2>2 DEF Answered
<1> QED
  BY <1>4, <1>5, <1>6, <1>7

\* VM.Close returns: the root VM leaves, whatever it was waiting for.
LEMMA BatonLeft ==
  ASSUME LifeInv, Baton, OnlyMove({Main}), UNCHANGED <<chanVars, started>>,
         pc[Main] \in {"sweep", "reaphard"}, pc'[Main] = "closed"
  PROVE  Baton'
<1> USE DEF Baton, OnlyMove, chanVars
<1>1. \A u \in VM : /\ Waits(u)' <=> Waits(u) /\ u # Main
                    /\ HasTurn(u)' => HasTurn(u)
                    /\ Waits(u)' => on'[u] = on[u] /\ pc'[u] = pc[u] /\ (Woken(u)' <=> Woken(u))
  BY DEF Waits, HasTurn, Active, Woken
<1>2. \A d \in Co : Engaged(d)' <=> Engaged(d)
  BY CoroutineAssumption DEF Engaged, Idle, VM
<1>3. OneTurn' /\ SomebodyTurns'
  BY <1>1 DEF OneTurn, SomebodyTurns
<1>4. OneWaiter'
  BY <1>1 DEF OneWaiter
<1>5. Waited'
  <2> SUFFICES ASSUME NEW u \in VM, Waits(u)'
               PROVE  /\ Woken(u)' \/ Engaged(on[u])'
                      /\ pc'[u] = "joindead" => doneCh'[on'[u]]
                      /\ pc'[u] \in {"joining", "reap", "reaphard"} => resumeChClosed'[on'[u]]
    BY DEF Waited, Waits
  <2>1. on[u] \in Co
    BY <1>1 DEF LifeInv, OwnInv, InCall, Waits
  <2> QED
    BY <1>1, <1>2, <2>1 DEF Waited
<1>6. Answered'
  <2>1. ASSUME NEW d \in Co, yieldCh'[d] = 1
        PROVE  \E u \in VM : pc'[u] \in {"waiting", "awaiting"} /\ on'[u] = d
    <3>1. PICK u \in VM : pc[u] \in {"waiting", "awaiting"} /\ on[u] = d
      BY <2>1 DEF Answered
    <3> QED
      BY <1>1, <3>1 DEF Waits
  <2>2. ASSUME NEW d \in Co, Engaged(d)', ~resumeChClosed'[d]
        PROVE  \E u \in VM : Waits(u)' /\ on'[u] = d
    <3>1. PICK u \in VM : Waits(u) /\ on[u] = d
      BY <1>2, <2>2 DEF Answered
    <3>2. u # Main
      BY <2>2, <3>1 DEF Waited, Waits
    <3> QED
      BY <1>1, <3>1, <3>2
  <2> QED
    BY <2>1, <2>2 DEF Answered
<1> QED
  BY <1>3, <1>4, <1>5, <1>6
\* Where nothing has moved, nobody else has the turn.
LEMMA BatonStill ==
  ASSUME Baton, UNCHANGED <<pc, on, chanVars, started>>
  PROVE  Baton'
<1> USE DEF Baton, chanVars
<1>1. \A u \in VM : /\ Waits(u)' <=> Waits(u)
                    /\ Woken(u)' <=> Woken(u)
                    /\ HasTurn(u)' <=> HasTurn(u)
  BY DEF Active, Waits, Woken, HasTurn
<1>2. \A u \in VM : Engaged(on[u])' <=> Engaged(on[u])
  BY DEF Engaged, Idle
<1>3. \A c \in Co : Engaged(c)' <=> Engaged(c)
  BY DEF Engaged, Idle
<1>4. OneTurn' /\ SomebodyTurns' /\ OneWaiter'
  BY <1>1 DEF OneTurn, SomebodyTurns, OneWaiter
<1>5. Waited'
  BY <1>1, <1>2 DEF Waited
<1>6. Answered'
  BY <1>1, <1>3 DEF Answered
<1> QED
  BY <1>4, <1>5, <1>6

\* v closes c, which was never started, and goes on.
LEMMA BatonBuries ==
  ASSUME LifeInv, Baton, NEW v \in VM, NEW c \in Co, OnlyMove({v}), OnlyShakes(c),
         UNCHANGED <<resumeCh, yieldCh, doneCh, started>>, pc[c] = "fresh",
         Active(v), Active(v)'
  PROVE  Baton'
<1> USE DEF Baton, OnlyMove, OnlyShakes
<1>1. \A u \in VM : Waits(u) => u # v /\ on[u] \in Co
  BY DEF LifeInv, OwnInv, InCall, Waits, Active
<1>2. \A u \in VM : Waits(u) => on[u] # c
  <2> SUFFICES ASSUME NEW u \in VM, Waits(u), on[u] = c PROVE FALSE
    OBVIOUS
  <2>1. Woken(u) /\ HasTurn(u) /\ HasTurn(v) /\ u # v
    BY <1>1 DEF Waited, Engaged, HasTurn
  <2> QED
    BY <2>1 DEF OneTurn
<1>3. \A u \in VM : /\ Waits(u)' <=> Waits(u)
                    /\ Woken(u)' <=> Woken(u)
                    /\ HasTurn(u)' <=> HasTurn(u)
                    /\ Waits(u) => on'[u] = on[u] /\ pc'[u] = pc[u]
  <2> TAKE u \in VM
  <2>1. CASE u = v
    BY <2>1 DEF Active, Waits, Woken, HasTurn
  <2>2. CASE u # v
    <3>1. pc[u] = "parked" => u \in Co \ {c}
      BY <2>2 DEF LifeInv, Places, VM
    <3> QED
      BY <2>2, <3>1 DEF Active, Waits, Woken, HasTurn
  <2> QED
    BY <2>1, <2>2
<1>4. \A d \in Co : Engaged(d)' <=> Engaged(d)
  BY DEF Active, Engaged, Idle, VM
<1>5. pc'[Main] = "closed" <=> pc[Main] = "closed"
  BY DEF Active, VM
<1>6. OneTurn' /\ SomebodyTurns'
  BY <1>3, <1>5 DEF OneTurn, SomebodyTurns
<1>7. OneWaiter'
  BY <1>3 DEF OneWaiter
<1>8. Waited'
  <2> SUFFICES ASSUME NEW u \in VM, Waits(u)'
               PROVE  /\ Woken(u)' \/ Engaged(on[u])'
                      /\ pc'[u] = "joindead" => doneCh'[on'[u]]
                      /\ pc'[u] \in {"joining", "reap", "reaphard"} => resumeChClosed'[on'[u]]
    BY DEF Waited, Waits
  <2>1. on[u] \in Co \ {c}
    BY <1>1, <1>2, <1>3
  <2> QED
    BY <1>3, <1>4, <2>1 DEF Waited
<1>9. Answered'
  <2>1. ASSUME NEW d \in Co, yieldCh'[d] = 1
        PROVE  \E u \in VM : pc'[u] \in {"waiting", "awaiting"} /\ on'[u] = d
    <3>1. PICK u \in VM : pc[u] \in {"waiting", "awaiting"} /\ on[u] = d
      BY <2>1 DEF Answered
    <3> QED
      BY <1>3, <3>1 DEF Waits
  <2>2. ASSUME NEW d \in Co, Engaged(d)', resumeChClosed'[d] => pc'[Main] # "closed"
        PROVE  \E u \in VM : Waits(u)' /\ on'[u] = d
    <3>1. d # c
      BY <1>4, <2>2 DEF Engaged
    <3>2. PICK u \in VM : Waits(u) /\ on[u] = d
      BY <1>4, <1>5, <2>2, <3>1 DEF Answered
    <3> QED
      BY <1>3, <3>2
  <2> QED
    BY <2>1, <2>2 DEF Answered
<1> QED
  BY <1>6, <1>7, <1>8, <1>9

-----------------------------------------------------------------------------
(* The actions that hand the turn over.                                    *)

\* A goroutine that has returned has left nothing in its channel.
LEMMA DoneIsQuiet ==
  ASSUME LifeInv, Channels
  PROVE  \A c \in Co : doneCh[c] => yieldCh[c] = 0
  BY DEF LifeInv, Ends, Modes, Channels, VM

\* To whoever executes, a suspended coroutine is idle.
LEMMA SuspendedIsIdle ==
  ASSUME LifeInv, Baton, Channels, Suspended, NEW v \in VM, Active(v),
         NEW c \in Co, c # v, status[c] = "suspended"
  PROVE  /\ pc[c] = IF started[c] THEN "parked" ELSE "fresh"
         /\ resumeCh[c] = 0 /\ yieldCh[c] = 0
         /\ ~resumeChClosed[c] /\ ~doneCh[c]
<1>1. /\ pc[c] \in {"fresh", "yielding", "parked"}
      /\ resumeCh[c] = 0 /\ ~resumeChClosed[c]
  BY DEF Suspended
<1>2. pc[c] # "yielding"
  BY DEF Baton, OneTurn, HasTurn, Active, VM
<1>3. ~doneCh[c]
  BY <1>1 DEF LifeInv, Ends, Modes, VM
<1>4. yieldCh[c] = 0
  <2> SUFFICES ASSUME yieldCh[c] # 0 PROVE FALSE
    OBVIOUS
  <2>1. yieldCh[c] = 1
    BY DEF LifeInv, OwnInv, TypeOK
  <2>2. PICK u \in VM : pc[u] \in {"waiting", "awaiting"} /\ on[u] = c
    BY <2>1 DEF Baton, Answered
  <2> QED
    BY <2>1, <2>2 DEF Baton, OneTurn, HasTurn, Woken, Waits, Active
<1>5. started[c] <=> pc[c] # "fresh"
  BY DEF LifeInv, OwnInv, Ids
<1> QED
  BY <1>1, <1>2, <1>3, <1>4, <1>5

\* Beside the VM whose turn it is nobody executes.
LEMMA NobodyElse ==
  ASSUME Baton, NEW v \in VM, HasTurn(v)
  PROVE  \A u \in VM \ {v} :
           ~HasTurn(u) /\ ~Active(u) /\ pc[u] \notin {"resuming", "closing"}
  BY DEF Baton, OneTurn, HasTurn, Active

\* What a step of the VM whose turn it is may do to Suspended.
LEMMA SuspendedKept ==
  ASSUME Baton, Suspended, NEW v \in VM, HasTurn(v), NEW c \in Co,
         \A u \in VM \ {v} : pc'[u] \in {"resuming", "closing"} => pc'[u] = pc[u],
         pc'[v] \notin {"resuming", "closing"},
         \A d \in Co \ {c} :
           /\ status'[d] = "suspended" => status[d] = "suspended"
           /\ pc'[d] = pc[d] \/ status'[d] # "suspended"
           /\ resumeCh'[d] = resumeCh[d] /\ resumeChClosed'[d] = resumeChClosed[d],
         status'[c] # "suspended"
  PROVE  Suspended'
<1>1. \A u \in VM : pc'[u] \notin {"resuming", "closing"}
  BY NobodyElse
<1>2. ASSUME NEW d \in Co, status'[d] = "suspended"
      PROVE  /\ pc'[d] \in {"fresh", "yielding", "parked"}
             /\ resumeCh'[d] = 0 /\ ~resumeChClosed'[d]
  <2>1. d # c
    BY <1>2
  <2> QED
    BY <1>2, <2>1 DEF Suspended
<1> QED
  BY <1>1, <1>2 DEF Suspended

\* VM.Close closes resumeCh of a parked coroutine and waits for it.
LEMMA TurnReap ==
  ASSUME LifeInv, Baton, Shakes, NEW c \in Co, ReapBegin(c)
  PROVE  (Baton /\ Shakes)'
<1>0. OwnInv /\ TypeOK /\ Places /\ Main \in VM /\ c \in VM /\ Main # c
  BY CoroutineAssumption DEF LifeInv, OwnInv, VM
<1>1. /\ pc[Main] = "sweep" /\ status[c] = "suspended" /\ started[c] /\ c \in pending
      /\ pending' = pending \ {c} /\ status' = [status EXCEPT ![c] = "running"]
      /\ resumeChClosed' = [resumeChClosed EXCEPT ![c] = TRUE]
      /\ pc' = [pc EXCEPT ![Main] = "reap"] /\ on' = [on EXCEPT ![Main] = c]
      /\ UNCHANGED <<reg, started, resumeCh, yieldCh, doneCh, mode, tbc, todo>>
  BY <1>0 DEF ReapBegin, Reapable, Goto, About, luaVars
<1>2. Active(Main) /\ HasTurn(Main)
  BY <1>1 DEF Active, HasTurn
<1>3. pc[c] = "parked" /\ resumeCh[c] = 0 /\ ~resumeChClosed[c] /\ yieldCh[c] = 0 /\ ~doneCh[c]
  BY <1>0, <1>1, <1>2, SuspendedIsIdle DEF Shakes
<1>4. /\ pc'[Main] = "reap" /\ on'[Main] = c /\ pc'[c] = "parked" /\ on'[c] = on[c]
      /\ resumeChClosed'[c] /\ status'[c] = "running"
      /\ \A u \in VM \ {Main} : pc'[u] = pc[u] /\ on'[u] = on[u]
      /\ \A d \in Co \ {c} : resumeChClosed'[d] = resumeChClosed[d] /\ status'[d] = status[d]
  BY <1>0, <1>1, <1>3 DEF TypeOK
<1>5. Baton'
  <2>1. OnlyMove({Main, c}) /\ OnlyShakes(c)
    BY <1>1, <1>4 DEF OnlyMove, OnlyShakes
  <2>2. Idle(c) /\ HasTurn(c)'
    BY <1>1, <1>3, <1>4 DEF Idle, HasTurn
  <2> QED
    BY <1>0, <1>1, <1>2, <1>3, <1>4, <2>1, <2>2, BatonTold
<1>6. Channels' /\ Drained'
  BY <1>0, <1>1, <1>3, <1>4 DEF Shakes, Channels, Drained, VM
<1>7. Suspended'
  <2>1. \A d \in Co \ {c} : pc'[d] = pc[d]
    BY <1>0, <1>4, CoroutineAssumption DEF VM
  <2>2. pc'[Main] \notin {"resuming", "closing"}
    BY <1>4
  <2>3. \A d \in Co \ {c} : resumeCh'[d] = resumeCh[d]
    BY <1>1
  <2> QED
    BY <1>0, <1>2, <1>4, <2>1, <2>2, <2>3, SuspendedKept DEF Shakes
<1>8. Dead'
  BY <1>0, <1>1, <1>4, CoroutineAssumption DEF Shakes, Dead, VM, TypeOK
<1> QED
  BY <1>5, <1>6, <1>7, <1>8 DEF Shakes

\* coroutine.resume: the send under co.mu meets a parked goroutine, or starts one.
LEMMA TurnResume ==
  ASSUME LifeInv, Baton, Shakes, NEW v \in VM, ResumeSend(v)
  PROVE  (Baton /\ Shakes)'
<1>0. OwnInv /\ TypeOK /\ Places
  BY DEF LifeInv, OwnInv
<1> PICK c \in Co : c = on[v]
  BY <1>0 DEF ResumeSend, OwnInv, InCall
<1>1. /\ c \in Co /\ c \in VM /\ c = on[v] /\ pc[v] = "resuming" /\ ~resumeChClosed[c]
      /\ started' = [started EXCEPT ![c] = TRUE]
      /\ status' = [Mark(v, "normal") EXCEPT ![c] = "running"]
      /\ resumeCh' = [resumeCh EXCEPT ![c] = 1]
      /\ pc' = [pc EXCEPT ![v] = "waiting", ![c] = IF started[c] THEN @ ELSE "start"]
      /\ UNCHANGED <<reg, pending, on, resumeChClosed, yieldCh, doneCh, mode, tbc, todo>>
  BY <1>0 DEF ResumeSend, OwnInv, InCall, VM, callVars, luaVars, hostVars
<1>2. Active(v) /\ HasTurn(v)
  BY <1>1 DEF Active, HasTurn
<1>3. status[c] = "suspended" /\ c # v
  BY <1>1 DEF Shakes, Suspended
<1>4. /\ pc[c] = IF started[c] THEN "parked" ELSE "fresh"
      /\ resumeCh[c] = 0 /\ yieldCh[c] = 0 /\ ~doneCh[c]
  BY <1>1, <1>2, <1>3, SuspendedIsIdle DEF Shakes
<1>5. /\ pc'[v] = "waiting" /\ on'[v] = c /\ on'[c] = on[c]
      /\ pc'[c] = IF started[c] THEN "parked" ELSE "start"
      /\ resumeCh'[c] = 1 /\ started'[c] /\ status'[c] = "running"
      /\ \A u \in VM \ {v, c} : pc'[u] = pc[u] /\ on'[u] = on[u]
      /\ \A d \in Co \ {c} : /\ resumeCh'[d] = resumeCh[d] /\ started'[d] = started[d]
                             /\ status'[d] \in {status[d], "normal"}
                             /\ d # v => status'[d] = status[d]
  BY <1>0, <1>1, <1>3, <1>4 DEF TypeOK, Mark
<1>6. Baton'
  <2>1. OnlyMove({v, c}) /\ OnlyShakes(c)
    BY <1>1, <1>5 DEF OnlyMove, OnlyShakes
  <2>2. pc[c] = "fresh" \/ Idle(c)
    BY <1>1, <1>4 DEF Idle
  <2>3. HasTurn(c)' /\ pc'[c] \in {"start", "parked"}
    BY <1>5 DEF HasTurn, Active
  <2>4. UNCHANGED <<yieldCh, doneCh>>
    BY <1>1
  <2> QED
    BY <1>1, <1>2, <1>4, <1>5, <2>1, <2>2, <2>3, <2>4, BatonTold
<1>7. Channels'
  <2>1. \A d \in Co \ {c} : pc'[d] = pc[d] \/ (pc'[d] = "waiting" /\ pc[d] = "resuming")
    BY <1>1, <1>5 DEF VM
  <2>2. UNCHANGED <<resumeChClosed, yieldCh, mode>>
    BY <1>1
  <2>3. /\ pc'[c] \in {"start", "parked"} /\ resumeCh'[c] = 1
        /\ yieldCh'[c] = 0 /\ ~resumeChClosed'[c]
    BY <1>1, <1>4, <1>5
  <2>4. \A d \in Co \ {c} : resumeCh'[d] = resumeCh[d]
    BY <1>5
  <2> QED
    BY <2>1, <2>2, <2>3, <2>4 DEF Shakes, Channels
<1>8. Drained'
  <2>1. \A d \in Co \ {c} : pc'[d] = pc[d] \/ (pc'[d] = "waiting" /\ pc[d] = "resuming")
    BY <1>1, <1>5 DEF VM
  <2>2. UNCHANGED <<resumeChClosed, tbc, todo>> /\ ~resumeChClosed[c]
    BY <1>1
  <2> QED
    BY <2>1, <2>2 DEF Shakes, Drained
<1>9. Suspended'
  <2>1. \A u \in VM \ {v} : pc'[u] \in {"resuming", "closing"} => pc'[u] = pc[u]
    BY <1>5
  <2>2. \A d \in Co \ {c} : pc'[d] = pc[d] \/ status'[d] # "suspended"
    <3>1. v \in Co => status[v] # "suspended"
      BY <1>1 DEF Shakes, Suspended
    <3> QED
      BY <1>5, <3>1 DEF VM
  <2>3. \A d \in Co \ {c} : resumeCh'[d] = resumeCh[d] /\ resumeChClosed'[d] = resumeChClosed[d]
    BY <1>1, <1>5
  <2>4. /\ pc'[v] \notin {"resuming", "closing"} /\ status'[c] # "suspended"
        /\ \A d \in Co \ {c} : status'[d] = "suspended" => status[d] = "suspended"
    BY <1>5
  <2>5. Suspended
    BY DEF Shakes
  <2> QED
    BY <1>2, <2>1, <2>2, <2>3, <2>4, <2>5, SuspendedKept
<1>10. Dead'
  <2>1. \A d \in Co : d # c /\ status'[d] = "dead" =>
                        started'[d] = started[d] /\ status[d] = "dead" /\ doneCh'[d] = doneCh[d]
    BY <1>1, <1>5
  <2>2. \A d \in Co : d # c /\ pc[d] = "dying" => pc'[d] = "dying"
    BY <1>1, <1>5 DEF VM
  <2>3. pc'[Main] \in {"reap", "reaphard"} => pc'[Main] = pc[Main] /\ on'[Main] = on[Main]
    BY <1>1, <1>5, CoroutineAssumption DEF VM
  <2>4. UNCHANGED <<reg, pending>> /\ status'[c] # "dead" /\ reg \subseteq Co
    BY <1>0, <1>1, <1>5 DEF TypeOK
  <2> QED
    BY <2>1, <2>2, <2>3, <2>4 DEF Shakes, Dead
<1> QED
  BY <1>6, <1>7, <1>8, <1>9, <1>10 DEF Shakes

\* coroutine.close: closing resumeCh wakes a parked goroutine, or buries a
\* coroutine that never had one.
LEMMA TurnClose ==
  ASSUME LifeInv, Baton, Shakes, NEW v \in VM, CloseMark(v)
  PROVE  (Baton /\ Shakes)'
<1>0. OwnInv /\ TypeOK /\ Places /\ Main \notin Co
  BY CoroutineAssumption DEF LifeInv, OwnInv
<1> PICK c \in Co : c = on[v]
  BY <1>0 DEF CloseMark, OwnInv, InCall
<1>1. c \in Co /\ c \in VM /\ c = on[v] /\ pc[v] = "closing"
  BY <1>0 DEF CloseMark, OwnInv, InCall, VM
<1>2. Active(v) /\ HasTurn(v)
  BY <1>1 DEF Active, HasTurn
<1>3. status[c] = "suspended" /\ c # v
  BY <1>1 DEF Shakes, Suspended
<1>4. /\ pc[c] = IF started[c] THEN "parked" ELSE "fresh"
      /\ resumeCh[c] = 0 /\ yieldCh[c] = 0 /\ ~doneCh[c] /\ ~resumeChClosed[c]
  BY <1>1, <1>2, <1>3, SuspendedIsIdle DEF Shakes
<1>5. /\ resumeChClosed' = [resumeChClosed EXCEPT ![c] = TRUE]
      /\ UNCHANGED <<started, resumeCh, yieldCh, doneCh, pending, mode, tbc, todo>>
      /\ \/ /\ started[c] /\ status' = [status EXCEPT ![c] = "running"]
            /\ UNCHANGED <<reg, on>> /\ pc' = [pc EXCEPT ![v] = "joining"]
         \/ /\ ~started[c] /\ status' = [status EXCEPT ![c] = "dead"]
            /\ reg' = reg \ {c}
            /\ pc' = [pc EXCEPT ![v] = "run"] /\ on' = [on EXCEPT ![v] = None]
  BY <1>4 DEF CloseMark, callVars, luaVars, Goto, About
<1>6. /\ pc'[v] = (IF started[c] THEN "joining" ELSE "run")
      /\ started[c] => on'[v] = c
      /\ resumeChClosed'[c] /\ status'[c] # "suspended"
      /\ status'[c] = "dead" => c \notin reg'
      /\ \A u \in VM \ {v} : pc'[u] = pc[u] /\ on'[u] = on[u]
      /\ \A d \in Co \ {c} : resumeChClosed'[d] = resumeChClosed[d] /\ status'[d] = status[d]
  BY <1>0, <1>1, <1>3, <1>5 DEF TypeOK
<1>7. Baton'
  <2>1. OnlyMove({v}) /\ OnlyMove({v, c}) /\ OnlyShakes(c)
    BY <1>5, <1>6 DEF OnlyMove, OnlyShakes
  <2>2. UNCHANGED <<started, resumeCh, yieldCh, doneCh>>
    BY <1>5
  <2>3. pc'[c] = pc[c] /\ on'[c] = on[c]
    BY <1>1, <1>3, <1>6
  <2>4. CASE started[c]
    <3>1. Idle(c) /\ HasTurn(c)'
      BY <1>4, <1>6, <2>2, <2>3, <2>4 DEF Idle, HasTurn
    <3> QED
      BY <1>1, <1>2, <1>4, <1>6, <2>1, <2>2, <2>3, <2>4, <3>1, BatonTold
  <2>5. CASE ~started[c]
    <3>1. pc[c] = "fresh" /\ Active(v)'
      BY <1>4, <1>6, <2>5 DEF Active
    <3> QED
      BY <1>1, <1>2, <2>1, <2>2, <3>1, BatonBuries
  <2> QED
    BY <2>4, <2>5
<1>8. \A d \in Co \ {v} : pc'[d] = pc[d]
  BY <1>6 DEF VM
<1>9. Channels'
  <2>1. \A d \in Co : pc'[d] = pc[d] \/ (pc[d] = "closing" /\ pc'[d] \in {"run", "joining"})
    BY <1>1, <1>6, <1>8
  <2>2. UNCHANGED <<resumeCh, yieldCh, mode>>
    BY <1>5
  <2>3. pc'[c] = pc[c]
    BY <1>1, <1>3, <1>8
  <2> QED
    BY <1>1, <1>4, <1>6, <2>1, <2>2, <2>3 DEF Shakes, Channels
<1>10. Drained'
  <2>1. \A d \in Co : pc'[d] = pc[d] \/ (pc[d] = "closing" /\ pc'[d] \in {"run", "joining"})
    BY <1>1, <1>6, <1>8
  <2>2. UNCHANGED <<tbc, todo>> /\ pc'[c] \in {"fresh", "parked"}
    BY <1>1, <1>3, <1>4, <1>5, <1>8
  <2> QED
    BY <1>6, <2>1, <2>2 DEF Shakes, Drained
<1>11. Suspended'
  <2>1. pc'[v] \notin {"resuming", "closing"}
    BY <1>6
  <2>2. \A d \in Co \ {c} : resumeCh'[d] = resumeCh[d]
    BY <1>5
  <2>3. v \in Co => status[v] # "suspended"
    BY <1>1 DEF Shakes, Suspended
  <2>4. \A d \in Co \ {c} : pc'[d] = pc[d] \/ status'[d] # "suspended"
    BY <1>6, <1>8, <2>3
  <2> QED
    BY <1>1, <1>2, <1>6, <2>1, <2>2, <2>4, SuspendedKept DEF Shakes
<1>12. Dead'
  <2>1. reg' \subseteq reg /\ reg \subseteq Co
    BY <1>0, <1>5 DEF TypeOK
  <2>2. pc'[Main] \in {"reap", "reaphard"} => pc'[Main] = pc[Main] /\ on'[Main] = on[Main]
    BY <1>6 DEF VM
  <2>3. UNCHANGED <<started, doneCh, pending>>
    BY <1>5
  <2>4. \A d \in Co : pc[d] = "dying" => pc'[d] = "dying"
    BY <1>1, <1>8
  <2> QED
    BY <1>6, <2>1, <2>2, <2>3, <2>4 DEF Shakes, Dead
<1> QED
  BY <1>7, <1>9, <1>10, <1>11, <1>12 DEF Shakes

\* coroutine.yield: the value in yieldCh wakes the VM that resumed.
LEMMA TurnYield ==
  ASSUME LifeInv, Baton, Shakes, NEW v \in VM, YieldSend(v)
  PROVE  (Baton /\ Shakes)'
<1>0. TypeOK /\ Places /\ Ends /\ Modes
  BY DEF LifeInv, OwnInv
<1>1. /\ v \in Co /\ pc[v] = "yielding" /\ yieldCh' = [yieldCh EXCEPT ![v] = 1]
      /\ pc' = [pc EXCEPT ![v] = "parked"]
      /\ UNCHANGED <<reg, status, on, started, resumeCh, resumeChClosed, doneCh, pending, tbc, todo, mode>>
  BY <1>0 DEF YieldSend, Places, VM, Goto, regVars, callVars, luaVars, hostVars
<1>2. resumeCh[v] = 0 /\ ~resumeChClosed[v] /\ ~doneCh[v]
  BY <1>0, <1>1 DEF Shakes, Channels, Ends, Modes
<1>3. /\ pc'[v] = "parked" /\ yieldCh'[v] = 1 /\ ~doneCh'[v]
      /\ \A u \in VM \ {v} : pc'[u] = pc[u]
      /\ \A d \in Co \ {v} : yieldCh'[d] = yieldCh[d]
  BY <1>0, <1>1, <1>2 DEF TypeOK
<1>4. Baton'
  <2>1. OnlyMove({v}) /\ OnlyShakes(v)
    BY <1>1, <1>3 DEF OnlyMove, OnlyShakes
  <2>2. Active(v) /\ Engaged(v) /\ ~Engaged(v)' /\ ~HasTurn(v)'
    BY <1>1, <1>2, <1>3 DEF Active, Engaged, Idle, HasTurn, Woken, Waits
  <2>3. UNCHANGED <<resumeCh, resumeChClosed, started>> /\ on'[v] = on[v]
    BY <1>1
  <2> QED
    BY <1>1, <1>2, <1>3, <2>1, <2>2, <2>3, BatonStops
<1>5. Shakes'
  BY <1>0, <1>1, <1>2, <1>3, CoroutineAssumption DEF Shakes, Channels, Suspended, Dead, Drained, VM, TypeOK
<1> QED
  BY <1>4, <1>5

\* The outermost defer of runCoroutine: doneCh wakes whoever waits.
LEMMA TurnDone ==
  ASSUME LifeInv, Baton, Shakes, NEW v \in VM, DoneClose(v)
  PROVE  (Baton /\ Shakes)'
<1>0. TypeOK /\ Places /\ Ends /\ Modes
  BY DEF LifeInv, OwnInv
<1>1. /\ v \in Co /\ pc[v] = "dying" /\ doneCh' = [doneCh EXCEPT ![v] = TRUE]
      /\ pc' = [pc EXCEPT ![v] = "gone"]
      /\ UNCHANGED <<reg, status, on, started, resumeCh, resumeChClosed, yieldCh, pending, tbc, todo, mode>>
  BY <1>0 DEF DoneClose, Places, VM, Goto, regVars, callVars, luaVars, hostVars
<1>2. yieldCh[v] = 0 /\ ~doneCh[v]
  BY <1>0, <1>1 DEF Shakes, Channels, Ends
<1>3. /\ pc'[v] = "gone" /\ doneCh'[v]
      /\ \A u \in VM \ {v} : pc'[u] = pc[u]
      /\ \A d \in Co \ {v} : doneCh'[d] = doneCh[d]
  BY <1>0, <1>1 DEF TypeOK
<1>4. Baton'
  <2>1. OnlyMove({v}) /\ OnlyShakes(v)
    BY <1>1, <1>3 DEF OnlyMove, OnlyShakes
  <2>2. Active(v) /\ Engaged(v) /\ ~Engaged(v)' /\ ~HasTurn(v)'
    BY <1>1, <1>2, <1>3 DEF Active, Engaged, Idle, HasTurn, Woken, Waits
  <2>3. UNCHANGED <<resumeCh, resumeChClosed, started>> /\ on'[v] = on[v] /\ yieldCh'[v] = 0
    BY <1>1, <1>2
  <2> QED
    BY <1>1, <1>2, <1>3, <2>1, <2>2, <2>3, BatonStops
<1>5. Shakes'
  BY <1>0, <1>1, <1>2, <1>3, CoroutineAssumption DEF Shakes, Channels, Suspended, Dead, Drained, VM, TypeOK
<1> QED
  BY <1>4, <1>5

\* VM.Close gives up on a coroutine and returns: nobody waits for that one.
LEMMA TurnReapHard ==
  ASSUME LifeInv, Baton, Shakes, ReapHard
  PROVE  (Baton /\ Shakes)'
<1>0. OwnInv /\ TypeOK /\ Main \in VM /\ Main \notin Co
  BY CoroutineAssumption DEF LifeInv, OwnInv, VM
<1> PICK c \in Co : c = on[Main]
  BY <1>0 DEF ReapHard, OwnInv, InCall
<1>1. /\ c \in Co /\ pc[Main] = "reaphard" /\ status' = [status EXCEPT ![c] = "dead"]
      /\ pc' = [pc EXCEPT ![Main] = "closed"] /\ on' = [on EXCEPT ![Main] = None]
      /\ UNCHANGED <<reg, started, chanVars, tbc, todo, mode, pending>>
  BY <1>0 DEF ReapHard, OwnInv, InCall, Goto, About, luaVars, hostVars
<1>2. resumeChClosed[c] /\ c \notin reg
  BY <1>0, <1>1 DEF Baton, Waited, Shakes, Dead
<1>3. /\ pc'[Main] = "closed" /\ status'[c] = "dead"
      /\ \A u \in VM \ {Main} : pc'[u] = pc[u] /\ on'[u] = on[u]
      /\ \A d \in Co \ {c} : status'[d] = status[d]
  BY <1>0, <1>1 DEF TypeOK
<1>4. Baton'
  <2>1. OnlyMove({Main})
    BY <1>3 DEF OnlyMove
  <2> QED
    BY <1>1, <1>3, <2>1, BatonLeft
<1>5. \A d \in Co : pc'[d] = pc[d]
  BY <1>0, <1>3 DEF VM
<1>6. Channels' /\ Drained'
  BY <1>1, <1>5 DEF Shakes, Channels, Drained, chanVars
<1>7. Suspended'
  <2>1. \A u \in VM : pc[u] \in {"resuming", "closing"} => on[u] \in Co /\ on[u] # c
    BY <1>0, <1>2 DEF Shakes, Suspended, OwnInv, InCall
  <2> QED
    BY <1>1, <1>3, <1>5, <2>1 DEF Shakes, Suspended, chanVars
<1>8. Dead'
  BY <1>0, <1>1, <1>2, <1>3, <1>5 DEF Shakes, Dead, TypeOK, chanVars
<1> QED
  BY <1>4, <1>6, <1>7, <1>8 DEF Shakes

\* The dead VM of the coroutine that v waited for is taken over, or has nothing
\* pending.
LEMMA TakesOver ==
  ASSUME LifeInv, Baton, Shakes, NEW v \in VM, on[v] \in Co,
         pc[v] \in {"waiting", "joindead"}, doneCh[on[v]], ClosePendingTBC(v, on[v]),
         status' \in {status, Mark(v, "running")},
         UNCHANGED <<reg, started, chanVars, pending>>
  PROVE  (Baton /\ Shakes)'
<1> PICK c \in Co : c = on[v]
  OBVIOUS
<1>0. OwnInv /\ TypeOK /\ Main \notin Co /\ c \in VM
  BY CoroutineAssumption DEF LifeInv, OwnInv, VM
<1>1. Waits(v) /\ Woken(v) /\ HasTurn(v) /\ yieldCh[c] = 0
  BY DoneIsQuiet DEF Waits, Woken, HasTurn, Shakes
<1>2. \A d \in Co : status'[d] = status[d] \/ (d = v /\ status'[d] = "running")
  <2>1. status' = status \/ status' = [status EXCEPT ![v] = "running"]
    BY DEF Mark
  <2> QED
    BY <1>0, <2>1 DEF TypeOK
<1>3. v \in Co => status[v] # "suspended"
  BY DEF Shakes, Suspended
<1>4. CASE tbc[c] = 0 \/ CloseChainFull
  <2>1. /\ pc' = [pc EXCEPT ![v] = "run"] /\ on' = [on EXCEPT ![v] = None]
        /\ tbc' = [tbc EXCEPT ![c] = 0] /\ UNCHANGED <<todo, mode>>
    BY <1>0, <1>4 DEF ClosePendingTBC, Goto, About, TypeOK
  <2>2. pc'[v] = "run" /\ \A u \in VM \ {v} : pc'[u] = pc[u] /\ on'[u] = on[u]
    BY <1>0, <2>1 DEF TypeOK
  <2>3. Baton'
    <3>1. OnlyMove({v}) /\ OnlyShakes(on[v]) /\ Active(v)'
      BY <2>2 DEF OnlyMove, OnlyShakes, Active, chanVars
    <3> QED
      BY <1>1, <3>1, BatonBack DEF chanVars, Shakes
  <2>4. Channels' /\ Drained'
    BY <1>0, <2>1 DEF Shakes, TypeOK, VM, chanVars, Channels, Drained
  <2>5. Suspended'
    <3>1. \A u \in VM : pc'[u] \notin {"resuming", "closing"}
      BY <1>1, <2>2, NobodyElse
    <3>2. \A d \in Co : status'[d] = "suspended" => status[d] = "suspended" /\ d # v
      BY <1>2, <1>3
    <3> QED
      BY <2>2, <3>1, <3>2 DEF Shakes, Suspended, chanVars, VM
  <2>6. Dead'
    <3>1. \A d \in Co : status'[d] = "dead" => status[d] = "dead"
      BY <1>2
    <3>2. \A d \in Co : pc[d] = "dying" => pc'[d] = "dying"
      BY <2>2 DEF VM
    <3>3. pc'[Main] \in {"reap", "reaphard"} => pc'[Main] = pc[Main] /\ on'[Main] = on[Main]
      BY <2>2 DEF VM
    <3> QED
      BY <1>0, <3>1, <3>2, <3>3 DEF Shakes, Dead, chanVars, TypeOK
  <2> QED
    BY <2>3, <2>4, <2>5, <2>6 DEF Shakes
<1>5. CASE tbc[c] > 0 /\ ~CloseChainFull
  <2>0. ~(tbc[c] = 0 \/ CloseChainFull)
    BY <1>0, <1>5 DEF TypeOK
  <2>1. /\ pc' = [pc EXCEPT ![v] = "pending", ![c] = "run"] /\ on' = on
        /\ tbc' = [tbc EXCEPT ![c] = 0] /\ todo' = [todo EXCEPT ![c] = tbc[c] - 1]
        /\ mode' = [mode EXCEPT ![c] = "pending"]
    BY <2>0 DEF ClosePendingTBC, TakeHandlers, callVars
  <2>2. mode[c] = "body" /\ pc[c] = "gone" /\ c # v /\ ~resumeChClosed[c]
    BY <1>0, <1>5 DEF LifeInv, OwnInv, TypeOK, VM, Modes, Ends, Shakes, Drained
  <2>3. /\ pc'[v] = "pending" /\ pc'[c] = "run"
        /\ \A u \in VM \ {v, c} : pc'[u] = pc[u] /\ on'[u] = on[u]
    BY <1>0, <2>1, <2>2 DEF TypeOK
  <2>4. Baton'
    <3>1. OnlyMove({v, c}) /\ Active(c)' /\ UNCHANGED started
      BY <2>3 DEF OnlyMove, Active
    <3> QED
      BY <1>0, <1>1, <2>2, <2>3, <3>1, BatonOver DEF Shakes
  <2>5. c \in Co /\ v \in VM /\ c \in VM /\ UNCHANGED chanVars
    BY <1>0
  <2>6. Channels' /\ Drained'
    <3>1. Channels'
      BY <1>0, <2>1, <2>2, <2>3, <2>5 DEF LifeInv, OwnInv, TypeOK, VM, chanVars, Shakes, Channels
    <3>2. Drained'
      BY <1>0, <2>1, <2>2, <2>3, <2>5 DEF LifeInv, OwnInv, TypeOK, VM, chanVars, Shakes, Drained
    <3> QED
      BY <3>1, <3>2
  <2>7. Suspended'
    <3>1. \A u \in VM : pc'[u] \notin {"resuming", "closing"}
      BY <1>1, <2>3, NobodyElse
    <3>2. \A d \in Co : status'[d] = "suspended" => status[d] = "suspended" /\ d # v /\ d # c
      BY <1>2, <1>3, <2>2, <2>5 DEF Shakes, Suspended
    <3> QED
      BY <2>3, <2>5, <3>1, <3>2 DEF Shakes, Suspended, chanVars, VM
  <2>8. Dead'
    <3>1. \A d \in Co : status'[d] = "dead" => status[d] = "dead"
      BY <1>2
    <3>2. \A d \in Co : pc[d] = "dying" => pc'[d] = "dying"
      BY <2>2, <2>3 DEF VM
    <3>3. pc'[Main] \in {"reap", "reaphard"} => pc'[Main] = pc[Main] /\ on'[Main] = on[Main]
      BY <1>0, <2>3, <2>5 DEF VM
    <3> QED
      BY <1>0, <3>1, <3>2, <3>3 DEF Shakes, Dead, chanVars, TypeOK
  <2> QED
    BY <2>4, <2>6, <2>7, <2>8 DEF Shakes
<1> QED
  BY <1>4, <1>5 DEF ClosePendingTBC

-----------------------------------------------------------------------------
(* Every step.                                                             *)

\* A step that gives up no wait keeps the turn and the handshakes.
LEMMA TurnStep == LifeInv /\ Baton /\ Shakes /\ [Next]_vars /\ ~expired' => (Baton /\ Shakes)'
<1> SUFFICES ASSUME LifeInv, Baton, Shakes, [Next]_vars, ~expired'
             PROVE  (Baton /\ Shakes)'
  OBVIOUS
<1> USE CoroutineAssumption
    DEF LifeInv, OwnInv, InCall, TypeOK, VM, regVars, chanVars, envVars,
        callVars, luaVars, hostVars, Goto, About, Mark, Places, Modes, Ends,
        Ids, HasTurn, Active, Waits, Woken, Idle, Engaged, OnlyMove, OnlyShakes,
        Shakes
<1>1. CASE HostRun
  <2>1. Baton'
    BY <1>1, BatonKept DEF HostRun
  <2>2. Shakes'
    BY <1>1 DEF HostRun, Channels, Suspended, Dead, Drained
  <2> QED
    BY <2>1, <2>2
<1>2. CASE CloseVM
  <2>1. Baton'
    BY <1>2, BatonKept DEF CloseVM
  <2>2. Shakes'
    BY <1>2 DEF CloseVM, Channels, Suspended, Dead, Drained
  <2> QED
    BY <2>1, <2>2
<1>3. ASSUME NEW x \in Ctx, SetContext(x) PROVE (Baton /\ Shakes)'
  <2>1. Baton'
    BY <1>3, BatonKept DEF SetContext
  <2>2. Shakes'
    BY <1>3 DEF SetContext, Channels, Suspended, Dead, Drained
  <2> QED
    BY <2>1, <2>2
<1>4. ASSUME NEW x \in Ctx, Cancel(x) PROVE (Baton /\ Shakes)'
  BY <1>4, BatonStill DEF Cancel, Shakes, Channels, Suspended, Dead, Drained
<1>5. ASSUME NEW c \in Co, ReapSkip(c) PROVE (Baton /\ Shakes)'
  <2>1. Baton'
    BY <1>5, BatonKept DEF ReapSkip
  <2>2. Shakes'
    BY <1>5 DEF ReapSkip, Channels, Suspended, Dead, Drained
  <2> QED
    BY <2>1, <2>2
<1>6. ASSUME NEW c \in Co, ReapBegin(c) PROVE (Baton /\ Shakes)'
  BY <1>6, TurnReap
<1>7. CASE ReapDone
  <2>1. Baton'
    <3>1. Waits(Main) /\ Woken(Main) /\ doneCh[on[Main]] /\ on[Main] \in Co
      BY <1>7 DEF ReapDone
    <3>2. yieldCh[on[Main]] = 0
      BY <3>1, DoneIsQuiet
    <3> QED
      BY <1>7, <3>1, <3>2, BatonBack DEF ReapDone
  <2>2. Shakes'
    BY <1>7 DEF ReapDone, Channels, Dead, Drained, Suspended
  <2> QED
    BY <2>1, <2>2
<1>8. CASE SweepEnd
  <2>1. Baton'
    BY <1>8, BatonLeft DEF SweepEnd
  <2>2. Shakes'
    BY <1>8 DEF SweepEnd, Channels, Suspended, Dead, Drained
  <2> QED
    BY <2>1, <2>2
<1>9. ASSUME NEW v \in VM, Poll(v) PROVE (Baton /\ Shakes)'
  <2>1. Baton'
    BY <1>9, BatonKept DEF Poll
  <2>2. Shakes'
    BY <1>9 DEF Poll, Channels, Suspended, Dead, Drained
  <2> QED
    BY <2>1, <2>2
<1>10. ASSUME NEW v \in VM, DeclareTbc(v) PROVE (Baton /\ Shakes)'
  <2>1. Baton'
    BY <1>10, BatonKept DEF DeclareTbc
  <2>2. Shakes'
    BY <1>10 DEF DeclareTbc, Channels, Suspended, Dead, Drained
  <2> QED
    BY <2>1, <2>2
<1>11. ASSUME NEW v \in VM, LeaveScope(v) PROVE (Baton /\ Shakes)'
  <2>1. Baton'
    BY <1>11, BatonKept DEF LeaveScope
  <2>2. Shakes'
    BY <1>11 DEF LeaveScope, Channels, Suspended, Dead, Drained
  <2> QED
    BY <2>1, <2>2
<1>12. ASSUME NEW v \in VM, Exit(v) PROVE (Baton /\ Shakes)'
  <2>1. Baton'
    BY <1>12, BatonKept DEF Exit
  <2>2. Shakes'
    BY <1>12 DEF Exit, Channels, Suspended, Dead, Drained
  <2> QED
    BY <2>1, <2>2
<1>13. ASSUME NEW v \in VM, Yield(v) PROVE (Baton /\ Shakes)'
  <2>1. Baton'
    BY <1>13, BatonKept DEF Yield
  <2>2. /\ v \in Co /\ pc[v] = "call" /\ mode[v] = "body"
        /\ status' = status \/ status' = [status EXCEPT ![v] = "suspended"]
        /\ pc' = [pc EXCEPT ![v] = "yielding"]
        /\ UNCHANGED <<reg, pending, on, started, chanVars, tbc, todo, mode>>
    BY <1>13 DEF Yield
  <2>3. resumeCh[v] = 0 /\ ~resumeChClosed[v]
    BY <2>2 DEF Channels
  <2>4. Channels' /\ Dead' /\ Drained'
    BY <2>2, <2>3 DEF Channels, Dead, Drained
  <2>5. Suspended'
    BY <2>2, <2>3 DEF Suspended
  <2> QED
    BY <2>1, <2>4, <2>5
<1>14. ASSUME NEW v \in VM, SelfClose(v) PROVE (Baton /\ Shakes)'
  <2>1. Baton'
    BY <1>14, BatonKept DEF SelfClose, TakeHandlers
  <2>2. /\ v \in Co /\ pc[v] = "call" /\ mode[v] = "body"
        /\ UNCHANGED <<reg, pending, on, started, chanVars>>
    BY <1>14 DEF SelfClose
  <2>3. ~resumeChClosed[v]
    BY <2>2 DEF Channels
  <2>4. CASE tbc[v] = 0
    <3>1. /\ pc' = [pc EXCEPT ![v] = "dying"] /\ status' = [status EXCEPT ![v] = "dead"]
          /\ UNCHANGED <<tbc, todo, mode>>
      BY <1>14, <2>4 DEF SelfClose
    <3> QED
      BY <2>1, <2>2, <2>3, <3>1 DEF Channels, Suspended, Dead, Drained
  <2>5. CASE tbc[v] > 0
    <3>1. /\ pc' = [pc EXCEPT ![v] = "run"] /\ mode' = [mode EXCEPT ![v] = "self"]
          /\ tbc' = [tbc EXCEPT ![v] = 0] /\ todo' = [todo EXCEPT ![v] = tbc[v] - 1]
          /\ UNCHANGED status
      BY <1>14, <2>5 DEF SelfClose, TakeHandlers
    <3> QED
      BY <2>1, <2>2, <2>3, <3>1 DEF Channels, Suspended, Dead, Drained
  <2> QED
    BY <2>2, <2>4, <2>5
<1>15. ASSUME NEW v \in VM, NEW c \in Co, Create(v, c) PROVE (Baton /\ Shakes)'
  <2>1. Baton'
    BY <1>15, BatonKept DEF Create
  <2>2. Shakes'
    BY <1>15 DEF Create, Channels, Suspended, Dead, Drained
  <2> QED
    BY <2>1, <2>2
<1>16. ASSUME NEW v \in VM, NEW c \in Co, CloseDead(v, c) PROVE (Baton /\ Shakes)'
  <2>1. /\ pc[v] = "call" /\ c # v /\ c \in reg /\ status[c] = "dead" /\ reg' = reg \ {c}
        /\ pc' = [pc EXCEPT ![v] = "joindead"] /\ on' = [on EXCEPT ![v] = c]
        /\ UNCHANGED <<status, started, chanVars, pending, mode, tbc, todo>>
    BY <1>16 DEF CloseDead
  <2>2. doneCh[c]
    <3>1. pc[c] # "dying"
      BY <2>1 DEF Baton, OneTurn
    <3> QED
      BY <2>1, <3>1 DEF Dead
  <2>3. Baton'
    BY <2>1, <2>2, BatonWaits
  <2>4. Shakes'
    BY <2>1 DEF Channels, Suspended, Dead, Drained
  <2> QED
    BY <2>3, <2>4
<1>17. ASSUME NEW v \in VM, NEW c \in Co, CloseBegin(v, c) PROVE (Baton /\ Shakes)'
  <2>1. Baton'
    BY <1>17, BatonKept DEF CloseBegin
  <2>2. Shakes'
    BY <1>17 DEF CloseBegin, Channels, Suspended, Dead, Drained
  <2> QED
    BY <2>1, <2>2
<1>18. ASSUME NEW v \in VM, NEW c \in Co, NEW w \in BOOLEAN, ResumeCheck(v, c, w) PROVE (Baton /\ Shakes)'
  <2>1. Baton'
    BY <1>18, BatonKept DEF ResumeCheck
  <2>2. Shakes'
    BY <1>18 DEF ResumeCheck, Channels, Suspended, Dead, Drained
  <2> QED
    BY <2>1, <2>2
<1>19. CASE MainReturns
  <2>1. Baton'
    BY <1>19, BatonKept DEF MainReturns
  <2>2. Shakes'
    BY <1>19 DEF MainReturns, Channels, Suspended, Dead, Drained
  <2> QED
    BY <2>1, <2>2
<1>20. ASSUME NEW v \in VM, BodyReturns(v) PROVE (Baton /\ Shakes)'
  <2>1. Baton'
    BY <1>20, BatonKept DEF BodyReturns
  <2>2. Shakes'
    BY <1>20 DEF BodyReturns, Channels, Suspended, Dead, Drained
  <2> QED
    BY <2>1, <2>2
<1>21. ASSUME NEW v \in VM, BodyFails(v) PROVE (Baton /\ Shakes)'
  <2>1. Baton'
    BY <1>21, BatonKept DEF BodyFails
  <2>2. Shakes'
    BY <1>21 DEF BodyFails, Channels, Suspended, Dead, Drained
  <2> QED
    BY <2>1, <2>2
<1>22. ASSUME NEW v \in VM, NEW p \in Panic, NextHandler(v, p) PROVE (Baton /\ Shakes)'
  <2>1. Baton'
    BY <1>22, BatonKept DEF NextHandler, HandlerEnd, LastPanic
  <2>2. Shakes'
    BY <1>22 DEF NextHandler, HandlerEnd, LastPanic, Channels, Suspended, Dead, Drained
  <2> QED
    BY <2>1, <2>2
<1>23. ASSUME NEW v \in VM, NEW p \in Panic, OwnHandlersDone(v, p) PROVE (Baton /\ Shakes)'
  <2>1. Baton'
    BY <1>23, BatonKept DEF OwnHandlersDone, HandlerEnd, LastPanic
  <2>2. Shakes'
    BY <1>23 DEF OwnHandlersDone, HandlerEnd, LastPanic, Channels, Suspended, Dead, Drained
  <2> QED
    BY <2>1, <2>2
<1>24. ASSUME NEW v \in VM, NEW p \in Panic, PendingHandlersDone(v, p) PROVE (Baton /\ Shakes)'
  <2>1. /\ v \in Co /\ mode[v] = "pending" /\ todo[v] = 0 /\ Active(v)
        /\ mode' = [mode EXCEPT ![v] = "body"]
        /\ UNCHANGED <<status, reg, pending, started, chanVars, tbc, todo>>
    BY <1>24 DEF PendingHandlersDone, HandlerEnd
  <2>2. PICK u \in VM :
          /\ pc[u] = "pending" /\ on[u] = v /\ on' = [on EXCEPT ![u] = None]
          /\ pc' = [pc EXCEPT ![u] = "run", ![v] = "gone"]
    BY <1>24 DEF PendingHandlersDone
  <2>3. u # v /\ doneCh[v] /\ Active(u)'
    BY <2>1, <2>2
  <2>4. Baton'
    BY <2>1, <2>2, <2>3, BatonOver
  <2>5. Channels' /\ Drained'
    BY <2>1, <2>2, <2>3 DEF Channels, Drained
  <2>6. Suspended' /\ Dead'
    BY <2>1, <2>2, <2>3 DEF Suspended, Dead
  <2> QED
    BY <2>4, <2>5, <2>6
<1>25. ASSUME NEW v \in VM, CallReturns(v) PROVE (Baton /\ Shakes)'
  <2>1. Baton'
    BY <1>25, BatonKept DEF CallReturns
  <2>2. Shakes'
    BY <1>25 DEF CallReturns, Channels, Suspended, Dead, Drained
  <2> QED
    BY <2>1, <2>2
<1>26. CASE ExitMain
  <2>1. Baton'
    BY <1>26, BatonKept DEF ExitMain
  <2>2. Shakes'
    BY <1>26 DEF ExitMain, Channels, Suspended, Dead, Drained
  <2> QED
    BY <2>1, <2>2
<1>27. ASSUME NEW v \in VM, ExitBody(v) PROVE (Baton /\ Shakes)'
  <2>1. Baton'
    BY <1>27, BatonKept DEF ExitBody
  <2>2. Shakes'
    BY <1>27 DEF ExitBody, Channels, Suspended, Dead, Drained
  <2> QED
    BY <2>1, <2>2
<1>28. ASSUME NEW v \in VM, ResumeSend(v) PROVE (Baton /\ Shakes)'
  BY <1>28, TurnResume
<1>29. ASSUME NEW v \in VM, ResumeTooLate(v) PROVE (Baton /\ Shakes)'
  <2>1. Baton'
    BY <1>29, BatonKept DEF ResumeTooLate
  <2>2. Shakes'
    BY <1>29 DEF ResumeTooLate, Channels, Suspended, Dead, Drained
  <2> QED
    BY <2>1, <2>2
<1>30. ASSUME NEW v \in VM, RecvYield(v) PROVE (Baton /\ Shakes)'
  <2>1. Baton'
    BY <1>30, BatonBack DEF RecvYield
  <2>2. Shakes'
    BY <1>30 DEF RecvYield, Channels, Suspended, Dead, Drained
  <2> QED
    BY <2>1, <2>2
<1>31. ASSUME NEW v \in VM, RecvDone(v) PROVE (Baton /\ Shakes)'
  <2>1. /\ on[v] \in Co /\ pc[v] = "waiting" /\ doneCh[on[v]] /\ status' = Mark(v, "running")
        /\ UNCHANGED <<reg, started, chanVars, pending>>
    BY <1>31 DEF RecvDone
  <2>2. CASE err[on[v]] = "error" /\ wrap[v]
    BY <1>31, <2>1, <2>2, TakesOver DEF RecvDone
  <2>3. CASE ~(err[on[v]] = "error" /\ wrap[v])
    <3>1. /\ \/ pc' = [pc EXCEPT ![v] = "run"]
             \/ pc' = [pc EXCEPT ![v] = "exiting"]
          /\ on' = [on EXCEPT ![v] = None] /\ UNCHANGED <<tbc, todo, mode>>
      BY <1>31, <2>3 DEF RecvDone
    <3>2. Baton'
      BY <2>1, <3>1, DoneIsQuiet, BatonBack
    <3>3. Shakes'
      BY <2>1, <3>1 DEF Channels, Suspended, Dead, Drained
    <3> QED
      BY <3>2, <3>3
  <2> QED
    BY <2>2, <2>3
<1>32. ASSUME NEW v \in VM, RecvCtx(v) PROVE (Baton /\ Shakes)'
  <2>1. Baton'
    BY <1>32, BatonWaits DEF RecvCtx
  <2>2. Shakes'
    BY <1>32 DEF RecvCtx, Channels, Suspended, Dead, Drained
  <2> QED
    BY <2>1, <2>2
<1>33. ASSUME NEW v \in VM, AwaitDone(v) PROVE (Baton /\ Shakes)'
  <2>1. /\ on[v] \in Co /\ pc[v] = "awaiting" /\ doneCh[on[v]]
        /\ pc' = [pc EXCEPT ![v] = "run"] /\ on' = [on EXCEPT ![v] = None]
        /\ UNCHANGED <<reg, status, started, chanVars, pending, tbc, todo, mode>>
    BY <1>33 DEF AwaitDone
  <2>2. Baton'
    BY <2>1, DoneIsQuiet, BatonBack
  <2>3. Shakes'
    BY <2>1 DEF Channels, Suspended, Dead, Drained
  <2> QED
    BY <2>2, <2>3
<1>34. ASSUME NEW v \in VM, AwaitYield(v) PROVE (Baton /\ Shakes)'
  <2>1. Baton'
    BY <1>34, BatonBack DEF AwaitYield
  <2>2. Shakes'
    BY <1>34 DEF AwaitYield, Channels, Suspended, Dead, Drained
  <2> QED
    BY <2>1, <2>2
<1>35. ASSUME NEW v \in VM, YieldSend(v) PROVE (Baton /\ Shakes)'
  BY <1>35, TurnYield
<1>36. ASSUME NEW v \in VM, Wake(v) PROVE (Baton /\ Shakes)'
  <2>1. Baton'
    BY <1>36, BatonKept DEF Wake
  <2>2. Shakes'
    BY <1>36 DEF Wake, Channels, Suspended, Dead, Drained
  <2> QED
    BY <2>1, <2>2
<1>37. ASSUME NEW v \in VM, WakeClosed(v) PROVE (Baton /\ Shakes)'
  <2>1. Baton'
    BY <1>37, BatonKept DEF WakeClosed, TakeHandlers
  <2>2. /\ v \in Co /\ pc[v] = "parked" /\ resumeChClosed[v] /\ resumeCh[v] = 0
        /\ UNCHANGED <<reg, pending, status, on, started, chanVars>>
    BY <1>37 DEF WakeClosed
  <2>3. mode[v] = "body" /\ todo[v] = 0 /\ yieldCh[v] = 0
    BY <2>2 DEF Channels
  <2>4. CASE tbc[v] = 0
    <3>1. pc' = [pc EXCEPT ![v] = "dying"] /\ UNCHANGED <<tbc, todo, mode>>
      BY <1>37, <2>4 DEF WakeClosed
    <3> QED
      BY <2>1, <2>2, <2>3, <2>4, <3>1 DEF Channels, Suspended, Dead, Drained
  <2>5. CASE tbc[v] > 0
    <3>1. /\ pc' = [pc EXCEPT ![v] = "run"] /\ mode' = [mode EXCEPT ![v] = "killed"]
          /\ tbc' = [tbc EXCEPT ![v] = 0] /\ todo' = [todo EXCEPT ![v] = tbc[v] - 1]
      BY <1>37, <2>5 DEF WakeClosed, TakeHandlers
    <3> QED
      BY <2>1, <2>2, <2>3, <3>1 DEF Channels, Suspended, Dead, Drained
  <2> QED
    BY <2>2, <2>4, <2>5
<1>38. ASSUME NEW v \in VM, JoinDead(v) PROVE (Baton /\ Shakes)'
  <2>1. /\ on[v] \in Co /\ pc[v] = "joindead" /\ doneCh[on[v]]
        /\ UNCHANGED <<reg, status, started, chanVars, pending>>
    BY <1>38 DEF JoinDead, Baton, Waited
  <2>2. CASE reapAbandoned[on[v]]
    <3>1. /\ pc' = [pc EXCEPT ![v] = "run"] /\ on' = [on EXCEPT ![v] = None]
          /\ UNCHANGED <<tbc, todo, mode>>
      BY <1>38, <2>2 DEF JoinDead
    <3>2. Baton'
      BY <2>1, <3>1, DoneIsQuiet, BatonBack
    <3>3. Shakes'
      BY <2>1, <3>1 DEF Channels, Suspended, Dead, Drained
    <3> QED
      BY <3>2, <3>3
  <2>3. CASE ~reapAbandoned[on[v]]
    BY <1>38, <2>1, <2>3, TakesOver DEF JoinDead
  <2> QED
    BY <2>2, <2>3
<1>39. ASSUME NEW v \in VM, CloseMark(v) PROVE (Baton /\ Shakes)'
  BY <1>39, TurnClose
<1>40. ASSUME NEW v \in VM, JoinDone(v) PROVE (Baton /\ Shakes)'
  <2>1. /\ on[v] \in Co /\ pc[v] = "joining" /\ doneCh[on[v]]
        /\ status' = [status EXCEPT ![on[v]] = "dead"] /\ reg' = reg \ {on[v]}
        /\ pc' = [pc EXCEPT ![v] = "run"] /\ on' = [on EXCEPT ![v] = None]
        /\ UNCHANGED <<started, chanVars, pending, tbc, todo, mode>>
    BY <1>40 DEF JoinDone
  <2>2. Baton'
    BY <2>1, DoneIsQuiet, BatonBack
  <2>3. Shakes'
    BY <2>1 DEF Channels, Suspended, Dead, Drained
  <2> QED
    BY <2>2, <2>3
<1>41. ASSUME NEW v \in VM, StartCo(v) PROVE (Baton /\ Shakes)'
  <2>1. Baton'
    BY <1>41, BatonKept DEF StartCo
  <2>2. Shakes'
    BY <1>41 DEF StartCo, Channels, Suspended, Dead, Drained
  <2> QED
    BY <2>1, <2>2
<1>42. ASSUME NEW v \in VM, DoneClose(v) PROVE (Baton /\ Shakes)'
  BY <1>42, TurnDone
<1>43. ASSUME NEW v \in VM, AwaitTimer(v) PROVE (Baton /\ Shakes)'
  BY <1>43 DEF AwaitTimer
<1>44. CASE ReapGrace
  <2>1. Baton'
    BY <1>44, BatonWaits DEF ReapGrace
  <2>2. Shakes'
    BY <1>44 DEF ReapGrace, Channels, Suspended, Dead, Drained
  <2> QED
    BY <2>1, <2>2
<1>45. CASE ReapHard
  BY <1>45, TurnReapHard
<1>46. CASE UNCHANGED vars
  BY <1>46, BatonStill DEF vars, Channels, Suspended, Dead, Drained
<1> HIDE CoroutineAssumption
    DEF LifeInv, OwnInv, InCall, TypeOK, VM, regVars, chanVars, envVars,
        callVars, luaVars, hostVars, Goto, About, Mark, Places, Modes, Ends,
        Ids, HasTurn, Active, Waits, Woken, Idle, Engaged, OnlyMove, OnlyShakes,
        Shakes
<1> QED
  BY <1>1, <1>2, <1>3, <1>4, <1>5, <1>6, <1>7, <1>8, <1>9, <1>10, <1>11,
     <1>12, <1>13, <1>14, <1>15, <1>16, <1>17, <1>18, <1>19, <1>20, <1>21,
     <1>22, <1>23, <1>24, <1>25, <1>26, <1>27, <1>28, <1>29, <1>30, <1>31,
     <1>32, <1>33, <1>34, <1>35, <1>36, <1>37, <1>38, <1>39, <1>40, <1>41,
     <1>42, <1>43, <1>44, <1>45, <1>46
  DEF Next, Host, Sweep, LuaChoice, LuaEnds, HandlerOver, Sched, Timer, Panic

\* A timeout is never forgotten.
LEMMA ExpiredStays == [Next]_vars => (expired' = expired \/ expired' = TRUE)
<1> SUFFICES ASSUME [Next]_vars PROVE expired' = expired \/ expired' = TRUE
  OBVIOUS
<1> USE DEF hostVars
<1>1. CASE Host \/ Sweep
  BY <1>1 DEF Host, Sweep, HostRun, CloseVM, SetContext, Cancel, ReapSkip,
              ReapBegin, ReapDone, SweepEnd
<1>2. ASSUME NEW v \in VM, LuaChoice(v) PROVE expired' = expired
  BY <1>2 DEF LuaChoice, Poll, DeclareTbc, LeaveScope, Exit, Yield, SelfClose,
              Create, CloseDead, CloseBegin, ResumeCheck
<1>3. ASSUME NEW v \in VM, NEW p \in Panic, HandlerOver(v, p) PROVE expired' = expired
  BY <1>3 DEF HandlerOver, NextHandler, OwnHandlersDone, PendingHandlersDone
<1>4. ASSUME NEW v \in VM, LuaEnds(v) PROVE expired' = expired
  BY <1>3, <1>4 DEF LuaEnds, MainReturns, BodyReturns, BodyFails
<1>5. ASSUME NEW v \in VM, Sched(v) PROVE expired' = expired
  <2>1. "exit" \in Panic
    BY DEF Panic
  <2> QED
    BY <1>3, <1>5, <2>1
    DEF Sched, CallReturns, ExitMain, ExitBody, ResumeSend, ResumeTooLate,
        RecvYield, RecvDone, RecvCtx, AwaitDone, AwaitYield, YieldSend, Wake,
        WakeClosed, JoinDead, CloseMark, JoinDone, StartCo, DoneClose
<1>6. ASSUME NEW v \in VM, Timer(v) PROVE expired' = expired \/ expired' = TRUE
  BY <1>6 DEF Timer, AwaitTimer, ReapGrace, ReapHard
<1>7. CASE UNCHANGED vars
  BY <1>7 DEF vars
<1> QED
  BY <1>1, <1>2, <1>4, <1>5, <1>6, <1>7 DEF Next

-----------------------------------------------------------------------------
(* What holds of every behaviour.                                          *)

\* Initially the host alone executes.
LEMMA InitTurn == Init => Baton /\ Shakes
<1> SUFFICES ASSUME Init PROVE Baton /\ Shakes
  OBVIOUS
<1>1. /\ \A c \in Co : /\ pc[c] = "fresh" /\ ~doneCh[c] /\ ~resumeChClosed[c]
                       /\ resumeCh[c] = 0 /\ yieldCh[c] = 0 /\ status[c] = "none"
      /\ pc[Main] = "host" /\ reg = {} /\ pending = {}
  BY CoroutineAssumption DEF Init, VM
<1>2. \A v \in VM : ~Waits(v) /\ pc[v] \in {"host", "fresh"} /\ (HasTurn(v) <=> v = Main)
  BY <1>1, CoroutineAssumption DEF Waits, HasTurn, Active, Woken, VM
<1>3. OneTurn /\ SomebodyTurns /\ OneWaiter /\ Waited
  BY <1>2 DEF OneTurn, SomebodyTurns, OneWaiter, Waited, VM
<1>4. Answered
  BY <1>1 DEF Answered, Engaged
<1>5. Channels /\ Suspended /\ Dead /\ Drained
  BY <1>1, <1>2 DEF Channels, Suspended, Dead, Drained
<1> QED
  BY <1>3, <1>4, <1>5 DEF Baton, Shakes

\* Until a wait for a coroutine that did not stop has been given up, the turn
\* and the handshakes of the family are in order.
TurnInv == ~expired => Baton /\ Shakes

\* The invariant of the turns (TurnInv, above) holds in every reachable state: resume,
\* yield, close and the waits of vm/coroutine.go pass the baton in order.
THEOREM TurnsInOrder == Spec => []TurnInv
<1>1. Init => TurnInv
  BY InitTurn DEF TurnInv
<1>2. LifeInv /\ TurnInv /\ [Next]_vars => TurnInv'
  <2> SUFFICES ASSUME LifeInv, TurnInv, [Next]_vars, ~expired'
               PROVE  (Baton /\ Shakes)'
    BY DEF TurnInv
  <2>1. ~expired
    BY ExpiredStays
  <2> QED
    BY <2>1, TurnStep DEF TurnInv
<1> QED
  BY <1>1, <1>2, LifeCycle, PTL DEF Spec

\* The VMs of a family, which share globals, tables and caches without a lock,
\* take turns: no two of them ever execute at once, unless a resume gave up on a
\* coroutine that did not stop within coroutineStopGrace.
THEOREM TurnsTaken == Spec => []TakeTurns
<1>1. TurnInv => TakeTurns
  BY DEF TurnInv, Baton, OneTurn, TakeTurns
<1> QED
  BY <1>1, TurnsInOrder, PTL

\* A coroutine that others see as suspended can be resumed or closed without
\* blocking and without closing resumeCh twice, and what it yields is received
\* by the one resume that woke it.
THEOREM HandshakesMet == Spec => []HandshakesMeet
<1>1. LifeInv /\ TurnInv => HandshakesMeet
  <2> SUFFICES ASSUME LifeInv, Baton, Shakes, NEW c \in Co
               PROVE  /\ status[c] = "suspended" /\ (\E v \in VM \ {c} : Active(v)) =>
                           /\ pc[c] = IF started[c] THEN "parked" ELSE "fresh"
                           /\ resumeCh[c] = 0 /\ yieldCh[c] = 0
                           /\ ~resumeChClosed[c] /\ ~doneCh[c]
                      /\ yieldCh[c] = 1 =>
                           \E v \in VM : /\ pc[v] \in {"waiting", "awaiting"} /\ on[v] = c
                                         /\ \A w \in VM : Waits(w) /\ on[w] = c => w = v
    BY DEF TurnInv, HandshakesMeet
  <2>1. ASSUME status[c] = "suspended", NEW v \in VM \ {c}, Active(v)
        PROVE  /\ pc[c] = IF started[c] THEN "parked" ELSE "fresh"
               /\ resumeCh[c] = 0 /\ yieldCh[c] = 0
               /\ ~resumeChClosed[c] /\ ~doneCh[c]
    BY <2>1, SuspendedIsIdle DEF Shakes
  <2>2. ASSUME yieldCh[c] = 1
        PROVE  \E v \in VM : /\ pc[v] \in {"waiting", "awaiting"} /\ on[v] = c
                             /\ \A w \in VM : Waits(w) /\ on[w] = c => w = v
    BY <2>2 DEF Baton, Answered, OneWaiter, Waits
  <2> QED
    BY <2>1, <2>2
<1> QED
  BY <1>1, LifeCycle, TurnsInOrder, PTL

\* A coroutine that was closed has run every one of its close handlers by the
\* time its closer sees it finished.
THEOREM ClosedIsDrained == Spec => []CloseDrains
<1>1. LifeInv /\ TurnInv => CloseDrains
  <2> SUFFICES ASSUME LifeInv, Channels, Drained, NEW c \in Co,
                      doneCh[c], resumeChClosed[c]
               PROVE  tbc[c] = 0 /\ todo[c] = 0
    BY DEF TurnInv, Shakes, CloseDrains
  <2>1. pc[c] = "gone"
    BY DEF LifeInv, Ends, Modes, Channels, VM
  <2> QED
    BY <2>1 DEF Drained
<1> QED
  BY <1>1, LifeCycle, TurnsInOrder, PTL

-----------------------------------------------------------------------------
(* What survives a timeout.  Once a wait has been given up two VMs may      *)
(* execute at once, and TurnInv is void.  Until VM.Close is called the VMs  *)
(* still never all wait for one another: whoever waits for a coroutine has  *)
(* an answer coming (Numbered), and the VMs that hang on one another do so  *)
(* in an order (Ranked), because a coroutine has to look suspended to be    *)
(* resumed or closed and one that hangs on another does not (Standing).     *)

\* VM.Close has not been called.
Open == pc[Main] \notin {"sweep", "reap", "reaphard", "closed"}

\* v cannot go on before the coroutine on[v] has, or will not once it acts.
Hangs(v) ==
  \/ pc[v] = "pending"
  \/ /\ pc[v] \in {"waiting", "awaiting", "joining", "joindead"}
     /\ ~doneCh[on[v]]
  \/ /\ pc[v] \in {"resuming", "closing"}
     /\ ~doneCh[on[v]] /\ ~resumeChClosed[on[v]]

\* Nobody hangs on itself, directly or through others.
Ranked == \E r \in [VM -> Nat] : \A v \in VM : Hangs(v) => r[on[v]] < r[v]

\* A coroutine that can be resumed or closed is where it waits for nobody; it may
\* have been woken under a cancelled context, and then only unwinds.
Standing ==
  \A c \in Co : status[c] = "suspended" /\ ~resumeChClosed[c] =>
    \/ pc[c] \in {"fresh", "yielding", "parked"}
    \/ pc[c] = "run" /\ mode[c] = "body" /\ ctxOf[c] \in cancelled

\* One that is registered as dead has left its body.
Buried == \A c \in reg : status[c] = "dead" => doneCh[c] \/ pc[c] = "dying"

\* What is waited for was started, and told to go on.
Joins ==
  \A v \in VM :
    /\ pc[v] = "joindead" => doneCh[on[v]] \/ pc[on[v]] = "dying"
    /\ pc[v] = "joining" => resumeChClosed[on[v]]
    /\ pc[v] \in {"waiting", "awaiting", "joining", "joindead"} => started[on[v]]

\* Every resume that waits for an answer of c has one coming: in yieldCh, from
\* the arguments in resumeCh, or from what c is executing.
Asking(c) == {v \in VM : pc[v] \in {"waiting", "awaiting"} /\ on[v] = c}
Busy(c) == IF pc[c] \in {"fresh", "start", "parked"} THEN 0 ELSE 1
Coming(c) == yieldCh[c] + resumeCh[c] + Busy(c)
Awaited(c) == ~doneCh[c] /\ ~resumeChClosed[c]

Numbered == \A c \in Co : Awaited(c) => Cardinality(Asking(c)) <= Coming(c)

Late == Ranked /\ Standing /\ Buried /\ Joins /\ Numbered

\* Those who ask are finitely many.
LEMMA AskingFinite ==
  ASSUME NEW c
  PROVE  IsFiniteSet(Asking(c)) /\ IsFiniteSet(Asking(c)')
<1>1. IsFiniteSet(VM)
  BY CoroutineAssumption, FS_AddElement DEF VM
<1>2. Asking(c) \subseteq VM /\ Asking(c)' \subseteq VM
  BY DEF Asking
<1> QED
  BY <1>1, <1>2, FS_Subset

\* The number of answers is one.
LEMMA ComingNat ==
  ASSUME NEW c \in Co
  PROVE  (TypeOK => Coming(c) \in Nat) /\ (TypeOK' => Coming(c)' \in Nat)
  BY DEF TypeOK, Coming, Busy

\* No answer is lost where nobody asks anew.
LEMMA NumberKept ==
  ASSUME TypeOK, TypeOK', NEW c \in Co, Awaited(c) => Cardinality(Asking(c)) <= Coming(c),
         Awaited(c)' => Awaited(c) /\ Asking(c)' \subseteq Asking(c) /\ Coming(c)' >= Coming(c)
  PROVE  Awaited(c)' => Cardinality(Asking(c)') <= Coming(c)'
<1> SUFFICES ASSUME Awaited(c)' PROVE Cardinality(Asking(c)') <= Coming(c)'
  OBVIOUS
<1>1. Cardinality(Asking(c)') <= Cardinality(Asking(c))
  BY AskingFinite, FS_Subset
<1>2. Cardinality(Asking(c)) \in Nat /\ Cardinality(Asking(c)') \in Nat
  BY AskingFinite, FS_CardinalityType
<1>3. Coming(c) \in Nat /\ Coming(c)' \in Nat
  BY ComingNat
<1> QED
  BY <1>1, <1>2, <1>3

\* One more asks, and one more answer will come.
LEMMA NumberUp ==
  ASSUME TypeOK, TypeOK', NEW c \in Co, Awaited(c) => Cardinality(Asking(c)) <= Coming(c),
         NEW v, Awaited(c)' => /\ Awaited(c) /\ Asking(c)' \subseteq Asking(c) \cup {v}
                               /\ Coming(c)' >= Coming(c) + 1
  PROVE  Awaited(c)' => Cardinality(Asking(c)') <= Coming(c)'
<1> SUFFICES ASSUME Awaited(c)' PROVE Cardinality(Asking(c)') <= Coming(c)'
  OBVIOUS
<1>1. /\ IsFiniteSet(Asking(c) \cup {v})
      /\ \/ Cardinality(Asking(c) \cup {v}) = Cardinality(Asking(c)) + 1
         \/ Cardinality(Asking(c) \cup {v}) = Cardinality(Asking(c))
  BY AskingFinite, FS_AddElement
<1>2. Cardinality(Asking(c)') <= Cardinality(Asking(c) \cup {v})
  BY <1>1, FS_Subset
<1>3. Cardinality(Asking(c)) \in Nat /\ Cardinality(Asking(c)') \in Nat
  BY AskingFinite, FS_CardinalityType
<1>4. Coming(c) \in Nat /\ Coming(c)' \in Nat
  BY ComingNat
<1> QED
  BY <1>1, <1>2, <1>3, <1>4

\* One of those who ask has its answer.
LEMMA NumberDown ==
  ASSUME TypeOK, TypeOK', NEW c \in Co, Awaited(c) => Cardinality(Asking(c)) <= Coming(c),
         NEW v, Awaited(c)' => /\ Awaited(c) /\ v \in Asking(c)
                               /\ Asking(c)' \subseteq Asking(c) \ {v}
                               /\ Coming(c)' + 1 >= Coming(c)
  PROVE  Awaited(c)' => Cardinality(Asking(c)') <= Coming(c)'
<1> SUFFICES ASSUME Awaited(c)' PROVE Cardinality(Asking(c)') <= Coming(c)'
  OBVIOUS
<1>1. /\ IsFiniteSet(Asking(c) \ {v})
      /\ Cardinality(Asking(c) \ {v}) = Cardinality(Asking(c)) - 1
  BY AskingFinite, FS_RemoveElement
<1>2. Cardinality(Asking(c)') <= Cardinality(Asking(c) \ {v})
  BY <1>1, FS_Subset
<1>3. Cardinality(Asking(c)) \in Nat /\ Cardinality(Asking(c)') \in Nat
  BY AskingFinite, FS_CardinalityType
<1>4. Coming(c) \in Nat /\ Coming(c)' \in Nat
  BY ComingNat
<1> QED
  BY <1>1, <1>2, <1>3, <1>4

\* The order stays where nobody begins to hang on another VM.
LEMMA RankKept ==
  ASSUME Ranked, \A u \in VM : Hangs(u)' => Hangs(u) /\ on'[u] = on[u]
  PROVE  Ranked'
<1>1. PICK r \in [VM -> Nat] : \A v \in VM : Hangs(v) => r[on[v]] < r[v]
  BY DEF Ranked
<1>2. \A v \in VM : Hangs(v)' => r[on'[v]] < r[v]
  BY <1>1
<1> QED
  BY <1>2 DEF Ranked

\* And where one begins to hang on a VM that hangs on none.
LEMMA RankGrown ==
  ASSUME LifeInv', Ranked, NEW v \in VM, NEW c \in Co, c # v, ~Hangs(c)', on'[v] = c,
         \A u \in VM \ {v} : Hangs(u)' => Hangs(u) /\ on'[u] = on[u]
  PROVE  Ranked'
<1>1. PICK r \in [VM -> Nat] : \A u \in VM : Hangs(u) => r[on[u]] < r[u]
  BY DEF Ranked
<1> DEFINE s == [u \in VM |-> IF u = c THEN 0 ELSE r[u] + 1]
<1>2. s \in [VM -> Nat]
  OBVIOUS
<1>3. ASSUME NEW u \in VM, Hangs(u)' PROVE s[on'[u]] < s[u]
  <2>1. u # c /\ s[u] = r[u] + 1 /\ r[u] \in Nat
    BY <1>3
  <2>2. on'[u] \in VM
    BY <1>3 DEF LifeInv, OwnInv, InCall, Hangs, VM
  <2>3. CASE on'[u] = c
    BY <2>1, <2>2, <2>3
  <2>4. CASE on'[u] # c
    <3>1. r[on'[u]] < r[u]
      BY <1>1, <1>3, <2>4
    <3> QED
      BY <2>1, <2>2, <2>4, <3>1
  <2> QED
    BY <2>3, <2>4
<1> QED
  BY <1>2, <1>3 DEF Ranked

\* The step of a VM that leaves the channels alone loses no answer, unless it
\* begins to wait or stops.
LEMMA NumberCarried ==
  ASSUME TypeOK, TypeOK', Numbered, NEW v \in VM, OnlyMove({v}), UNCHANGED chanVars,
         pc'[v] \notin {"fresh", "start", "parked"},
         pc'[v] \in {"waiting", "awaiting"} => pc[v] \in {"waiting", "awaiting"} /\ on'[v] = on[v]
  PROVE  Numbered'
<1>1. ASSUME NEW c \in Co, Awaited(c)'
      PROVE  Awaited(c) /\ Asking(c)' \subseteq Asking(c) /\ Coming(c)' >= Coming(c)
  <2>1. Awaited(c) /\ yieldCh'[c] = yieldCh[c] /\ resumeCh'[c] = resumeCh[c]
    BY <1>1 DEF Awaited, chanVars
  <2>2. Busy(c)' >= Busy(c)
    BY DEF Busy, OnlyMove, VM
  <2>3. yieldCh[c] \in Nat /\ resumeCh[c] \in Nat /\ Busy(c) \in Nat /\ Busy(c)' \in Nat
    BY DEF TypeOK, Busy
  <2>4. Coming(c)' >= Coming(c)
    BY <2>1, <2>2, <2>3 DEF Coming
  <2>5. Asking(c)' \subseteq Asking(c)
    BY DEF Asking, OnlyMove
  <2> QED
    BY <2>1, <2>4, <2>5
<1> QED
  BY <1>1, NumberKept DEF Numbered

\* And where it does not begin to hang on another VM the order stays, too.
LEMMA Strolls ==
  ASSUME TypeOK, TypeOK', Ranked, Numbered, NEW v \in VM, OnlyMove({v}), UNCHANGED chanVars,
         pc'[v] \notin {"fresh", "start", "parked"},
         pc'[v] \in {"waiting", "awaiting"} => pc[v] \in {"waiting", "awaiting"} /\ on'[v] = on[v],
         Hangs(v)' => Hangs(v) /\ on'[v] = on[v]
  PROVE  Ranked' /\ Numbered'
<1>1. \A u \in VM : Hangs(u)' => Hangs(u) /\ on'[u] = on[u]
  BY DEF Hangs, OnlyMove, chanVars
<1> QED
  BY <1>1, RankKept, NumberCarried

\* VM.Close is not undone.
LEMMA ClosedStays == LifeInv /\ [Next]_vars /\ Open' => Open
<1> SUFFICES ASSUME LifeInv, [Next]_vars, ~Open PROVE ~Open'
  OBVIOUS
<1> USE CoroutineAssumption
    DEF Open, LifeInv, OwnInv, InCall, TypeOK, VM, Goto, regVars, chanVars, envVars,
        callVars, luaVars, hostVars
<1>1. CASE Host \/ Sweep
  BY <1>1 DEF Host, Sweep, HostRun, CloseVM, SetContext, Cancel, ReapSkip,
              ReapBegin, ReapDone, SweepEnd
<1>2. ASSUME NEW v \in VM, LuaChoice(v) PROVE ~Open'
  <2>1. CASE Poll(v) \/ DeclareTbc(v) \/ LeaveScope(v) \/ Exit(v) \/ Yield(v) \/ SelfClose(v)
    BY <2>1 DEF Poll, DeclareTbc, LeaveScope, Exit, Yield, SelfClose
  <2>2. ASSUME NEW c \in Co, NEW w \in BOOLEAN,
               Create(v, c) \/ CloseDead(v, c) \/ CloseBegin(v, c) \/ ResumeCheck(v, c, w)
        PROVE  ~Open'
    BY <2>2 DEF Create, CloseDead, CloseBegin, ResumeCheck
  <2> HIDE DEF Open
  <2> QED
    BY <1>2, <2>1, <2>2 DEF LuaChoice
<1>3. ASSUME NEW v \in VM, NEW p \in Panic, HandlerOver(v, p) PROVE ~Open'
  <2>1. CASE NextHandler(v, p) \/ OwnHandlersDone(v, p)
    BY <1>3, <2>1 DEF NextHandler, OwnHandlersDone, HandlerEnd
  <2>2. CASE PendingHandlersDone(v, p)
    BY <2>2 DEF PendingHandlersDone, HandlerEnd
  <2> QED
    BY <1>3, <2>1, <2>2 DEF HandlerOver
<1>4. ASSUME NEW v \in VM, LuaEnds(v) PROVE ~Open'
  BY <1>3, <1>4 DEF LuaEnds, MainReturns, BodyReturns, BodyFails
<1>5. ASSUME NEW v \in VM, RecvDone(v) \/ JoinDead(v) PROVE ~Open'
  <2>1. on[v] \in Co /\ pc[v] \in {"waiting", "joindead"}
    BY <1>5 DEF RecvDone, JoinDead
  <2>2. \/ \E l \in {"run", "exiting"} : pc' = [pc EXCEPT ![v] = l]
        \/ pc' = [pc EXCEPT ![v] = "pending", ![on[v]] = "run"]
    BY <1>5 DEF RecvDone, JoinDead, ClosePendingTBC
  <2> QED
    BY <2>1, <2>2
<1>6. ASSUME NEW v \in VM, ResumeSend(v) PROVE ~Open'
  BY <1>6 DEF ResumeSend
<1>7. ASSUME NEW v \in VM, Sched(v) PROVE ~Open'
  <2>1. "exit" \in Panic
    BY DEF Panic
  <2>2. CASE CallReturns(v) \/ (v = Main /\ ExitMain) \/ ExitBody(v) \/ ResumeTooLate(v)
    <3>1. pc[v] \in {"call", "exiting", "resuming"} /\ pc[Main] \notin {"call", "exiting", "resuming"}
      BY <2>2 DEF CallReturns, ExitMain, ExitBody, ResumeTooLate
    <3>2. v # Main
      BY <3>1
    <3>3. \E l : pc' = [pc EXCEPT ![v] = l]
      BY <2>2, <3>2 DEF CallReturns, ExitBody, ResumeTooLate
    <3> QED
      BY <3>2, <3>3
  <2>3. CASE RecvYield(v) \/ RecvCtx(v) \/ AwaitDone(v) \/ AwaitYield(v)
    BY <2>3 DEF RecvYield, RecvCtx, AwaitDone, AwaitYield
  <2>4. CASE YieldSend(v) \/ Wake(v) \/ WakeClosed(v)
    BY <2>4 DEF YieldSend, Wake, WakeClosed
  <2>5. CASE CloseMark(v) \/ JoinDone(v)
    BY <2>5 DEF CloseMark, JoinDone
  <2>6. CASE v # Main /\ (StartCo(v) \/ DoneClose(v))
    BY <2>6 DEF StartCo, DoneClose
  <2> HIDE DEF Open
  <2> QED
    BY <1>3, <1>5, <1>6, <1>7, <2>1, <2>2, <2>3, <2>4, <2>5, <2>6 DEF Sched
<1>8. ASSUME NEW v \in VM, Timer(v) PROVE ~Open'
  BY <1>8 DEF Timer, AwaitTimer, ReapGrace, ReapHard
<1>9. CASE UNCHANGED vars
  BY <1>9 DEF vars
<1> QED
  BY <1>1, <1>2, <1>4, <1>7, <1>8, <1>9 DEF Next

\* Who is about to act stays so, or has gone where nothing is to come of it.
LEMMA BusyKept ==
  ASSUME NEW c, pc'[c] = pc[c] \/ pc'[c] \notin {"fresh", "start", "parked"}
  PROVE  Busy(c)' >= Busy(c)
  BY DEF Busy

\* To hang on a coroutine that looks suspended keeps the order.
LEMMA HangsOnSuspended ==
  ASSUME LifeInv, LifeInv', Ranked, Standing, NEW v \in VM, NEW c \in Co,
         pc[v] = "call", status[c] = "suspended",
         pc' = [pc EXCEPT ![v] = "closing"] \/ pc' = [pc EXCEPT ![v] = "resuming"],
         on' = [on EXCEPT ![v] = c], UNCHANGED chanVars
  PROVE  Ranked'
<1>0. /\ pc \in [VM -> Label] /\ on \in [VM -> Co \cup {None}]
      /\ UNCHANGED <<doneCh, resumeChClosed>> /\ c \in VM
  BY DEF LifeInv, OwnInv, TypeOK, chanVars, VM
<1>1. \A u \in VM \ {v} : Hangs(u)' => Hangs(u) /\ on'[u] = on[u]
  BY <1>0 DEF Hangs
<1>2. CASE resumeChClosed[c]
  <2>1. ~Hangs(v)'
    BY <1>0, <1>2 DEF Hangs
  <2> QED
    BY <1>1, <2>1, RankKept
<1>3. CASE ~resumeChClosed[c]
  <2>1. pc[c] \in {"fresh", "yielding", "parked", "run"}
    BY <1>3 DEF Standing
  <2>2. c # v /\ ~Hangs(c)' /\ on'[v] = c
    BY <1>0, <2>1 DEF Hangs
  <2> QED
    BY <1>1, <2>2, RankGrown
<1> QED
  BY <1>2, <1>3

\* So does to hang on one that is dead.
LEMMA HangsOnDead ==
  ASSUME LifeInv, LifeInv', Ranked, NEW v \in VM, NEW c \in Co, c # v,
         pc[v] = "call", doneCh[c] \/ pc[c] = "dying",
         pc' = [pc EXCEPT ![v] = "joindead"], on' = [on EXCEPT ![v] = c],
         UNCHANGED chanVars
  PROVE  Ranked'
<1>0. /\ pc \in [VM -> Label] /\ on \in [VM -> Co \cup {None}]
      /\ UNCHANGED <<doneCh, resumeChClosed>> /\ c \in VM
  BY DEF LifeInv, OwnInv, TypeOK, chanVars, VM
<1>1. \A u \in VM \ {v} : Hangs(u)' => Hangs(u) /\ on'[u] = on[u]
  BY <1>0 DEF Hangs
<1>2. CASE doneCh[c]
  <2>1. ~Hangs(v)'
    BY <1>0, <1>2 DEF Hangs
  <2> QED
    BY <1>1, <2>1, RankKept
<1>3. CASE pc[c] = "dying"
  <2>1. ~Hangs(c)' /\ on'[v] = c
    BY <1>0, <1>3 DEF Hangs
  <2> QED
    BY <1>1, <2>1, RankGrown
<1> QED
  BY <1>2, <1>3

\* A resume is sent: an answer will come.
LEMMA LateSend ==
  ASSUME LifeInv, LifeInv', Late, NEW v \in VM, NEW c \in Co, c = on[v],
         pc[v] = "resuming", ~resumeChClosed[c], resumeCh[c] = 0,
         started' = [started EXCEPT ![c] = TRUE],
         status' = [Mark(v, "normal") EXCEPT ![c] = "running"],
         resumeCh' = [resumeCh EXCEPT ![c] = 1],
         pc' = [pc EXCEPT ![v] = "waiting", ![c] = IF started[c] THEN @ ELSE "start"],
         UNCHANGED <<reg, on, resumeChClosed, yieldCh, doneCh, mode, ctxOf, cancelled>>
  PROVE  Late'
<1>0. /\ OwnInv /\ TypeOK /\ TypeOK' /\ Main \notin Co /\ c \in VM /\ reg \subseteq Co
      /\ Ranked /\ Standing /\ Buried /\ Joins /\ Numbered
  BY CoroutineAssumption DEF LifeInv, OwnInv, VM, Late, TypeOK
<1>1. ~started[c] => pc[c] = "fresh"
  BY <1>0 DEF OwnInv
<1>2. /\ \A u \in VM : u # v /\ u # c => pc'[u] = pc[u]
      /\ v # c => pc'[v] = "waiting"
      /\ started[c] => v = c \/ pc'[c] = pc[c]
      /\ ~started[c] => v # c /\ pc'[c] = "start"
      /\ pc'[v] = "waiting"
  BY <1>0, <1>1 DEF TypeOK
<1>3. Ranked'
  <2>1. \A u \in VM : Hangs(u)' => Hangs(u) /\ on'[u] = on[u]
    BY <1>0, <1>1, <1>2 DEF Hangs
  <2> QED
    BY <1>0, <2>1, RankKept
<1>4. ASSUME NEW d \in Co, d # c, Awaited(d)'
      PROVE  Awaited(d) /\ Asking(d)' \subseteq Asking(d) /\ Coming(d)' >= Coming(d)
  <2>1. Awaited(d) /\ yieldCh'[d] = yieldCh[d] /\ resumeCh'[d] = resumeCh[d]
    BY <1>0, <1>4 DEF Awaited, TypeOK
  <2>2. Busy(d)' >= Busy(d)
    BY <1>2, <1>4, BusyKept DEF VM
  <2>3. yieldCh[d] \in Nat /\ resumeCh[d] \in Nat /\ Busy(d) \in Nat /\ Busy(d)' \in Nat
    BY <1>0 DEF TypeOK, Busy
  <2>4. Coming(d)' >= Coming(d)
    BY <2>1, <2>2, <2>3 DEF Coming
  <2>5. Asking(d)' \subseteq Asking(d)
    BY <1>1, <1>2, <1>4 DEF Asking
  <2> QED
    BY <2>1, <2>4, <2>5
<1>5. ASSUME Awaited(c)'
      PROVE  Awaited(c) /\ Asking(c)' \subseteq Asking(c) \cup {v} /\ Coming(c)' >= Coming(c) + 1
  <2>1. Awaited(c) /\ yieldCh'[c] = yieldCh[c] /\ resumeCh'[c] = 1
    BY <1>0, <1>5 DEF Awaited, TypeOK
  <2>2. Busy(c)' >= Busy(c)
    BY <1>1, <1>2 DEF Busy
  <2>3. yieldCh[c] \in Nat /\ resumeCh[c] = 0 /\ Busy(c) \in Nat /\ Busy(c)' \in Nat
    BY <1>0 DEF TypeOK, Busy
  <2>4. Coming(c)' >= Coming(c) + 1
    BY <2>1, <2>2, <2>3 DEF Coming
  <2>5. \A u \in VM : u \in Asking(c)' => u \in Asking(c) \cup {v}
    BY <1>1, <1>2 DEF Asking
  <2>6. Asking(c)' \subseteq VM
    BY DEF Asking
  <2> QED
    BY <2>1, <2>4, <2>5, <2>6
<1>6. Numbered'
  <2> SUFFICES ASSUME NEW d \in Co PROVE Awaited(d)' => Cardinality(Asking(d)') <= Coming(d)'
    BY DEF Numbered
  <2>1. CASE d = c
    BY <1>0, <1>5, <2>1, NumberUp DEF Numbered
  <2>2. CASE d # c
    BY <1>0, <1>4, <2>2, NumberKept DEF Numbered
  <2> QED
    BY <2>1, <2>2
<1>7. \A d \in Co : status'[d] = status[d] \/ (d = c /\ status'[d] = "running")
                    \/ (d = v /\ status'[d] = "normal")
  BY <1>0 DEF Mark, TypeOK
<1>8. Standing'
  <2> SUFFICES ASSUME NEW d \in Co, status'[d] = "suspended", ~resumeChClosed'[d]
               PROVE  \/ pc'[d] \in {"fresh", "yielding", "parked"}
                      \/ pc'[d] = "run" /\ mode'[d] = "body" /\ ctxOf'[d] \in cancelled'
    BY DEF Standing
  <2>1. d # c /\ status[d] = "suspended" /\ ~resumeChClosed[d]
    BY <1>0, <1>7 DEF TypeOK
  <2>2. d # v
    BY <1>0, <2>1 DEF Standing
  <2>3. pc'[d] = pc[d]
    BY <1>2, <2>1, <2>2 DEF VM
  <2> QED
    BY <1>0, <2>1, <2>3 DEF Standing
<1>9. Buried'
  <2>1. \A d \in reg : pc[d] = "dying" => pc'[d] = "dying"
    <3> SUFFICES ASSUME NEW d \in reg, pc[d] = "dying" PROVE pc'[d] = pc[d]
      OBVIOUS
    <3>1. d \in VM /\ d # v /\ (d = c => started[c])
      BY <1>0, <1>1 DEF VM
    <3>2. CASE d = c
      BY <1>2, <3>1, <3>2
    <3>3. CASE d # c
      BY <1>2, <3>1, <3>3
    <3> QED
      BY <3>2, <3>3
  <2> QED
    BY <1>0, <1>7, <2>1 DEF Buried
<1>10. Joins'
  <2>1. \A d \in Co : /\ pc[d] = "dying" => pc'[d] = "dying"
                      /\ started[d] => started'[d]
    <3>1. \A d \in Co : pc[d] = "dying" => pc'[d] = pc[d]
      <4> SUFFICES ASSUME NEW d \in Co, pc[d] = "dying" PROVE pc'[d] = pc[d]
        OBVIOUS
      <4>1. d \in VM /\ d # v /\ (d = c => started[c])
        BY <1>1 DEF VM
      <4>2. CASE d = c
        BY <1>2, <4>1, <4>2
      <4>3. CASE d # c
        BY <1>2, <4>1, <4>3
      <4> QED
        BY <4>2, <4>3
    <3> QED
      BY <1>0, <3>1 DEF TypeOK
  <2>2. \A u \in VM : pc'[u] \in {"waiting", "awaiting", "joining", "joindead"} =>
                        pc'[u] = pc[u] \/ (u = v /\ pc'[u] = "waiting")
    <3> SUFFICES ASSUME NEW u \in VM, pc'[u] \in {"waiting", "awaiting", "joining", "joindead"}
                 PROVE  pc'[u] = pc[u] \/ (u = v /\ pc'[u] = "waiting")
      OBVIOUS
    <3>1. CASE u = v
      BY <1>2, <3>1
    <3>2. CASE u = c /\ u # v
      BY <1>2, <3>2
    <3>3. CASE u # c /\ u # v
      BY <1>2, <3>3
    <3> QED
      BY <3>1, <3>2, <3>3
  <2>4. \A u \in VM : pc[u] \in {"waiting", "awaiting", "joining", "joindead"} => on[u] \in Co
    BY <1>0 DEF OwnInv, InCall
  <2>5. started'[c]
    BY <1>0 DEF TypeOK
  <2> SUFFICES ASSUME NEW u \in VM
               PROVE  /\ pc'[u] = "joindead" => doneCh'[on'[u]] \/ pc'[on'[u]] = "dying"
                      /\ pc'[u] = "joining" => resumeChClosed'[on'[u]]
                      /\ pc'[u] \in {"waiting", "awaiting", "joining", "joindead"} => started'[on'[u]]
    BY DEF Joins
  <2>6. CASE u = v
    BY <1>0, <1>2, <2>5, <2>6
  <2>7. CASE u # v /\ pc'[u] \in {"waiting", "awaiting", "joining", "joindead"}
    <3>1. pc'[u] = pc[u] /\ on[u] \in Co
      BY <2>2, <2>4, <2>7
    <3> QED
      BY <1>0, <2>1, <2>7, <3>1 DEF Joins
  <2> QED
    BY <2>6, <2>7
<1> QED
  BY <1>3, <1>6, <1>8, <1>9, <1>10 DEF Late

\* One of those who ask takes what has been yielded.
LEMMA LateTaken ==
  ASSUME TypeOK, TypeOK', Ranked, Numbered, NEW v \in VM, on[v] \in Co,
         pc[v] \in {"waiting", "awaiting"}, yieldCh[on[v]] = 1,
         yieldCh' = [yieldCh EXCEPT ![on[v]] = 0],
         pc' = [pc EXCEPT ![v] = "run"], on' = [on EXCEPT ![v] = None],
         UNCHANGED <<resumeCh, resumeChClosed, doneCh>>
  PROVE  Ranked' /\ Numbered'
<1> PICK c \in Co : c = on[v]
  OBVIOUS
<1>1. pc'[v] = "run" /\ \A u \in VM : u # v => pc'[u] = pc[u] /\ on'[u] = on[u]
  BY DEF TypeOK
<1>2. Ranked'
  BY <1>1, RankKept DEF Hangs
<1>3. ASSUME NEW d \in Co, d # c, Awaited(d)'
      PROVE  Awaited(d) /\ Asking(d)' \subseteq Asking(d) /\ Coming(d)' >= Coming(d)
  <2>1. Awaited(d) /\ yieldCh'[d] = yieldCh[d] /\ resumeCh'[d] = resumeCh[d]
    BY <1>3 DEF Awaited, TypeOK
  <2>2. Busy(d)' >= Busy(d)
    BY <1>1, BusyKept DEF VM
  <2>3. yieldCh[d] \in Nat /\ resumeCh[d] \in Nat /\ Busy(d) \in Nat /\ Busy(d)' \in Nat
    BY DEF TypeOK, Busy
  <2>4. Coming(d)' >= Coming(d)
    BY <2>1, <2>2, <2>3 DEF Coming
  <2>5. Asking(d)' \subseteq Asking(d)
    BY <1>1 DEF Asking
  <2> QED
    BY <2>1, <2>4, <2>5
<1>4. ASSUME Awaited(c)'
      PROVE  /\ Awaited(c) /\ v \in Asking(c) /\ Asking(c)' \subseteq Asking(c) \ {v}
             /\ Coming(c)' + 1 >= Coming(c)
  <2>1. Awaited(c) /\ yieldCh'[c] = 0 /\ resumeCh'[c] = resumeCh[c] /\ yieldCh[c] = 1
    BY <1>4 DEF Awaited, TypeOK
  <2>2. Busy(c)' >= Busy(c)
    BY <1>1, BusyKept DEF VM
  <2>3. resumeCh[c] \in Nat /\ Busy(c) \in Nat /\ Busy(c)' \in Nat
    BY DEF TypeOK, Busy
  <2>4. Coming(c)' + 1 >= Coming(c)
    BY <2>1, <2>2, <2>3 DEF Coming
  <2>5. v \in Asking(c) /\ Asking(c)' \subseteq Asking(c) \ {v}
    BY <1>1 DEF Asking
  <2> QED
    BY <2>1, <2>4, <2>5
<1>5. Numbered'
  <2> SUFFICES ASSUME NEW d \in Co PROVE Awaited(d)' => Cardinality(Asking(d)') <= Coming(d)'
    BY DEF Numbered
  <2>1. CASE d = c
    BY <1>4, <2>1, NumberDown DEF Numbered
  <2>2. CASE d # c
    BY <1>3, <2>2, NumberKept DEF Numbered
  <2> QED
    BY <2>1, <2>2
<1> QED
  BY <1>2, <1>5

\* A VM takes over a dead one.
LEMMA LateTakesOver ==
  ASSUME LifeInv, LifeInv', Late, NEW v \in VM, on[v] \in Co,
         pc[v] \in {"waiting", "joindead"}, doneCh[on[v]], ClosePendingTBC(v, on[v]),
         status' \in {status, Mark(v, "running")},
         UNCHANGED <<reg, started, chanVars, ctxOf, cancelled>>
  PROVE  Late'
<1> PICK c \in Co : c = on[v]
  OBVIOUS
<1>0. /\ OwnInv /\ TypeOK /\ TypeOK' /\ Main \notin Co /\ c \in VM /\ reg \subseteq Co
      /\ Ranked /\ Standing /\ Buried /\ Joins /\ Numbered
  BY CoroutineAssumption DEF LifeInv, OwnInv, VM, Late, TypeOK
<1>1. \A d \in Co : status'[d] = status[d] \/ (d = v /\ status'[d] = "running")
  <2>1. status' = status \/ status' = [status EXCEPT ![v] = "running"]
    BY DEF Mark
  <2> QED
    BY <1>0, <2>1 DEF TypeOK
<1>2. CASE tbc[c] = 0 \/ CloseChainFull
  <2>1. /\ pc' = [pc EXCEPT ![v] = "run"] /\ on' = [on EXCEPT ![v] = None]
        /\ UNCHANGED mode
    BY <1>0, <1>2 DEF ClosePendingTBC, Goto, About, TypeOK
  <2>2. pc'[v] = "run" /\ \A u \in VM \ {v} : pc'[u] = pc[u] /\ on'[u] = on[u]
    BY <1>0, <2>1 DEF TypeOK
  <2>3. Ranked' /\ Numbered'
    BY <1>0, <2>2, Strolls DEF Hangs, OnlyMove
  <2>4. Standing' /\ Buried' /\ Joins'
    BY <1>0, <1>1, <2>1, <2>2 DEF Standing, Buried, Joins, VM, chanVars, OwnInv, InCall
  <2> QED
    BY <2>3, <2>4 DEF Late
<1>3. CASE tbc[c] > 0 /\ ~CloseChainFull
  <2>0. ~(tbc[c] = 0 \/ CloseChainFull)
    BY <1>0, <1>3 DEF TypeOK
  <2>1. /\ pc' = [pc EXCEPT ![v] = "pending", ![c] = "run"] /\ on' = on
        /\ mode' = [mode EXCEPT ![c] = "pending"]
    BY <2>0 DEF ClosePendingTBC, TakeHandlers, callVars
  <2>2. mode[c] = "body" /\ pc[c] = "gone" /\ c # v
    BY <1>0, <1>3 DEF LifeInv, OwnInv, TypeOK, VM, Modes, Ends
  <2>3. /\ pc'[v] = "pending" /\ pc'[c] = "run" /\ on'[v] = c
        /\ \A u \in VM \ {v, c} : pc'[u] = pc[u]
    BY <1>0, <2>1, <2>2 DEF TypeOK
  <2>4. Ranked'
    <3>1. ~Hangs(c)' /\ \A u \in VM \ {v} : Hangs(u)' => Hangs(u) /\ on'[u] = on[u]
      BY <2>1, <2>3 DEF Hangs, chanVars
    <3> QED
      BY <1>0, <2>2, <2>3, <3>1, RankGrown
  <2>5. ASSUME NEW d \in Co, Awaited(d)'
        PROVE  Awaited(d) /\ Asking(d)' \subseteq Asking(d) /\ Coming(d)' >= Coming(d)
    <3>1. Awaited(d) /\ yieldCh'[d] = yieldCh[d] /\ resumeCh'[d] = resumeCh[d] /\ d # c
      BY <2>5 DEF Awaited, chanVars
    <3>2. Busy(d)' >= Busy(d)
      BY <2>3, <3>1, BusyKept DEF VM
    <3>3. yieldCh[d] \in Nat /\ resumeCh[d] \in Nat /\ Busy(d) \in Nat /\ Busy(d)' \in Nat
      BY <1>0 DEF TypeOK, Busy
    <3>4. Asking(d)' \subseteq Asking(d)
      BY <2>1, <2>3 DEF Asking
    <3> QED
      BY <3>1, <3>2, <3>3, <3>4 DEF Coming
  <2>6. Numbered'
    BY <1>0, <2>5, NumberKept DEF Numbered
  <2>7. Standing'
    <3> SUFFICES ASSUME NEW d \in Co, status'[d] = "suspended", ~resumeChClosed'[d]
                 PROVE  \/ pc'[d] \in {"fresh", "yielding", "parked"}
                        \/ pc'[d] = "run" /\ mode'[d] = "body" /\ ctxOf'[d] \in cancelled'
      BY DEF Standing
    <3>1. status[d] = "suspended" /\ ~resumeChClosed[d] /\ d \in VM
      BY <1>1 DEF chanVars, VM
    <3>2. d # v /\ d # c
      BY <1>0, <2>2, <3>1 DEF Standing
    <3>3. pc'[d] = pc[d] /\ mode'[d] = mode[d]
      BY <1>0, <2>1, <2>3, <3>1, <3>2 DEF TypeOK
    <3> QED
      BY <1>0, <3>1, <3>3 DEF Standing
  <2>8. \A d \in Co : pc[d] = "dying" => pc'[d] = "dying"
    BY <1>0, <2>2, <2>3 DEF VM
  <2>9. Buried'
    BY <1>0, <1>1, <2>8 DEF Buried, chanVars
  <2>10. Joins'
    <3>1. \A u \in VM : pc'[u] \in {"waiting", "awaiting", "joining", "joindead"} =>
                          pc'[u] = pc[u] /\ on'[u] = on[u] /\ on[u] \in Co
      BY <1>0, <2>1, <2>3 DEF OwnInv, InCall
    <3> QED
      BY <1>0, <2>8, <3>1 DEF Joins, chanVars
  <2> QED
    BY <2>4, <2>6, <2>7, <2>9, <2>10 DEF Late
<1> QED
  BY <1>2, <1>3 DEF ClosePendingTBC

\* coroutine.close closes resumeCh, or finds that it need not or cannot.
LEMMA LateMark ==
  ASSUME LifeInv, LifeInv', Late, NEW v \in VM, CloseMark(v)
  PROVE  Late'
<1> PICK c \in Co : c = on[v]
  BY DEF CloseMark, LifeInv, OwnInv, InCall
<1>0. /\ OwnInv /\ TypeOK /\ TypeOK' /\ Main \notin Co /\ c \in VM /\ reg \subseteq Co
      /\ Ranked /\ Standing /\ Buried /\ Joins /\ Numbered
  BY CoroutineAssumption DEF LifeInv, OwnInv, VM, Late, TypeOK
<1>1. /\ pc[v] = "closing"
      /\ UNCHANGED <<started, resumeCh, yieldCh, doneCh, mode, ctxOf, cancelled>>
      /\ resumeChClosed' \in {resumeChClosed, [resumeChClosed EXCEPT ![c] = TRUE]}
      /\ \/ /\ pc' = [pc EXCEPT ![v] = "joining"] /\ on' = on /\ reg' = reg
            /\ status' = [status EXCEPT ![c] = "running"]
            /\ resumeChClosed' = [resumeChClosed EXCEPT ![c] = TRUE]
            /\ started[c] /\ ~resumeChClosed[c]
         \/ /\ pc' = [pc EXCEPT ![v] = "run"] /\ on' = [on EXCEPT ![v] = None]
            /\ \/ status' = [status EXCEPT ![c] = "dead"] /\ reg' = reg \ {c}
               \/ status' = [status EXCEPT ![c] = "running"] /\ reg' = reg
  BY DEF CloseMark, Goto, About, luaVars, envVars, callVars
<1>2. \A u \in VM \ {v} : pc'[u] = pc[u] /\ on'[u] = on[u]
  BY <1>0, <1>1 DEF TypeOK
<1>3. pc'[v] \in {"joining", "run"} /\ (pc'[v] = "joining" => on'[v] = c /\ started[c] /\ ~resumeChClosed[c] /\ resumeChClosed'[c])
  BY <1>0, <1>1 DEF TypeOK
<1>4. \A d \in Co : resumeChClosed[d] => resumeChClosed'[d]
  BY <1>0, <1>1 DEF TypeOK
<1>5. Ranked'
  <2>1. \A u \in VM : Hangs(u)' => Hangs(u) /\ on'[u] = on[u]
    <3> SUFFICES ASSUME NEW u \in VM, Hangs(u)' PROVE Hangs(u) /\ on'[u] = on[u]
      OBVIOUS
    <3>1. CASE u = v
      BY <1>1, <1>3, <3>1 DEF Hangs
    <3>2. CASE u # v
      <4>1. on[u] \in Co
        BY <1>0, <1>2, <3>2 DEF Hangs, OwnInv, InCall
      <4> QED
        BY <1>1, <1>2, <1>4, <3>2, <4>1 DEF Hangs
    <3> QED
      BY <3>1, <3>2
  <2> QED
    BY <1>0, <2>1, RankKept
<1>6. ASSUME NEW d \in Co, Awaited(d)'
      PROVE  Awaited(d) /\ Asking(d)' \subseteq Asking(d) /\ Coming(d)' >= Coming(d)
  <2>1. Awaited(d) /\ yieldCh'[d] = yieldCh[d] /\ resumeCh'[d] = resumeCh[d]
    BY <1>1, <1>4, <1>6 DEF Awaited
  <2>2. Busy(d)' >= Busy(d)
    BY <1>2, <1>3, BusyKept DEF VM
  <2>3. yieldCh[d] \in Nat /\ resumeCh[d] \in Nat /\ Busy(d) \in Nat /\ Busy(d)' \in Nat
    BY <1>0 DEF TypeOK, Busy
  <2>4. Asking(d)' \subseteq Asking(d)
    BY <1>2, <1>3 DEF Asking
  <2> QED
    BY <2>1, <2>2, <2>3, <2>4 DEF Coming
<1>7. Numbered'
  BY <1>0, <1>6, NumberKept DEF Numbered
<1>8. \A d \in Co : d # c => status'[d] = status[d]
  BY <1>0, <1>1 DEF TypeOK
<1>9. status'[c] \in {"dead", "running"} /\ (status'[c] = "dead" => c \notin reg') /\ reg' \subseteq reg
  BY <1>0, <1>1 DEF TypeOK
<1>10. Standing'
  BY <1>0, <1>1, <1>2, <1>3, <1>4, <1>8, <1>9 DEF Standing, VM
<1>11. Buried'
  BY <1>0, <1>1, <1>2, <1>8, <1>9 DEF Buried, VM
<1>12. Joins'
  <2>1. \A u \in VM : pc'[u] \in {"waiting", "awaiting", "joining", "joindead"} /\ u # v => on[u] \in Co
    BY <1>0, <1>2 DEF OwnInv, InCall
  <2> QED
    BY <1>0, <1>1, <1>2, <1>3, <1>4, <2>1 DEF Joins, VM
<1> QED
  BY <1>5, <1>7, <1>10, <1>11, <1>12 DEF Late

\* Until VM.Close is called every step keeps the order of those who wait and the
\* answers they wait for.
LEMMA LateStep ==
  ASSUME LifeInv, LifeInv', Open, Open', Late, [Next]_vars
  PROVE  Late'
<1> USE CoroutineAssumption
    DEF LifeInv, OwnInv, InCall, TypeOK, VM, regVars, chanVars, envVars,
        callVars, luaVars, hostVars, Goto, About, Mark, Places, Modes, Ends,
        Ids, OnlyMove
<1>0. Ranked /\ Standing /\ Buried /\ Joins /\ Numbered
  BY DEF Late
<1>1. CASE HostRun
  <2>1. Ranked' /\ Numbered'
    BY <1>0, <1>1, Strolls DEF HostRun, Hangs
  <2>2. Standing' /\ Buried' /\ Joins'
    BY <1>0, <1>1 DEF HostRun, Standing, Buried, Joins
  <2> QED
    BY <2>1, <2>2 DEF Late
<1>3. ASSUME NEW x \in Ctx, SetContext(x) PROVE Late'
  <2>1. Ranked' /\ Numbered'
    BY <1>0, <1>3, Strolls DEF SetContext, Hangs
  <2>2. Standing' /\ Buried' /\ Joins'
    BY <1>0, <1>3 DEF SetContext, Standing, Buried, Joins
  <2> QED
    BY <2>1, <2>2 DEF Late
<1>9. ASSUME NEW v \in VM, Poll(v) PROVE Late'
  <2>1. Ranked' /\ Numbered'
    BY <1>0, <1>9, Strolls DEF Poll, Interrupted, Hangs
  <2>2. Standing' /\ Buried' /\ Joins'
    BY <1>0, <1>9 DEF Poll, Interrupted, Standing, Buried, Joins
  <2> QED
    BY <2>1, <2>2 DEF Late
<1>10. ASSUME NEW v \in VM, DeclareTbc(v) PROVE Late'
  <2>1. Ranked' /\ Numbered'
    BY <1>0, <1>10, Strolls DEF DeclareTbc, Hangs
  <2>2. Standing' /\ Buried' /\ Joins'
    BY <1>0, <1>10 DEF DeclareTbc, Standing, Buried, Joins
  <2> QED
    BY <2>1, <2>2 DEF Late
<1>11. ASSUME NEW v \in VM, LeaveScope(v) PROVE Late'
  <2>1. Ranked' /\ Numbered'
    BY <1>0, <1>11, Strolls DEF LeaveScope, Hangs
  <2>2. Standing' /\ Buried' /\ Joins'
    BY <1>0, <1>11 DEF LeaveScope, Standing, Buried, Joins
  <2> QED
    BY <2>1, <2>2 DEF Late
<1>12. ASSUME NEW v \in VM, Exit(v) PROVE Late'
  <2>1. Ranked' /\ Numbered'
    BY <1>0, <1>12, Strolls DEF Exit, Hangs
  <2>2. Standing' /\ Buried' /\ Joins'
    BY <1>0, <1>12 DEF Exit, Standing, Buried, Joins
  <2> QED
    BY <2>1, <2>2 DEF Late
<1>13. ASSUME NEW v \in VM, Yield(v) PROVE Late'
  <2>1. Ranked' /\ Numbered'
    BY <1>0, <1>13, Strolls DEF Yield, Hangs
  <2>2. Standing' /\ Buried' /\ Joins'
    BY <1>0, <1>13 DEF Yield, Standing, Buried, Joins
  <2> QED
    BY <2>1, <2>2 DEF Late
<1>14. ASSUME NEW v \in VM, SelfClose(v) PROVE Late'
  <2>1. /\ v \in Co /\ pc[v] = "call"
        /\ \/ pc' = [pc EXCEPT ![v] = "dying"] /\ status' = [status EXCEPT ![v] = "dead"]
              /\ UNCHANGED mode
           \/ pc' = [pc EXCEPT ![v] = "run"] /\ mode' = [mode EXCEPT ![v] = "self"]
              /\ UNCHANGED status
        /\ UNCHANGED <<reg, started, on, chanVars, ctxOf, cancelled>>
    BY <1>14 DEF SelfClose, TakeHandlers, Goto, callVars, envVars, luaVars
  <2>2. OnlyMove({v}) /\ pc'[v] \in {"dying", "run"} /\ ~Hangs(v)'
    BY <1>0, <2>1 DEF OnlyMove, Hangs
  <2>3. Ranked' /\ Numbered'
    BY <1>0, <2>1, <2>2, Strolls
  <2>4. Standing' /\ Buried' /\ Joins'
    BY <1>0, <2>1 DEF Standing, Buried, Joins
  <2> QED
    BY <2>3, <2>4 DEF Late
<1>15. ASSUME NEW v \in VM, NEW c \in Co, Create(v, c) PROVE Late'
  <2>1. Ranked' /\ Numbered'
    BY <1>0, <1>15, Strolls DEF Create, Hangs
  <2>2. Standing' /\ Buried' /\ Joins'
    BY <1>0, <1>15 DEF Create, Standing, Buried, Joins
  <2> QED
    BY <2>1, <2>2 DEF Late
<1>19. CASE MainReturns
  <2>1. Ranked' /\ Numbered'
    BY <1>0, <1>19, Strolls DEF MainReturns, Hangs
  <2>2. Standing' /\ Buried' /\ Joins'
    BY <1>0, <1>19 DEF MainReturns, Standing, Buried, Joins
  <2> QED
    BY <2>1, <2>2 DEF Late
<1>20. ASSUME NEW v \in VM, BodyReturns(v) PROVE Late'
  <2>1. Ranked' /\ Numbered'
    BY <1>0, <1>20, Strolls DEF BodyReturns, Hangs
  <2>2. Standing' /\ Buried' /\ Joins'
    BY <1>0, <1>20 DEF BodyReturns, Standing, Buried, Joins
  <2> QED
    BY <2>1, <2>2 DEF Late
<1>21. ASSUME NEW v \in VM, BodyFails(v) PROVE Late'
  <2>1. Ranked' /\ Numbered'
    BY <1>0, <1>21, Strolls DEF BodyFails, Hangs
  <2>2. Standing' /\ Buried' /\ Joins'
    BY <1>0, <1>21 DEF BodyFails, Standing, Buried, Joins
  <2> QED
    BY <2>1, <2>2 DEF Late
<1>22. ASSUME NEW v \in VM, NEW p \in Panic, NextHandler(v, p) PROVE Late'
  <2>1. Ranked' /\ Numbered'
    BY <1>0, <1>22, Strolls DEF NextHandler, HandlerEnd, LastPanic, Hangs
  <2>2. Standing' /\ Buried' /\ Joins'
    BY <1>0, <1>22 DEF NextHandler, HandlerEnd, LastPanic, Standing, Buried, Joins
  <2> QED
    BY <2>1, <2>2 DEF Late
<1>23. ASSUME NEW v \in VM, NEW p \in Panic, OwnHandlersDone(v, p) PROVE Late'
  <2>1. Ranked' /\ Numbered'
    BY <1>0, <1>23, Strolls DEF OwnHandlersDone, HandlerEnd, LastPanic, Hangs
  <2>2. Standing' /\ Buried' /\ Joins'
    BY <1>0, <1>23 DEF OwnHandlersDone, HandlerEnd, LastPanic, Standing, Buried, Joins
  <2> QED
    BY <2>1, <2>2 DEF Late
<1>25. ASSUME NEW v \in VM, CallReturns(v) PROVE Late'
  <2>1. Ranked' /\ Numbered'
    BY <1>0, <1>25, Strolls DEF CallReturns, Hangs
  <2>2. Standing' /\ Buried' /\ Joins'
    BY <1>0, <1>25 DEF CallReturns, Standing, Buried, Joins
  <2> QED
    BY <2>1, <2>2 DEF Late
<1>26. CASE ExitMain
  <2>1. Ranked' /\ Numbered'
    BY <1>0, <1>26, Strolls DEF ExitMain, Hangs
  <2>2. Standing' /\ Buried' /\ Joins'
    BY <1>0, <1>26 DEF ExitMain, Standing, Buried, Joins
  <2> QED
    BY <2>1, <2>2 DEF Late
<1>27. ASSUME NEW v \in VM, ExitBody(v) PROVE Late'
  <2>1. Ranked' /\ Numbered'
    BY <1>0, <1>27, Strolls DEF ExitBody, Hangs
  <2>2. Standing' /\ Buried' /\ Joins'
    BY <1>0, <1>27 DEF ExitBody, Standing, Buried, Joins
  <2> QED
    BY <2>1, <2>2 DEF Late
<1>29. ASSUME NEW v \in VM, ResumeTooLate(v) PROVE Late'
  <2>1. Ranked' /\ Numbered'
    BY <1>0, <1>29, Strolls DEF ResumeTooLate, Hangs
  <2>2. Standing' /\ Buried' /\ Joins'
    BY <1>0, <1>29 DEF ResumeTooLate, Standing, Buried, Joins
  <2> QED
    BY <2>1, <2>2 DEF Late
<1>32. ASSUME NEW v \in VM, RecvCtx(v) PROVE Late'
  <2>1. Ranked' /\ Numbered'
    BY <1>0, <1>32, Strolls DEF RecvCtx, Hangs
  <2>2. Standing' /\ Buried' /\ Joins'
    BY <1>0, <1>32 DEF RecvCtx, Standing, Buried, Joins
  <2> QED
    BY <2>1, <2>2 DEF Late
<1>33. ASSUME NEW v \in VM, AwaitDone(v) PROVE Late'
  <2>1. Ranked' /\ Numbered'
    BY <1>0, <1>33, Strolls DEF AwaitDone, Hangs
  <2>2. Standing' /\ Buried' /\ Joins'
    BY <1>0, <1>33 DEF AwaitDone, Standing, Buried, Joins
  <2> QED
    BY <2>1, <2>2 DEF Late
<1>40. ASSUME NEW v \in VM, JoinDone(v) PROVE Late'
  <2>1. Ranked' /\ Numbered'
    BY <1>0, <1>40, Strolls DEF JoinDone, Hangs
  <2>2. Standing' /\ Buried' /\ Joins'
    BY <1>0, <1>40 DEF JoinDone, Standing, Buried, Joins
  <2> QED
    BY <2>1, <2>2 DEF Late
<1>43. ASSUME NEW v \in VM, AwaitTimer(v) PROVE Late'
  <2>1. Ranked' /\ Numbered'
    BY <1>0, <1>43, Strolls DEF AwaitTimer, Hangs
  <2>2. Standing' /\ Buried' /\ Joins'
    BY <1>0, <1>43 DEF AwaitTimer, Standing, Buried, Joins
  <2> QED
    BY <2>1, <2>2 DEF Late
<1>2. CASE CloseVM
  BY <1>2 DEF CloseVM, Open
<1>4. ASSUME NEW x \in Ctx, Cancel(x) PROVE Late'
  <2>1. Ranked' /\ Numbered'
    <3>1. UNCHANGED <<pc, on, chanVars>>
      BY <1>4 DEF Cancel
    <3> QED
      BY <1>0, <3>1, RankKept, NumberKept DEF Hangs, Numbered, Awaited, Asking, Coming, Busy
  <2>2. Standing' /\ Buried' /\ Joins'
    BY <1>0, <1>4 DEF Cancel, Standing, Buried, Joins
  <2> QED
    BY <2>1, <2>2 DEF Late
<1>5. ASSUME NEW c \in Co, ReapSkip(c) PROVE Late'
  BY <1>5 DEF ReapSkip, Open
<1>6. ASSUME NEW c \in Co, ReapBegin(c) PROVE Late'
  BY <1>6 DEF ReapBegin, Open
<1>7. CASE ReapDone
  BY <1>7 DEF ReapDone, Open
<1>8. CASE SweepEnd
  BY <1>8 DEF SweepEnd, Open
<1>16. ASSUME NEW v \in VM, NEW c \in Co, CloseDead(v, c) PROVE Late'
  <2>1. /\ pc[v] = "call" /\ c # v /\ c \in reg /\ status[c] = "dead" /\ reg' = reg \ {c}
        /\ pc' = [pc EXCEPT ![v] = "joindead"] /\ on' = [on EXCEPT ![v] = c]
        /\ UNCHANGED <<status, started, chanVars, mode, ctxOf, cancelled>>
    BY <1>16 DEF CloseDead
  <2>2. doneCh[c] \/ pc[c] = "dying"
    BY <1>0, <2>1 DEF Buried
  <2>3. Ranked'
    BY <1>0, <2>1, <2>2, HangsOnDead
  <2>4. Numbered'
    BY <1>0, <2>1, NumberCarried
  <2>5. Standing' /\ Buried'
    BY <1>0, <2>1 DEF Standing, Buried
  <2>6. Joins'
    BY <1>0, <2>1, <2>2 DEF Joins
  <2> QED
    BY <2>3, <2>4, <2>5, <2>6 DEF Late
<1>17. ASSUME NEW v \in VM, NEW c \in Co, CloseBegin(v, c) PROVE Late'
  <2>1. /\ pc[v] = "call" /\ c # v /\ status[c] = "suspended"
        /\ pc' = [pc EXCEPT ![v] = "closing"] /\ on' = [on EXCEPT ![v] = c]
        /\ UNCHANGED <<reg, status, started, chanVars, mode, ctxOf, cancelled>>
    BY <1>17 DEF CloseBegin
  <2>2. Ranked'
    BY <1>0, <2>1, HangsOnSuspended
  <2>3. Numbered'
    BY <1>0, <2>1, NumberCarried
  <2>4. Standing' /\ Buried' /\ Joins'
    BY <1>0, <2>1 DEF Standing, Buried, Joins
  <2> QED
    BY <2>2, <2>3, <2>4 DEF Late
<1>18. ASSUME NEW v \in VM, NEW c \in Co, NEW w \in BOOLEAN, ResumeCheck(v, c, w) PROVE Late'
  <2>1. /\ pc[v] = "call" /\ status[c] = "suspended"
        /\ pc' = [pc EXCEPT ![v] = "resuming"] /\ on' = [on EXCEPT ![v] = c]
        /\ UNCHANGED <<reg, status, started, chanVars, mode, ctxOf, cancelled>>
    BY <1>18 DEF ResumeCheck
  <2>2. Ranked'
    BY <1>0, <2>1, HangsOnSuspended
  <2>3. Numbered'
    BY <1>0, <2>1, NumberCarried
  <2>4. Standing' /\ Buried' /\ Joins'
    BY <1>0, <2>1 DEF Standing, Buried, Joins
  <2> QED
    BY <2>2, <2>3, <2>4 DEF Late
<1>24. ASSUME NEW v \in VM, NEW p \in Panic, PendingHandlersDone(v, p) PROVE Late'
  <2>1. /\ v \in Co /\ mode[v] = "pending" /\ doneCh[v] /\ pc[v] \in {"run", "call", "exiting"}
        /\ mode' = [mode EXCEPT ![v] = "body"]
        /\ UNCHANGED <<status, reg, started, chanVars, ctxOf, cancelled>>
    BY <1>24 DEF PendingHandlersDone, HandlerEnd
  <2>2. PICK u \in VM :
          /\ pc[u] = "pending" /\ on[u] = v /\ on' = [on EXCEPT ![u] = None]
          /\ pc' = [pc EXCEPT ![u] = "run", ![v] = "gone"]
    BY <1>24 DEF PendingHandlersDone
  <2>3. u # v
    BY <2>1, <2>2
  <2>4. Ranked'
    <3>1. \A w \in VM : Hangs(w)' => Hangs(w) /\ on'[w] = on[w]
      BY <1>0, <2>1, <2>2, <2>3 DEF Hangs
    <3> QED
      BY <1>0, <3>1, RankKept
  <2>5. ASSUME NEW c \in Co, Awaited(c)'
        PROVE  Awaited(c) /\ Asking(c)' \subseteq Asking(c) /\ Coming(c)' >= Coming(c)
    <3>1. Awaited(c) /\ c # v /\ yieldCh'[c] = yieldCh[c] /\ resumeCh'[c] = resumeCh[c]
      BY <1>0, <2>1, <2>2, <2>3, <2>5 DEF Awaited
    <3>2. Busy(c)' >= Busy(c)
      BY <1>0, <2>1, <2>2, <2>3, <3>1, BusyKept
    <3>3. Asking(c)' \subseteq Asking(c)
      BY <1>0, <2>1, <2>2, <2>3 DEF Asking
    <3>4. /\ yieldCh[c] \in Nat /\ resumeCh[c] \in Nat
          /\ Busy(c) \in {0, 1} /\ Busy(c)' \in {0, 1}
      BY <1>0 DEF Busy
    <3> QED
      BY <3>1, <3>2, <3>3, <3>4 DEF Coming
  <2>6. Numbered'
    BY <1>0, <2>5, NumberKept DEF Numbered
  <2>7. Standing' /\ Buried' /\ Joins'
    BY <1>0, <2>1, <2>2, <2>3 DEF Standing, Buried, Joins
  <2> QED
    BY <2>4, <2>6, <2>7 DEF Late
<1>28. ASSUME NEW v \in VM, ResumeSend(v) PROVE Late'
  <2>1. PICK c \in Co : c = on[v]
    BY <1>28 DEF ResumeSend
  <2>2. /\ pc[v] = "resuming" /\ ~resumeChClosed[c] /\ resumeCh[c] = 0
        /\ started' = [started EXCEPT ![c] = TRUE]
        /\ status' = [Mark(v, "normal") EXCEPT ![c] = "running"]
        /\ resumeCh' = [resumeCh EXCEPT ![c] = 1]
        /\ pc' = [pc EXCEPT ![v] = "waiting", ![c] = IF started[c] THEN @ ELSE "start"]
        /\ UNCHANGED <<reg, on, resumeChClosed, yieldCh, doneCh, mode, ctxOf, cancelled>>
    BY <1>28, <2>1 DEF ResumeSend
  <2> QED
    BY <1>0, <2>1, <2>2, LateSend
<1>30. ASSUME NEW v \in VM, RecvYield(v) PROVE Late'
  <2>1. /\ pc[v] = "waiting" /\ yieldCh[on[v]] = 1 /\ on[v] \in Co
        /\ yieldCh' = [yieldCh EXCEPT ![on[v]] = 0] /\ status' = Mark(v, "running")
        /\ pc' = [pc EXCEPT ![v] = "run"] /\ on' = [on EXCEPT ![v] = None]
        /\ UNCHANGED <<reg, started, resumeCh, resumeChClosed, doneCh, mode, ctxOf, cancelled>>
    BY <1>30 DEF RecvYield
  <2>2. Ranked' /\ Numbered'
    BY <1>0, <2>1, LateTaken
  <2>3. Standing' /\ Buried' /\ Joins'
    BY <1>0, <2>1 DEF Standing, Buried, Joins
  <2> QED
    BY <2>2, <2>3 DEF Late
<1>31. ASSUME NEW v \in VM, RecvDone(v) PROVE Late'
  <2>1. /\ on[v] \in Co /\ pc[v] = "waiting" /\ doneCh[on[v]] /\ status' = Mark(v, "running")
        /\ UNCHANGED <<reg, started, chanVars, ctxOf, cancelled>>
    BY <1>31 DEF RecvDone
  <2>2. CASE err[on[v]] = "error" /\ wrap[v]
    BY <1>0, <1>31, <2>1, <2>2, LateTakesOver DEF RecvDone
  <2>3. CASE ~(err[on[v]] = "error" /\ wrap[v])
    <3>1. /\ \/ pc' = [pc EXCEPT ![v] = "run"]
             \/ pc' = [pc EXCEPT ![v] = "exiting"]
          /\ on' = [on EXCEPT ![v] = None] /\ UNCHANGED mode
      BY <1>31, <2>3 DEF RecvDone
    <3>2. OnlyMove({v}) /\ pc'[v] \in {"run", "exiting"} /\ ~Hangs(v)'
      BY <1>0, <2>1, <3>1 DEF OnlyMove, Hangs
    <3>3. Ranked' /\ Numbered'
      BY <1>0, <2>1, <3>2, Strolls
    <3>4. Standing' /\ Buried' /\ Joins'
      BY <1>0, <2>1, <3>1 DEF Standing, Buried, Joins
    <3> QED
      BY <3>3, <3>4 DEF Late
  <2> QED
    BY <2>2, <2>3
<1>34. ASSUME NEW v \in VM, AwaitYield(v) PROVE Late'
  <2>1. /\ pc[v] = "awaiting" /\ yieldCh[on[v]] = 1 /\ on[v] \in Co
        /\ yieldCh' = [yieldCh EXCEPT ![on[v]] = 0]
        /\ pc' = [pc EXCEPT ![v] = "run"] /\ on' = [on EXCEPT ![v] = None]
        /\ UNCHANGED <<reg, started, status, resumeCh, resumeChClosed, doneCh, mode, ctxOf, cancelled>>
    BY <1>34 DEF AwaitYield
  <2>2. Ranked' /\ Numbered'
    BY <1>0, <2>1, LateTaken
  <2>3. Standing' /\ Buried' /\ Joins'
    BY <1>0, <2>1 DEF Standing, Buried, Joins
  <2> QED
    BY <2>2, <2>3 DEF Late
<1>35. ASSUME NEW v \in VM, YieldSend(v) PROVE Late'
  <2>1. /\ pc[v] = "yielding" /\ yieldCh[v] = 0 /\ v \in Co
        /\ yieldCh' = [yieldCh EXCEPT ![v] = 1] /\ pc' = [pc EXCEPT ![v] = "parked"]
        /\ UNCHANGED <<reg, started, status, on, resumeCh, resumeChClosed, doneCh, mode, ctxOf, cancelled>>
    BY <1>35 DEF YieldSend
  <2>2. Ranked'
    BY <1>0, <2>1, RankKept DEF Hangs
  <2>3. ASSUME NEW c \in Co, Awaited(c)'
        PROVE  Awaited(c) /\ Asking(c)' \subseteq Asking(c) /\ Coming(c)' >= Coming(c)
    <3>1. Awaited(c)
      BY <1>0, <2>1, <2>3 DEF Awaited
    <3>2. Asking(c)' \subseteq Asking(c)
      BY <1>0, <2>1 DEF Asking
    <3>3. /\ yieldCh[c] \in Nat /\ resumeCh[c] \in Nat
          /\ Busy(c) \in {0, 1} /\ Busy(c)' \in {0, 1}
      BY <1>0 DEF Busy
    <3>4. CASE c = v
      <4>1. yieldCh[c] = 0 /\ yieldCh'[c] = 1 /\ resumeCh'[c] = resumeCh[c]
        BY <1>0, <2>1, <3>4 DEF Busy
      <4> QED
        BY <3>1, <3>2, <3>3, <4>1 DEF Coming
    <3>5. CASE c # v
      <4>1. yieldCh'[c] = yieldCh[c] /\ resumeCh'[c] = resumeCh[c]
        BY <1>0, <2>1, <3>5
      <4>2. Busy(c)' >= Busy(c)
        BY <1>0, <2>1, <3>5, BusyKept
      <4> QED
        BY <3>1, <3>2, <3>3, <4>1, <4>2 DEF Coming
    <3> QED
      BY <3>4, <3>5
  <2>4. Numbered'
    BY <1>0, <2>3, NumberKept DEF Numbered
  <2>5. Standing' /\ Buried' /\ Joins'
    BY <1>0, <2>1 DEF Standing, Buried, Joins
  <2> QED
    BY <2>2, <2>4, <2>5 DEF Late
<1>36. ASSUME NEW v \in VM, Wake(v) PROVE Late'
  <2>1. /\ pc[v] = "parked" /\ resumeCh[v] = 1 /\ v \in Co /\ mode[v] = "body"
        /\ resumeCh' = [resumeCh EXCEPT ![v] = 0] /\ pc' = [pc EXCEPT ![v] = "run"]
        /\ status' = IF ctxOf[v] \in cancelled THEN status ELSE Mark(v, "running")
        /\ UNCHANGED <<reg, started, on, yieldCh, resumeChClosed, doneCh, mode, ctxOf, cancelled>>
    BY <1>36 DEF Wake
  <2>2. Ranked'
    BY <1>0, <2>1, RankKept DEF Hangs
  <2>3. ASSUME NEW c \in Co, Awaited(c)'
        PROVE  Awaited(c) /\ Asking(c)' \subseteq Asking(c) /\ Coming(c)' >= Coming(c)
    <3>1. Awaited(c)
      BY <1>0, <2>1, <2>3 DEF Awaited
    <3>2. Asking(c)' \subseteq Asking(c)
      BY <1>0, <2>1 DEF Asking
    <3>3. /\ yieldCh[c] \in Nat /\ resumeCh[c] \in Nat
          /\ Busy(c) \in {0, 1} /\ Busy(c)' \in {0, 1}
      BY <1>0 DEF Busy
    <3>4. CASE c = v
      <4>1. resumeCh[c] = 1 /\ resumeCh'[c] = 0 /\ yieldCh'[c] = yieldCh[c] /\ Busy(c) = 0 /\ Busy(c)' = 1
        BY <1>0, <2>1, <3>4 DEF Busy
      <4> QED
        BY <3>1, <3>2, <3>3, <4>1 DEF Coming
    <3>5. CASE c # v
      <4>1. yieldCh'[c] = yieldCh[c] /\ resumeCh'[c] = resumeCh[c]
        BY <1>0, <2>1, <3>5
      <4>2. Busy(c)' >= Busy(c)
        BY <1>0, <2>1, <3>5, BusyKept
      <4> QED
        BY <3>1, <3>2, <3>3, <4>1, <4>2 DEF Coming
    <3> QED
      BY <3>4, <3>5
  <2>4. Numbered'
    BY <1>0, <2>3, NumberKept DEF Numbered
  <2>5. status[v] = "suspended" /\ ~resumeChClosed[v] => v \in reg
    BY <2>1 DEF Known, Open
  <2>6. Standing' /\ Buried' /\ Joins'
    BY <1>0, <2>1, <2>5 DEF Standing, Buried, Joins
  <2> QED
    BY <2>2, <2>4, <2>6 DEF Late
<1>37. ASSUME NEW v \in VM, WakeClosed(v) PROVE Late'
  <2>1. /\ pc[v] = "parked" /\ resumeChClosed[v] /\ v \in Co
        /\ pc' \in {[pc EXCEPT ![v] = "run"], [pc EXCEPT ![v] = "dying"]}
        /\ mode' \in {mode, [mode EXCEPT ![v] = "killed"]}
        /\ UNCHANGED <<reg, started, status, on, chanVars, ctxOf, cancelled>>
    BY <1>37 DEF WakeClosed, TakeHandlers
  <2>2. OnlyMove({v}) /\ pc'[v] \in {"run", "dying"} /\ ~Hangs(v)'
    BY <1>0, <2>1 DEF OnlyMove, Hangs
  <2>3. Ranked' /\ Numbered'
    BY <1>0, <2>1, <2>2, Strolls
  <2>4. Standing' /\ Buried' /\ Joins'
    BY <1>0, <2>1 DEF Standing, Buried, Joins
  <2> QED
    BY <2>3, <2>4 DEF Late
<1>38. ASSUME NEW v \in VM, JoinDead(v) PROVE Late'
  <2>1. /\ on[v] \in Co /\ pc[v] = "joindead" /\ (started[on[v]] /\ ~reapAbandoned[on[v]] => doneCh[on[v]])
        /\ UNCHANGED <<reg, status, started, chanVars, ctxOf, cancelled>>
    BY <1>38 DEF JoinDead
  <2>2. CASE reapAbandoned[on[v]]
    <3>1. /\ pc' = [pc EXCEPT ![v] = "run"] /\ on' = [on EXCEPT ![v] = None]
          /\ UNCHANGED mode
      BY <1>38, <2>2 DEF JoinDead
    <3>2. OnlyMove({v}) /\ pc'[v] \in {"run", "exiting"} /\ ~Hangs(v)'
      BY <1>0, <2>1, <3>1 DEF OnlyMove, Hangs
    <3>3. Ranked' /\ Numbered'
      BY <1>0, <2>1, <3>2, Strolls
    <3>4. Standing' /\ Buried' /\ Joins'
      BY <1>0, <2>1, <3>1 DEF Standing, Buried, Joins
    <3> QED
      BY <3>3, <3>4 DEF Late
  <2>3. CASE ~reapAbandoned[on[v]]
    <3>1. started[on[v]]
      BY <1>0, <2>1 DEF Joins
    <3> QED
      BY <1>0, <1>38, <2>1, <2>3, <3>1, LateTakesOver DEF JoinDead
  <2> QED
    BY <2>2, <2>3
<1>39. ASSUME NEW v \in VM, CloseMark(v) PROVE Late'
  BY <1>0, <1>39, LateMark
<1>41. ASSUME NEW v \in VM, StartCo(v) PROVE Late'
  <2>1. /\ pc[v] = "start" /\ resumeCh[v] = 1 /\ v \in Co
        /\ resumeCh' = [resumeCh EXCEPT ![v] = 0] /\ pc' = [pc EXCEPT ![v] = "run"]
        /\ status' = [status EXCEPT ![v] = "running"]
        /\ UNCHANGED <<reg, started, on, yieldCh, resumeChClosed, doneCh, mode, ctxOf, cancelled>>
    BY <1>41 DEF StartCo
  <2>2. Ranked'
    BY <1>0, <2>1, RankKept DEF Hangs
  <2>3. ASSUME NEW c \in Co, Awaited(c)'
        PROVE  Awaited(c) /\ Asking(c)' \subseteq Asking(c) /\ Coming(c)' >= Coming(c)
    <3>1. Awaited(c)
      BY <1>0, <2>1, <2>3 DEF Awaited
    <3>2. Asking(c)' \subseteq Asking(c)
      BY <1>0, <2>1 DEF Asking
    <3>3. /\ yieldCh[c] \in Nat /\ resumeCh[c] \in Nat
          /\ Busy(c) \in {0, 1} /\ Busy(c)' \in {0, 1}
      BY <1>0 DEF Busy
    <3>4. CASE c = v
      <4>1. resumeCh[c] = 1 /\ resumeCh'[c] = 0 /\ yieldCh'[c] = yieldCh[c] /\ Busy(c) = 0 /\ Busy(c)' = 1
        BY <1>0, <2>1, <3>4 DEF Busy
      <4> QED
        BY <3>1, <3>2, <3>3, <4>1 DEF Coming
    <3>5. CASE c # v
      <4>1. yieldCh'[c] = yieldCh[c] /\ resumeCh'[c] = resumeCh[c]
        BY <1>0, <2>1, <3>5
      <4>2. Busy(c)' >= Busy(c)
        BY <1>0, <2>1, <3>5, BusyKept
      <4> QED
        BY <3>1, <3>2, <3>3, <4>1, <4>2 DEF Coming
    <3> QED
      BY <3>4, <3>5
  <2>4. Numbered'
    BY <1>0, <2>3, NumberKept DEF Numbered
  <2>5. Standing' /\ Buried' /\ Joins'
    BY <1>0, <2>1 DEF Standing, Buried, Joins
  <2> QED
    BY <2>2, <2>4, <2>5 DEF Late
<1>42. ASSUME NEW v \in VM, DoneClose(v) PROVE Late'
  <2>1. /\ pc[v] = "dying" /\ v \in Co
        /\ doneCh' = [doneCh EXCEPT ![v] = TRUE] /\ pc' = [pc EXCEPT ![v] = "gone"]
        /\ UNCHANGED <<reg, started, status, on, resumeCh, yieldCh, resumeChClosed, mode, ctxOf, cancelled>>
    BY <1>42 DEF DoneClose
  <2>2. Ranked'
    BY <1>0, <2>1, RankKept DEF Hangs
  <2>3. ASSUME NEW c \in Co, Awaited(c)'
        PROVE  Awaited(c) /\ Asking(c)' \subseteq Asking(c) /\ Coming(c)' >= Coming(c)
    <3>1. Awaited(c) /\ c # v /\ yieldCh'[c] = yieldCh[c] /\ resumeCh'[c] = resumeCh[c]
      BY <1>0, <2>1, <2>3 DEF Awaited
    <3>2. Busy(c)' >= Busy(c)
      BY <1>0, <2>1, <3>1, BusyKept
    <3>3. Asking(c)' \subseteq Asking(c)
      BY <1>0, <2>1 DEF Asking
    <3>4. /\ yieldCh[c] \in Nat /\ resumeCh[c] \in Nat
          /\ Busy(c) \in {0, 1} /\ Busy(c)' \in {0, 1}
      BY <1>0 DEF Busy
    <3> QED
      BY <3>1, <3>2, <3>3, <3>4 DEF Coming
  <2>4. Numbered'
    BY <1>0, <2>3, NumberKept DEF Numbered
  <2>5. Standing' /\ Buried' /\ Joins'
    BY <1>0, <2>1 DEF Standing, Buried, Joins
  <2> QED
    BY <2>2, <2>4, <2>5 DEF Late
<1>44. CASE ReapGrace
  BY <1>44 DEF ReapGrace, Open
<1>45. CASE ReapHard
  BY <1>45 DEF ReapHard, Open
<1>46. CASE UNCHANGED vars
  <2>1. UNCHANGED <<pc, on, chanVars, reg, started, status, mode, ctxOf, cancelled>>
    BY <1>46 DEF vars
  <2>2. Ranked' /\ Numbered'
    BY <1>0, <2>1, RankKept, NumberKept DEF Hangs, Numbered, Awaited, Asking, Coming, Busy
  <2>3. Standing' /\ Buried' /\ Joins'
    BY <1>0, <2>1 DEF Standing, Buried, Joins
  <2> QED
    BY <2>2, <2>3 DEF Late
<1> HIDE DEF LifeInv, OwnInv, InCall, TypeOK, VM, regVars, chanVars, envVars,
        callVars, luaVars, hostVars, Goto, About, Mark, Places, Modes, Ends,
        Ids, OnlyMove
<1> QED
  BY <1>1, <1>2, <1>3, <1>4, <1>5, <1>6, <1>7, <1>8, <1>9, <1>10, <1>11,
     <1>12, <1>13, <1>14, <1>15, <1>16, <1>17, <1>18, <1>19, <1>20, <1>21, <1>22,
     <1>23, <1>24, <1>25, <1>26, <1>27, <1>28, <1>29, <1>30, <1>31, <1>32, <1>33,
     <1>34, <1>35, <1>36, <1>37, <1>38, <1>39, <1>40, <1>41, <1>42, <1>43, <1>44,
     <1>45, <1>46
  DEF Next, Host, Sweep, LuaChoice, LuaEnds, HandlerOver, Sched, Timer, Panic

\* Initially nobody waits for anybody.
LEMMA InitLate == Init => Late
<1> SUFFICES ASSUME Init PROVE Late
  OBVIOUS
<1>1. \A v \in VM : pc[v] \in {"host", "fresh"}
  BY DEF Init, VM
<1>2. \A v \in VM : ~Hangs(v)
  BY <1>1 DEF Hangs
<1>3. Ranked
  <2>1. [v \in VM |-> 0] \in [VM -> Nat]
    OBVIOUS
  <2> QED
    BY <1>2, <2>1 DEF Ranked
<1>4. Standing /\ Buried /\ Joins
  BY <1>1 DEF Standing, Buried, Joins, Init
<1>5. Numbered
  <2> SUFFICES ASSUME NEW c \in Co PROVE Cardinality(Asking(c)) <= Coming(c)
    BY DEF Numbered
  <2>1. Asking(c) = {}
    BY <1>1 DEF Asking
  <2>2. Coming(c) \in Nat
    BY InitType, ComingNat
  <2> QED
    BY <2>1, <2>2, FS_EmptySet
<1> QED
  BY <1>3, <1>4, <1>5 DEF Late

\* Who waits for somebody who cannot go on waits for one who hangs on another.
LEMMA HangsOnWaiting ==
  ASSUME LifeInv, Late, Open, \A w \in VM : ~HasTurn(w),
         NEW v \in VM, Waits(v) \/ pc[v] = "pending"
  PROVE  Hangs(v) /\ on[v] \in Co /\ (Waits(on[v]) \/ pc[on[v]] = "pending")
<1>1. pc[v] \in {"waiting", "awaiting", "joining", "joindead", "pending"}
  BY CoroutineAssumption DEF Waits, Open, LifeInv, Places, VM
<1>2. PICK c \in Co : c = on[v]
  BY <1>1 DEF LifeInv, OwnInv, InCall
<1>3. c \in VM /\ ~HasTurn(v) /\ ~HasTurn(c)
  BY DEF VM
<1>4. Hangs(v) /\ (pc[v] = "pending" \/ ~doneCh[c])
  BY <1>1, <1>2, <1>3 DEF Hangs, HasTurn, Woken, Waits
<1>5. pc[v] = "pending" => mode[c] = "pending"
  BY <1>2 DEF LifeInv, Owners
<1>6. pc[c] # "gone"
  BY <1>4, <1>5 DEF LifeInv, Ends
<1>7. pc[c] # "fresh"
  <2>1. pc[v] # "pending" => started[c]
    BY <1>1, <1>2 DEF Late, Joins
  <2> QED
    BY <1>3, <1>5, <2>1 DEF LifeInv, Ids, Modes
<1>8. pc[c] # "parked"
  <2> SUFFICES ASSUME pc[c] = "parked" PROVE FALSE
    OBVIOUS
  <2>1. resumeCh[c] = 0 /\ ~resumeChClosed[c]
    BY <1>3 DEF HasTurn, LifeInv, OwnInv, TypeOK
  <2>2. pc[v] # "pending"
    BY <1>3, <1>5 DEF LifeInv, Modes
  <2>3. ~doneCh[c]
    BY <1>4, <2>2
  <2>4. pc[v] # "joining" /\ pc[v] # "joindead"
    BY <1>2, <2>1, <2>3 DEF Late, Joins
  <2>5. v \in Asking(c) /\ yieldCh[c] = 0
    BY <1>1, <1>2, <1>3, <2>2, <2>4 DEF Asking, HasTurn, Woken, Waits, LifeInv, OwnInv, TypeOK
  <2>6. Cardinality(Asking(c)) <= 0
    BY <2>1, <2>3, <2>5 DEF Late, Numbered, Awaited, Coming, Busy
  <2>7. Cardinality(Asking(c)) \in Nat
    BY AskingFinite, FS_CardinalityType
  <2>8. Asking(c) = {}
    BY <2>6, <2>7, AskingFinite, FS_EmptySet
  <2> QED
    BY <2>5, <2>8
<1>9. Waits(c) \/ pc[c] = "pending"
  <2>1. pc[c] \in Label /\ pc[c] \notin {"host", "sweep", "reap", "reaphard", "closed"}
    BY DEF LifeInv, OwnInv, TypeOK, Places, VM
  <2> QED
    BY <1>3, <1>6, <1>7, <1>8, <2>1 DEF HasTurn, Active, Waits, Label
<1> QED
  BY <1>2, <1>4, <1>9

\* The VMs that can be waiting for one another are in an order, and its least
\* element would wait for a lesser one.
LEMMA SomebodyLate ==
  ASSUME LifeInv, Late, Open
  PROVE  \E v \in VM : HasTurn(v)
<1> SUFFICES ASSUME \A v \in VM : ~HasTurn(v) PROVE FALSE
  OBVIOUS
<1>1. PICK r \in [VM -> Nat] : \A v \in VM : Hangs(v) => r[on[v]] < r[v]
  BY DEF Late, Ranked
<1> DEFINE S == {v \in VM : Waits(v) \/ pc[v] = "pending"}
           T == {r[v] : v \in S}
<1>2. Main \in S
  <2>1. Main \in VM /\ ~HasTurn(Main)
    BY DEF VM
  <2>2. pc[Main] \in Label /\ pc[Main] \notin {"fresh", "parked", "gone", "closed"}
    BY <2>1 DEF LifeInv, OwnInv, TypeOK, Places, Open
  <2> QED
    BY <2>1, <2>2 DEF HasTurn, Active, Waits, Label
<1>3. T \subseteq Nat /\ T # {}
  BY <1>2
<1>4. PICK x \in T : \A y \in T : x <= y
  BY <1>3, LeastExists
<1>5. PICK v \in S : x = r[v]
  BY <1>4
<1>6. on[v] \in S /\ r[on[v]] < r[v]
  BY <1>1, <1>5, HangsOnWaiting DEF VM
<1>7. r[on[v]] \in T /\ r[on[v]] \in Nat /\ r[v] \in Nat
  BY <1>6
<1> QED
  BY <1>4, <1>5, <1>6, <1>7

\* What is invariant: VM.Close empties the registry through which a woken
\* coroutine marks itself as running, and from then on an order is not promised.
LateInv == Open => Late

\* Until VM.Close is called the VMs that wait for one another do so in an order,
\* and every resume that waits has an answer coming, whatever waits resume and
\* VM.Close have given up by then.
THEOREM LateOrder == Spec => []LateInv
<1>1. Init => LateInv
  BY InitLate DEF LateInv
<1>2. LifeInv /\ LifeInv' /\ LateInv /\ [Next]_vars => LateInv'
  <2> SUFFICES ASSUME LifeInv, LifeInv', LateInv, [Next]_vars, Open' PROVE Late'
    BY DEF LateInv
  <2>1. Open
    BY ClosedStays
  <2> QED
    BY <2>1, LateStep DEF LateInv
<1> QED
  BY <1>1, <1>2, LifeCycle, PTL DEF Spec

\* Somebody always has the turn: no wake-up is lost between resumeCh, yieldCh and
\* doneCh, and the VMs never all wait for one another - after a wait was given up
\* as little as before, but for VM.Close waiting for a coroutine, which ends.
THEOREM TurnNeverLost == Spec => []SomebodyMoves
<1>1. LifeInv /\ TurnInv /\ LateInv => SomebodyMoves
  <2> SUFFICES ASSUME LifeInv, TurnInv, LateInv, pc[Main] # "closed",
                      expired => pc[Main] \notin {"reap", "reaphard"}
               PROVE  \E v \in VM : HasTurn(v)
    BY DEF SomebodyMoves
  <2>1. CASE ~expired
    BY <2>1 DEF TurnInv, Baton, SomebodyTurns
  <2>2. CASE expired /\ Open
    BY <2>2, SomebodyLate DEF LateInv
  <2>3. CASE expired /\ ~Open
    <3>1. pc[Main] = "sweep" /\ Main \in VM
      BY <2>3 DEF Open, VM
    <3> QED
      BY <3>1 DEF HasTurn, Active
  <2> QED
    BY <2>1, <2>2, <2>3
<1> QED
  BY <1>1, LifeCycle, TurnsInOrder, LateOrder, PTL

=============================================================================
