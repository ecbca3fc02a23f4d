------------------------- MODULE KernelQueueProofs -------------------------
(***************************************************************************)
(* Proofs about KernelQueue, for every set of tasks, every queue length    *)
(* and every repertoire of calls.                                          *)
(***************************************************************************)
EXTENDS KernelQueue, FiniteSetTheorems, TLAPS

(* A call in progress satisfies what the assertions of the API demand.     *)
CallOK ==
  \A t \in Tasks : call[t].op = "send" =>
                      /\ call[t].item \in Items
                      /\ call[t].pos = "overwrite" => uxLength = 1

TypeInv == TypeOK /\ CallOK

(* Type correctness of the ring operations of prvCopyDataToQueue and       *)
(* prvCopyDataFromQueue: the positions stay inside the storage, the count  *)
(* within the length, an overwrite included.                               *)
RingTypeOK ==
  /\ storage \in [0 .. uxLength - 1 -> Items \cup {NoItem}]
  /\ pcWriteTo \in 0 .. uxLength - 1
  /\ pcReadFrom \in 0 .. uxLength - 1
  /\ uxMessagesWaiting \in 0 .. uxLength

LEMMA CopyKeepsType ==
  ASSUME RingTypeOK, NEW x \in Items, NEW pos \in Positions,
         HasRoomFor(pos), pos = "overwrite" => uxLength = 1,
         CopyDataToQueue(x, pos)
  PROVE  RingTypeOK'
  BY LengthAssumption
     DEF RingTypeOK, CopyDataToQueue, HasRoomFor, Positions, Forward, Backward

LEMMA RemoveKeepsType ==
  ASSUME RingTypeOK, uxMessagesWaiting > 0, RemoveItem
  PROVE  RingTypeOK'
  BY LengthAssumption DEF RingTypeOK, RemoveItem, Forward

LEMMA NextItemType ==
  ASSUME RingTypeOK
  PROVE  NextItem \in Items \cup {NoItem}
  BY LengthAssumption DEF RingTypeOK, NextItem, Forward

LEMMA Int8Type == \A n \in Int : Int8(n) \in -128 .. 127
  BY DEF Int8

EventsTypeOK ==
  /\ xTasksWaitingToSend \in SUBSET Tasks
  /\ xTasksWaitingToReceive \in SUBSET Tasks
  /\ xPendingReadyList \in SUBSET Tasks

LEMMA WakeKeepsType ==
  ASSUME EventsTypeOK, NEW n, WakeReceivers(n) \/ WakeSenders(n)
  PROVE  EventsTypeOK'
  BY DEF EventsTypeOK, WakeReceivers, WakeSenders, MakeReady

CallsTypeOK ==
  /\ pc \in [Tasks -> Labels]
  /\ call \in [Tasks -> Call]
  /\ CallOK

LEMMA NoCallType == NoCall \in Call /\ NoCall.op = "none"
  BY DEF NoCall, Call, Positions, Waits

LEMMA ReturnKeepsType ==
  ASSUME CallsTypeOK, NEW t \in Tasks, NEW l \in Labels, Return(t, l)
  PROVE  CallsTypeOK'
  BY NoCallType DEF CallsTypeOK, CallOK, Return, Goto

LEMMA GiveUpKeepsType ==
  ASSUME CallsTypeOK, NEW t \in Tasks, GiveUpOrBlock(t)
  PROVE  CallsTypeOK'
<1>1. CASE call[t].ticks = "zero"
  BY <1>1, ReturnKeepsType DEF GiveUpOrBlock, Labels
<1>2. CASE call[t].ticks # "zero"
  BY <1>2 DEF CallsTypeOK, CallOK, GiveUpOrBlock, Goto, Labels
<1> QED BY <1>1, <1>2

(* xTaskCheckForTimeOut changes nothing of a call but its ticks.           *)
LEMMA OutOfTicksType ==
  ASSUME NEW c \in Call
  PROVE  /\ [c EXCEPT !.ticks = "zero"] \in Call
         /\ [c EXCEPT !.ticks = "zero"].op = c.op
         /\ [c EXCEPT !.ticks = "zero"].item = c.item
         /\ [c EXCEPT !.ticks = "zero"].pos = c.pos
  BY DEF Call, Waits

LEMMA TypeInit == Init => TypeInv
<1> SUFFICES ASSUME Init PROVE TypeInv
  OBVIOUS
<1>1. CallsTypeOK
  BY NoCallType DEF Init, CallsTypeOK, CallOK, Labels
<1>2. RingTypeOK
  BY LengthAssumption DEF Init, RingTypeOK
<1>3. /\ cRxLock \in -128 .. 127 /\ cTxLock \in -128 .. 127
      /\ xTasksWaitingToSend \in SUBSET Tasks
      /\ xTasksWaitingToReceive \in SUBSET Tasks
      /\ xPendingReadyList \in SUBSET Tasks
      /\ suspender \in Tasks \cup {NoTask}
      /\ buffer \in [Tasks -> Items \cup {NoItem}]
  BY DEF Init, Unlocked
<1>4. /\ xPendedTicks \in BOOLEAN
      /\ expired \in [Tasks -> BOOLEAN]
      /\ timedOut \in [Tasks -> BOOLEAN]
      /\ ucDelayAborted \in [Tasks -> BOOLEAN]
      /\ aborted \in [Tasks -> BOOLEAN]
  BY DEF Init
<1> QED BY <1>1, <1>2, <1>3, <1>4 DEF TypeInv, TypeOK, CallsTypeOK, RingTypeOK

LEMMA TypeNext == TypeInv /\ [Next]_vars => TypeInv'
<1> SUFFICES ASSUME TypeInv, [Next]_vars PROVE TypeInv'
  OBVIOUS
<1> USE DEF TypeInv, CallOK
<1>r. RingTypeOK /\ EventsTypeOK /\ CallsTypeOK
  BY DEF TypeOK, RingTypeOK, EventsTypeOK, CallsTypeOK
<1>1. ASSUME NEW t \in Tasks, Start(t) PROVE TypeInv'
  <2>1. PICK c \in Calls[t] :
          /\ call' = [call EXCEPT ![t] = c]
          /\ Goto(t, IF c.op = "abort" THEN "suspend" ELSE "enter")
    BY <1>1 DEF Start
  <2>2. /\ c \in Call
        /\ c.op = "send" => c.item \in Items /\ (c.pos = "overwrite" => uxLength = 1)
    BY CallsAssumption
  <2>3. CallsTypeOK'
    BY <1>r, <2>1, <2>2 DEF CallsTypeOK, CallOK, Goto, Labels
  <2> QED BY <1>1, <2>3
          DEF Start, TypeOK, CallsTypeOK, ring, locks, events, sched
<1>2. ASSUME NEW t \in Tasks, TrySend(t) PROVE TypeInv'
  <2>1. call[t].item \in Items /\ call[t].pos \in Positions
        /\ (call[t].pos = "overwrite" => uxLength = 1)
    BY <1>2 DEF TrySend, AtHead, TypeOK, Call
  <2>2. CASE /\ HasRoomFor(call[t].pos)
             /\ CopyDataToQueue(call[t].item, call[t].pos)
             /\ WakeReceivers(1)
             /\ Return(t, "idle")
             /\ UNCHANGED <<locks, sched, timedOut, buffer, time>>
    <3>1. RingTypeOK' BY <1>r, <2>1, <2>2, CopyKeepsType
    <3>2. EventsTypeOK' BY <1>r, <2>2, WakeKeepsType
    <3>4. CallsTypeOK' BY <1>r, <2>2, ReturnKeepsType DEF Labels
    <3> QED BY <2>2, <3>1, <3>2, <3>4
            DEF TypeOK, RingTypeOK, EventsTypeOK, CallsTypeOK, locks, sched, time
  <2>3. CASE GiveUpOrBlock(t)
    BY <1>r, <2>3, GiveUpKeepsType
       DEF TypeOK, CallsTypeOK, GiveUpOrBlock, ring, locks, events, sched, time
  <2> QED BY <1>2, <2>2, <2>3 DEF TrySend
<1>3. ASSUME NEW t \in Tasks, TryReceive(t) PROVE TypeInv'
  <2>2. CASE /\ uxMessagesWaiting > 0
             /\ buffer' = [buffer EXCEPT ![t] = NextItem]
             /\ RemoveItem
             /\ WakeSenders(1)
             /\ Return(t, "idle")
             /\ UNCHANGED <<locks, sched, timedOut, time>>
    <3>1. RingTypeOK' BY <1>r, <2>2, RemoveKeepsType
    <3>2. EventsTypeOK' BY <1>r, <2>2, WakeKeepsType
    <3>3. buffer' \in [Tasks -> Items \cup {NoItem}]
      BY <1>r, <2>2, NextItemType DEF TypeOK
    <3>4. CallsTypeOK' BY <1>r, <2>2, ReturnKeepsType DEF Labels
    <3> QED BY <2>2, <3>1, <3>2, <3>3, <3>4
            DEF TypeOK, RingTypeOK, EventsTypeOK, CallsTypeOK, locks, sched, time
  <2>3. CASE GiveUpOrBlock(t)
    BY <1>r, <2>3, GiveUpKeepsType
       DEF TypeOK, CallsTypeOK, GiveUpOrBlock, ring, locks, events, sched, time
  <2> QED BY <1>3, <2>2, <2>3 DEF TryReceive
<1>4. ASSUME NEW t \in Tasks, TryPeek(t) PROVE TypeInv'
  <2>2. CASE /\ uxMessagesWaiting > 0
             /\ buffer' = [buffer EXCEPT ![t] = NextItem]
             /\ WakeReceivers(1)
             /\ Return(t, "idle")
             /\ UNCHANGED <<ring, locks, sched, timedOut, time>>
    <3>2. EventsTypeOK' BY <1>r, <2>2, WakeKeepsType
    <3>3. buffer' \in [Tasks -> Items \cup {NoItem}]
      BY <1>r, <2>2, NextItemType DEF TypeOK
    <3>4. CallsTypeOK' BY <1>r, <2>2, ReturnKeepsType DEF Labels
    <3> QED BY <2>2, <3>2, <3>3, <3>4
            DEF TypeOK, EventsTypeOK, CallsTypeOK, ring, locks, sched, time
  <2>3. CASE GiveUpOrBlock(t)
    BY <1>r, <2>3, GiveUpKeepsType
       DEF TypeOK, CallsTypeOK, GiveUpOrBlock, ring, locks, events, sched, time
  <2> QED BY <1>4, <2>2, <2>3 DEF TryPeek
<1>5. ASSUME NEW t \in Tasks, Reset(t) PROVE TypeInv'
  <2>1. EventsTypeOK' BY <1>5, <1>r, WakeKeepsType DEF Reset
  <2>2. CallsTypeOK' BY <1>5, <1>r, ReturnKeepsType DEF Reset, Labels
  <2> QED BY <1>5, <2>1, <2>2, LengthAssumption
          DEF Reset, TypeOK, EventsTypeOK, CallsTypeOK, sched, time, Unlocked
<1>6. ASSUME NEW t \in Tasks, SuspendAll(t) PROVE TypeInv'
  BY <1>6 DEF SuspendAll, TypeOK, Labels, Goto, ring, locks, events, time
<1>7. ASSUME NEW t \in Tasks, LockQueue(t) PROVE TypeInv'
  BY <1>7 DEF LockQueue, TypeOK, Labels, Goto, ring, events, sched, time, LockedUnmodified
<1>8. ASSUME NEW t \in Tasks, CheckForTimeOut(t) PROVE TypeInv'
  <2>1. CallsTypeOK'
    <3>1. CASE call' = [call EXCEPT ![t].ticks = "zero"] /\ Goto(t, "unlockTx")
      <4> DEFINE d == [call[t] EXCEPT !.ticks = "zero"]
      <4>1. /\ d \in Call
            /\ d.op = call[t].op /\ d.item = call[t].item /\ d.pos = call[t].pos
        BY <1>r, OutOfTicksType DEF CallsTypeOK
      <4>2. call' = [call EXCEPT ![t] = d]
        BY <3>1
      <4> HIDE DEF d
      <4> QED BY <1>r, <3>1, <4>1, <4>2 DEF CallsTypeOK, CallOK, Goto, Labels
    <3>2. CASE UNCHANGED call /\ (Goto(t, "unlockTx") \/ Goto(t, "test"))
      BY <1>r, <3>2 DEF CallsTypeOK, CallOK, Goto, Labels
    <3> QED BY <1>8, <3>1, <3>2 DEF CheckForTimeOut
  <2>2. timedOut' \in [Tasks -> BOOLEAN] /\ ucDelayAborted' \in [Tasks -> BOOLEAN]
    BY <1>8 DEF CheckForTimeOut, TypeOK
  <2> QED BY <1>8, <2>1, <2>2
          DEF CheckForTimeOut, TypeOK, CallsTypeOK, ring, locks, events, sched
<1>9. ASSUME NEW t \in Tasks, TestQueue(t) PROVE TypeInv'
  BY <1>9 DEF TestQueue, TypeOK, Labels, Goto, ring, locks, events, sched, time
<1>10. ASSUME NEW t \in Tasks, PlaceOnEventList(t) PROVE TypeInv'
  BY <1>10 DEF PlaceOnEventList, TypeOK, Labels, Goto, ring, locks, sched
<1>11. ASSUME NEW t \in Tasks, UnlockTx(t) PROVE TypeInv'
  <2>1. EventsTypeOK' BY <1>11, <1>r, WakeKeepsType DEF UnlockTx
  <2> QED BY <1>11, <2>1
          DEF UnlockTx, TypeOK, EventsTypeOK, Labels, Goto, ring, sched, time, Unlocked
<1>12. ASSUME NEW t \in Tasks, UnlockRx(t) PROVE TypeInv'
  <2>1. EventsTypeOK' BY <1>12, <1>r, WakeKeepsType DEF UnlockRx
  <2> QED BY <1>12, <2>1
          DEF UnlockRx, TypeOK, EventsTypeOK, Labels, Goto, ring, sched, time, Unlocked
<1>13. ASSUME NEW t \in Tasks, ResumeAll(t) PROVE TypeInv'
  <2>1. CallsTypeOK'
    <3>1. CASE call[t].op = "abort"
      BY <1>13, <1>r, <3>1, ReturnKeepsType DEF ResumeAll, AfterResume, Labels
    <3>2. CASE call[t].op = "send" /\ timedOut[t]
      BY <1>13, <1>r, <3>2, ReturnKeepsType DEF ResumeAll, AfterResume, Labels
    <3>3. CASE ~(call[t].op = "abort") /\ ~(call[t].op = "send" /\ timedOut[t])
      BY <1>13, <1>r, <3>3 DEF ResumeAll, AfterResume, Goto, CallsTypeOK, Labels
    <3> QED BY <3>1, <3>2, <3>3
  <2> QED BY <1>13, <2>1
          DEF ResumeAll, TickReaches, TypeOK, CallsTypeOK, ring, locks
<1>14. ASSUME NEW t \in Tasks, Recheck(t) PROVE TypeInv'
  <2>1. CallsTypeOK'
    <3>1. CASE uxMessagesWaiting = 0
      BY <1>14, <1>r, <3>1, ReturnKeepsType DEF Recheck, Labels
    <3>2. CASE uxMessagesWaiting # 0
      BY <1>14, <1>r, <3>2 DEF Recheck, Goto, CallsTypeOK, Labels
    <3> QED BY <3>1, <3>2
  <2> QED BY <1>14, <2>1
          DEF Recheck, TypeOK, CallsTypeOK, ring, locks, events, sched, time
<1>15. ASSUME NEW t \in Tasks, AbortDelay(t) PROVE TypeInv'
  <2>1. /\ xTasksWaitingToSend' \in SUBSET Tasks
        /\ xTasksWaitingToReceive' \in SUBSET Tasks
        /\ xPendingReadyList' \in SUBSET Tasks
        /\ ucDelayAborted' \in [Tasks -> BOOLEAN]
        /\ aborted' \in [Tasks -> BOOLEAN]
    <3>1. PICK u \in Tasks \ {t} :
            IF u \in OffReadyList
            THEN /\ xTasksWaitingToSend' = xTasksWaitingToSend \ {u}
                 /\ xTasksWaitingToReceive' = xTasksWaitingToReceive \ {u}
                 /\ xPendingReadyList' = xPendingReadyList \ {u}
                 /\ ucDelayAborted' = [ucDelayAborted EXCEPT ![u] = TRUE]
                 /\ aborted' = [aborted EXCEPT ![u] = TRUE]
            ELSE UNCHANGED <<events, ucDelayAborted, aborted>>
      BY <1>15 DEF AbortDelay
    <3>2. CASE u \in OffReadyList
      BY <3>1, <3>2 DEF TypeOK
    <3>3. CASE u \notin OffReadyList
      BY <3>1, <3>3 DEF TypeOK, events
    <3> QED BY <3>2, <3>3
  <2>2. pc' = [pc EXCEPT ![t] = "resume"]
        /\ UNCHANGED <<ring, locks, sched, call, timedOut, buffer, expired>>
    BY <1>15 DEF AbortDelay, Goto
  <2> QED BY <2>1, <2>2 DEF TypeOK, Labels, ring, locks, sched
<1>16. ASSUME IncrementTick PROVE TypeInv'
  BY <1>16 DEF IncrementTick, TickReaches, TypeOK, ring, locks, local
<1>17. ASSUME SendFromISR PROVE TypeInv'
  <2>1. RingTypeOK'
    BY <1>17, <1>r, CopyKeepsType, IsrAssumption DEF SendFromISR
  <2>2. EventsTypeOK'
    BY <1>17, <1>r, WakeKeepsType DEF SendFromISR, events, EventsTypeOK
  <2>3. cTxLock' \in -128 .. 127
    <3>1. cTxLock + 1 \in Int BY DEF TypeOK
    <3>2. Int8(cTxLock + 1) \in -128 .. 127 BY <3>1, Int8Type
    <3>3. cTxLock' = cTxLock \/ cTxLock' = Int8(cTxLock + 1) BY <1>17 DEF SendFromISR
    <3> QED BY <3>2, <3>3 DEF TypeOK
  <2> QED BY <1>17, <2>1, <2>2, <2>3
          DEF SendFromISR, TypeOK, RingTypeOK, EventsTypeOK, sched, local, time
<1>18. ASSUME ReceiveFromISR PROVE TypeInv'
  <2>1. RingTypeOK'
    BY <1>18, <1>r, RemoveKeepsType DEF ReceiveFromISR
  <2>2. EventsTypeOK'
    BY <1>18, <1>r, WakeKeepsType DEF ReceiveFromISR, events, EventsTypeOK
  <2>3. cRxLock' \in -128 .. 127
    <3>1. cRxLock + 1 \in Int BY DEF TypeOK
    <3>2. Int8(cRxLock + 1) \in -128 .. 127 BY <3>1, Int8Type
    <3>3. cRxLock' = cRxLock \/ cRxLock' = Int8(cRxLock + 1) BY <1>18 DEF ReceiveFromISR
    <3> QED BY <3>2, <3>3 DEF TypeOK
  <2> QED BY <1>18, <2>1, <2>2, <2>3
          DEF ReceiveFromISR, TypeOK, RingTypeOK, EventsTypeOK, sched, local, time
<1>19. ASSUME UNCHANGED vars PROVE TypeInv'
  BY <1>19 DEF TypeOK, vars, ring, locks, events, sched, local, time
<1> QED
  BY <1>1, <1>2, <1>3, <1>4, <1>5, <1>6, <1>7, <1>8, <1>9, <1>10, <1>11, <1>12,
     <1>13, <1>14, <1>15, <1>16, <1>17, <1>18, <1>19 DEF Next, Proceed

(* Type correctness: in particular the count never leaves 0 .. uxLength    *)
(* and the two positions never leave the storage.                          *)
THEOREM TypeCorrect == Spec => []TypeOK
<1>1. Spec => []TypeInv
  BY TypeInit, TypeNext, PTL DEF Spec
<1> QED BY <1>1, PTL DEF TypeInv

(***************************************************************************)
(* Control.                                                                *)
(***************************************************************************)
(* A count in the range of the guards does not overflow.                   *)
LEMMA Int8Next ==
  ASSUME NEW n \in -128 .. 127, n < MaxLock, MaxLock <= 127
  PROVE  Int8(n + 1) = n + 1
  BY IsrAssumption DEF Int8

LEMMA ControlInit == Init => Control
<1> SUFFICES ASSUME Init PROVE Control
  OBVIOUS
<1>1. OneSuspender
  BY NoTaskAssumption DEF Init, OneSuspender, Suspended
<1>2. LockedBySuspender
  BY NoTaskAssumption DEF Init, LockedBySuspender
<1>3. ListsConsistent
  BY DEF Init, ListsConsistent, OffReadyList
<1>4. CallsInOrder
  BY DEF Init, CallsInOrder, NoCall
<1> QED BY <1>1, <1>2, <1>3, <1>4 DEF Control, Init, Unlocked

LEMMA ControlNext ==
  ASSUME MaxLock <= 127, TypeInv, Control, [Next]_vars
  PROVE  Control'
<1> USE NoTaskAssumption DEF TypeInv, TypeOK, Control, OneSuspender, Suspended,
    LockedBySuspender, ListsConsistent, CallsInOrder, OffReadyList
<1>1. ASSUME NEW t \in Tasks, Start(t) PROVE Control'
  <2>1. PICK c \in Calls[t] :
          /\ call' = [call EXCEPT ![t] = c]
          /\ Goto(t, IF c.op = "abort" THEN "suspend" ELSE "enter")
    BY <1>1 DEF Start
  <2>2. c.op \in {"send", "receive", "peek", "reset", "abort"}
    BY CallsAssumption DEF Call
  <2> QED BY <1>1, <2>1, <2>2
          DEF Start, CanRun, Goto, ring, locks, events, sched, time
<1>2. ASSUME NEW t \in Tasks, TrySend(t) PROVE Control'
  BY <1>2
     DEF TrySend, AtHead, CanRun, GiveUpOrBlock, WakeReceivers,
         MakeReady, Return, Goto, NoCall, ring, locks, events, sched,
         time
<1>3. ASSUME NEW t \in Tasks, TryReceive(t) PROVE Control'
  BY <1>3
     DEF TryReceive, AtHead, CanRun, GiveUpOrBlock, WakeSenders,
         MakeReady, Return, Goto, NoCall, ring, locks, events, sched,
         time
<1>4. ASSUME NEW t \in Tasks, TryPeek(t) PROVE Control'
  BY <1>4
     DEF TryPeek, AtHead, CanRun, GiveUpOrBlock, WakeReceivers,
         MakeReady, Return, Goto, NoCall, ring, locks, events, sched,
         time
<1>5. ASSUME NEW t \in Tasks, Reset(t) PROVE Control'
  BY <1>5
     DEF Reset, AtHead, CanRun, WakeSenders, MakeReady, Return, Goto,
         NoCall, locks, sched, time, Unlocked
<1>6. ASSUME NEW t \in Tasks, SuspendAll(t) PROVE Control'
  BY <1>6
     DEF SuspendAll, CanRun, Goto, ring, locks, events, time
<1>7. ASSUME NEW t \in Tasks, LockQueue(t) PROVE Control'
  BY <1>7
     DEF LockQueue, Goto, ring, events, sched, time, Unlocked,
         LockedUnmodified
<1>8. ASSUME NEW t \in Tasks, CheckForTimeOut(t) PROVE Control'
  <2>1. \A u \in Tasks : call'[u].op = call[u].op
    <3>1. CASE UNCHANGED call
      BY <3>1
    <3>2. CASE call' = [call EXCEPT ![t].ticks = "zero"]
      <4>1. call[t] \in Call /\ call' = [call EXCEPT ![t] = [call[t] EXCEPT !.ticks = "zero"]]
        BY <3>2
      <4>2. [call[t] EXCEPT !.ticks = "zero"].op = call[t].op
        BY <4>1, OutOfTicksType
      <4> QED BY <4>1, <4>2
    <3> QED BY <1>8, <3>1, <3>2 DEF CheckForTimeOut
  <2>2. /\ pc[t] = "check" /\ pc' \in [Tasks -> Labels]
        /\ \A u \in Tasks \ {t} : pc'[u] = pc[u] /\ timedOut'[u] = timedOut[u]
        /\ \/ pc'[t] = "unlockTx"
           \/ pc'[t] = "test" /\ ~timedOut'[t]
        /\ UNCHANGED <<locks, events, sched>>
    BY <1>8 DEF CheckForTimeOut, Goto, Labels
  <2> QED BY <2>1, <2>2 DEF locks, events, sched
<1>9. ASSUME NEW t \in Tasks, TestQueue(t) PROVE Control'
  BY <1>9
     DEF TestQueue, Goto, ring, locks, events, sched, time
<1>10. ASSUME NEW t \in Tasks, PlaceOnEventList(t) PROVE Control'
  <2>1. /\ call[t].op \in {"send", "receive", "peek"} /\ ~timedOut[t]
        /\ t \notin OffReadyList
        /\ pc' = [pc EXCEPT ![t] = "unlockTx"]
        /\ UNCHANGED <<locks, sched, call, timedOut, xPendingReadyList>>
    BY <1>10 DEF PlaceOnEventList, Goto
  <2>2. ListsConsistent'
    <3>1. CASE call[t].op = "send"
      BY <1>10, <2>1, <3>1 DEF PlaceOnEventList, sched
    <3>2. CASE call[t].op # "send"
      BY <1>10, <2>1, <3>2 DEF PlaceOnEventList, sched
    <3> QED BY <3>1, <3>2
  <2>3. OneSuspender' /\ LockedBySuspender'
    BY <1>10, <2>1 DEF PlaceOnEventList, locks, sched
  <2>4. CallsInOrder'
    BY <2>1
  <2> QED BY <2>1, <2>2, <2>3, <2>4 DEF locks
<1>11. ASSUME NEW t \in Tasks, UnlockTx(t) PROVE Control'
  BY <1>11
     DEF UnlockTx, WakeReceivers, MakeReady, Goto, ring, sched, time,
         Unlocked
<1>12. ASSUME NEW t \in Tasks, UnlockRx(t) PROVE Control'
  BY <1>12
     DEF UnlockRx, WakeSenders, MakeReady, Goto, ring, sched, time,
         Unlocked
<1>13. ASSUME NEW t \in Tasks, ResumeAll(t) PROVE Control'
  BY <1>13
     DEF ResumeAll, AfterResume, TickReaches, Return, Goto, NoCall,
         ring, locks
<1>14. ASSUME NEW t \in Tasks, Recheck(t) PROVE Control'
  BY <1>14
     DEF Recheck, CanRun, Return, Goto, NoCall, ring, locks, events,
         sched, time
<1>15. ASSUME NEW t \in Tasks, AbortDelay(t) PROVE Control'
  BY <1>15
     DEF AbortDelay, Goto, ring, locks, events, sched
<1>16. ASSUME IncrementTick PROVE Control'
  BY <1>16
     DEF IncrementTick, TickReaches, ring, locks, local
<1>17. ASSUME SendFromISR PROVE Control'
  <2>1. cTxLock # Unlocked => cTxLock' = cTxLock + 1
    BY <1>17, Int8Next DEF SendFromISR
  <2> QED BY <1>17, <2>1
          DEF SendFromISR, WakeReceivers, MakeReady, events, sched, local,
              time, Unlocked
<1>18. ASSUME ReceiveFromISR PROVE Control'
  <2>1. cRxLock # Unlocked => cRxLock' = cRxLock + 1
    BY <1>18, Int8Next DEF ReceiveFromISR
  <2> QED BY <1>18, <2>1
          DEF ReceiveFromISR, WakeSenders, MakeReady, events, sched, local,
              time, Unlocked
<1>19. ASSUME UNCHANGED vars PROVE Control'
  BY <1>19
     DEF vars, ring, locks, events, sched, local, time
<1> QED
  BY <1>1, <1>2, <1>3, <1>4, <1>5, <1>6, <1>7, <1>8, <1>9, <1>10, <1>11, <1>12, <1>13, <1>14, <1>15, <1>16, <1>17, <1>18, <1>19 DEF Next, Proceed

(***************************************************************************)
(* No lost wake-up.  Cover says that the receivers on their way back to    *)
(* the queue, and the sends counted while it is locked, cover its items.   *)
(***************************************************************************)
Returning == LookingAgain({"receive", "peek"})

Cover == uxMessagesWaiting <= Cardinality(Returning) + Counted(cTxLock)

LEMMA ReturningFinite ==
  /\ IsFiniteSet(Returning) /\ Cardinality(Returning) \in Nat
  /\ IsFiniteSet(Returning') /\ Cardinality(Returning') \in Nat
<1>1. Returning \in SUBSET Tasks /\ Returning' \in SUBSET Tasks
  BY DEF Returning, LookingAgain
<1> QED BY <1>1, TasksAssumption, FS_Subset, FS_CardinalityType

LEMMA CountedType ==
  ASSUME TypeInv PROVE Counted(cTxLock) \in Nat /\ Counted(cRxLock) \in Nat
  BY DEF TypeInv, TypeOK, Counted, LockedUnmodified

(* The numbers that Cover compares, before a step and after it.            *)
LEMMA CoverNumbers ==
  ASSUME TypeInv, TypeInv'
  PROVE  /\ uxMessagesWaiting \in Int /\ uxMessagesWaiting' \in Int
         /\ Counted(cTxLock) \in Int /\ Counted(cTxLock)' \in Int
         /\ Cardinality(Returning) \in Int /\ Cardinality(Returning') \in Int
<1>1. /\ cTxLock \in Int /\ cTxLock' \in Int
      /\ uxMessagesWaiting \in Int /\ uxMessagesWaiting' \in Int
  BY DEF TypeInv, TypeOK
<1>2. Counted(cTxLock) \in Int /\ Counted(cTxLock)' \in Int
  BY <1>1 DEF Counted, LockedUnmodified
<1>3. Cardinality(Returning) \in Int /\ Cardinality(Returning') \in Int
  BY ReturningFinite
<1> QED BY <1>1, <1>2, <1>3

(* Nobody stops looking and nothing arrives.                               *)
LEMMA CoverGrows ==
  ASSUME TypeInv, TypeInv', Cover, Returning \subseteq Returning',
         uxMessagesWaiting' <= uxMessagesWaiting,
         Counted(cTxLock)' >= Counted(cTxLock)
  PROVE  Cover'
<1>1. Cardinality(Returning) <= Cardinality(Returning')
  BY ReturningFinite, FS_Subset
<1> QED BY <1>1, CoverNumbers DEF Cover

(* One item arrives and one more task looks.                               *)
LEMMA CoverOneMore ==
  ASSUME TypeInv, TypeInv', Cover, NEW w \in Returning' \ Returning,
         Returning \subseteq Returning',
         uxMessagesWaiting' <= uxMessagesWaiting + 1,
         Counted(cTxLock)' = Counted(cTxLock)
  PROVE  Cover'
<1>1. /\ Cardinality(Returning \cup {w}) = Cardinality(Returning) + 1
      /\ Cardinality(Returning \cup {w}) <= Cardinality(Returning')
  <2>1. Cardinality(Returning \cup {w}) = Cardinality(Returning) + 1
    BY ReturningFinite, FS_AddElement
  <2>2. Returning \cup {w} \in SUBSET Returning'
    OBVIOUS
  <2> QED BY <2>1, <2>2, ReturningFinite, FS_Subset
<1> QED BY <1>1, CoverNumbers DEF Cover

(* A task that looked takes an item with it.                               *)
LEMMA CoverOneLess ==
  ASSUME TypeInv, TypeInv', Cover, NEW t, Returning \ {t} \subseteq Returning',
         uxMessagesWaiting' = uxMessagesWaiting - 1,
         Counted(cTxLock)' = Counted(cTxLock)
  PROVE  Cover'
<1>1. /\ Cardinality(Returning \ {t}) >= Cardinality(Returning) - 1
      /\ Cardinality(Returning \ {t}) \in Nat
      /\ Cardinality(Returning \ {t}) <= Cardinality(Returning')
  <2>1. IsFiniteSet(Returning \ {t})
    BY ReturningFinite, FS_RemoveElement
  <2>2. Cardinality(Returning \ {t}) \in Nat
    BY <2>1, FS_CardinalityType
  <2>3. Cardinality(Returning \ {t}) <= Cardinality(Returning')
    BY ReturningFinite, FS_Subset
  <2>4. Cardinality(Returning \ {t}) = IF t \in Returning THEN Cardinality(Returning) - 1
                                                         ELSE Cardinality(Returning)
    BY ReturningFinite, FS_RemoveElement
  <2> QED BY <2>2, <2>3, <2>4, ReturningFinite
<1> QED BY <1>1, CoverNumbers DEF Cover

(* Waking the head of a list that is not empty wakes exactly one task.     *)
LEMMA FirstOfMany ==
  ASSUME NEW S \in SUBSET Tasks, S # {}, NEW W, First(S, 1, W)
  PROVE  \E w \in S : W = {w}
<1>1. IsFiniteSet(S) /\ Cardinality(S) \in Nat /\ Cardinality(S) # 0
  BY TasksAssumption, FS_Subset, FS_CardinalityType, FS_EmptySet
<1>2. W \subseteq S /\ IsFiniteSet(W) /\ Cardinality(W) = 1
  BY <1>1, FS_Subset DEF First
<1> QED BY <1>2, FS_Singleton

(* Waking n tasks of a list that keeps some of its tasks wakes n of them.  *)
LEMMA FirstLeavesSome ==
  ASSUME NEW S \in SUBSET Tasks, NEW n \in Nat, NEW W, First(S, n, W), S \ W # {}
  PROVE  W \subseteq S /\ IsFiniteSet(W) /\ Cardinality(W) = n
<1>1. IsFiniteSet(S) /\ Cardinality(S) \in Nat
  BY TasksAssumption, FS_Subset, FS_CardinalityType
<1>2. W \subseteq S /\ IsFiniteSet(W) /\ (Cardinality(S) = Cardinality(W) => S = W)
  BY <1>1, FS_Subset DEF First
<1>3. Cardinality(W) # Cardinality(S)
  BY <1>2
<1>4. Cardinality(W) = IF n < Cardinality(S) THEN n ELSE Cardinality(S)
  BY DEF First
<1> QED BY <1>2, <1>3, <1>4

WakeInv == /\ TypeInv
           /\ Control
           /\ ReceiverNotForgotten
           /\ PlacedInTime

LEMMA WakeInit == Init => WakeInv
  BY TypeInit, ControlInit
     DEF Init, WakeInv, ReceiverNotForgotten, PlacedInTime

(* A step that wakes one receiver, when there is one, and adds at most one *)
(* item keeps the receivers covered, provided that the task taking the     *)
(* step keeps looking or never did.                                        *)
LEMMA WakeOneCovers ==
  ASSUME WakeInv, TypeInv', WakeReceivers(1),
         UNCHANGED <<xTasksWaitingToSend, cTxLock>>,
         uxMessagesWaiting' <= uxMessagesWaiting + 1,
         \A u \in Returning : u \in Returning',
         \A u \in xTasksWaitingToReceive : UNCHANGED <<pc[u], call[u]>>
  PROVE  ReceiverNotForgotten'
<1> SUFFICES ASSUME xTasksWaitingToReceive' # {} PROVE Cover'
  BY DEF ReceiverNotForgotten, Cover, Returning
<1>1. PICK W \in SUBSET xTasksWaitingToReceive :
        /\ First(xTasksWaitingToReceive, 1, W)
        /\ xTasksWaitingToReceive' = xTasksWaitingToReceive \ W
  BY DEF WakeReceivers
<1>2. xTasksWaitingToReceive \in SUBSET Tasks /\ xTasksWaitingToReceive # {}
  BY <1>1 DEF WakeInv, TypeInv, TypeOK
<1>3. PICK w \in xTasksWaitingToReceive : W = {w}
  BY <1>1, <1>2, FirstOfMany
<1>4. w \in Returning' \ Returning
  BY <1>1, <1>2, <1>3
     DEF WakeInv, Control, ListsConsistent, OffReadyList, Returning, LookingAgain
<1>5. Cover
  BY <1>2 DEF WakeInv, ReceiverNotForgotten, Cover, Returning
<1> QED BY <1>4, <1>5, CoverOneMore DEF WakeInv

(* A step without a wake-up and without a new item, which nobody that      *)
(* looked at the queue leaves and no receiver joins the event list by.     *)
LEMMA QuietCovers ==
  ASSUME WakeInv, TypeInv',
         xTasksWaitingToReceive' \subseteq xTasksWaitingToReceive,
         uxMessagesWaiting' <= uxMessagesWaiting,
         Counted(cTxLock)' >= Counted(cTxLock),
         \A u \in Returning : u \in Returning'
  PROVE  ReceiverNotForgotten'
<1> SUFFICES ASSUME xTasksWaitingToReceive' # {} PROVE Cover'
  BY DEF ReceiverNotForgotten, Cover, Returning
<1>1. Cover
  BY DEF WakeInv, ReceiverNotForgotten, Cover, Returning
<1> QED BY <1>1, CoverGrows DEF WakeInv

(* An empty queue has nobody to forget.                                    *)
LEMMA EmptyCovers ==
  ASSUME TypeInv', uxMessagesWaiting' = 0
  PROVE  ReceiverNotForgotten' /\ PlacedInTime'
<1>1. Counted(cTxLock)' \in Nat
  BY DEF TypeInv, TypeOK, Counted, LockedUnmodified
<1> QED BY <1>1, ReturningFinite
        DEF ReceiverNotForgotten, PlacedInTime, Returning

(* A task that found nothing to do gives up or prepares to block.          *)
LEMMA GiveUpCovers ==
  ASSUME WakeInv, TypeInv', NEW t \in Tasks, GiveUpOrBlock(t),
         call[t].op = "send" \/ uxMessagesWaiting = 0
  PROVE  ReceiverNotForgotten'
<1>1. CASE uxMessagesWaiting = 0
  BY <1>1, EmptyCovers DEF GiveUpOrBlock, ring
<1>2. CASE call[t].op = "send"
  <2>1. \A u \in Returning : u \in Returning'
    BY <1>2 DEF GiveUpOrBlock, Return, Goto, events, WakeInv, TypeInv, TypeOK,
                Returning, LookingAgain
  <2> QED BY <2>1, QuietCovers
          DEF GiveUpOrBlock, events, ring, locks, WakeInv, TypeInv, TypeOK, Counted,
              LockedUnmodified
<1> QED BY <1>1, <1>2

LEMMA WakeNext ==
  ASSUME MaxLock <= 127, WakeInv, [Next]_vars
  PROVE  WakeInv'
<1>t. TypeInv'
  BY TypeNext DEF WakeInv
<1>c. Control'
  BY ControlNext DEF WakeInv
<1> SUFFICES ReceiverNotForgotten' /\ PlacedInTime'
  BY <1>t, <1>c DEF WakeInv
<1>u. Counted(cTxLock) \in Nat /\ uxMessagesWaiting \in Nat
  BY CountedType DEF WakeInv, TypeInv, TypeOK
<1>p. suspender = NoTask => \A u \in Tasks : pc[u] # "place"
  BY NoTaskAssumption DEF WakeInv, Control, OneSuspender, Suspended
<1> USE DEF TypeInv, TypeOK
<1>1. ASSUME NEW t \in Tasks, Start(t) PROVE ReceiverNotForgotten' /\ PlacedInTime'
  <2>1. \A u \in Returning : u \in Returning'
    BY <1>1 DEF Start, Goto, events, WakeInv, Returning, LookingAgain
  <2>2. ReceiverNotForgotten'
    BY <1>1, <1>t, <1>u, <2>1, QuietCovers DEF Start, ring, locks, events
  <2>3. PlacedInTime'
    BY <1>1 DEF Start, Goto, ring, locks, WakeInv, PlacedInTime
  <2> QED BY <2>2, <2>3
<1>2. ASSUME NEW t \in Tasks, TrySend(t) PROVE ReceiverNotForgotten' /\ PlacedInTime'
  <2>1. suspender = NoTask
    BY <1>2 DEF TrySend, AtHead, CanRun, WakeInv, Control, OneSuspender, Suspended
  <2>2. PlacedInTime'
    BY <1>2, <1>p, <2>1
       DEF TrySend, AtHead, GiveUpOrBlock, Return, Goto, WakeInv, PlacedInTime
  <2>3. CASE GiveUpOrBlock(t)
    BY <1>2, <1>t, <2>2, <2>3, GiveUpCovers DEF TrySend, AtHead
  <2>4. CASE /\ HasRoomFor(call[t].pos)
             /\ CopyDataToQueue(call[t].item, call[t].pos)
             /\ WakeReceivers(1)
             /\ Return(t, "idle")
             /\ UNCHANGED <<locks, sched, timedOut, buffer, time>>
    <3>1. UNCHANGED <<xTasksWaitingToSend, cTxLock>>
      BY <2>4 DEF WakeReceivers, locks
    <3>2. uxMessagesWaiting' <= uxMessagesWaiting + 1
      BY <2>4, <1>u DEF CopyDataToQueue
    <3>3. \A u \in Returning : u \in Returning'
      BY <1>2, <2>4
         DEF TrySend, AtHead, WakeReceivers, Return, Goto, WakeInv, Returning,
             LookingAgain
    <3>4. \A u \in xTasksWaitingToReceive : UNCHANGED <<pc[u], call[u]>>
      BY <1>2, <2>4 DEF TrySend, AtHead, Return, Goto, WakeInv, Control,
                        ListsConsistent
    <3> QED BY <1>t, <2>2, <2>4, <3>1, <3>2, <3>3, <3>4, WakeOneCovers
  <2> QED BY <1>2, <2>3, <2>4 DEF TrySend
<1>3. ASSUME NEW t \in Tasks, TryReceive(t) PROVE ReceiverNotForgotten' /\ PlacedInTime'
  <2>1. suspender = NoTask
    BY <1>3 DEF TryReceive, AtHead, CanRun, WakeInv, Control, OneSuspender, Suspended
  <2>2. PlacedInTime'
    BY <1>3, <1>p, <2>1
       DEF TryReceive, AtHead, GiveUpOrBlock, Return, Goto, WakeInv, PlacedInTime
  <2>3. CASE uxMessagesWaiting = 0 /\ GiveUpOrBlock(t)
    BY <1>t, <2>2, <2>3, GiveUpCovers
  <2>4. CASE /\ uxMessagesWaiting > 0
             /\ RemoveItem
             /\ WakeSenders(1)
             /\ Return(t, "idle")
             /\ UNCHANGED <<locks, sched, timedOut, time>>
    <3> SUFFICES ASSUME xTasksWaitingToReceive' # {} PROVE Cover'
      BY <2>2 DEF ReceiverNotForgotten, Cover, Returning
    <3>1. Cover
      BY <2>4 DEF WakeSenders, WakeInv, ReceiverNotForgotten, Cover, Returning
    <3>2. Returning \ {t} \subseteq Returning'
      BY <2>4 DEF WakeSenders, Return, Goto, WakeInv, Returning, LookingAgain
    <3> QED BY <1>t, <2>4, <3>1, <3>2, CoverOneLess DEF RemoveItem, locks, WakeInv
  <2> QED BY <1>3, <2>3, <2>4 DEF TryReceive
<1>4. ASSUME NEW t \in Tasks, TryPeek(t) PROVE ReceiverNotForgotten' /\ PlacedInTime'
  <2>1. suspender = NoTask
    BY <1>4 DEF TryPeek, AtHead, CanRun, WakeInv, Control, OneSuspender, Suspended
  <2>2. PlacedInTime'
    BY <1>4, <1>p, <2>1
       DEF TryPeek, AtHead, GiveUpOrBlock, Return, Goto, WakeInv, PlacedInTime
  <2>3. CASE uxMessagesWaiting = 0 /\ GiveUpOrBlock(t)
    BY <1>t, <2>2, <2>3, GiveUpCovers
  <2>4. CASE /\ uxMessagesWaiting > 0
             /\ WakeReceivers(1)
             /\ Return(t, "idle")
             /\ UNCHANGED <<ring, locks, sched, timedOut, time>>
    <3> SUFFICES ASSUME xTasksWaitingToReceive' # {} PROVE Cover'
      BY <2>2 DEF ReceiverNotForgotten, Cover, Returning
    <3>1. PICK W \in SUBSET xTasksWaitingToReceive :
            /\ First(xTasksWaitingToReceive, 1, W)
            /\ xTasksWaitingToReceive' = xTasksWaitingToReceive \ W
            /\ UNCHANGED xTasksWaitingToSend
      BY <2>4 DEF WakeReceivers
    <3>2. xTasksWaitingToReceive \in SUBSET Tasks /\ xTasksWaitingToReceive # {}
      BY <3>1 DEF WakeInv
    <3>3. PICK w \in xTasksWaitingToReceive : W = {w}
      BY <3>1, <3>2, FirstOfMany
    <3>4. t \notin OffReadyList
      BY <1>4, <2>1, NoTaskAssumption DEF TryPeek, AtHead, CanRun
    <3>5. w \in Returning' \ Returning /\ Returning \ {t} \subseteq Returning'
      BY <2>4, <3>1, <3>2, <3>3, <3>4
         DEF Return, Goto, WakeInv, Control, ListsConsistent, OffReadyList,
             Returning, LookingAgain
    <3> DEFINE others == Returning \ {t}
    <3>6. /\ IsFiniteSet(others)
          /\ Cardinality(others) \in Nat
          /\ Cardinality(others) >= Cardinality(Returning) - 1
      <4>1. IsFiniteSet(others)
        BY ReturningFinite, FS_RemoveElement
      <4>2. Cardinality(others) \in Nat
        BY <4>1, FS_CardinalityType
      <4>3. Cardinality(others) = IF t \in Returning THEN Cardinality(Returning) - 1
                                                     ELSE Cardinality(Returning)
        BY ReturningFinite, FS_RemoveElement
      <4> HIDE DEF others
      <4> QED BY <4>1, <4>2, <4>3, ReturningFinite
    <3>7. w \notin others /\ others \cup {w} \in SUBSET Returning'
      BY <3>5
    <3> HIDE DEF others
    <3>8. Cardinality(others) + 1 <= Cardinality(Returning')
      <4>1. Cardinality(others \cup {w}) = Cardinality(others) + 1
        BY <3>6, <3>7, FS_AddElement
      <4>2. Cardinality(others \cup {w}) <= Cardinality(Returning')
        BY <3>7, ReturningFinite, FS_Subset
      <4> QED BY <4>1, <4>2
    <3>9. Cover
      BY <3>2 DEF WakeInv, ReceiverNotForgotten, Cover, Returning
    <3> QED BY <1>u, <2>4, <3>6, <3>8, <3>9, ReturningFinite
            DEF Cover, ring, locks, Counted
  <2> QED BY <1>4, <2>3, <2>4 DEF TryPeek
<1>5. ASSUME NEW t \in Tasks, Reset(t) PROVE ReceiverNotForgotten' /\ PlacedInTime'
  BY <1>5, <1>t, EmptyCovers DEF Reset
<1>6. ASSUME NEW t \in Tasks, SuspendAll(t) PROVE ReceiverNotForgotten' /\ PlacedInTime'
  <2>1. \A u \in Returning : u \in Returning'
    BY <1>6 DEF SuspendAll, Goto, events, Returning, LookingAgain, WakeInv
  <2>2. ReceiverNotForgotten'
    BY <1>6, <1>t, <1>u, <2>1, QuietCovers DEF SuspendAll, ring, locks, events
  <2>3. PlacedInTime'
    BY <1>6 DEF SuspendAll, Goto, ring, locks, WakeInv, PlacedInTime
  <2> QED BY <2>2, <2>3
<1>7. ASSUME NEW t \in Tasks, LockQueue(t) PROVE ReceiverNotForgotten' /\ PlacedInTime'
  <2>1. \A u \in Returning : u \in Returning'
    BY <1>7 DEF LockQueue, Goto, events, Returning, LookingAgain, WakeInv
  <2>2. Counted(cTxLock)' = Counted(cTxLock)
    BY <1>7 DEF LockQueue, Counted, Unlocked, LockedUnmodified, WakeInv
  <2>3. ReceiverNotForgotten'
    BY <1>7, <1>t, <1>u, <2>1, <2>2, QuietCovers DEF LockQueue, ring, events
  <2>4. PlacedInTime'
    BY <1>7, <2>2 DEF LockQueue, Goto, ring, WakeInv, PlacedInTime
  <2> QED BY <2>3, <2>4
<1>8. ASSUME NEW t \in Tasks, CheckForTimeOut(t) PROVE ReceiverNotForgotten' /\ PlacedInTime'
  <2>0. \A u \in Tasks \ {t} : UNCHANGED <<pc[u], call[u]>>
    BY <1>8 DEF CheckForTimeOut, Goto, WakeInv
  <2>1. \A u \in Returning : u \in Returning'
    BY <1>8, <2>0 DEF CheckForTimeOut, events, Returning, LookingAgain
  <2>2. ReceiverNotForgotten'
    BY <1>8, <1>t, <1>u, <2>1, QuietCovers DEF CheckForTimeOut, ring, locks, events
  <2>3. pc'[t] # "place"
    BY <1>8 DEF CheckForTimeOut, Goto, WakeInv
  <2>4. PlacedInTime'
    BY <1>8, <2>0, <2>3 DEF CheckForTimeOut, ring, locks, WakeInv, PlacedInTime
  <2> QED BY <2>2, <2>4
<1>9. ASSUME NEW t \in Tasks, TestQueue(t) PROVE ReceiverNotForgotten' /\ PlacedInTime'
  <2>1. \A u \in Returning : u \in Returning'
    BY <1>9 DEF TestQueue, Goto, events, Returning, LookingAgain, WakeInv
  <2>2. ReceiverNotForgotten'
    BY <1>9, <1>t, <1>u, <2>1, QuietCovers DEF TestQueue, ring, locks, events
  <2>3. PlacedInTime'
    BY <1>9, <1>u DEF TestQueue, MustWait, Goto, ring, locks, WakeInv, PlacedInTime
  <2> QED BY <2>2, <2>3
<1>10. ASSUME NEW t \in Tasks, PlaceOnEventList(t)
       PROVE  ReceiverNotForgotten' /\ PlacedInTime'
  <2>1. \A u \in Returning : u \in Returning'
    BY <1>10 DEF PlaceOnEventList, Goto, Returning, LookingAgain, WakeInv
  <2>2. PlacedInTime'
    BY <1>10 DEF PlaceOnEventList, Goto, ring, locks, WakeInv, PlacedInTime
  <2>3. CASE call[t].op = "send"
    BY <1>10, <1>t, <1>u, <2>1, <2>2, <2>3, QuietCovers
       DEF PlaceOnEventList, ring, locks
  <2>4. CASE call[t].op # "send"
    <3>1. uxMessagesWaiting' <= Counted(cTxLock)'
      BY <1>10, <2>4 DEF PlaceOnEventList, WakeInv, PlacedInTime, ring, locks
    <3>2. Counted(cTxLock)' = Counted(cTxLock)
      BY <1>10 DEF PlaceOnEventList, locks
    <3> QED BY <1>t, <1>u, <2>2, <3>1, <3>2, ReturningFinite
            DEF ReceiverNotForgotten, Returning
  <2> QED BY <2>3, <2>4
<1>11. ASSUME NEW t \in Tasks, UnlockTx(t) PROVE ReceiverNotForgotten' /\ PlacedInTime'
  <2>1. PlacedInTime'
    <3>1. \A u \in Tasks : pc'[u] # "place"
      BY <1>11 DEF UnlockTx, Goto, WakeInv, Control, OneSuspender, Suspended
    <3> QED BY <3>1 DEF PlacedInTime
  <2> SUFFICES ASSUME xTasksWaitingToReceive' # {} PROVE Cover'
    BY <2>1 DEF ReceiverNotForgotten, Cover, Returning
  <2>2. PICK W \in SUBSET xTasksWaitingToReceive :
          /\ First(xTasksWaitingToReceive, Counted(cTxLock), W)
          /\ xTasksWaitingToReceive' = xTasksWaitingToReceive \ W
          /\ UNCHANGED xTasksWaitingToSend
    BY <1>11 DEF UnlockTx, WakeReceivers
  <2>3. xTasksWaitingToReceive \in SUBSET Tasks /\ xTasksWaitingToReceive # {}
    BY <2>2 DEF WakeInv
  <2>4. IsFiniteSet(W) /\ Cardinality(W) = Counted(cTxLock)
    BY <1>u, <2>2, <2>3, FirstLeavesSome
  <2>5. W \cap Returning = {} /\ Returning \cup W \in SUBSET Returning'
    BY <1>11, <2>2, <2>3
       DEF UnlockTx, Goto, WakeInv, Control, ListsConsistent, OffReadyList,
           Returning, LookingAgain
  <2>6. Cardinality(Returning) + Counted(cTxLock) <= Cardinality(Returning')
    <3>1. Cardinality(Returning \cup W) = Cardinality(Returning) + Cardinality(W)
      <4>1. Cardinality(Returning \cup W) =
              Cardinality(Returning) + Cardinality(W) - Cardinality(Returning \cap W)
        BY <2>4, ReturningFinite, FS_Union
      <4>2. Cardinality(Returning \cap W) = 0
        BY <2>5, FS_EmptySet
      <4> QED BY <1>u, <2>4, <4>1, <4>2, ReturningFinite
    <3> QED BY <2>4, <2>5, <3>1, ReturningFinite, FS_Subset
  <2>7. Cover
    BY <2>3 DEF WakeInv, ReceiverNotForgotten, Cover, Returning
  <2>8. Counted(cTxLock)' = 0
    BY <1>11 DEF UnlockTx, Counted, Unlocked, LockedUnmodified
  <2> QED BY <1>11, <1>u, <2>6, <2>7, <2>8, ReturningFinite DEF UnlockTx, Cover, ring
<1>12. ASSUME NEW t \in Tasks, UnlockRx(t) PROVE ReceiverNotForgotten' /\ PlacedInTime'
  <2>1. \A u \in Returning : u \in Returning'
    BY <1>12 DEF UnlockRx, WakeSenders, Goto, Returning, LookingAgain, WakeInv
  <2>2. ReceiverNotForgotten'
    BY <1>12, <1>t, <1>u, <2>1, QuietCovers
       DEF UnlockRx, WakeSenders, ring
  <2>3. PlacedInTime'
    BY <1>12 DEF UnlockRx, Goto, ring, WakeInv, PlacedInTime
  <2> QED BY <2>2, <2>3
<1>13. ASSUME NEW t \in Tasks, ResumeAll(t) PROVE ReceiverNotForgotten' /\ PlacedInTime'
  <2>0. /\ \A u \in Tasks \ {t} : UNCHANGED <<pc[u], call[u]>>
        /\ pc[t] = "resume" /\ pc'[t] # "place"
        /\ call[t].op \in {"receive", "peek"} =>
             pc'[t] \in {"recheck", "retry"} /\ call'[t] = call[t]
    BY <1>13 DEF ResumeAll, AfterResume, Return, Goto, WakeInv
  <2>1. /\ xTasksWaitingToReceive' \subseteq xTasksWaitingToReceive
        /\ xTasksWaitingToSend' \subseteq xTasksWaitingToSend
    BY <1>13 DEF ResumeAll, TickReaches
  <2>2. \A u \in Returning : u \in Returning'
    BY <2>0, <2>1 DEF Returning, LookingAgain
  <2>3. ReceiverNotForgotten'
    BY <1>13, <1>t, <1>u, <2>1, <2>2, QuietCovers DEF ResumeAll, ring, locks
  <2>4. PlacedInTime'
    BY <1>13, <2>0 DEF ResumeAll, ring, locks, WakeInv, PlacedInTime
  <2> QED BY <2>3, <2>4
<1>14. ASSUME NEW t \in Tasks, Recheck(t) PROVE ReceiverNotForgotten' /\ PlacedInTime'
  <2>1. CASE uxMessagesWaiting = 0
    BY <1>14, <1>t, <2>1, EmptyCovers DEF Recheck, ring
  <2>2. CASE uxMessagesWaiting # 0
    <3>1. \A u \in Returning : u \in Returning'
      BY <1>14, <2>2 DEF Recheck, Goto, events, Returning, LookingAgain, WakeInv
    <3>2. ReceiverNotForgotten'
      BY <1>14, <1>t, <1>u, <3>1, QuietCovers DEF Recheck, ring, locks, events
    <3>3. PlacedInTime'
      BY <1>14, <2>2 DEF Recheck, Goto, ring, locks, WakeInv, PlacedInTime
    <3> QED BY <3>2, <3>3
  <2> QED BY <2>1, <2>2
<1>15. ASSUME NEW t \in Tasks, AbortDelay(t) PROVE ReceiverNotForgotten' /\ PlacedInTime'
  <2>1. /\ xTasksWaitingToReceive' \subseteq xTasksWaitingToReceive
        /\ xTasksWaitingToSend' \subseteq xTasksWaitingToSend
    BY <1>15 DEF AbortDelay, events
  <2>2. \A u \in Returning : u \in Returning'
    BY <1>15, <2>1 DEF AbortDelay, Goto, Returning, LookingAgain, WakeInv
  <2>3. ReceiverNotForgotten'
    BY <1>15, <1>t, <1>u, <2>1, <2>2, QuietCovers DEF AbortDelay, ring, locks
  <2>4. PlacedInTime'
    BY <1>15 DEF AbortDelay, Goto, ring, locks, WakeInv, PlacedInTime
  <2> QED BY <2>3, <2>4
<1>16. ASSUME IncrementTick PROVE ReceiverNotForgotten' /\ PlacedInTime'
  <2>1. /\ xTasksWaitingToReceive' \subseteq xTasksWaitingToReceive
        /\ xTasksWaitingToSend' \subseteq xTasksWaitingToSend
    BY <1>16 DEF IncrementTick, TickReaches
  <2>2. \A u \in Returning : u \in Returning'
    BY <1>16, <2>1 DEF IncrementTick, local, Returning, LookingAgain
  <2>3. ReceiverNotForgotten'
    BY <1>16, <1>t, <1>u, <2>1, <2>2, QuietCovers DEF IncrementTick, ring, locks
  <2>4. PlacedInTime'
    BY <1>16 DEF IncrementTick, local, ring, locks, WakeInv, PlacedInTime
  <2> QED BY <2>3, <2>4
<1>17. ASSUME SendFromISR PROVE ReceiverNotForgotten' /\ PlacedInTime'
  <2>1. uxMessagesWaiting' <= uxMessagesWaiting + 1
    BY <1>17, <1>u DEF SendFromISR, CopyDataToQueue
  <2>2. \A u \in Returning : u \in Returning'
    BY <1>17 DEF SendFromISR, WakeReceivers, events, local, Returning, LookingAgain
  <2>3. CASE cTxLock = Unlocked
    <3>1. PlacedInTime'
      <4>1. \A u \in Tasks : pc'[u] # "place"
        BY <1>17, <2>3
           DEF SendFromISR, local, WakeInv, Control, LockedBySuspender,
               OneSuspender, Suspended
      <4> QED BY <4>1 DEF PlacedInTime
    <3>2. WakeReceivers(1) /\ UNCHANGED <<xTasksWaitingToSend, cTxLock>>
      BY <1>17, <2>3 DEF SendFromISR, WakeReceivers
    <3>3. \A u \in xTasksWaitingToReceive : UNCHANGED <<pc[u], call[u]>>
      BY <1>17 DEF SendFromISR, local
    <3> QED BY <1>t, <2>1, <2>2, <3>1, <3>2, <3>3, WakeOneCovers
  <2>4. CASE cTxLock # Unlocked
    <3>1. /\ cTxLock' = cTxLock + 1 /\ UNCHANGED <<events, local>>
          /\ cTxLock >= LockedUnmodified
      <4>1. cTxLock \in -128 .. 127 /\ cTxLock >= Unlocked
        BY DEF WakeInv, Control
      <4>2. Int8(cTxLock + 1) = cTxLock + 1
        BY <1>17, <4>1, Int8Next DEF SendFromISR
      <4> QED BY <1>17, <2>4, <4>1, <4>2
              DEF SendFromISR, Unlocked, LockedUnmodified
    <3>2. Counted(cTxLock)' = Counted(cTxLock) + 1
      BY <3>1 DEF Counted, LockedUnmodified, WakeInv
    <3>3. PlacedInTime'
      BY <1>t, <1>u, <2>1, <3>1, <3>2 DEF local, WakeInv, PlacedInTime
    <3>4. Cardinality(Returning') >= Cardinality(Returning)
      BY <2>2, ReturningFinite, FS_Subset
    <3>5. ReceiverNotForgotten'
      <4>1. SUFFICES ASSUME xTasksWaitingToReceive' # {} PROVE Cover'
        BY DEF ReceiverNotForgotten, Cover, Returning
      <4>2. Cover
        BY <3>1, <4>1 DEF WakeInv, ReceiverNotForgotten, Cover, Returning, events
      <4>3. /\ uxMessagesWaiting \in Int /\ uxMessagesWaiting' \in Int
            /\ Counted(cTxLock) \in Int /\ Counted(cTxLock)' \in Int
            /\ Cardinality(Returning) \in Int /\ Cardinality(Returning') \in Int
        BY <1>t, CoverNumbers DEF WakeInv
      <4>4. uxMessagesWaiting <= Cardinality(Returning) + Counted(cTxLock)
        BY <4>2 DEF Cover
      <4>5. uxMessagesWaiting' <= Cardinality(Returning') + Counted(cTxLock)'
        BY <2>1, <3>2, <3>4, <4>3, <4>4
      <4> QED BY <4>5 DEF Cover
    <3> QED BY <3>3, <3>5
  <2> QED BY <2>3, <2>4
<1>18. ASSUME ReceiveFromISR PROVE ReceiverNotForgotten' /\ PlacedInTime'
  <2>1. \A u \in Returning : u \in Returning'
    BY <1>18 DEF ReceiveFromISR, WakeSenders, events, local, Returning, LookingAgain
  <2>2. xTasksWaitingToReceive' = xTasksWaitingToReceive
    BY <1>18 DEF ReceiveFromISR, WakeSenders, events
  <2>3. ReceiverNotForgotten'
    BY <1>18, <1>t, <1>u, <2>1, <2>2, QuietCovers DEF ReceiveFromISR, RemoveItem
  <2>4. PlacedInTime'
    BY <1>18, <1>t, <1>u DEF ReceiveFromISR, RemoveItem, local, WakeInv, PlacedInTime
  <2> QED BY <2>3, <2>4
<1>19. ASSUME UNCHANGED vars PROVE ReceiverNotForgotten' /\ PlacedInTime'
  <2>1. \A u \in Returning : u \in Returning'
    BY <1>19 DEF vars, events, local, Returning, LookingAgain
  <2>2. ReceiverNotForgotten'
    BY <1>19, <1>t, <1>u, <2>1, QuietCovers DEF vars, ring, locks, events
  <2>3. PlacedInTime'
    BY <1>19 DEF vars, ring, locks, local, WakeInv, PlacedInTime
  <2> QED BY <2>2, <2>3
<1> QED
  BY <1>1, <1>2, <1>3, <1>4, <1>5, <1>6, <1>7, <1>8, <1>9, <1>10, <1>11, <1>12,
     <1>13, <1>14, <1>15, <1>16, <1>17, <1>18, <1>19 DEF Next, Proceed, WakeInv

(* No lost wake-up, for any number of tasks and any queue length, as long  *)
(* as interrupts do not drive a lock count beyond what an int8_t holds.    *)
THEOREM WakeUpsNotLost ==
  ASSUME MaxLock <= 127
  PROVE  Spec => [](LockedBySuspender /\ ReceiverNotForgotten)
<1>1. WakeInv /\ [Next]_vars => WakeInv'
  BY WakeNext
<1>2. WakeInv => LockedBySuspender /\ ReceiverNotForgotten
  BY DEF WakeInv, Control
<1> QED BY <1>1, <1>2, WakeInit, PTL DEF Spec

(***************************************************************************)
(* The ring is a bounded queue.                                            *)
(***************************************************************************)

(* A position of at most two turns, and the slot it is.                    *)
Slot(n) == IF n < uxLength THEN n ELSE n - uxLength

(* The next item is written behind the last one.                           *)
PositionsAgree == pcWriteTo = Slot(Forward(pcReadFrom) + uxMessagesWaiting)

LEMMA SlotModulo ==
  ASSUME NEW n \in 0 .. 2 * uxLength - 1
  PROVE  n % uxLength = Slot(n)
<1>1. /\ n % uxLength \in 0 .. uxLength - 1
      /\ n = uxLength * (n \div uxLength) + (n % uxLength)
      /\ n \div uxLength \in Int
  BY LengthAssumption
<1>2. n \div uxLength \in {0, 1}
  BY <1>1, LengthAssumption
<1> QED BY <1>1, <1>2, LengthAssumption DEF Slot

(* What a ring with these slots, read position and count holds.            *)
Held(slots, r, n) == [i \in 1 .. n |-> slots[Slot(r + i)]]

LEMMA HeldSeq ==
  ASSUME NEW T, NEW slots \in [0 .. uxLength - 1 -> T],
         NEW r \in 0 .. uxLength - 1, NEW n \in 0 .. uxLength
  PROVE  /\ Held(slots, r, n) \in Seq(T)
         /\ Len(Held(slots, r, n)) = n
         /\ \A i \in 1 .. n : Held(slots, r, n)[i] = slots[Slot(r + i)]
<1>1. n \in Nat
  BY LengthAssumption
<1>2. \A i \in 1 .. n : Slot(r + i) \in 0 .. uxLength - 1
  BY LengthAssumption DEF Slot
<1>3. Held(slots, r, n) \in [1 .. n -> T]
  BY <1>2 DEF Held
<1> QED BY <1>1, <1>3 DEF Held

LEMMA ContentsHeld ==
  ASSUME NEW slots, NEW r \in 0 .. uxLength - 1, NEW n \in 0 .. uxLength
  PROVE  [i \in 1 .. n |-> slots[(r + i) % uxLength]] = Held(slots, r, n)
<1>1. ASSUME NEW i \in 1 .. n PROVE (r + i) % uxLength = Slot(r + i)
  <2>1. r + i \in 0 .. 2 * uxLength - 1
    BY LengthAssumption
  <2> DEFINE m == r + i
  <2>2. m \in 0 .. 2 * uxLength - 1
    BY <2>1
  <2> HIDE DEF m
  <2>3. m % uxLength = Slot(m)
    BY <2>2, SlotModulo
  <2> QED BY <2>3 DEF m
<1> QED BY <1>1 DEF Held


LEMMA AgreementInit == Init => PositionsAgree
  BY LengthAssumption DEF Init, PositionsAgree, Slot, Forward

LEMMA ContentsAre ==
  ASSUME RingTypeOK
  PROVE  /\ Contents \in Seq(Items \cup {NoItem})
         /\ Len(Contents) = uxMessagesWaiting
         /\ \A i \in 1 .. uxMessagesWaiting : Contents[i] = storage[Slot(pcReadFrom + i)]
<1> DEFINE C == Held(storage, pcReadFrom, uxMessagesWaiting)
<1>1. Contents = C
  BY ContentsHeld DEF RingTypeOK, Contents
<1>2. C \in Seq(Items \cup {NoItem})
  BY HeldSeq DEF RingTypeOK
<1>3. Len(C) = uxMessagesWaiting
  BY HeldSeq DEF RingTypeOK
<1>4. \A i \in 1 .. uxMessagesWaiting : C[i] = storage[Slot(pcReadFrom + i)]
  BY DEF Held
<1> QED BY <1>1, <1>2, <1>3, <1>4

LEMMA ContentsBecome ==
  ASSUME RingTypeOK'
  PROVE  /\ Contents' \in Seq(Items \cup {NoItem})
         /\ Len(Contents') = uxMessagesWaiting'
         /\ \A i \in 1 .. uxMessagesWaiting' : Contents'[i] = storage'[Slot(pcReadFrom' + i)]
<1> DEFINE C == Held(storage', pcReadFrom', uxMessagesWaiting')
<1>1. Contents' = C
  BY ContentsHeld DEF RingTypeOK, Contents
<1>2. C \in Seq(Items \cup {NoItem})
  BY HeldSeq DEF RingTypeOK
<1>3. Len(C) = uxMessagesWaiting'
  BY HeldSeq DEF RingTypeOK
<1>4. \A i \in 1 .. uxMessagesWaiting' : C[i] = storage'[Slot(pcReadFrom' + i)]
  BY DEF Held
<1> QED BY <1>1, <1>2, <1>3, <1>4

(* prvCopyDataToQueue extends the contents at the end its position names.  *)
LEMMA CopyRefines ==
  ASSUME RingTypeOK, RingTypeOK', PositionsAgree,
         NEW x \in Items, NEW pos \in Positions,
         HasRoomFor(pos), pos = "overwrite" => uxLength = 1,
         CopyDataToQueue(x, pos)
  PROVE  /\ PositionsAgree'
         /\ pos = "back" => /\ uxMessagesWaiting < uxLength
                            /\ Contents' = Append(Contents, x)
         /\ pos = "front" => /\ uxMessagesWaiting < uxLength
                             /\ Contents' = <<x>> \o Contents
         /\ pos = "overwrite" => uxLength = 1 /\ Contents' = <<x>>
<1> DEFINE L == uxLength
           n == uxMessagesWaiting
           r == pcReadFrom
           T == Items \cup {NoItem}
<1>t. /\ L \in Nat /\ L > 0 /\ n \in 0 .. L /\ r \in 0 .. L - 1
      /\ pcWriteTo \in 0 .. L - 1 /\ storage \in [0 .. L - 1 -> T]
      /\ n' \in 0 .. L /\ r' \in 0 .. L - 1 /\ storage' \in [0 .. L - 1 -> T]
  BY LengthAssumption DEF RingTypeOK
<1>c. /\ Contents \in Seq(T) /\ Len(Contents) = n
      /\ \A i \in 1 .. n : Contents[i] = storage[Slot(r + i)]
  BY ContentsAre
<1>d. /\ Contents' \in Seq(T) /\ Len(Contents') = n'
      /\ \A i \in 1 .. n' : Contents'[i] = storage'[Slot(r' + i)]
  BY ContentsBecome
<1>1. CASE pos = "back"
  <2>1. /\ storage' = [storage EXCEPT ![pcWriteTo] = x] /\ r' = r
        /\ pcWriteTo' = Forward(pcWriteTo) /\ n' = n + 1 /\ n < L
    BY <1>1, <1>t DEF CopyDataToQueue, HasRoomFor
  <2>2. PositionsAgree'
    BY <2>1, <1>t DEF PositionsAgree, Slot, Forward
  <2>3. Slot(r + n + 1) = pcWriteTo
    BY <2>1, <1>t DEF PositionsAgree, Slot, Forward
  <2>4. ASSUME NEW i \in 1 .. n PROVE Contents'[i] = Contents[i]
    <3>1. Slot(r + i) # pcWriteTo /\ Slot(r + i) \in 0 .. L - 1
      BY <2>1, <1>t DEF PositionsAgree, Slot, Forward
    <3> QED BY <3>1, <2>1, <1>t, <1>c, <1>d
  <2>5. Contents'[n + 1] = x
    BY <2>1, <2>3, <1>t, <1>d
  <2>6. Contents' = Append(Contents, x)
    BY <2>1, <2>4, <2>5, <1>t, <1>c, <1>d
  <2> QED BY <1>1, <2>1, <2>2, <2>6
<1>2. CASE pos = "front"
  <2>1. /\ storage' = [storage EXCEPT ![r] = x] /\ r' = Backward(r)
        /\ pcWriteTo' = pcWriteTo /\ n' = n + 1 /\ n < L
    BY <1>2, <1>t DEF CopyDataToQueue, HasRoomFor
  <2>2. PositionsAgree'
    BY <2>1, <1>t DEF PositionsAgree, Slot, Forward, Backward
  <2>3. Slot(r' + 1) = r
    BY <2>1, <1>t DEF Slot, Backward
  <2>4. ASSUME NEW i \in 1 .. n PROVE Contents'[i + 1] = Contents[i]
    <3>1. Slot(r' + (i + 1)) = Slot(r + i) /\ Slot(r + i) # r /\ Slot(r + i) \in 0 .. L - 1
      BY <2>1, <1>t DEF Slot, Backward
    <3> QED BY <3>1, <2>1, <1>t, <1>c, <1>d
  <2>5. Contents'[1] = x
    BY <2>1, <2>3, <1>t, <1>d
  <2>6. Contents' = <<x>> \o Contents
    BY <2>1, <2>4, <2>5, <1>t, <1>c, <1>d
  <2> QED BY <1>2, <2>1, <2>2, <2>6
<1>3. CASE pos = "overwrite"
  <2>1. /\ storage' = [storage EXCEPT ![r] = x] /\ r' = Backward(r)
        /\ pcWriteTo' = pcWriteTo /\ L = 1 /\ n' = 1
    BY <1>3, <1>t DEF CopyDataToQueue, HasRoomFor
  <2>2. PositionsAgree'
    BY <2>1, <1>t DEF PositionsAgree, Slot, Forward, Backward
  <2>3. Slot(r' + 1) = r
    BY <2>1, <1>t DEF Slot, Backward
  <2>4. Contents' = <<x>>
    BY <2>1, <2>3, <1>t, <1>d
  <2> QED BY <1>3, <2>1, <2>2, <2>4
<1> QED BY <1>1, <1>2, <1>3 DEF Positions

(* prvCopyDataFromQueue takes the first item, which a peek looks at.       *)
LEMMA NextIsHead ==
  ASSUME RingTypeOK, uxMessagesWaiting > 0
  PROVE  Contents # <<>> /\ NextItem = Head(Contents)
<1>1. /\ Contents \in Seq(Items \cup {NoItem}) /\ Len(Contents) = uxMessagesWaiting
      /\ \A i \in 1 .. uxMessagesWaiting : Contents[i] = storage[Slot(pcReadFrom + i)]
  BY ContentsAre
<1>2. uxMessagesWaiting \in Nat
  BY LengthAssumption DEF RingTypeOK
<1>3. Contents[1] = storage[Slot(pcReadFrom + 1)]
  BY <1>1, <1>2
<1>4. Slot(pcReadFrom + 1) = Forward(pcReadFrom)
  BY LengthAssumption DEF RingTypeOK, Slot, Forward
<1> QED BY <1>1, <1>2, <1>3, <1>4 DEF NextItem

LEMMA RemoveRefines ==
  ASSUME RingTypeOK, RingTypeOK', PositionsAgree, uxMessagesWaiting > 0, RemoveItem
  PROVE  PositionsAgree' /\ Contents' = Tail(Contents)
<1> DEFINE L == uxLength
           n == uxMessagesWaiting
           r == pcReadFrom
           T == Items \cup {NoItem}
<1>t. /\ L \in Nat /\ L > 0 /\ n \in 1 .. L /\ r \in 0 .. L - 1
      /\ pcWriteTo \in 0 .. L - 1 /\ storage \in [0 .. L - 1 -> T]
  BY LengthAssumption DEF RingTypeOK
<1>c. /\ Contents \in Seq(T) /\ Len(Contents) = n
      /\ \A i \in 1 .. n : Contents[i] = storage[Slot(r + i)]
  BY ContentsAre
<1>d. /\ Contents' \in Seq(T) /\ Len(Contents') = n'
      /\ \A i \in 1 .. n' : Contents'[i] = storage'[Slot(r' + i)]
  BY ContentsBecome
<1>1. /\ storage' = storage /\ pcWriteTo' = pcWriteTo
      /\ r' = Forward(r) /\ n' = n - 1
  BY DEF RemoveItem
<1>2. PositionsAgree'
  BY <1>1, <1>t DEF PositionsAgree, Slot, Forward
<1>3. ASSUME NEW i \in 1 .. n' PROVE Contents'[i] = Contents[i + 1]
  <2>1. Slot(r' + i) = Slot(r + (i + 1)) /\ i + 1 \in 1 .. n
    BY <1>1, <1>t DEF Slot, Forward
  <2> QED BY <2>1, <1>1, <1>c, <1>d
<1>4. Contents' = Tail(Contents)
  BY <1>1, <1>3, <1>c, <1>d, <1>t
<1> QED BY <1>2, <1>4

(* A step that touches neither the ring nor a buffer.                      *)
LEMMA QuietRefines ==
  ASSUME PositionsAgree, UNCHANGED <<ring, buffer>>
  PROVE  PositionsAgree' /\ UNCHANGED Abstract!vars
  BY DEF PositionsAgree, ring, Contents, Abstract!vars

LEMMA GiveUpRefines ==
  ASSUME PositionsAgree, NEW t \in Tasks, GiveUpOrBlock(t)
  PROVE  PositionsAgree' /\ UNCHANGED Abstract!vars
  BY QuietRefines DEF GiveUpOrBlock

LEMMA CopyStep ==
  ASSUME RingTypeOK, RingTypeOK', PositionsAgree,
         NEW x \in Items, NEW pos \in Positions,
         HasRoomFor(pos), pos = "overwrite" => uxLength = 1,
         CopyDataToQueue(x, pos), UNCHANGED buffer
  PROVE  PositionsAgree' /\ Abstract!Next
<1>1. /\ PositionsAgree'
      /\ pos = "back" => /\ uxMessagesWaiting < uxLength
                         /\ Contents' = Append(Contents, x)
      /\ pos = "front" => /\ uxMessagesWaiting < uxLength
                          /\ Contents' = <<x>> \o Contents
      /\ pos = "overwrite" => uxLength = 1 /\ Contents' = <<x>>
  BY CopyRefines
<1>2. Len(Contents) = uxMessagesWaiting
  BY ContentsAre
<1>3. CASE pos = "back"
  BY <1>1, <1>2, <1>3 DEF Abstract!Next, Abstract!PutBack
<1>4. CASE pos = "front"
  BY <1>1, <1>2, <1>4 DEF Abstract!Next, Abstract!PutFront
<1>5. CASE pos = "overwrite"
  BY <1>1, <1>5 DEF Abstract!Next, Abstract!Overwrite
<1> QED BY <1>3, <1>4, <1>5, <1>1 DEF Positions

LEMMA RefinementInit == Init => Abstract!Init
<1> SUFFICES ASSUME Init PROVE Abstract!Init
  OBVIOUS
<1>1. RingTypeOK
  BY TypeInit DEF TypeInv, TypeOK, RingTypeOK
<1>2. Contents \in Seq(Items \cup {NoItem}) /\ Len(Contents) = 0
  BY <1>1, ContentsAre DEF Init
<1>3. Contents = <<>>
  BY <1>2
<1> QED BY <1>3 DEF Init, Abstract!Init

LEMMA RefinementNext ==
  ASSUME TypeInv, TypeInv', PositionsAgree, [Next]_vars
  PROVE  PositionsAgree' /\ [Abstract!Next]_(Abstract!vars)
<1>r. RingTypeOK /\ RingTypeOK'
  BY DEF TypeInv, TypeOK, RingTypeOK
<1>1. ASSUME NEW t \in Tasks, TrySend(t)
      PROVE  PositionsAgree' /\ [Abstract!Next]_(Abstract!vars)
  <2>1. CASE /\ HasRoomFor(call[t].pos)
             /\ CopyDataToQueue(call[t].item, call[t].pos)
             /\ UNCHANGED buffer
    <3>1. /\ call[t].item \in Items /\ call[t].pos \in Positions
          /\ call[t].pos = "overwrite" => uxLength = 1
      BY <1>1 DEF TrySend, AtHead, TypeInv, CallOK, TypeOK, Call
    <3> QED BY <1>r, <2>1, <3>1, CopyStep
  <2>2. CASE GiveUpOrBlock(t)
    BY <2>2, GiveUpRefines
  <2> QED BY <1>1, <2>1, <2>2 DEF TrySend
<1>2. ASSUME NEW t \in Tasks, TryReceive(t)
      PROVE  PositionsAgree' /\ [Abstract!Next]_(Abstract!vars)
  <2>1. CASE uxMessagesWaiting > 0 /\ RemoveItem /\ buffer' = [buffer EXCEPT ![t] = NextItem]
    <3>1. PositionsAgree' /\ Contents' = Tail(Contents)
      BY <1>r, <2>1, RemoveRefines
    <3>2. Contents # <<>> /\ NextItem = Head(Contents)
      BY <1>r, <2>1, NextIsHead
    <3>3. Abstract!Take
      BY <2>1, <3>1, <3>2 DEF Abstract!Take
    <3> QED BY <3>1, <3>3 DEF Abstract!Next
  <2>2. CASE GiveUpOrBlock(t)
    BY <2>2, GiveUpRefines
  <2> QED BY <1>2, <2>1, <2>2 DEF TryReceive
<1>3. ASSUME NEW t \in Tasks, TryPeek(t)
      PROVE  PositionsAgree' /\ [Abstract!Next]_(Abstract!vars)
  <2>1. CASE /\ uxMessagesWaiting > 0 /\ UNCHANGED ring
             /\ buffer' = [buffer EXCEPT ![t] = NextItem]
    <3>1. Contents # <<>> /\ NextItem = Head(Contents)
      BY <1>r, <2>1, NextIsHead
    <3>2. PositionsAgree' /\ Contents' = Contents
      BY <2>1 DEF PositionsAgree, ring, Contents
    <3>3. Abstract!Peek
      BY <2>1, <3>1, <3>2 DEF Abstract!Peek
    <3> QED BY <3>2, <3>3 DEF Abstract!Next
  <2>2. CASE GiveUpOrBlock(t)
    BY <2>2, GiveUpRefines
  <2> QED BY <1>3, <2>1, <2>2 DEF TryPeek
<1>4. ASSUME NEW t \in Tasks, Reset(t)
      PROVE  PositionsAgree' /\ [Abstract!Next]_(Abstract!vars)
  <2>1. PositionsAgree'
    BY <1>4, LengthAssumption DEF Reset, PositionsAgree, Slot, Forward
  <2>2. Contents' \in Seq(Items \cup {NoItem}) /\ Len(Contents') = 0
    BY <1>4, <1>r, ContentsBecome DEF Reset
  <2>3. Contents' = <<>>
    BY <2>2
  <2> QED BY <1>4, <2>1, <2>3 DEF Reset, Abstract!Next, Abstract!Reset
<1>5. CASE SendFromISR
  <2>1. PICK x \in Items, pos \in IsrSend : HasRoomFor(pos) /\ CopyDataToQueue(x, pos)
    BY <1>5 DEF SendFromISR
  <2>2. pos \in Positions /\ (pos = "overwrite" => uxLength = 1) /\ UNCHANGED buffer
    BY <1>5, IsrAssumption DEF SendFromISR, local
  <2> QED BY <1>r, <2>1, <2>2, CopyStep
<1>6. CASE ReceiveFromISR
  <2>1. uxMessagesWaiting > 0 /\ RemoveItem /\ UNCHANGED buffer
    BY <1>6 DEF ReceiveFromISR, local
  <2>2. PositionsAgree' /\ Contents' = Tail(Contents)
    BY <1>r, <2>1, RemoveRefines
  <2>3. Contents # <<>>
    BY <1>r, <2>1, NextIsHead
  <2> QED BY <2>1, <2>2, <2>3 DEF Abstract!Next, Abstract!TakeFromISR
<1>7. ASSUME UNCHANGED <<ring, buffer>>
      PROVE  PositionsAgree' /\ [Abstract!Next]_(Abstract!vars)
  BY <1>7, QuietRefines
<1>8. ASSUME NEW t \in Tasks,
             \/ Start(t) \/ SuspendAll(t) \/ LockQueue(t) \/ CheckForTimeOut(t)
             \/ TestQueue(t) \/ PlaceOnEventList(t) \/ UnlockTx(t) \/ UnlockRx(t)
             \/ ResumeAll(t) \/ Recheck(t) \/ AbortDelay(t)
      PROVE  UNCHANGED <<ring, buffer>>
  BY <1>8 DEF Start, SuspendAll, LockQueue, CheckForTimeOut, TestQueue, PlaceOnEventList,
              UnlockTx, UnlockRx, ResumeAll, Recheck, AbortDelay
<1>9. ASSUME IncrementTick \/ UNCHANGED vars
      PROVE  UNCHANGED <<ring, buffer>>
  BY <1>9 DEF IncrementTick, local, vars
<1> QED BY <1>1, <1>2, <1>3, <1>4, <1>5, <1>6, <1>7, <1>8, <1>9 DEF Next, Proceed

(* xQueueGenericSend, xQueueReceive, xQueuePeek, xQueueGenericReset and    *)
(* the FromISR functions together behave as one bounded queue: each call   *)
(* that succeeds adds, takes, reads or replaces what the promise says, in  *)
(* one step, and no other step of the kernel changes the items or what was *)
(* delivered.  For every queue length and any tasks and interrupts.        *)
THEOREM ImplementsBoundedQueue == Spec => IsBoundedQueue
<1>1. Init => TypeInv /\ PositionsAgree
  BY TypeInit, AgreementInit
<1>2. TypeInv /\ PositionsAgree /\ [Next]_vars => TypeInv' /\ PositionsAgree'
  BY TypeNext, RefinementNext
<1>3. TypeInv /\ TypeInv' /\ PositionsAgree /\ [Next]_vars => [Abstract!Next]_(Abstract!vars)
  BY RefinementNext
<1> QED BY <1>1, <1>2, <1>3, RefinementInit, PTL DEF Spec, IsBoundedQueue, Abstract!Spec

(***************************************************************************)
(* The sending side.                                                       *)
(***************************************************************************)

(* The senders that will look at the queue again, as long as one sleeps.   *)
Retrying == {t \in LookingAgain({"send"}) : ~timedOut[t]}

Free == uxLength - uxMessagesWaiting

SendersCovered == Free <= Cardinality(Retrying) + Counted(cRxLock)

(* A sender that saw the queue full under the lock knows of every slot     *)
(* that was freed since.                                                   *)
SenderPlacedInTime ==
  \A t \in Tasks : pc[t] = "place" /\ call[t].op = "send" => Free <= Counted(cRxLock)

NoReset == \A t \in Tasks : call[t].op # "reset"

SendInv == /\ TypeInv
           /\ Control
           /\ NoReset
           /\ SenderNotForgotten
           /\ SenderPlacedInTime

LEMMA SendInit == Init => SendInv
  BY TypeInit, ControlInit
     DEF Init, SendInv, SenderNotForgotten, SenderPlacedInTime, NoReset, NoCall

LEMMA RetryingFinite ==
  /\ IsFiniteSet(Retrying) /\ IsFiniteSet(Retrying')
  /\ Cardinality(Retrying) \in Nat /\ Cardinality(Retrying') \in Nat
<1>1. Retrying \in SUBSET Tasks /\ Retrying' \in SUBSET Tasks
  BY DEF Retrying, LookingAgain
<1> QED BY <1>1, TasksAssumption, FS_Subset, FS_CardinalityType

LEMMA FreeType ==
  /\ TypeInv => Free \in Nat /\ Counted(cRxLock) \in Nat
  /\ TypeInv' => Free' \in Nat /\ Counted(cRxLock)' \in Nat
<1>1. ASSUME NEW n \in 0 .. uxLength PROVE uxLength - n \in Nat
  BY LengthAssumption
<1>2. ASSUME NEW n \in -128 .. 127 PROVE Counted(n) \in Nat
  BY DEF Counted, LockedUnmodified
<1> QED BY <1>1, <1>2 DEF TypeInv, TypeOK, Free

(* Nobody stops looking and no slot is freed that is not counted.          *)
LEMMA SendersStayCovered ==
  ASSUME SendInv, TypeInv', xTasksWaitingToSend' \subseteq xTasksWaitingToSend,
         Retrying \subseteq Retrying', Free' <= Free,
         Counted(cRxLock)' >= Counted(cRxLock)
  PROVE  SenderNotForgotten'
<1> SUFFICES ASSUME xTasksWaitingToSend' # {} PROVE SendersCovered'
  BY DEF SenderNotForgotten, SendersCovered, Free, Retrying
<1>1. SendersCovered
  BY DEF SendInv, SenderNotForgotten, SendersCovered, Free, Retrying
<1>2. Cardinality(Retrying) <= Cardinality(Retrying')
  BY RetryingFinite, FS_Subset
<1> QED BY <1>1, <1>2, RetryingFinite, FreeType DEF SendersCovered, SendInv

(* A full queue has no sender to forget.                                   *)
LEMMA FullCovers ==
  ASSUME TypeInv', Free' <= 0
  PROVE  SenderNotForgotten' /\ SenderPlacedInTime'
  BY RetryingFinite, FreeType
     DEF SenderNotForgotten, SenderPlacedInTime, Retrying, Free

(* A step that wakes one sender, when there is one, and frees one slot.    *)
LEMMA WakeSenderCovers ==
  ASSUME SendInv, TypeInv', WakeSenders(1), Free' <= Free + 1,
         UNCHANGED <<cRxLock, timedOut>>, Retrying \subseteq Retrying',
         \A u \in xTasksWaitingToSend : UNCHANGED <<pc[u], call[u]>>
  PROVE  SenderNotForgotten'
<1> SUFFICES ASSUME xTasksWaitingToSend' # {} PROVE SendersCovered'
  BY DEF SenderNotForgotten, SendersCovered, Free, Retrying
<1>1. PICK W \in SUBSET xTasksWaitingToSend :
        /\ First(xTasksWaitingToSend, 1, W)
        /\ xTasksWaitingToSend' = xTasksWaitingToSend \ W
        /\ UNCHANGED xTasksWaitingToReceive
  BY DEF WakeSenders
<1>2. xTasksWaitingToSend \in SUBSET Tasks /\ xTasksWaitingToSend # {}
  BY <1>1 DEF SendInv, TypeInv, TypeOK
<1>3. PICK w \in xTasksWaitingToSend : W = {w}
  BY <1>1, <1>2, FirstOfMany
<1>4. w \in Retrying' \ Retrying
  <2>1. /\ call[w].op = "send" /\ ~timedOut[w] /\ w \notin xTasksWaitingToReceive
        /\ pc[w] \in {"unlockTx", "unlockRx", "resume", "retry"}
    BY <1>2 DEF SendInv, Control, ListsConsistent, OffReadyList
  <2> QED BY <1>1, <1>2, <1>3, <2>1 DEF Retrying, LookingAgain
<1>5. SendersCovered
  BY <1>2 DEF SendInv, SenderNotForgotten, SendersCovered, Free, Retrying
<1>6. /\ Cardinality(Retrying \cup {w}) = Cardinality(Retrying) + 1
      /\ Cardinality(Retrying \cup {w}) <= Cardinality(Retrying')
  BY <1>4, RetryingFinite, FS_AddElement, FS_Subset
<1>7. Counted(cRxLock)' = Counted(cRxLock)
  OBVIOUS
<1> QED BY <1>5, <1>6, <1>7, RetryingFinite, FreeType DEF SendersCovered, SendInv

(* A sender that looked fills a slot.                                      *)
LEMMA FillingCovers ==
  ASSUME SendInv, TypeInv', NEW t, Retrying \ {t} \subseteq Retrying',
         xTasksWaitingToSend' \subseteq xTasksWaitingToSend,
         Free' = Free - 1, Counted(cRxLock)' = Counted(cRxLock)
  PROVE  SenderNotForgotten'
<1> SUFFICES ASSUME xTasksWaitingToSend' # {} PROVE SendersCovered'
  BY DEF SenderNotForgotten, SendersCovered, Free, Retrying
<1>1. SendersCovered
  BY DEF SendInv, SenderNotForgotten, SendersCovered, Free, Retrying
<1>2. /\ Cardinality(Retrying \ {t}) >= Cardinality(Retrying) - 1
      /\ Cardinality(Retrying \ {t}) \in Nat
      /\ Cardinality(Retrying \ {t}) <= Cardinality(Retrying')
  <2>1. IsFiniteSet(Retrying \ {t})
    BY RetryingFinite, FS_RemoveElement
  <2> QED BY <2>1, RetryingFinite, FS_RemoveElement, FS_Subset, FS_CardinalityType
<1> QED BY <1>1, <1>2, RetryingFinite, FreeType DEF SendersCovered, SendInv

LEMMA SendNext ==
  ASSUME MaxLock <= 127, \A t \in Tasks : \A c \in Calls[t] : c.op # "reset",
         SendInv, [Next]_vars
  PROVE  SendInv'
<1>t. TypeInv'
  BY TypeNext DEF SendInv
<1>c. Control'
  BY ControlNext DEF SendInv
<1>n. NoReset'
  <2>1. ASSUME NEW t \in Tasks, Start(t) PROVE NoReset'
    BY <2>1 DEF Start, SendInv, NoReset, TypeInv, TypeOK
  <2>2. ASSUME NEW t \in Tasks, CheckForTimeOut(t) PROVE NoReset'
    <3>1. \A u \in Tasks : call'[u].op = call[u].op
      <4>1. call' = call \/ call' = [call EXCEPT ![t].ticks = "zero"]
        BY <2>2 DEF CheckForTimeOut
      <4>2. call \in [Tasks -> Call]
        BY DEF SendInv, TypeInv, TypeOK
      <4>3. [call[t] EXCEPT !.ticks = "zero"].op = call[t].op
        BY <4>2, OutOfTicksType
      <4> QED BY <4>1, <4>2, <4>3
    <3> QED BY <3>1 DEF SendInv, NoReset
  <2>3. ASSUME NEW t \in Tasks, UNCHANGED call \/ call' = [call EXCEPT ![t] = NoCall]
        PROVE  NoReset'
    <3>1. call \in [Tasks -> Call]
      BY DEF SendInv, TypeInv, TypeOK
    <3>2. NoCall.op # "reset"
      BY DEF NoCall
    <3>3. \A u \in Tasks : call'[u] = call[u] \/ call'[u] = NoCall
      BY <2>3, <3>1
    <3> QED BY <3>2, <3>3 DEF SendInv, NoReset
  <2>4. ASSUME NEW t \in Tasks, Proceed(t), ~CheckForTimeOut(t)
        PROVE  UNCHANGED call \/ call' = [call EXCEPT ![t] = NoCall]
    <3>1. ASSUME TrySend(t) \/ TryReceive(t) \/ TryPeek(t) \/ Reset(t) \/ Recheck(t)
          PROVE  UNCHANGED call \/ call' = [call EXCEPT ![t] = NoCall]
      BY <3>1 DEF TrySend, TryReceive, TryPeek, Reset, Recheck, GiveUpOrBlock, Return
    <3>2. ASSUME \/ SuspendAll(t) \/ LockQueue(t) \/ TestQueue(t) \/ PlaceOnEventList(t)
                 \/ UnlockTx(t) \/ UnlockRx(t) \/ AbortDelay(t)
          PROVE  UNCHANGED call
      BY <3>2 DEF SuspendAll, LockQueue, TestQueue, PlaceOnEventList, UnlockTx, UnlockRx,
                  AbortDelay
    <3>3. ASSUME ResumeAll(t)
          PROVE  UNCHANGED call \/ call' = [call EXCEPT ![t] = NoCall]
      BY <3>3 DEF ResumeAll, AfterResume, Return
    <3> QED BY <2>4, <3>1, <3>2, <3>3 DEF Proceed
  <2>5. CASE IncrementTick \/ SendFromISR \/ ReceiveFromISR \/ UNCHANGED vars
    BY <2>5 DEF IncrementTick, SendFromISR, ReceiveFromISR, vars, local, SendInv, NoReset
  <2> QED BY <2>1, <2>2, <2>3, <2>4, <2>5 DEF Next
<1> SUFFICES SenderNotForgotten' /\ SenderPlacedInTime'
  BY <1>t, <1>c, <1>n DEF SendInv
<1>f. Free \in Nat /\ Counted(cRxLock) \in Nat /\ Free' \in Nat /\ Counted(cRxLock)' \in Nat
  BY <1>t, FreeType DEF SendInv
<1>y. uxMessagesWaiting \in Nat /\ uxLength \in Nat /\ uxMessagesWaiting <= uxLength
      /\ uxMessagesWaiting' \in Nat
  BY <1>t, LengthAssumption DEF SendInv, TypeInv, TypeOK
<1>p. suspender = NoTask => \A u \in Tasks : pc[u] # "place"
  BY NoTaskAssumption DEF SendInv, Control, OneSuspender, Suspended
(* A step after which the free slots and the count are as they were, which *)
(* nobody enters the label "place" or the event list by.                   *)
<1>q. ASSUME Retrying \subseteq Retrying',
             xTasksWaitingToSend' \subseteq xTasksWaitingToSend,
             Free' <= Free, Counted(cRxLock)' >= Counted(cRxLock),
             \A u \in Tasks : pc'[u] = "place" => pc[u] = "place" /\ UNCHANGED call[u]
      PROVE  SenderNotForgotten' /\ SenderPlacedInTime'
  <2>1. SenderNotForgotten'
    BY <1>q, <1>t, SendersStayCovered
  <2>2. SenderPlacedInTime'
    BY <1>q, <1>f DEF SendInv, SenderPlacedInTime
  <2> QED BY <2>1, <2>2
<1> USE DEF TypeInv, TypeOK
<1>1. ASSUME NEW t \in Tasks, Start(t) PROVE SenderNotForgotten' /\ SenderPlacedInTime'
  <2>1. Retrying \subseteq Retrying'
    BY <1>1 DEF Start, Goto, events, SendInv, Retrying, LookingAgain
  <2>2. \A u \in Tasks : pc'[u] = "place" => pc[u] = "place" /\ UNCHANGED call[u]
    BY <1>1 DEF Start, Goto, SendInv
  <2> QED BY <1>1, <1>f, <1>q, <2>1, <2>2 DEF Start, ring, locks, events, Free
<1>2. ASSUME NEW t \in Tasks, TrySend(t) PROVE SenderNotForgotten' /\ SenderPlacedInTime'
  <2>1. suspender = NoTask
    BY <1>2 DEF TrySend, AtHead, CanRun, SendInv, Control, OneSuspender, Suspended
  <2>2. SenderPlacedInTime'
    BY <1>2, <1>p, <2>1
       DEF TrySend, AtHead, GiveUpOrBlock, Return, Goto, SendInv, SenderPlacedInTime
  <2>3. CASE ~HasRoomFor(call[t].pos) /\ GiveUpOrBlock(t)
    <3>1. Free' <= 0
      BY <2>3, <1>y DEF HasRoomFor, GiveUpOrBlock, ring, Free
    <3> QED BY <3>1, <1>t, FullCovers
  <2>4. CASE /\ HasRoomFor(call[t].pos)
             /\ CopyDataToQueue(call[t].item, call[t].pos)
             /\ WakeReceivers(1)
             /\ Return(t, "idle")
             /\ UNCHANGED <<locks, sched, timedOut, buffer, time>>
    <3>1. Retrying \ {t} \subseteq Retrying'
      BY <2>4 DEF WakeReceivers, Return, Goto, SendInv, Retrying, LookingAgain
    <3>2. xTasksWaitingToSend' = xTasksWaitingToSend /\ cRxLock' = cRxLock
      BY <2>4 DEF WakeReceivers, locks
    <3>3. CASE uxMessagesWaiting' = uxMessagesWaiting + 1
      <4>1. Free' = Free - 1
        BY <3>3, <1>y DEF Free
      <4> QED BY <1>t, <2>2, <3>1, <3>2, <4>1, FillingCovers
    <3>4. CASE uxMessagesWaiting' # uxMessagesWaiting + 1
      <4>1. call[t].pos = "overwrite" /\ uxMessagesWaiting > 0
            /\ uxMessagesWaiting' = uxMessagesWaiting
        BY <2>4, <3>4 DEF CopyDataToQueue
      <4>2. uxLength = 1
        BY <1>2, <4>1 DEF TrySend, AtHead, SendInv, CallOK
      <4>3. Free' <= 0
        BY <4>1, <4>2, <1>y DEF Free
      <4> QED BY <4>3, <1>t, FullCovers
    <3> QED BY <3>3, <3>4
  <2> QED BY <1>2, <2>3, <2>4 DEF TrySend
<1>3. ASSUME NEW t \in Tasks, TryReceive(t) PROVE SenderNotForgotten' /\ SenderPlacedInTime'
  <2>1. suspender = NoTask
    BY <1>3 DEF TryReceive, AtHead, CanRun, SendInv, Control, OneSuspender, Suspended
  <2>2. SenderPlacedInTime'
    BY <1>3, <1>p, <2>1
       DEF TryReceive, AtHead, GiveUpOrBlock, Return, Goto, SendInv, SenderPlacedInTime
  <2>3. CASE GiveUpOrBlock(t)
    <3>1. Retrying \subseteq Retrying'
      BY <1>3, <2>3
         DEF TryReceive, AtHead, GiveUpOrBlock, Return, Goto, events, SendInv, Retrying,
             LookingAgain
    <3> QED BY <2>2, <2>3, <3>1, <1>t, <1>f, SendersStayCovered
            DEF GiveUpOrBlock, events, ring, locks, Free
  <2>4. CASE /\ uxMessagesWaiting > 0
             /\ RemoveItem
             /\ WakeSenders(1)
             /\ Return(t, "idle")
             /\ UNCHANGED <<locks, sched, timedOut, time>>
    <3>1. Retrying \subseteq Retrying'
      BY <1>3, <2>4
         DEF TryReceive, AtHead, WakeSenders, Return, Goto, SendInv, Retrying, LookingAgain
    <3>2. \A u \in xTasksWaitingToSend : UNCHANGED <<pc[u], call[u]>>
      BY <1>3, <2>4
         DEF TryReceive, AtHead, Return, Goto, SendInv, Control, ListsConsistent
    <3>3. Free' <= Free + 1
      BY <2>4, <1>y DEF RemoveItem, Free
    <3>4. UNCHANGED <<cRxLock, timedOut>>
      BY <2>4 DEF locks
    <3> QED BY <1>t, <2>2, <2>4, <3>1, <3>2, <3>3, <3>4, WakeSenderCovers
  <2> QED BY <1>3, <2>3, <2>4 DEF TryReceive
<1>4. ASSUME NEW t \in Tasks, TryPeek(t) PROVE SenderNotForgotten' /\ SenderPlacedInTime'
  <2>1. /\ UNCHANGED <<xTasksWaitingToSend, ring, locks, timedOut>>
        /\ xTasksWaitingToReceive' \subseteq xTasksWaitingToReceive
    BY <1>4 DEF TryPeek, GiveUpOrBlock, WakeReceivers, events
  <2>2. \A u \in Tasks \ {t} : UNCHANGED <<pc[u], call[u]>>
    BY <1>4 DEF TryPeek, GiveUpOrBlock, Return, Goto, SendInv
  <2>3. call[t].op = "peek" /\ pc'[t] # "place"
    BY <1>4 DEF TryPeek, AtHead, GiveUpOrBlock, Return, Goto, SendInv
  <2>4. Retrying \subseteq Retrying'
    BY <2>1, <2>2, <2>3 DEF Retrying, LookingAgain
  <2> QED BY <1>f, <1>q, <2>1, <2>2, <2>3, <2>4 DEF ring, locks, Free
<1>5. ASSUME NEW t \in Tasks, Reset(t) PROVE FALSE
  BY <1>5 DEF Reset, AtHead, SendInv, NoReset
<1>6. ASSUME NEW t \in Tasks, SuspendAll(t) \/ LockQueue(t) \/ TestQueue(t)
      PROVE  SenderNotForgotten' /\ SenderPlacedInTime'
  <2>1. /\ UNCHANGED <<xTasksWaitingToSend, xTasksWaitingToReceive, ring, call, timedOut>>
        /\ \A u \in Tasks \ {t} : UNCHANGED pc[u]
        /\ pc[t] \in {"suspend", "lock", "test"}
    BY <1>6 DEF SuspendAll, LockQueue, TestQueue, Goto, events, SendInv
  <2>2. Retrying \subseteq Retrying'
    BY <2>1 DEF Retrying, LookingAgain
  <2>3. Counted(cRxLock)' = Counted(cRxLock)
    BY <1>6 DEF SuspendAll, LockQueue, TestQueue, locks, Counted, Unlocked, LockedUnmodified,
                SendInv
  <2>4. SenderNotForgotten'
    BY <1>f, <1>t, <2>1, <2>2, <2>3, SendersStayCovered DEF ring, Free
  <2>5. pc'[t] = "place" /\ call[t].op = "send" => Free = 0
    BY <1>6, <1>y DEF SuspendAll, LockQueue, TestQueue, MustWait, Goto, Free, SendInv
  <2>6. Free' = Free
    BY <2>1 DEF ring, Free
  <2>7. SenderPlacedInTime'
    BY <1>f, <2>1, <2>3, <2>5, <2>6 DEF SendInv, SenderPlacedInTime
  <2> QED BY <2>4, <2>7
<1>8. ASSUME NEW t \in Tasks, CheckForTimeOut(t)
      PROVE  SenderNotForgotten' /\ SenderPlacedInTime'
  <2>1. /\ \A u \in Tasks \ {t} : UNCHANGED <<pc[u], call[u], timedOut[u]>>
        /\ pc[t] = "check" /\ pc'[t] # "place"
        /\ UNCHANGED <<xTasksWaitingToSend, xTasksWaitingToReceive, ring, locks>>
    BY <1>8 DEF CheckForTimeOut, Goto, events, SendInv
  <2>2. Retrying \subseteq Retrying'
    BY <2>1 DEF Retrying, LookingAgain
  <2> QED BY <1>f, <1>q, <2>1, <2>2 DEF ring, locks, Free
<1>10. ASSUME NEW t \in Tasks, PlaceOnEventList(t)
       PROVE  SenderNotForgotten' /\ SenderPlacedInTime'
  <2>1. /\ \A u \in Tasks \ {t} : UNCHANGED pc[u]
        /\ pc[t] = "place" /\ pc'[t] # "place"
        /\ UNCHANGED <<ring, locks, call, timedOut>>
    BY <1>10 DEF PlaceOnEventList, Goto, SendInv
  <2>2. Retrying \subseteq Retrying'
    BY <1>10, <2>1 DEF PlaceOnEventList, Retrying, LookingAgain
  <2>3. Free' = Free /\ Counted(cRxLock)' = Counted(cRxLock)
    BY <2>1 DEF ring, locks, Free
  <2>4. CASE call[t].op # "send"
    BY <1>10, <1>f, <1>q, <2>1, <2>2, <2>3, <2>4 DEF PlaceOnEventList
  <2>5. CASE call[t].op = "send"
    <3>1. Free <= Counted(cRxLock)
      BY <2>1, <2>5 DEF SendInv, SenderPlacedInTime
    <3>2. SenderNotForgotten'
      BY <1>f, <2>3, <3>1, RetryingFinite DEF SenderNotForgotten, Retrying, Free
    <3>3. SenderPlacedInTime'
      BY <2>1, <2>3 DEF SendInv, SenderPlacedInTime
    <3> QED BY <3>2, <3>3
  <2> QED BY <2>4, <2>5
<1>11. ASSUME NEW t \in Tasks, UnlockTx(t) PROVE SenderNotForgotten' /\ SenderPlacedInTime'
  <2>1. /\ \A u \in Tasks \ {t} : UNCHANGED pc[u]
        /\ pc[t] = "unlockTx" /\ pc'[t] = "unlockRx"
        /\ UNCHANGED <<ring, cRxLock, call, timedOut, xTasksWaitingToSend>>
        /\ xTasksWaitingToReceive' \subseteq xTasksWaitingToReceive
    BY <1>11 DEF UnlockTx, WakeReceivers, Goto, SendInv
  <2>2. Retrying \subseteq Retrying'
    BY <2>1 DEF Retrying, LookingAgain
  <2> QED BY <1>f, <1>q, <2>1, <2>2 DEF ring, Free
<1>12. ASSUME NEW t \in Tasks, UnlockRx(t) PROVE SenderNotForgotten' /\ SenderPlacedInTime'
  <2>1. SenderPlacedInTime'
    <3>1. \A u \in Tasks : pc'[u] # "place"
      BY <1>12 DEF UnlockRx, Goto, SendInv, Control, OneSuspender, Suspended
    <3> QED BY <3>1 DEF SenderPlacedInTime
  <2> SUFFICES ASSUME xTasksWaitingToSend' # {} PROVE SendersCovered'
    BY <2>1 DEF SenderNotForgotten, SendersCovered, Retrying, Free
  <2>2. PICK W \in SUBSET xTasksWaitingToSend :
          /\ First(xTasksWaitingToSend, Counted(cRxLock), W)
          /\ xTasksWaitingToSend' = xTasksWaitingToSend \ W
          /\ UNCHANGED xTasksWaitingToReceive
    BY <1>12 DEF UnlockRx, WakeSenders
  <2>3. xTasksWaitingToSend \in SUBSET Tasks /\ xTasksWaitingToSend # {}
    BY <2>2 DEF SendInv
  <2>4. IsFiniteSet(W) /\ Cardinality(W) = Counted(cRxLock)
    BY <1>f, <2>2, <2>3, FirstLeavesSome
  <2>5. W \cap Retrying = {} /\ Retrying \cup W \in SUBSET Retrying'
    <3>1. \A w \in W : /\ call[w].op = "send" /\ ~timedOut[w]
                       /\ w \in Tasks /\ w \notin xTasksWaitingToReceive
                       /\ pc[w] \in {"unlockTx", "unlockRx", "resume", "retry"}
      BY <2>2, <2>3 DEF SendInv, Control, ListsConsistent, OffReadyList
    <3> QED BY <1>12, <2>2, <2>3, <3>1
            DEF UnlockRx, Goto, SendInv, Retrying, LookingAgain
  <2>6. Cardinality(Retrying) + Counted(cRxLock) <= Cardinality(Retrying')
    <3>1. Cardinality(Retrying \cup W) =
            Cardinality(Retrying) + Cardinality(W) - Cardinality(Retrying \cap W)
      BY <2>4, RetryingFinite, FS_Union
    <3>2. Cardinality(Retrying \cap W) = 0
      BY <2>5, FS_EmptySet
    <3>3. Cardinality(Retrying \cup W) <= Cardinality(Retrying')
      BY <2>5, RetryingFinite, FS_Subset
    <3> QED BY <1>f, <2>4, <3>1, <3>2, <3>3, RetryingFinite
  <2>7. SendersCovered
    BY <2>3 DEF SendInv, SenderNotForgotten, SendersCovered, Retrying, Free
  <2>8. Counted(cRxLock)' = 0 /\ Free' = Free
    BY <1>12 DEF UnlockRx, Counted, Unlocked, LockedUnmodified, ring, Free
  <2> QED BY <1>f, <2>6, <2>7, <2>8, RetryingFinite DEF SendersCovered
<1>13. ASSUME NEW t \in Tasks, ResumeAll(t) PROVE SenderNotForgotten' /\ SenderPlacedInTime'
  <2>1. /\ \A u \in Tasks \ {t} : UNCHANGED <<pc[u], call[u], timedOut[u]>>
        /\ pc[t] = "resume" /\ pc'[t] # "place" /\ ~timedOut'[t]
        /\ call[t].op = "send" /\ ~timedOut[t] => pc'[t] = "retry" /\ call'[t] = call[t]
        /\ UNCHANGED <<ring, locks>>
    BY <1>13 DEF ResumeAll, AfterResume, Return, Goto, SendInv
  <2>2. /\ xTasksWaitingToReceive' \subseteq xTasksWaitingToReceive
        /\ xTasksWaitingToSend' \subseteq xTasksWaitingToSend
    BY <1>13 DEF ResumeAll, TickReaches
  <2>3. Retrying \subseteq Retrying'
    BY <2>1, <2>2 DEF Retrying, LookingAgain
  <2> QED BY <1>f, <1>q, <2>1, <2>2, <2>3 DEF ring, locks, Free
<1>14. ASSUME NEW t \in Tasks, Recheck(t) PROVE SenderNotForgotten' /\ SenderPlacedInTime'
  <2>1. /\ \A u \in Tasks \ {t} : UNCHANGED <<pc[u], call[u]>>
        /\ pc'[t] # "place" /\ call[t].op \in {"receive", "peek"}
        /\ UNCHANGED <<ring, locks, timedOut, xTasksWaitingToSend, xTasksWaitingToReceive>>
    BY <1>14 DEF Recheck, Return, Goto, events, SendInv, Control, CallsInOrder
  <2>2. Retrying \subseteq Retrying'
    BY <2>1 DEF Retrying, LookingAgain
  <2> QED BY <1>f, <1>q, <2>1, <2>2 DEF ring, locks, Free
<1>15. ASSUME NEW t \in Tasks, AbortDelay(t) PROVE SenderNotForgotten' /\ SenderPlacedInTime'
  <2>1. /\ \A u \in Tasks \ {t} : UNCHANGED pc[u]
        /\ pc[t] = "remove" /\ pc'[t] = "resume"
        /\ xTasksWaitingToReceive' \subseteq xTasksWaitingToReceive
        /\ xTasksWaitingToSend' \subseteq xTasksWaitingToSend
        /\ UNCHANGED <<ring, locks, call, timedOut>>
    BY <1>15 DEF AbortDelay, Goto, events, SendInv
  <2>2. Retrying \subseteq Retrying'
    BY <2>1 DEF Retrying, LookingAgain
  <2> QED BY <1>f, <1>q, <2>1, <2>2 DEF ring, locks, Free
<1>16. ASSUME IncrementTick PROVE SenderNotForgotten' /\ SenderPlacedInTime'
  <2>1. /\ xTasksWaitingToReceive' \subseteq xTasksWaitingToReceive
        /\ xTasksWaitingToSend' \subseteq xTasksWaitingToSend
        /\ UNCHANGED <<ring, locks, local>>
    BY <1>16 DEF IncrementTick, TickReaches
  <2>2. Retrying \subseteq Retrying'
    BY <2>1 DEF local, Retrying, LookingAgain
  <2> QED BY <1>f, <1>q, <2>1, <2>2 DEF ring, locks, local, Free
<1>17. ASSUME SendFromISR PROVE SenderNotForgotten' /\ SenderPlacedInTime'
  <2>1. /\ xTasksWaitingToReceive' \subseteq xTasksWaitingToReceive
        /\ xTasksWaitingToSend' = xTasksWaitingToSend
        /\ UNCHANGED <<cRxLock, local>>
    BY <1>17 DEF SendFromISR, WakeReceivers, events
  <2>2. Free' <= Free
    BY <1>17, <1>y DEF SendFromISR, CopyDataToQueue, Free
  <2>3. Retrying \subseteq Retrying'
    BY <2>1 DEF local, Retrying, LookingAgain
  <2> QED BY <1>f, <1>q, <2>1, <2>2, <2>3 DEF local
<1>18. ASSUME ReceiveFromISR PROVE SenderNotForgotten' /\ SenderPlacedInTime'
  <2>1. Free' = Free + 1
    BY <1>18, <1>y DEF ReceiveFromISR, RemoveItem, Free
  <2>2. Retrying \subseteq Retrying'
    BY <1>18 DEF ReceiveFromISR, WakeSenders, events, local, Retrying, LookingAgain
  <2>3. CASE cRxLock = Unlocked
    <3>1. SenderPlacedInTime'
      <4>1. \A u \in Tasks : pc'[u] # "place"
        BY <1>18, <2>3
           DEF ReceiveFromISR, local, SendInv, Control, LockedBySuspender,
               OneSuspender, Suspended
      <4> QED BY <4>1 DEF SenderPlacedInTime
    <3>2. /\ WakeSenders(1) /\ UNCHANGED <<cRxLock, timedOut>>
          /\ \A u \in xTasksWaitingToSend : UNCHANGED <<pc[u], call[u]>>
      BY <1>18, <2>3 DEF ReceiveFromISR, local
    <3> QED BY <1>t, <1>f, <2>1, <2>2, <3>1, <3>2, WakeSenderCovers
  <2>4. CASE cRxLock # Unlocked
    <3>1. /\ cRxLock' = cRxLock + 1 /\ UNCHANGED <<events, local>>
          /\ cRxLock >= LockedUnmodified
      <4>1. cRxLock \in -128 .. 127 /\ cRxLock >= Unlocked
        BY DEF SendInv, Control
      <4>2. Int8(cRxLock + 1) = cRxLock + 1
        BY <1>18, <4>1, Int8Next DEF ReceiveFromISR
      <4> QED BY <1>18, <2>4, <4>1, <4>2
              DEF ReceiveFromISR, Unlocked, LockedUnmodified
    <3>2. Counted(cRxLock)' = Counted(cRxLock) + 1
      BY <3>1 DEF Counted, LockedUnmodified, SendInv
    <3>3. SenderPlacedInTime'
      BY <1>f, <2>1, <3>1, <3>2 DEF local, SendInv, SenderPlacedInTime
    <3>4. Cardinality(Retrying') >= Cardinality(Retrying)
      BY <2>2, RetryingFinite, FS_Subset
    <3>5. SenderNotForgotten'
      <4> SUFFICES ASSUME xTasksWaitingToSend' # {} PROVE SendersCovered'
        BY DEF SenderNotForgotten, SendersCovered, Retrying, Free
      <4>1. SendersCovered
        BY <3>1 DEF SendInv, SenderNotForgotten, SendersCovered, Retrying, Free, events
      <4> QED BY <1>f, <2>1, <3>2, <3>4, <4>1, RetryingFinite DEF SendersCovered
    <3> QED BY <3>3, <3>5
  <2> QED BY <2>3, <2>4
<1>19. ASSUME UNCHANGED vars PROVE SenderNotForgotten' /\ SenderPlacedInTime'
  <2>1. UNCHANGED <<ring, locks, local, xTasksWaitingToSend, xTasksWaitingToReceive>>
    BY <1>19 DEF vars, events
  <2>2. Retrying \subseteq Retrying'
    BY <2>1 DEF local, Retrying, LookingAgain
  <2> QED BY <1>f, <1>q, <2>1, <2>2 DEF ring, locks, local, Free
<1> QED
  BY <1>1, <1>2, <1>3, <1>4, <1>5, <1>6, <1>8, <1>10, <1>11, <1>12,
     <1>13, <1>14, <1>15, <1>16, <1>17, <1>18, <1>19 DEF Next, Proceed, SendInv

(* No wake-up of a sender is lost, for any number of tasks and any queue   *)
(* length, when interrupts do not overflow a lock count and no task resets *)
(* the queue: xQueueGenericReset wakes one sender although it frees every  *)
(* slot.                                                                   *)
THEOREM SenderWakeUpsNotLost ==
  ASSUME MaxLock <= 127, \A t \in Tasks : \A c \in Calls[t] : c.op # "reset"
  PROVE  Spec => []SenderNotForgotten
<1>1. SendInv /\ [Next]_vars => SendInv'
  BY SendNext
<1>2. SendInv => SenderNotForgotten
  BY DEF SendInv
<1> QED BY <1>1, <1>2, SendInit, PTL DEF Spec
=============================================================================
