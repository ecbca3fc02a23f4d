-------------------------- MODULE SchedulerProofs --------------------------
(***************************************************************************)
(* Proofs about Scheduler, for every set of tasks, every repertoire of     *)
(* calls and handlers and every range of the tick counter: the types, the  *)
(* exactness of delays across the wrap, the map of ready priorities, what  *)
(* holds of the running task, the wake-up of notified tasks, the           *)
(* assertions and counts, the ticks held back, and periods.                *)
(***************************************************************************)
EXTENDS Scheduler, FiniteSetTheorems, TLAPS

(***************************************************************************)
(* The tick counter.                                                       *)
(***************************************************************************)
USE BoundsAssumption DEF Ticks, portMAX_DELAY

LEMMA WrapOnce == \A a \in 0 .. TickRange + TickRange - 1 :
                    a % TickRange = IF a < TickRange THEN a ELSE a - TickRange
  BY SMT

LEMMA NextTick ==
  ASSUME xTickCount \in Ticks
  PROVE  (xTickCount + 1) % TickRange
           = IF xTickCount = TickRange - 1 THEN 0 ELSE xTickCount + 1
<1>1. xTickCount + 1 \in 0 .. TickRange + TickRange - 1
  OBVIOUS
<1>. QED
  BY <1>1, WrapOnce

LEMMA CallTypes ==
  ASSUME NEW t \in Tasks, NEW c \in Calls[t]
  PROVE  /\ c \in Call
         /\ c.on \in Tasks /\ c.arg \in Nat
         /\ c.op \in {"delay", "take", "wait", "delayUntil"} => c.arg \in Ticks
         /\ c.op = "delayUntil" => c.arg > 0
         /\ c.op = "prioritySet" => c.arg \in Priorities
         /\ c.op = "notify" => c.arg \in {0, 1}
  BY CallsAssumption DEF Call

(***************************************************************************)
(* Types.                                                                  *)
(***************************************************************************)
ListTypes ==
  /\ where \in [Tasks -> Lists]
  /\ wake \in [Tasks -> Ticks]
  /\ left \in [Tasks -> Ticks]
  /\ uxTopReadyPriority \subseteq Priorities

LEMMA AddToReadyTypes ==
  ASSUME TypeOK, NEW S \in SUBSET Tasks, AddToReady(S)
  PROVE  ListTypes'
<1>1. uxTopReadyPriority' \subseteq Priorities
  BY DEF TypeOK, AddToReady
<1>2. where' \in [Tasks -> Lists] /\ wake' \in [Tasks -> Ticks] /\ left' \in [Tasks -> Ticks]
  BY DEF TypeOK, AddToReady, Lists
<1>. QED
  BY <1>1, <1>2 DEF ListTypes

LEMMA RemoveToTypes ==
  ASSUME TypeOK, NEW t \in Tasks, NEW list \in Lists, RemoveTo(t, list)
  PROVE  ListTypes'
<1>1. uxTopReadyPriority' \subseteq Priorities
  BY DEF TypeOK, RemoveTo, TopWithout
<1>2. where' \in [Tasks -> Lists] /\ wake' \in [Tasks -> Ticks] /\ left' \in [Tasks -> Ticks]
  BY DEF TypeOK, RemoveTo
<1>. QED
  BY <1>1, <1>2 DEF ListTypes

LEMMA ResetTypes ==
  ASSUME NEW w, ResetNextTaskUnblockTime(w)
  PROVE  xNextTaskUnblockTime' \in Ticks
  BY DEF ResetNextTaskUnblockTime

LEMMA DelayForTypes ==
  ASSUME TypeOK, NEW t \in Tasks, NEW n \in Ticks, DelayFor(t, n)
  PROVE  ListTypes' /\ xNextTaskUnblockTime' \in Ticks
<1>1. (xTickCount + n) % TickRange \in Ticks
  <2>1. xTickCount + n \in 0 .. TickRange + TickRange - 1
    BY DEF TypeOK
  <2>. QED
    BY <2>1, WrapOnce
<1>. QED
  BY <1>1 DEF TypeOK, ListTypes, DelayFor, TopWithout, Lists

LEMMA BlockForTypes ==
  ASSUME TypeOK, NEW t \in Tasks, NEW n \in Ticks, BlockFor(t, n)
  PROVE  ListTypes' /\ xNextTaskUnblockTime' \in Ticks
  BY DelayForTypes, RemoveToTypes DEF BlockFor, Lists, TypeOK

LEMMA CountTickTypes ==
  ASSUME TypeOK, NEW due \in SUBSET Tasks, CountTick(due)
  PROVE  /\ ListTypes' /\ xNextTaskUnblockTime' \in Ticks
         /\ xTickCount' \in Ticks
         /\ pending' \subseteq Tasks
         /\ lag' \in [Tasks -> Int]
<1> DEFINE now == (xTickCount + 1) % TickRange
           w == IF now = 0 THEN Wrapped(where) ELSE where
<1>1. now \in Ticks
  <2>1. xTickCount \in Ticks
    BY DEF TypeOK
  <2>. QED
    BY <2>1, NextTick
<1>2. w \in [Tasks -> Lists]
  BY DEF TypeOK, Wrapped, Lists
<1>3. PICK n \in Ticks :
        /\ xTickCount' = now
        /\ where' = [t \in Tasks |-> IF t \in due THEN "ready" ELSE w[t]]
        /\ wake' = [t \in Tasks |-> IF t \in due THEN 0 ELSE wake[t]]
        /\ uxTopReadyPriority' = uxTopReadyPriority \cup {uxPriority[t] : t \in due}
        /\ pending' = pending \ due
        /\ IF now >= n THEN ResetNextTaskUnblockTime(where') ELSE xNextTaskUnblockTime' = n
        /\ left' = [t \in Tasks |-> IF left[t] > 0 THEN left[t] - 1 ELSE 0]
        /\ lag' = [t \in Tasks |-> IF Known(t) THEN lag[t] + 1 ELSE lag[t]]
  BY DEF CountTick
<1>. HIDE DEF now, w
<1>4. where' \in [Tasks -> Lists]
  BY <1>2, <1>3 DEF Lists
<1>5. wake' \in [Tasks -> Ticks]
  BY <1>3 DEF TypeOK, Known
<1>6. left' \in [Tasks -> Ticks]
  BY <1>3 DEF TypeOK, Known
<1>7. uxTopReadyPriority' \subseteq Priorities /\ pending' \subseteq Tasks
  BY <1>3 DEF TypeOK
<1>8. xNextTaskUnblockTime' \in Ticks
  BY <1>3, ResetTypes
<1>9. lag' \in [Tasks -> Int]
  BY <1>3 DEF TypeOK, Known
<1>. QED
  BY <1>1, <1>3, <1>4, <1>5, <1>6, <1>7, <1>8, <1>9 DEF ListTypes

LEMMA SelectTypes ==
  ASSUME NEW prio, Select(prio)
  PROVE  pxCurrentTCB' \in Tasks \cup {NoTask}
  BY DEF Select

LEMMA SwitchTypes ==
  ASSUME TypeOK, NEW prio, SwitchContext(prio) \/ UNCHANGED running
  PROVE  xYieldPending' \in BOOLEAN /\ pxCurrentTCB' \in Tasks \cup {NoTask}
  BY SelectTypes DEF TypeOK, SwitchContext, running

LEMMA SwitchIfTypes ==
  ASSUME TypeOK, NEW yield, SwitchIf(yield) \/ Fail
  PROVE  xYieldPending' \in BOOLEAN /\ pxCurrentTCB' \in Tasks \cup {NoTask}
  BY SwitchTypes DEF SwitchIf, Fail, TypeOK

LEMMA GotoTypes ==
  ASSUME TypeOK, NEW t \in Tasks, NEW label \in Labels, Goto(t, label)
  PROVE  pc' \in [Tasks -> Labels]
  BY DEF TypeOK, Goto

LEMMA EnterTypes ==
  ASSUME TypeOK, NEW t \in Tasks, NEW c \in Call, NEW label \in Labels, Enter(t, c, label)
  PROVE  pc' \in [Tasks -> Labels] /\ call' \in [Tasks -> Call \cup {NoCall}]
  BY GotoTypes DEF TypeOK, Enter

LEMMA ReturnTypes ==
  ASSUME TypeOK, NEW t \in Tasks, Return(t)
  PROVE  pc' \in [Tasks -> Labels] /\ call' \in [Tasks -> Call \cup {NoCall}]
  BY GotoTypes DEF TypeOK, Return, Labels

LEMMA OnTypes ==
  ASSUME TypeOK, NEW t \in Tasks
  PROVE  On(t) \in Tasks /\ call[t].arg \in Nat
<1>1. call[t] \in Call \cup {NoCall}
  BY DEF TypeOK
<1>2. CASE call[t] \in Call
  BY <1>2 DEF On, Call
<1>3. CASE call[t] = NoCall
  BY <1>3, TasksAssumption DEF On, NoCall
<1>. QED
  BY <1>1, <1>2, <1>3

LEMMA NotifiedTypes ==
  ASSUME TypeOK, NEW u \in Tasks, NEW n \in {0, 1}, Notified(u, n)
  PROVE  /\ ulNotifiedValue' \in [Tasks -> 0 .. MaxValue]
         /\ ucNotifyState' \in [Tasks -> {"notWaiting", "waiting", "received"}]
<1>1. ulNotifiedValue[u] + n \in 0 .. MaxValue
  BY DEF TypeOK, Notified
<1>. QED
  BY <1>1 DEF TypeOK, Notified

(* The parts of TypeOK, by what the actions change together.               *)
RunningTypes ==
  /\ pxCurrentTCB \in Tasks \cup {NoTask}
  /\ xYieldPending \in BOOLEAN
  /\ uxSchedulerSuspended \in {0, 1}

TimeTypes ==
  /\ xTickCount \in Ticks
  /\ xNextTaskUnblockTime \in Ticks
  /\ xPendedTicks \in Nat
  /\ loaded \in Nat

NotificationTypes ==
  /\ ulNotifiedValue \in [Tasks -> 0 .. MaxValue]
  /\ ucNotifyState \in [Tasks -> {"notWaiting", "waiting", "received"}]

CallStateTypes ==
  /\ pc \in [Tasks -> Labels]
  /\ call \in [Tasks -> Call \cup {NoCall}]

OtherTypes ==
  /\ pending \subseteq Tasks
  /\ uxPriority \in [Tasks -> Priorities]
  /\ uxCurrentNumberOfTasks \in Int
  /\ uxDeletedTasksWaitingCleanUp \in Int
  /\ xLastWakeTime \in [Tasks -> Ticks]
  /\ lag \in [Tasks -> Int]
  /\ held \subseteq Tasks

LEMMA TypeParts ==
  TypeOK <=> ListTypes /\ RunningTypes /\ TimeTypes /\ NotificationTypes /\ CallStateTypes /\ OtherTypes
BY DEF TypeOK, ListTypes, RunningTypes, TimeTypes, NotificationTypes, CallStateTypes, OtherTypes

LEMMA TypeInit == Init => TypeOK
<1> SUFFICES ASSUME Init PROVE TypeOK
  OBVIOUS
<1> USE DEF Init
<1>1. ListTypes
  BY TasksAssumption DEF ListTypes, Lists
<1>2. RunningTypes
  BY TasksAssumption DEF RunningTypes
<1>3. TimeTypes /\ NotificationTypes
  BY DEF TimeTypes, NotificationTypes
<1>4. CallStateTypes
  BY DEF CallStateTypes, Labels, Entry
<1>5. OtherTypes
  <2>1. Cardinality(Initially) \in Int
    BY TasksAssumption, FS_Subset, FS_CardinalityType
  <2>. QED
    BY <2>1, TasksAssumption DEF OtherTypes
<1>. QED
  BY <1>1, <1>2, <1>3, <1>4, <1>5, TypeParts

(* One lemma per action.                                                   *)
LEMMA TypesTogether ==
  ASSUME ListTypes', RunningTypes', TimeTypes', NotificationTypes', CallStateTypes', OtherTypes'
  PROVE  TypeOK'
  BY DEF TypeOK, ListTypes, RunningTypes, TimeTypes, NotificationTypes, CallStateTypes, OtherTypes

LEMMA InterruptTypes ==
  ASSUME NEW i \in Interrupts
  PROVE  i.on \in Tasks /\ i.arg \in {0, 1}
  BY CallsAssumption

LEMMA DelayTypes ==
  ASSUME TypeOK, NEW t \in Tasks, NEW c \in Calls[t], Delay(t, c)
  PROVE  TypeOK'
<1>1. ListTypes'
  BY CallTypes, DelayForTypes DEF TypeOK, ListTypes, Delay, lists, Begins
<1>2. RunningTypes'
  BY DEF TypeOK, RunningTypes, Delay, running
<1>3. TimeTypes'
  BY CallTypes, DelayForTypes DEF TypeOK, TimeTypes, Delay, lists, time, local, Begins
<1>4. NotificationTypes'
  BY DEF TypeOK, NotificationTypes, Delay, notified
<1>5. CallStateTypes'
  BY CallTypes, EnterTypes DEF TypeOK, CallStateTypes, Delay, local, Labels
<1>6. OtherTypes'
  BY DEF TypeOK, OtherTypes, Delay, counts, periods
<1>. QED
  BY <1>1, <1>2, <1>3, <1>4, <1>5, <1>6, TypesTogether

LEMMA StartTypes ==
  ASSUME TypeOK, NEW t \in Tasks, Start(t)
  PROVE  TypeOK'
<1>1. ListTypes'
  BY DEF TypeOK, ListTypes, Start, lists
<1>2. RunningTypes'
  BY DEF TypeOK, RunningTypes, Start, running
<1>3. TimeTypes'
  BY DEF TypeOK, TimeTypes, Start, lists, time, local
<1>4. NotificationTypes'
  BY DEF TypeOK, NotificationTypes, Start, notified
<1>5. CallStateTypes'
  BY GotoTypes DEF TypeOK, CallStateTypes, Start, local, Labels
<1>6. OtherTypes'
  BY DEF TypeOK, OtherTypes, Start, counts, periods
<1>. QED
  BY <1>1, <1>2, <1>3, <1>4, <1>5, <1>6, TypesTogether

LEMMA DelayUntilTypes ==
  ASSUME TypeOK, NEW t \in Tasks, NEW c \in Calls[t], DelayUntil(t, c)
  PROVE  TypeOK'
<1>1. c \in Call /\ c.arg \in Ticks /\ xLastWakeTime[t] \in Ticks /\ xTickCount \in Ticks
  BY CallTypes DEF DelayUntil, Begins, TypeOK
<1> DEFINE to == (xLastWakeTime[t] + c.arg) % TickRange
           n == (to + TickRange - xTickCount) % TickRange
<1>2. to \in Ticks
  <2>1. xLastWakeTime[t] + c.arg \in 0 .. TickRange + TickRange - 1
    BY <1>1
  <2>. QED
    BY <2>1, WrapOnce
<1>3. n \in Ticks
  <2>1. to + TickRange - xTickCount \in 0 .. TickRange + TickRange - 1
    BY <1>1, <1>2
  <2>. QED
    BY <2>1, WrapOnce
<1>4. /\ xLastWakeTime' = [xLastWakeTime EXCEPT ![t] = to]
      /\ DelayFor(t, n) \/ UNCHANGED lists
  BY DEF DelayUntil
<1>. HIDE DEF to, n
<1>5. ListTypes' /\ xNextTaskUnblockTime' \in Ticks
  BY <1>3, <1>4, DelayForTypes DEF TypeOK, ListTypes, lists
<1>6. RunningTypes' /\ NotificationTypes'
  BY DEF TypeOK, RunningTypes, NotificationTypes, DelayUntil, running, notified
<1>7. TimeTypes'
  BY <1>5 DEF TypeOK, TimeTypes, DelayUntil, time
<1>8. CallStateTypes'
  BY <1>1, EnterTypes DEF TypeOK, CallStateTypes, DelayUntil, Labels
<1>9. OtherTypes'
  <2>1. xLastWakeTime' \in [Tasks -> Ticks]
    BY <1>2, <1>4 DEF TypeOK
  <2>2. lag' \in [Tasks -> Int]
    BY <1>1 DEF TypeOK, DelayUntil
  <2>. QED
    BY <2>1, <2>2 DEF TypeOK, OtherTypes, DelayUntil, counts
<1>. QED
  BY <1>5, <1>6, <1>7, <1>8, <1>9, TypesTogether

LEMMA YieldTypes ==
  ASSUME TypeOK, NEW t \in Tasks, Yield(t)
  PROVE  TypeOK'
<1>1. ListTypes'
  BY DEF TypeOK, ListTypes, Yield, lists
<1>2. RunningTypes'
  BY SwitchIfTypes DEF TypeOK, RunningTypes, Yield, running
<1>3. TimeTypes'
  BY DEF TypeOK, TimeTypes, Yield, lists, time, local
<1>4. NotificationTypes'
  BY DEF TypeOK, NotificationTypes, Yield, notified
<1>5. CallStateTypes'
  BY ReturnTypes DEF TypeOK, CallStateTypes, Yield, local
<1>6. OtherTypes'
  BY DEF TypeOK, OtherTypes, Yield, counts, periods
<1>. QED
  BY <1>1, <1>2, <1>3, <1>4, <1>5, <1>6, TypesTogether

LEMMA ResumeAllTypes ==
  ASSUME TypeOK, NEW t \in Tasks, ResumeAll(t)
  PROVE  TypeOK'
<1>1. ListTypes'
  BY AddToReadyTypes DEF TypeOK, ListTypes, ResumeAll, lists
<1>2. RunningTypes'
  BY DEF TypeOK, RunningTypes, ResumeAll, running
<1>3. TimeTypes'
  BY ResetTypes DEF TypeOK, TimeTypes, ResumeAll, lists, time, local
<1>4. NotificationTypes'
  BY DEF TypeOK, NotificationTypes, ResumeAll, notified
<1>5. CallStateTypes'
  BY GotoTypes DEF TypeOK, CallStateTypes, ResumeAll, local, Labels
<1>6. OtherTypes'
  BY DEF TypeOK, OtherTypes, ResumeAll, counts, periods
<1>. QED
  BY <1>1, <1>2, <1>3, <1>4, <1>5, <1>6, TypesTogether

LEMMA PendedTickTypes ==
  ASSUME TypeOK, NEW t \in Tasks, PendedTick(t)
  PROVE  TypeOK'
<1>1. PICK due \in SUBSET Tasks :
        /\ CountTick(due)
        /\ IF WrapFails THEN Fail
           ELSE xYieldPending' = TickSwitches(due) /\ UNCHANGED pxCurrentTCB
  BY DEF PendedTick
<1>2. /\ ListTypes' /\ xNextTaskUnblockTime' \in Ticks /\ xTickCount' \in Ticks
      /\ pending' \subseteq Tasks /\ lag' \in [Tasks -> Int]
  BY <1>1, CountTickTypes
<1>3. TickSwitches(due) \in BOOLEAN
  BY DEF TickSwitches, TypeOK
<1>4. RunningTypes'
  BY <1>1, <1>3 DEF TypeOK, RunningTypes, PendedTick, Fail
<1>5. TimeTypes'
  BY <1>2 DEF TypeOK, TimeTypes, PendedTick, OneLess, local
<1>6. NotificationTypes' /\ CallStateTypes'
  BY DEF TypeOK, NotificationTypes, CallStateTypes, PendedTick, notified, local
<1>7. OtherTypes'
  BY <1>2 DEF TypeOK, OtherTypes, PendedTick, counts
<1>. QED
  BY <1>2, <1>4, <1>5, <1>6, <1>7, TypesTogether

LEMMA ResumedTypes ==
  ASSUME TypeOK, NEW t \in Tasks, Resumed(t)
  PROVE  TypeOK'
<1>1. ListTypes'
  BY DEF TypeOK, ListTypes, Resumed, lists
<1>2. RunningTypes'
  BY SwitchIfTypes DEF TypeOK, RunningTypes, Resumed, running
<1>3. TimeTypes'
  BY DEF TypeOK, TimeTypes, Resumed, lists, time, local
<1>4. NotificationTypes'
  BY DEF TypeOK, NotificationTypes, Resumed, notified
<1>5. CallStateTypes'
  BY ReturnTypes, GotoTypes DEF TypeOK, CallStateTypes, Resumed, local, Labels
<1>6. OtherTypes'
  BY DEF TypeOK, OtherTypes, Resumed, counts, periods
<1>. QED
  BY <1>1, <1>2, <1>3, <1>4, <1>5, <1>6, TypesTogether

LEMMA AwaitTypes ==
  ASSUME TypeOK, NEW t \in Tasks, NEW c \in Calls[t], Await(t, c)
  PROVE  TypeOK'
<1>1. ListTypes'
  BY CallTypes, BlockForTypes DEF TypeOK, ListTypes, Await, lists, Begins
<1>2. RunningTypes'
  BY SwitchIfTypes DEF TypeOK, RunningTypes, Await, running
<1>3. TimeTypes'
  BY CallTypes, BlockForTypes DEF TypeOK, TimeTypes, Await, lists, time, local, Begins
<1>4. NotificationTypes'
  BY DEF TypeOK, NotificationTypes, Await, notified
<1>5. CallStateTypes'
  BY CallTypes, EnterTypes DEF TypeOK, CallStateTypes, Await, local, Labels
<1>6. OtherTypes'
  BY DEF TypeOK, OtherTypes, Await, counts, periods
<1>. QED
  BY <1>1, <1>2, <1>3, <1>4, <1>5, <1>6, TypesTogether

LEMMA AwaitedTypes ==
  ASSUME TypeOK, NEW t \in Tasks, Awaited(t)
  PROVE  TypeOK'
<1>1. ListTypes'
  BY DEF TypeOK, ListTypes, Awaited, lists
<1>2. RunningTypes'
  BY DEF TypeOK, RunningTypes, Awaited, running
<1>3. TimeTypes'
  BY DEF TypeOK, TimeTypes, Awaited, lists, time, local
<1>4. NotificationTypes'
  BY DEF TypeOK, NotificationTypes, Awaited, notified
<1>5. CallStateTypes'
  BY ReturnTypes DEF TypeOK, CallStateTypes, Awaited, local
<1>6. OtherTypes'
  BY DEF TypeOK, OtherTypes, Awaited, counts, periods
<1>. QED
  BY <1>1, <1>2, <1>3, <1>4, <1>5, <1>6, TypesTogether

LEMMA NotifyTypes ==
  ASSUME TypeOK, NEW t \in Tasks, NEW c \in Calls[t], Notify(t, c)
  PROVE  TypeOK'
<1>1. ListTypes'
  BY CallTypes, AddToReadyTypes DEF TypeOK, ListTypes, Notify, lists
<1>2. RunningTypes'
  BY SwitchIfTypes DEF TypeOK, RunningTypes, Notify, running
<1>3. TimeTypes'
  BY DEF TypeOK, TimeTypes, Notify, lists, time, local
<1>4. NotificationTypes'
  BY CallTypes, NotifiedTypes DEF TypeOK, NotificationTypes, Notify, notified, Begins
<1>5. CallStateTypes'
  BY DEF TypeOK, CallStateTypes, Notify, local
<1>6. OtherTypes'
  BY DEF TypeOK, OtherTypes, Notify, counts, periods
<1>. QED
  BY <1>1, <1>2, <1>3, <1>4, <1>5, <1>6, TypesTogether

LEMMA SuspendTypes ==
  ASSUME TypeOK, NEW t \in Tasks, NEW c \in Calls[t], Suspend(t, c)
  PROVE  TypeOK'
<1>1. ListTypes'
  BY CallTypes, RemoveToTypes DEF TypeOK, ListTypes, Suspend, lists, Lists
<1>2. RunningTypes'
  BY DEF TypeOK, RunningTypes, Suspend, running
<1>3. TimeTypes'
  BY DEF TypeOK, TimeTypes, Suspend, lists, time, local
<1>4. NotificationTypes'
  BY DEF TypeOK, NotificationTypes, Suspend, notified, NoLongerWaiting
<1>5. CallStateTypes'
  BY CallTypes, EnterTypes DEF TypeOK, CallStateTypes, Suspend, local, Labels
<1>6. OtherTypes'
  BY CallTypes DEF TypeOK, OtherTypes, Suspend, counts, periods
<1>. QED
  BY <1>1, <1>2, <1>3, <1>4, <1>5, <1>6, TypesTogether

LEMMA SuspendedTypes ==
  ASSUME TypeOK, NEW t \in Tasks, Suspended(t)
  PROVE  TypeOK'
<1>1. ListTypes'
  BY DEF TypeOK, ListTypes, Suspended, lists
<1>2. RunningTypes'
  BY DEF TypeOK, RunningTypes, Suspended, running
<1>3. TimeTypes'
  BY ResetTypes DEF TypeOK, TimeTypes, Suspended, lists, time, local
<1>4. NotificationTypes'
  BY DEF TypeOK, NotificationTypes, Suspended, notified
<1>5. CallStateTypes'
  BY ReturnTypes, GotoTypes DEF TypeOK, CallStateTypes, Suspended, local, Labels
<1>6. OtherTypes'
  BY DEF TypeOK, OtherTypes, Suspended, counts, periods
<1>. QED
  BY <1>1, <1>2, <1>3, <1>4, <1>5, <1>6, TypesTogether

LEMMA ResumeTypes ==
  ASSUME TypeOK, NEW t \in Tasks, NEW c \in Calls[t], Resume(t, c)
  PROVE  TypeOK'
<1>1. ListTypes'
  BY CallTypes, AddToReadyTypes DEF TypeOK, ListTypes, Resume, lists
<1>2. RunningTypes'
  BY SwitchIfTypes DEF TypeOK, RunningTypes, Resume, running
<1>3. TimeTypes'
  BY DEF TypeOK, TimeTypes, Resume, lists, time, local
<1>4. NotificationTypes'
  BY DEF TypeOK, NotificationTypes, Resume, notified
<1>5. CallStateTypes'
  BY DEF TypeOK, CallStateTypes, Resume, local
<1>6. OtherTypes'
  BY DEF TypeOK, OtherTypes, Resume, counts, periods
<1>. QED
  BY <1>1, <1>2, <1>3, <1>4, <1>5, <1>6, TypesTogether

LEMMA PrioritySetTypes ==
  ASSUME TypeOK, NEW t \in Tasks, NEW c \in Calls[t], PrioritySet(t, c)
  PROVE  TypeOK'
<1>1. ListTypes'
  BY CallTypes DEF TypeOK, ListTypes, PrioritySet, lists, Begins, Moved
<1>2. RunningTypes'
  BY SwitchTypes DEF TypeOK, RunningTypes, PrioritySet, running
<1>3. TimeTypes'
  BY DEF TypeOK, TimeTypes, PrioritySet, lists, time, local
<1>4. NotificationTypes'
  BY DEF TypeOK, NotificationTypes, PrioritySet, notified
<1>5. CallStateTypes'
  BY DEF TypeOK, CallStateTypes, PrioritySet, local
<1>6. OtherTypes'
  BY CallTypes DEF TypeOK, OtherTypes, PrioritySet, counts, periods, Begins
<1>. QED
  BY <1>1, <1>2, <1>3, <1>4, <1>5, <1>6, TypesTogether

LEMMA AbortTypes ==
  ASSUME TypeOK, NEW t \in Tasks, NEW c \in Calls[t], Abort(t, c)
  PROVE  TypeOK'
<1>1. ListTypes'
  BY DEF TypeOK, ListTypes, Abort, lists
<1>2. RunningTypes'
  BY DEF TypeOK, RunningTypes, Abort, running
<1>3. TimeTypes'
  BY DEF TypeOK, TimeTypes, Abort, lists, time, local
<1>4. NotificationTypes'
  BY DEF TypeOK, NotificationTypes, Abort, notified
<1>5. CallStateTypes'
  BY CallTypes, EnterTypes DEF TypeOK, CallStateTypes, Abort, local, Labels
<1>6. OtherTypes'
  BY DEF TypeOK, OtherTypes, Abort, counts, periods
<1>. QED
  BY <1>1, <1>2, <1>3, <1>4, <1>5, <1>6, TypesTogether

LEMMA AbortLookTypes ==
  ASSUME TypeOK, NEW t \in Tasks, AbortLook(t)
  PROVE  TypeOK'
<1>1. ListTypes'
  BY DEF TypeOK, ListTypes, AbortLook, lists
<1>2. RunningTypes'
  BY DEF TypeOK, RunningTypes, AbortLook, running
<1>3. TimeTypes'
  BY DEF TypeOK, TimeTypes, AbortLook, lists, time, local
<1>4. NotificationTypes'
  BY DEF TypeOK, NotificationTypes, AbortLook, notified
<1>5. CallStateTypes'
  BY GotoTypes DEF TypeOK, CallStateTypes, AbortLook, local, Labels
<1>6. OtherTypes'
  BY DEF TypeOK, OtherTypes, AbortLook, counts, periods
<1>. QED
  BY <1>1, <1>2, <1>3, <1>4, <1>5, <1>6, TypesTogether

LEMMA AbortLookAgainTypes ==
  ASSUME TypeOK, NEW t \in Tasks, AbortLookAgain(t)
  PROVE  TypeOK'
<1>1. ListTypes'
  BY DEF TypeOK, ListTypes, AbortLookAgain, lists
<1>2. RunningTypes'
  BY DEF TypeOK, RunningTypes, AbortLookAgain, running
<1>3. TimeTypes'
  BY DEF TypeOK, TimeTypes, AbortLookAgain, lists, time, local
<1>4. NotificationTypes'
  BY DEF TypeOK, NotificationTypes, AbortLookAgain, notified
<1>5. CallStateTypes'
  BY GotoTypes DEF TypeOK, CallStateTypes, AbortLookAgain, local, Labels
<1>6. OtherTypes'
  BY DEF TypeOK, OtherTypes, AbortLookAgain, counts, periods
<1>. QED
  BY <1>1, <1>2, <1>3, <1>4, <1>5, <1>6, TypesTogether

LEMMA AbortedTypes ==
  ASSUME TypeOK, NEW t \in Tasks, Aborted(t)
  PROVE  TypeOK'
<1>1. ListTypes'
  BY OnTypes, AddToReadyTypes DEF TypeOK, ListTypes, Aborted, lists
<1>2. RunningTypes'
  BY DEF TypeOK, RunningTypes, Aborted, running
<1>3. TimeTypes'
  BY DEF TypeOK, TimeTypes, Aborted, lists, time, local
<1>4. NotificationTypes'
  BY DEF TypeOK, NotificationTypes, Aborted, notified
<1>5. CallStateTypes'
  BY GotoTypes DEF TypeOK, CallStateTypes, Aborted, local, Labels
<1>6. OtherTypes'
  BY DEF TypeOK, OtherTypes, Aborted, counts, periods
<1>. QED
  BY <1>1, <1>2, <1>3, <1>4, <1>5, <1>6, TypesTogether

LEMMA CatchUpTypes ==
  ASSUME TypeOK, NEW t \in Tasks, NEW c \in Calls[t], CatchUp(t, c)
  PROVE  TypeOK'
<1>1. ListTypes'
  BY DEF TypeOK, ListTypes, CatchUp, lists
<1>2. RunningTypes'
  BY DEF TypeOK, RunningTypes, CatchUp, running
<1>3. TimeTypes'
  BY DEF TypeOK, TimeTypes, CatchUp, lists, time, local
<1>4. NotificationTypes'
  BY DEF TypeOK, NotificationTypes, CatchUp, notified
<1>5. CallStateTypes'
  BY CallTypes, EnterTypes DEF TypeOK, CallStateTypes, CatchUp, local, Labels
<1>6. OtherTypes'
  BY DEF TypeOK, OtherTypes, CatchUp, counts, periods
<1>. QED
  BY <1>1, <1>2, <1>3, <1>4, <1>5, <1>6, TypesTogether

LEMMA CatchUpLoadTypes ==
  ASSUME TypeOK, NEW t \in Tasks, CatchUpLoad(t)
  PROVE  TypeOK'
<1>1. ListTypes'
  BY DEF TypeOK, ListTypes, CatchUpLoad, lists
<1>2. RunningTypes'
  BY DEF TypeOK, RunningTypes, CatchUpLoad, running
<1>3. TimeTypes'
  BY DEF TypeOK, TimeTypes, CatchUpLoad, lists, time, local
<1>4. NotificationTypes'
  BY DEF TypeOK, NotificationTypes, CatchUpLoad, notified
<1>5. CallStateTypes'
  BY GotoTypes DEF TypeOK, CallStateTypes, CatchUpLoad, local, Labels
<1>6. OtherTypes'
  BY DEF TypeOK, OtherTypes, CatchUpLoad, counts, periods
<1>. QED
  BY <1>1, <1>2, <1>3, <1>4, <1>5, <1>6, TypesTogether

LEMMA CatchUpStoreTypes ==
  ASSUME TypeOK, NEW t \in Tasks, CatchUpStore(t)
  PROVE  TypeOK'
<1>1. ListTypes'
  BY DEF TypeOK, ListTypes, CatchUpStore, lists
<1>2. RunningTypes'
  BY DEF TypeOK, RunningTypes, CatchUpStore, running
<1>3. TimeTypes'
  BY OnTypes DEF TypeOK, TimeTypes, CatchUpStore, lists, time, local
<1>4. NotificationTypes'
  BY DEF TypeOK, NotificationTypes, CatchUpStore, notified
<1>5. CallStateTypes'
  BY GotoTypes DEF TypeOK, CallStateTypes, CatchUpStore, local, Labels
<1>6. OtherTypes'
  BY DEF TypeOK, OtherTypes, CatchUpStore, counts, periods
<1>. QED
  BY <1>1, <1>2, <1>3, <1>4, <1>5, <1>6, TypesTogether

LEMMA CreateTypes ==
  ASSUME TypeOK, NEW t \in Tasks, NEW c \in Calls[t], Create(t, c)
  PROVE  TypeOK'
<1>0. c \in Call /\ c.on \in Tasks /\ InitialPriority[c.on] \in Priorities
  BY CallTypes, TasksAssumption
<1>1. ListTypes'
  BY <1>0 DEF TypeOK, ListTypes, Create, Lists
<1>2. RunningTypes' /\ TimeTypes'
  BY DEF TypeOK, RunningTypes, TimeTypes, Create, running, time
<1>3. NotificationTypes'
  BY <1>0 DEF TypeOK, NotificationTypes, Create
<1>4. CallStateTypes'
  BY <1>0 DEF TypeOK, CallStateTypes, Create, Labels, Entry
<1>5. OtherTypes'
  BY <1>0 DEF TypeOK, OtherTypes, Create, periods
<1>. QED
  BY <1>1, <1>2, <1>3, <1>4, <1>5, TypesTogether

LEMMA CreatedTypes ==
  ASSUME TypeOK, NEW t \in Tasks, Created(t)
  PROVE  TypeOK'
<1>1. ListTypes'
  BY DEF TypeOK, ListTypes, Created, lists
<1>2. RunningTypes'
  BY SwitchIfTypes DEF TypeOK, RunningTypes, Created, running
<1>3. TimeTypes'
  BY DEF TypeOK, TimeTypes, Created, lists, time, local
<1>4. NotificationTypes'
  BY DEF TypeOK, NotificationTypes, Created, notified
<1>5. CallStateTypes'
  BY ReturnTypes DEF TypeOK, CallStateTypes, Created, local
<1>6. OtherTypes'
  BY DEF TypeOK, OtherTypes, Created, counts, periods
<1>. QED
  BY <1>1, <1>2, <1>3, <1>4, <1>5, <1>6, TypesTogether

LEMMA DeleteItselfTypes ==
  ASSUME TypeOK, NEW t \in Tasks, NEW c \in Calls[t], DeleteItself(t, c)
  PROVE  TypeOK'
<1>1. ListTypes'
  BY CallTypes, RemoveToTypes DEF TypeOK, ListTypes, DeleteItself, lists, Lists
<1>2. RunningTypes'
  BY DEF TypeOK, RunningTypes, DeleteItself, running
<1>3. TimeTypes'
  BY DEF TypeOK, TimeTypes, DeleteItself, lists, time, local
<1>4. NotificationTypes'
  BY DEF TypeOK, NotificationTypes, DeleteItself, notified
<1>5. CallStateTypes'
  BY CallTypes, EnterTypes DEF TypeOK, CallStateTypes, DeleteItself, local, Labels
<1>6. OtherTypes'
  BY DEF TypeOK, OtherTypes, DeleteItself, counts, periods
<1>. QED
  BY <1>1, <1>2, <1>3, <1>4, <1>5, <1>6, TypesTogether

LEMMA DeleteOtherTypes ==
  ASSUME TypeOK, NEW t \in Tasks, NEW c \in Calls[t], DeleteOther(t, c)
  PROVE  TypeOK'
<1>1. ListTypes'
  BY CallTypes, RemoveToTypes DEF TypeOK, ListTypes, DeleteOther, lists, Lists
<1>2. RunningTypes'
  BY DEF TypeOK, RunningTypes, DeleteOther, running
<1>3. TimeTypes'
  BY ResetTypes DEF TypeOK, TimeTypes, DeleteOther, lists, time, local
<1>4. NotificationTypes'
  BY DEF TypeOK, NotificationTypes, DeleteOther, notified
<1>5. CallStateTypes'
  BY DEF TypeOK, CallStateTypes, DeleteOther, local
<1>6. OtherTypes'
  BY DEF TypeOK, OtherTypes, DeleteOther, counts, periods
<1>. QED
  BY <1>1, <1>2, <1>3, <1>4, <1>5, <1>6, TypesTogether

LEMMA CleanTypes ==
  ASSUME TypeOK, NEW t \in Tasks, Clean(t)
  PROVE  TypeOK'
<1>1. ListTypes'
  BY DEF TypeOK, ListTypes, Clean, lists, Lists
<1>2. RunningTypes'
  BY DEF TypeOK, RunningTypes, Clean, running
<1>3. TimeTypes'
  BY DEF TypeOK, TimeTypes, Clean, lists, time, local
<1>4. NotificationTypes'
  BY DEF TypeOK, NotificationTypes, Clean, notified
<1>5. CallStateTypes'
  BY DEF TypeOK, CallStateTypes, Clean, local
<1>6. OtherTypes'
  BY DEF TypeOK, OtherTypes, Clean, counts, periods
<1>. QED
  BY <1>1, <1>2, <1>3, <1>4, <1>5, <1>6, TypesTogether

LEMMA TickTypes ==
  ASSUME TypeOK, Tick
  PROVE  TypeOK'
<1>1. PICK due \in SUBSET Tasks :
        /\ CountTick(due)
        /\ SwitchIf(TickSwitches(due)) \/ Fail
  BY DEF Tick
<1>2. /\ ListTypes' /\ xNextTaskUnblockTime' \in Ticks /\ xTickCount' \in Ticks
      /\ pending' \subseteq Tasks /\ lag' \in [Tasks -> Int]
  BY <1>1, CountTickTypes
<1>3. RunningTypes'
  BY <1>1, SwitchIfTypes DEF TypeOK, RunningTypes, Tick
<1>4. TimeTypes'
  BY <1>2 DEF TypeOK, TimeTypes, Tick, local
<1>5. NotificationTypes' /\ CallStateTypes'
  BY DEF TypeOK, NotificationTypes, CallStateTypes, Tick, notified, local
<1>6. OtherTypes'
  BY <1>2 DEF TypeOK, OtherTypes, Tick, counts
<1>. QED
  BY <1>2, <1>3, <1>4, <1>5, <1>6, TypesTogether

LEMMA TickPendedTypes ==
  ASSUME TypeOK, TickPended
  PROVE  TypeOK'
<1>1. ListTypes'
  BY DEF TypeOK, ListTypes, TickPended, lists
<1>2. RunningTypes'
  BY DEF TypeOK, RunningTypes, TickPended, running
<1>3. TimeTypes'
  BY DEF TypeOK, TimeTypes, TickPended, lists, time, local
<1>4. NotificationTypes'
  BY DEF TypeOK, NotificationTypes, TickPended, notified
<1>5. CallStateTypes'
  BY DEF TypeOK, CallStateTypes, TickPended, local
<1>6. OtherTypes'
  BY DEF TypeOK, OtherTypes, TickPended, counts, periods
<1>. QED
  BY <1>1, <1>2, <1>3, <1>4, <1>5, <1>6, TypesTogether

LEMMA ResumeFromISRTypes ==
  ASSUME TypeOK, NEW i \in Interrupts, ResumeFromISR(i)
  PROVE  TypeOK'
<1>1. ListTypes'
  BY InterruptTypes, AddToReadyTypes DEF TypeOK, ListTypes, ResumeFromISR, lists, WakeFromISR
<1>2. RunningTypes'
  BY SwitchIfTypes DEF TypeOK, RunningTypes, ResumeFromISR, running
<1>3. TimeTypes'
  BY DEF TypeOK, TimeTypes, ResumeFromISR, lists, time, local, WakeFromISR
<1>4. NotificationTypes'
  BY DEF TypeOK, NotificationTypes, ResumeFromISR, notified
<1>5. CallStateTypes'
  BY DEF TypeOK, CallStateTypes, ResumeFromISR, local
<1>6. OtherTypes'
  BY InterruptTypes DEF TypeOK, OtherTypes, ResumeFromISR, counts, periods, WakeFromISR
<1>. QED
  BY <1>1, <1>2, <1>3, <1>4, <1>5, <1>6, TypesTogether

LEMMA NotifyFromISRTypes ==
  ASSUME TypeOK, NEW i \in Interrupts, NotifyFromISR(i)
  PROVE  TypeOK'
<1>1. ListTypes'
  BY InterruptTypes, AddToReadyTypes DEF TypeOK, ListTypes, NotifyFromISR, lists, WakeFromISR
<1>2. RunningTypes'
  BY SwitchIfTypes DEF TypeOK, RunningTypes, NotifyFromISR, running
<1>3. TimeTypes'
  BY DEF TypeOK, TimeTypes, NotifyFromISR, lists, time, local, WakeFromISR
<1>4. NotificationTypes'
  BY InterruptTypes, NotifiedTypes DEF TypeOK, NotificationTypes, NotifyFromISR, notified
<1>5. CallStateTypes'
  BY DEF TypeOK, CallStateTypes, NotifyFromISR, local
<1>6. OtherTypes'
  BY InterruptTypes DEF TypeOK, OtherTypes, NotifyFromISR, counts, periods, WakeFromISR
<1>. QED
  BY <1>1, <1>2, <1>3, <1>4, <1>5, <1>6, TypesTogether

LEMMA StutterTypes ==
  ASSUME TypeOK, UNCHANGED vars
  PROVE  TypeOK'
  BY DEF TypeOK, vars, lists, running, time, notified, counts, local, periods

(* The variables keep their types, for all tasks, calls and handlers.      *)
THEOREM TypeCorrect == Spec => []TypeOK
<1>1. TypeOK /\ [Next]_vars => TypeOK'
  <2> SUFFICES ASSUME TypeOK, [Next]_vars PROVE TypeOK'
    OBVIOUS
  <2>1. CASE UNCHANGED vars
    BY <2>1, StutterTypes
  <2>2. ASSUME NEW t \in Tasks, NEW c \in Calls[t],
               \/ Delay(t, c) \/ DelayUntil(t, c) \/ Await(t, c) \/ Notify(t, c)
               \/ Suspend(t, c) \/ Resume(t, c) \/ PrioritySet(t, c) \/ Abort(t, c)
               \/ CatchUp(t, c) \/ Create(t, c) \/ DeleteItself(t, c) \/ DeleteOther(t, c)
        PROVE  TypeOK'
    BY <2>2, DelayTypes, DelayUntilTypes, AwaitTypes, NotifyTypes, SuspendTypes, ResumeTypes,
       PrioritySetTypes, AbortTypes, CatchUpTypes, CreateTypes, DeleteItselfTypes, DeleteOtherTypes
  <2>3. ASSUME NEW t \in Tasks, Continue(t) \/ Clean(t)
        PROVE  TypeOK'
    BY <2>3, StartTypes, YieldTypes, ResumeAllTypes, PendedTickTypes, ResumedTypes, AwaitedTypes,
       SuspendedTypes, AbortLookTypes, AbortLookAgainTypes, AbortedTypes, CatchUpLoadTypes,
       CatchUpStoreTypes, CreatedTypes, CleanTypes DEF Continue
  <2>4. CASE Tick \/ TickPended
    BY <2>4, TickTypes, TickPendedTypes
  <2>5. ASSUME NEW i \in Interrupts, ResumeFromISR(i) \/ NotifyFromISR(i)
        PROVE  TypeOK'
    BY <2>5, ResumeFromISRTypes, NotifyFromISRTypes
  <2>. QED
    BY <2>1, <2>2, <2>3, <2>4, <2>5 DEF Next, Begin
<1>. QED
  BY <1>1, TypeInit, PTL DEF Spec

(***************************************************************************)
(* Delays.  Both parts are needed for each other: that no delayed task is  *)
(* overlooked by a tick needs the time to unblock not to be late, and that *)
(* the list retired at the wrap is empty needs the delays to be exact.     *)
(***************************************************************************)
DelayInv == UnblockTimeNotLate /\ DelaysExact

Asleep == {"delayed", "overflow"}

(* A step that lets time stand and only takes tasks out of the delayed     *)
(* lists.                                                                  *)
Wakes ==
  /\ UNCHANGED xTickCount
  /\ \A t \in Tasks :
       \/ where'[t] = where[t] /\ wake'[t] = wake[t] /\ left'[t] = left[t]
       \/ where'[t] \notin Asleep /\ left'[t] = 0
  /\ UNCHANGED xNextTaskUnblockTime \/ ResetNextTaskUnblockTime(where')

LEMMA WakesKeepsDelays ==
  ASSUME TypeOK, DelayInv, Wakes
  PROVE  DelayInv'
<1>1. \A t \in Delayed(where') : t \in Delayed(where) /\ wake'[t] = wake[t]
  BY DEF Wakes, Delayed, Asleep
<1>2. UnblockTimeNotLate'
  <2>1. CASE UNCHANGED xNextTaskUnblockTime
    BY <1>1, <2>1 DEF DelayInv, UnblockTimeNotLate
  <2>2. CASE ResetNextTaskUnblockTime(where')
    BY <1>1, <2>2 DEF UnblockTimeNotLate, ResetNextTaskUnblockTime, IsFirstWake
  <2>. QED
    BY <2>1, <2>2 DEF Wakes
<1>3. DelaysExact'
  BY DEF DelayInv, DelaysExact, Wakes, Asleep
<1>. QED
  BY <1>2, <1>3 DEF DelayInv

LEMMA AddToReadyWakes ==
  ASSUME TypeOK, NEW S, AddToReady(S), UNCHANGED xTickCount,
         UNCHANGED xNextTaskUnblockTime \/ ResetNextTaskUnblockTime(where')
  PROVE  Wakes
  BY DEF TypeOK, AddToReady, Wakes, Asleep

LEMMA RemoveToWakes ==
  ASSUME TypeOK, NEW t \in Tasks, NEW list \in Lists \ Asleep, RemoveTo(t, list),
         UNCHANGED xTickCount,
         UNCHANGED xNextTaskUnblockTime \/ ResetNextTaskUnblockTime(where')
  PROVE  Wakes
  BY DEF TypeOK, RemoveTo, Wakes, Asleep

LEMMA UnchangedWakes ==
  ASSUME UNCHANGED <<where, wake, left, xTickCount>>,
         UNCHANGED xNextTaskUnblockTime \/ ResetNextTaskUnblockTime(where)
  PROVE  Wakes
  BY DEF Wakes

(* A delay of n ticks ends before the counter wraps, or after it wraps     *)
(* once.                                                                   *)
LEMMA DelayForKeepsDelays ==
  ASSUME TypeOK, DelayInv, NEW t \in Tasks, NEW n \in Ticks, n > 0, DelayFor(t, n),
         UNCHANGED xTickCount
  PROVE  DelayInv'
<1> DEFINE to == (xTickCount + n) % TickRange
<1>1. to = IF xTickCount + n < TickRange THEN xTickCount + n ELSE xTickCount + n - TickRange
  <2>1. xTickCount \in Ticks /\ xTickCount + n \in 0 .. TickRange + TickRange - 1
    BY DEF TypeOK
  <2>2. to = IF xTickCount + n < TickRange THEN xTickCount + n ELSE (xTickCount + n) - TickRange
    BY <2>1, WrapOnce
  <2>. QED
    BY <2>1, <2>2
<1>2. /\ wake' = [wake EXCEPT ![t] = to]
      /\ left' = [left EXCEPT ![t] = n]
      /\ IF to < xTickCount
         THEN where' = [where EXCEPT ![t] = "overflow"] /\ UNCHANGED xNextTaskUnblockTime
         ELSE /\ where' = [where EXCEPT ![t] = "delayed"]
              /\ xNextTaskUnblockTime' = IF to < xNextTaskUnblockTime
                                         THEN to ELSE xNextTaskUnblockTime
  BY DEF DelayFor
<1>. HIDE DEF to
<1>3. xTickCount \in Ticks /\ xNextTaskUnblockTime \in Ticks /\ to \in Ticks
  BY <1>1 DEF TypeOK
<1>4. ASSUME NEW u \in Tasks, u # t
      PROVE  where'[u] = where[u] /\ wake'[u] = wake[u] /\ left'[u] = left[u]
  BY <1>2, <1>4 DEF TypeOK
<1>5. /\ wake'[t] = to /\ left'[t] = n
      /\ where'[t] = IF to < xTickCount THEN "overflow" ELSE "delayed"
  BY <1>2 DEF TypeOK
<1>6. UnblockTimeNotLate'
  <2>1. ASSUME NEW u \in Tasks, where'[u] = "delayed"
        PROVE  xNextTaskUnblockTime' <= wake'[u]
    <3>1. CASE u = t
      BY <1>2, <1>3, <1>5, <2>1, <3>1
    <3>2. CASE u # t
      <4>1. xNextTaskUnblockTime <= wake[u] /\ wake[u] \in Ticks
        BY <1>4, <2>1, <3>2 DEF DelayInv, UnblockTimeNotLate, Delayed, TypeOK
      <4>. QED
        BY <1>2, <1>3, <1>4, <3>2, <4>1
    <3>. QED
      BY <3>1, <3>2
  <2>. QED
    BY <2>1 DEF UnblockTimeNotLate, Delayed
<1>7. DelaysExact'
  <2>1. ASSUME NEW u \in Tasks
        PROVE  /\ where'[u] = "delayed" => left'[u] > 0 /\ wake'[u] = xTickCount + left'[u]
               /\ where'[u] = "overflow" =>
                    left'[u] > 0 /\ wake'[u] + TickRange = xTickCount + left'[u]
               /\ left'[u] > 0 => where'[u] \in {"delayed", "overflow"}
    <3>1. CASE u = t
      BY <1>1, <1>3, <1>5, <3>1
    <3>2. CASE u # t
      BY <1>4, <3>2 DEF DelayInv, DelaysExact
    <3>. QED
      BY <3>1, <3>2
  <2>. QED
    BY <2>1 DEF DelaysExact
<1>. QED
  BY <1>6, <1>7 DEF DelayInv

(* Before the counter wraps every task in the delayed list has been woken. *)
LEMMA NoneDelayedAtWrap ==
  ASSUME TypeOK, DelayInv
  PROVE  ~WrapFails
<1>1. ASSUME NEW t \in Tasks, where[t] = "delayed"
      PROVE  xTickCount < portMAX_DELAY
  BY <1>1 DEF DelayInv, DelaysExact, TypeOK
<1>. QED
  BY <1>1 DEF WrapFails, Delayed, TypeOK

LEMMA CountTickKeepsDelays ==
  ASSUME TypeOK, DelayInv, NEW due \in SUBSET Tasks, CountTick(due)
  PROVE  DelayInv'
<1> DEFINE now == (xTickCount + 1) % TickRange
           w == IF now = 0 THEN Wrapped(where) ELSE where
<1>1. now = IF xTickCount = TickRange - 1 THEN 0 ELSE xTickCount + 1
  BY NextTick DEF TypeOK
<1>2. w \in [Tasks -> Lists]
  BY DEF TypeOK, Wrapped, Lists
<1>3. PICK n \in Ticks :
        /\ IF now = 0 THEN IsFirstWake(n, w) ELSE n = xNextTaskUnblockTime
        /\ due = Due(now, w, n)
        /\ xTickCount' = now
        /\ where' = [t \in Tasks |-> IF t \in due THEN "ready" ELSE w[t]]
        /\ wake' = [t \in Tasks |-> IF t \in due THEN 0 ELSE wake[t]]
        /\ IF now >= n THEN ResetNextTaskUnblockTime(where') ELSE xNextTaskUnblockTime' = n
        /\ left' = [t \in Tasks |-> IF left[t] > 0 THEN left[t] - 1 ELSE 0]
  BY DEF CountTick
<1>4. /\ now \in Ticks /\ xTickCount \in Ticks
      /\ \A t \in Tasks : wake[t] \in Ticks /\ left[t] \in Ticks
  BY <1>1 DEF TypeOK
(* The lists after the wrap, if it wraps, hold what they held before.      *)
<1>5. ASSUME NEW t \in Tasks
      PROVE  /\ w[t] = "delayed" => left[t] > 0 /\ wake[t] = now + left[t] - 1
             /\ w[t] = "overflow" => left[t] > 0 /\ wake[t] + TickRange = now + left[t] - 1
             /\ left[t] > 0 => w[t] \in Asleep
  <2>1. /\ where[t] = "delayed" => left[t] > 0 /\ wake[t] = xTickCount + left[t]
        /\ where[t] = "overflow" => left[t] > 0 /\ wake[t] + TickRange = xTickCount + left[t]
        /\ left[t] > 0 => where[t] \in {"delayed", "overflow"}
    BY DEF DelayInv, DelaysExact
  <2>2. CASE xTickCount = TickRange - 1
    <3>1. now = 0 /\ w[t] = IF where[t] = "overflow" THEN "delayed"
                            ELSE IF where[t] = "delayed" THEN "overflow" ELSE where[t]
      BY <1>1, <2>2 DEF Wrapped
    <3>2. where[t] # "delayed"
      BY <1>4, <2>1, <2>2
    <3>3. CASE where[t] = "overflow"
      BY <1>4, <2>1, <2>2, <3>1, <3>3 DEF Asleep
    <3>4. CASE where[t] # "overflow"
      BY <2>1, <3>1, <3>2, <3>4 DEF Asleep
    <3>. QED
      BY <3>3, <3>4
  <2>3. CASE xTickCount # TickRange - 1
    <3>1. now = xTickCount + 1 /\ now # 0 /\ w[t] = where[t]
      BY <1>1, <1>4, <2>3
    <3>. QED
      BY <1>4, <2>1, <3>1 DEF Asleep
  <2>. QED
    BY <2>2, <2>3
<1>6. ASSUME NEW t \in Tasks, w[t] = "delayed"
      PROVE  n <= wake[t]
  <2>1. CASE now = 0
    BY <1>3, <1>6, <2>1 DEF IsFirstWake, Delayed
  <2>2. CASE now # 0
    <3>1. n = xNextTaskUnblockTime /\ where[t] = "delayed"
      BY <1>3, <1>6, <2>2
    <3>. QED
      BY <3>1 DEF DelayInv, UnblockTimeNotLate, Delayed
  <2>. QED
    BY <2>1, <2>2
<1>. HIDE DEF now, w
(* A tick overlooks none whose time has come.                              *)
<1>7. ASSUME NEW t \in Tasks
      PROVE  t \in due <=> w[t] = "delayed" /\ wake[t] <= now
  BY <1>3, <1>4, <1>6 DEF Due, Delayed
<1>8. ASSUME NEW t \in Tasks
      PROVE  /\ where'[t] = IF t \in due THEN "ready" ELSE w[t]
             /\ wake'[t] = IF t \in due THEN 0 ELSE wake[t]
             /\ left'[t] = IF left[t] > 0 THEN left[t] - 1 ELSE 0
  BY <1>3
<1>9. UnblockTimeNotLate'
  <2>1. ASSUME NEW t \in Tasks, where'[t] = "delayed"
        PROVE  xNextTaskUnblockTime' <= wake'[t]
    <3>1. w[t] = "delayed" /\ wake'[t] = wake[t]
      BY <1>8, <2>1
    <3>2. CASE now >= n
      BY <1>3, <2>1, <3>1, <3>2 DEF ResetNextTaskUnblockTime, IsFirstWake, Delayed
    <3>3. CASE ~(now >= n)
      BY <1>3, <1>6, <3>1, <3>3
    <3>. QED
      BY <3>2, <3>3
  <2>. QED
    BY <2>1 DEF UnblockTimeNotLate, Delayed
<1>10. DelaysExact'
  <2>1. ASSUME NEW t \in Tasks
        PROVE  /\ where'[t] = "delayed" => left'[t] > 0 /\ wake'[t] = now + left'[t]
               /\ where'[t] = "overflow" => left'[t] > 0 /\ wake'[t] + TickRange = now + left'[t]
               /\ left'[t] > 0 => where'[t] \in {"delayed", "overflow"}
    <3>1. CASE t \in due
      BY <1>4, <1>5, <1>7, <1>8, <3>1
    <3>2. CASE t \notin due
      BY <1>4, <1>5, <1>7, <1>8, <3>2 DEF Asleep
    <3>. QED
      BY <3>1, <3>2
  <2>. QED
    BY <1>3, <2>1 DEF DelaysExact
<1>. QED
  BY <1>9, <1>10 DEF DelayInv

LEMMA DelayInit == Init => DelayInv
BY DEF Init, DelayInv, UnblockTimeNotLate, DelaysExact, Delayed

(* The calls that take a task out of a delayed list, or leave the lists.   *)
LEMMA CallsThatWake ==
  ASSUME TypeOK, NEW t \in Tasks, NEW c \in Calls[t],
         \/ Notify(t, c) \/ Suspend(t, c) \/ Resume(t, c) \/ PrioritySet(t, c) \/ Abort(t, c)
         \/ CatchUp(t, c) \/ DeleteItself(t, c) \/ DeleteOther(t, c)
  PROVE  Wakes
<1> USE DEF lists, time
<1>0. c.on \in Tasks /\ "suspended" \in Lists \ Asleep /\ "termination" \in Lists \ Asleep
      /\ "none" \in Lists \ Asleep
  BY CallTypes DEF Lists, Asleep
<1>1. CASE Notify(t, c)
  BY <1>1, AddToReadyWakes DEF Notify
<1>2. CASE Suspend(t, c)
  BY <1>0, <1>2, RemoveToWakes DEF Suspend
<1>3. CASE Resume(t, c)
  BY <1>3, AddToReadyWakes DEF Resume
<1>4. CASE PrioritySet(t, c)
  BY <1>4, UnchangedWakes DEF PrioritySet
<1>5. CASE Abort(t, c) \/ CatchUp(t, c)
  BY <1>5, UnchangedWakes DEF Abort, CatchUp
<1>6. CASE DeleteItself(t, c)
  BY <1>0, <1>6, RemoveToWakes DEF DeleteItself
<1>7. CASE DeleteOther(t, c)
  BY <1>0, <1>7, RemoveToWakes DEF DeleteOther
<1>. QED
  BY <1>1, <1>2, <1>3, <1>4, <1>5, <1>6, <1>7

LEMMA StepsThatWake ==
  ASSUME TypeOK, NEW t \in Tasks,
         \/ Start(t) \/ Yield(t) \/ ResumeAll(t) \/ Resumed(t) \/ Awaited(t) \/ Suspended(t)
         \/ AbortLook(t) \/ AbortLookAgain(t) \/ Aborted(t)
         \/ CatchUpLoad(t) \/ CatchUpStore(t) \/ Created(t)
  PROVE  Wakes
<1> USE DEF lists, time
<1>1. CASE ResumeAll(t)
  BY <1>1, AddToReadyWakes DEF ResumeAll
<1>2. CASE Aborted(t)
  BY <1>2, AddToReadyWakes DEF Aborted
<1>3. CASE Suspended(t)
  BY <1>3, UnchangedWakes DEF Suspended
<1>4. CASE Start(t) \/ Yield(t) \/ Resumed(t) \/ Awaited(t)
  BY <1>4, UnchangedWakes DEF Start, Yield, Resumed, Awaited
<1>5. CASE AbortLook(t) \/ AbortLookAgain(t) \/ CatchUpLoad(t) \/ CatchUpStore(t) \/ Created(t)
  BY <1>5, UnchangedWakes DEF AbortLook, AbortLookAgain, CatchUpLoad, CatchUpStore, Created
<1>. QED
  BY <1>1, <1>2, <1>3, <1>4, <1>5

LEMMA InterruptsThatWake ==
  ASSUME TypeOK, NEW i \in Interrupts, ResumeFromISR(i) \/ NotifyFromISR(i)
  PROVE  Wakes
<1> USE DEF lists, time
<1>1. ASSUME WakeFromISR(i.on), UNCHANGED xTickCount
      PROVE  Wakes
  BY <1>1, AddToReadyWakes, UnchangedWakes DEF WakeFromISR
<1>2. CASE ResumeFromISR(i)
  BY <1>1, <1>2 DEF ResumeFromISR
<1>3. CASE NotifyFromISR(i)
  BY <1>1, <1>3, UnchangedWakes DEF NotifyFromISR
<1>. QED
  BY <1>2, <1>3

(* A task that was not there, or is not there any more, had no delay left. *)
LEMMA CreateAndCleanWake ==
  ASSUME TypeOK, DelayInv, NEW t \in Tasks,
         (\E c \in Calls[t] : Create(t, c)) \/ Clean(t)
  PROVE  Wakes
<1>1. ASSUME NEW u \in Tasks, where[u] \notin Asleep
      PROVE  left[u] = 0
  BY <1>1 DEF DelayInv, DelaysExact, Asleep, TypeOK
<1>2. CASE Clean(t)
  <2>1. left[t] = 0
    BY <1>1, <1>2 DEF Clean, Asleep
  <2>. QED
    BY <1>2, <2>1 DEF Clean, Wakes, Asleep, TypeOK, time
<1>3. ASSUME NEW c \in Calls[t], Create(t, c)
      PROVE  Wakes
  <2>1. c.on \in Tasks /\ left[c.on] = 0
    BY <1>1, <1>3, CallTypes DEF Create, Asleep
  <2>2. /\ where' = [where EXCEPT ![c.on] = "ready"]
        /\ UNCHANGED <<wake, left, xNextTaskUnblockTime, xTickCount>>
    BY <1>3 DEF Create, time
  <2>. QED
    BY <2>1, <2>2 DEF Wakes, Asleep, TypeOK
<1>. QED
  BY <1>2, <1>3

(* How long the current task is to be delayed is never nought.             *)
LEMMA CallsThatDelay ==
  ASSUME TypeOK, DelayInv, NEW t \in Tasks, NEW c \in Calls[t],
         Delay(t, c) \/ DelayUntil(t, c) \/ Await(t, c)
  PROVE  DelayInv'
<1> USE DEF lists, time
<1>1. UNCHANGED xTickCount
  BY DEF Delay, DelayUntil, Await
<1>2. ASSUME UNCHANGED lists
      PROVE  DelayInv'
  BY <1>1, <1>2, UnchangedWakes, WakesKeepsDelays
<1>3. CASE Delay(t, c)
  <2>1. c.arg \in Ticks
    BY <1>3, CallTypes DEF Delay, Begins
  <2>2. CASE c.arg > 0 /\ DelayFor(t, c.arg)
    BY <1>1, <2>1, <2>2, DelayForKeepsDelays
  <2>. QED
    BY <1>2, <1>3, <2>2 DEF Delay
<1>4. CASE Await(t, c)
  <2>1. c.arg \in Ticks
    BY <1>4, CallTypes DEF Await, Begins
  <2>2. CASE c.arg > 0 /\ BlockFor(t, c.arg)
    <3>1. CASE c.arg = portMAX_DELAY
      <4>1. RemoveTo(t, "suspended") /\ UNCHANGED xNextTaskUnblockTime
        BY <2>2, <3>1 DEF BlockFor
      <4>2. "suspended" \in Lists \ Asleep
        BY DEF Lists, Asleep
      <4>. QED
        BY <1>1, <4>1, <4>2, RemoveToWakes, WakesKeepsDelays
    <3>2. CASE c.arg # portMAX_DELAY
      BY <1>1, <2>1, <2>2, <3>2, DelayForKeepsDelays DEF BlockFor
    <3>. QED
      BY <3>1, <3>2
  <2>. QED
    BY <1>2, <1>4, <2>2 DEF Await
<1>5. CASE DelayUntil(t, c)
  <2> DEFINE to == (xLastWakeTime[t] + c.arg) % TickRange
             n == (to + TickRange - xTickCount) % TickRange
  <2>1. c.arg \in Ticks /\ c.arg > 0 /\ xLastWakeTime[t] \in Ticks /\ xTickCount \in Ticks
    BY <1>5, CallTypes DEF DelayUntil, Begins, TypeOK
  <2>2. to \in Ticks
    <3>1. xLastWakeTime[t] + c.arg \in 0 .. TickRange + TickRange - 1
      BY <2>1
    <3>. QED
      BY <3>1, WrapOnce
  <2>3. \/ ShouldDelay(xLastWakeTime[t], to) /\ DelayFor(t, n)
        \/ UNCHANGED lists
    BY <1>5 DEF DelayUntil
  <2>4. CASE ShouldDelay(xLastWakeTime[t], to) /\ DelayFor(t, n)
    <3>. HIDE DEF to
    <3>1. to # xTickCount
      BY <2>1, <2>2, <2>4 DEF ShouldDelay
    <3>2. to + TickRange - xTickCount \in 0 .. TickRange + TickRange - 1
      BY <2>1, <2>2
    <3>3. n = IF to + TickRange - xTickCount < TickRange
              THEN to + TickRange - xTickCount ELSE (to + TickRange - xTickCount) - TickRange
      BY <3>2, WrapOnce
    <3>. HIDE DEF n
    <3>4. n \in Ticks /\ n > 0
      BY <2>1, <2>2, <3>1, <3>3
    <3>. QED
      BY <1>1, <2>4, <3>4, DelayForKeepsDelays
  <2>. QED
    BY <1>2, <2>3, <2>4
<1>. QED
  BY <1>3, <1>4, <1>5

LEMMA DelayNext == TypeOK /\ DelayInv /\ [Next]_vars => DelayInv'
<1> SUFFICES ASSUME TypeOK, DelayInv, [Next]_vars PROVE DelayInv'
  OBVIOUS
<1>1. CASE UNCHANGED vars
  BY <1>1, UnchangedWakes, WakesKeepsDelays DEF vars, lists, time
<1>2. ASSUME NEW t \in Tasks, Begin(t)
      PROVE  DelayInv'
  BY <1>2, CallsThatWake, CallsThatDelay, CreateAndCleanWake, WakesKeepsDelays DEF Begin
<1>3. ASSUME NEW t \in Tasks, PendedTick(t)
      PROVE  DelayInv'
  BY <1>3, CountTickKeepsDelays DEF PendedTick
<1>4. ASSUME NEW t \in Tasks, Continue(t) \/ Clean(t)
      PROVE  DelayInv'
  BY <1>3, <1>4, StepsThatWake, CreateAndCleanWake, WakesKeepsDelays DEF Continue
<1>5. CASE Tick
  BY <1>5, CountTickKeepsDelays DEF Tick
<1>6. CASE TickPended
  BY <1>6, UnchangedWakes, WakesKeepsDelays DEF TickPended, lists
<1>7. ASSUME NEW i \in Interrupts, ResumeFromISR(i) \/ NotifyFromISR(i)
      PROVE  DelayInv'
  BY <1>7, InterruptsThatWake, WakesKeepsDelays
<1>. QED
  BY <1>1, <1>2, <1>4, <1>5, <1>6, <1>7 DEF Next

LEMMA DelayInvariant == Spec => [](TypeOK /\ DelayInv)
<1>1. Spec => []TypeOK
  BY TypeCorrect
<1>. QED
  BY <1>1, DelayInit, DelayNext, PTL DEF Spec

(* A task sleeps exactly as long as it asked to unless it is woken, for    *)
(* every range of the counter and whatever the other tasks and the         *)
(* handlers do.                                                            *)
THEOREM DelaysAreExact == Spec => []DelaysExact
<1>1. DelayInv => DelaysExact
  BY DEF DelayInv
<1>. QED
  BY <1>1, DelayInvariant, PTL

(* xNextTaskUnblockTime is never late, though few removals update it.      *)
THEOREM UnblockTimeIsNotLate == Spec => []UnblockTimeNotLate
<1>1. DelayInv => UnblockTimeNotLate
  BY DEF DelayInv
<1>. QED
  BY <1>1, DelayInvariant, PTL

(* The assertion of taskSWITCH_DELAYED_LISTS never fails.                  *)
THEOREM RetiredListIsEmpty == Spec => [](~WrapFails)
  BY DelayInvariant, NoneDelayedAtWrap, PTL

(***************************************************************************)
(* The bits of uxTopReadyPriority, by member.                              *)
(***************************************************************************)
ReadyBits ==
  \A p : p \in uxTopReadyPriority <=> \E t \in Tasks : where[t] = "ready" /\ uxPriority[t] = p

LEMMA ReadyBitsAre == ReadyExactly => ReadyBits
  BY DEF ReadyExactly, ReadyBits

LEMMA ReadyBitsAreNext == ReadyBits' => ReadyExactly'
<1> SUFFICES ASSUME ReadyBits' PROVE ReadyExactly'
  OBVIOUS
<1>1. \A p : p \in uxTopReadyPriority' <=>
             p \in {uxPriority'[t] : t \in {u \in Tasks : where'[u] = "ready"}}
  BY DEF ReadyBits
<1>. QED
  BY <1>1 DEF ReadyExactly

LEMMA AddToReadyKeepsBits ==
  ASSUME TypeOK, ReadyBits, NEW S \in SUBSET Tasks, AddToReady(S), UNCHANGED uxPriority
  PROVE  ReadyBits'
  BY DEF ReadyBits, AddToReady, TypeOK

LEMMA LeavingKeepsBits ==
  ASSUME TypeOK, ReadyBits, NEW t \in Tasks, uxTopReadyPriority' = TopWithout(t),
         NEW list, list # "ready", where' = [where EXCEPT ![t] = list], UNCHANGED uxPriority
  PROVE  ReadyBits'
<1>1. ASSUME NEW p
      PROVE  p \in uxTopReadyPriority' <=>
               \E u \in Tasks : where'[u] = "ready" /\ uxPriority[u] = p
  <2>1. (\E u \in Tasks : where'[u] = "ready" /\ uxPriority[u] = p) <=>
        (\E u \in Tasks \ {t} : where[u] = "ready" /\ uxPriority[u] = p)
    BY DEF TypeOK
  <2>2. CASE p # uxPriority[t]
    BY <2>1, <2>2 DEF ReadyBits, TopWithout
  <2>3. CASE p = uxPriority[t] /\ ReadyAt(p) \ {t} # {}
    BY <2>1, <2>3 DEF ReadyBits, TopWithout, ReadyAt
  <2>4. CASE p = uxPriority[t] /\ ReadyAt(p) \ {t} = {}
    <3>1. ~ \E u \in Tasks \ {t} : where[u] = "ready" /\ uxPriority[u] = p
      BY <2>4 DEF ReadyAt
    <3>2. p \notin uxTopReadyPriority'
      BY <2>4, <3>1 DEF ReadyBits, TopWithout
    <3>. QED
      BY <2>1, <3>1, <3>2
  <2>. QED
    BY <2>2, <2>3, <2>4
<1>. QED
  BY <1>1 DEF ReadyBits

LEMMA CountTickKeepsBits ==
  ASSUME TypeOK, ReadyBits, NEW due \in SUBSET Tasks, CountTick(due), UNCHANGED uxPriority
  PROVE  ReadyBits'
<1> DEFINE w == IF (xTickCount + 1) % TickRange = 0 THEN Wrapped(where) ELSE where
<1>1. /\ where' = [t \in Tasks |-> IF t \in due THEN "ready" ELSE w[t]]
      /\ uxTopReadyPriority' = uxTopReadyPriority \cup {uxPriority[t] : t \in due}
  BY DEF CountTick
<1>2. ASSUME NEW t \in Tasks
      PROVE  w[t] = "ready" <=> where[t] = "ready"
  BY DEF Wrapped
<1>. HIDE DEF w
<1>3. ASSUME NEW t \in Tasks
      PROVE  where'[t] = "ready" <=> t \in due \/ where[t] = "ready"
  BY <1>1, <1>2
<1>. QED
  BY <1>1, <1>3 DEF ReadyBits

LEMMA UnchangedKeepsBits ==
  ASSUME ReadyBits, UNCHANGED <<where, uxTopReadyPriority, uxPriority>>
  PROVE  ReadyBits'
  BY DEF ReadyBits

LEMMA PrioritySetKeepsBits ==
  ASSUME TypeOK, ReadyBits, NEW t \in Tasks, NEW c \in Calls[t], PrioritySet(t, c)
  PROVE  ReadyBits'
<1> DEFINE u == c.on
           old == uxPriority[u]
<1>0. u \in Tasks
  BY CallTypes
<1>1. /\ uxPriority' = [uxPriority EXCEPT ![u] = c.arg] /\ c.arg # old
      /\ uxTopReadyPriority' = Moved(u, c.arg) /\ UNCHANGED where
  BY DEF PrioritySet
<1>2. CASE where[u] # "ready"
  BY <1>0, <1>1, <1>2 DEF ReadyBits, Moved, TypeOK
<1>3. CASE where[u] = "ready"
  <2>1. ASSUME NEW p
        PROVE  p \in uxTopReadyPriority' <=>
                 \E v \in Tasks : where[v] = "ready" /\ uxPriority'[v] = p
    <3>1. (\E v \in Tasks : where[v] = "ready" /\ uxPriority'[v] = p) <=>
          p = c.arg \/ \E v \in Tasks \ {u} : where[v] = "ready" /\ uxPriority[v] = p
      BY <1>0, <1>1, <1>3 DEF TypeOK
    <3>2. CASE p = c.arg \/ p # old
      BY <1>0, <1>1, <1>3, <3>1, <3>2 DEF ReadyBits, Moved
    <3>3. CASE p = old /\ p # c.arg /\ ReadyAt(old) = {u}
      <4>1. p \notin uxTopReadyPriority'
        BY <1>1, <1>3, <3>3 DEF Moved
      <4>2. ~ \E v \in Tasks \ {u} : where[v] = "ready" /\ uxPriority[v] = p
        BY <3>3 DEF ReadyAt
      <4>. QED
        BY <3>1, <3>3, <4>1, <4>2
    <3>4. CASE p = old /\ p # c.arg /\ ReadyAt(old) # {u}
      <4>1. u \in ReadyAt(old)
        BY <1>0, <1>3 DEF ReadyAt
      <4>2. \E v \in Tasks \ {u} : where[v] = "ready" /\ uxPriority[v] = p
        BY <3>4, <4>1 DEF ReadyAt
      <4>3. p \in uxTopReadyPriority
        BY <4>2 DEF ReadyBits
      <4>. QED
        BY <1>1, <1>3, <3>1, <3>4, <4>2, <4>3 DEF Moved
    <3>. QED
      BY <3>2, <3>3, <3>4
  <2>. QED
    BY <1>1, <2>1 DEF ReadyBits
<1>. QED
  BY <1>2, <1>3

LEMMA CreateKeepsBits ==
  ASSUME TypeOK, ReadyBits, NEW t \in Tasks, NEW c \in Calls[t], Create(t, c)
  PROVE  ReadyBits'
<1>1. /\ c.on \in Tasks /\ where[c.on] = "none"
      /\ where' = [where EXCEPT ![c.on] = "ready"]
      /\ uxPriority' = [uxPriority EXCEPT ![c.on] = InitialPriority[c.on]]
      /\ uxTopReadyPriority' = uxTopReadyPriority \cup {InitialPriority[c.on]}
  BY CallTypes DEF Create
<1>2. ASSUME NEW p
      PROVE  (\E v \in Tasks : where'[v] = "ready" /\ uxPriority'[v] = p) <=>
             p = InitialPriority[c.on] \/ \E v \in Tasks : where[v] = "ready" /\ uxPriority[v] = p
  BY <1>1 DEF TypeOK
<1>. QED
  BY <1>1, <1>2 DEF ReadyBits

LEMMA ReadyNext == TypeOK /\ ReadyBits /\ [Next]_vars => ReadyBits'
<1> SUFFICES ASSUME TypeOK, ReadyBits, [Next]_vars PROVE ReadyBits'
  OBVIOUS
<1> USE DEF lists
<1>1. CASE UNCHANGED vars
  BY <1>1, UnchangedKeepsBits DEF vars
<1>2. ASSUME NEW t \in Tasks, NEW list, list # "ready", RemoveTo(t, list), UNCHANGED uxPriority
      PROVE  ReadyBits'
  BY <1>2, LeavingKeepsBits DEF RemoveTo
<1>3. ASSUME NEW t \in Tasks, NEW n, DelayFor(t, n) \/ BlockFor(t, n), UNCHANGED uxPriority
      PROVE  ReadyBits'
  <2>1. CASE DelayFor(t, n)
    BY <1>3, <2>1, LeavingKeepsBits DEF DelayFor
  <2>. QED
    BY <1>2, <1>3, <2>1 DEF BlockFor
<1>4. ASSUME NEW t \in Tasks, NEW c \in Calls[t],
             Delay(t, c) \/ DelayUntil(t, c) \/ Await(t, c)
      PROVE  ReadyBits'
  BY <1>3, <1>4, UnchangedKeepsBits DEF Delay, DelayUntil, Await
<1>5. ASSUME NEW t \in Tasks, NEW c \in Calls[t], Notify(t, c) \/ Resume(t, c)
      PROVE  ReadyBits'
  BY <1>5, CallTypes, AddToReadyKeepsBits DEF Notify, Resume
<1>6. ASSUME NEW t \in Tasks, NEW c \in Calls[t],
             Suspend(t, c) \/ DeleteItself(t, c) \/ DeleteOther(t, c)
      PROVE  ReadyBits'
  BY <1>2, <1>6, CallTypes DEF Suspend, DeleteItself, DeleteOther
<1>7. ASSUME NEW t \in Tasks, NEW c \in Calls[t], Abort(t, c) \/ CatchUp(t, c)
      PROVE  ReadyBits'
  BY <1>7, UnchangedKeepsBits DEF Abort, CatchUp
<1>8. ASSUME NEW t \in Tasks, Begin(t)
      PROVE  ReadyBits'
  BY <1>4, <1>5, <1>6, <1>7, <1>8, PrioritySetKeepsBits, CreateKeepsBits DEF Begin
<1>9. ASSUME NEW t \in Tasks, ResumeAll(t) \/ Aborted(t)
      PROVE  ReadyBits'
  BY <1>9, OnTypes, AddToReadyKeepsBits DEF ResumeAll, Aborted, TypeOK
<1>10. ASSUME NEW t \in Tasks,
              \/ Start(t) \/ Yield(t) \/ Resumed(t) \/ Awaited(t) \/ Suspended(t) \/ AbortLook(t)
              \/ AbortLookAgain(t) \/ CatchUpLoad(t) \/ CatchUpStore(t) \/ Created(t)
       PROVE  ReadyBits'
  BY <1>10, UnchangedKeepsBits DEF Start, Yield, Resumed, Awaited, Suspended, AbortLook,
     AbortLookAgain, CatchUpLoad, CatchUpStore, Created
<1>11. ASSUME NEW t \in Tasks, PendedTick(t)
       PROVE  ReadyBits'
  BY <1>11, CountTickKeepsBits DEF PendedTick
<1>12. ASSUME NEW t \in Tasks, Clean(t)
       PROVE  ReadyBits'
  BY <1>12 DEF Clean, ReadyBits, TypeOK
<1>13. ASSUME NEW t \in Tasks, Continue(t)
       PROVE  ReadyBits'
  BY <1>9, <1>10, <1>11, <1>13 DEF Continue
<1>14. CASE Tick
  BY <1>14, CountTickKeepsBits DEF Tick
<1>15. CASE TickPended
  BY <1>15, UnchangedKeepsBits DEF TickPended
<1>16. ASSUME NEW i \in Interrupts, ResumeFromISR(i) \/ NotifyFromISR(i)
       PROVE  ReadyBits'
  <2>1. WakeFromISR(i.on) \/ UNCHANGED lists
    BY <1>16 DEF ResumeFromISR, NotifyFromISR
  <2>2. UNCHANGED uxPriority /\ {i.on} \in SUBSET Tasks
    BY <1>16, InterruptTypes DEF ResumeFromISR, NotifyFromISR
  <2>. QED
    BY <2>1, <2>2, AddToReadyKeepsBits, UnchangedKeepsBits DEF WakeFromISR
<1>. QED
  BY <1>1, <1>8, <1>12, <1>13, <1>14, <1>15, <1>16 DEF Next

LEMMA ReadyInit == Init => ReadyExactly
<1> SUFFICES ASSUME Init PROVE ReadyExactly
  OBVIOUS
<1>1. {u \in Tasks : where[u] = "ready"} = Initially
  BY TasksAssumption DEF Init
<1>. QED
  BY <1>1 DEF Init, ReadyExactly

(* uxTopReadyPriority has a bit for the non-empty ready lists and no other, *)
(* for every set of tasks and of priorities: vTaskSwitchContext never      *)
(* looks for a task in an empty list of this module.                       *)
THEOREM ReadyPrioritiesAreExact == Spec => []ReadyExactly
<1>1. TypeOK /\ ReadyExactly /\ [Next]_vars => ReadyExactly'
  BY ReadyBitsAre, ReadyBitsAreNext, ReadyNext
<1>. QED
  BY <1>1, ReadyInit, TypeCorrect, PTL DEF Spec

(***************************************************************************)
(* Which task runs.  While the scheduler is suspended, the running task is *)
(* in a call that suspended it, and no other task is in one; a task that   *)
(* runs is ready, unless it has just left the ready list and is about to   *)
(* yield.                                                                  *)
(***************************************************************************)
Holding == {"resume", "look", "lookAgain", "abort", "load", "store"}

MayBeElsewhere(t) ==
  \/ pc[t] = "yield"
  \/ pc[t] = "suspend" /\ On(t) = t
  \/ pc[t] \in {"resume", "ticks"} /\ call[t].op \in {"delay", "delayUntil"}

RunInv ==
  pxCurrentTCB # NoTask =>
    /\ uxSchedulerSuspended = 1 <=> pc[pxCurrentTCB] \in Holding
    /\ uxSchedulerSuspended = 0 => pending = {}
    /\ \A t \in Tasks \ {pxCurrentTCB} : pc[t] \notin Holding \cup {"ticks"}
    /\ \A t \in pending : Exists(t)
    /\ pc[pxCurrentTCB] \in {"look", "lookAgain", "abort"} => Exists(On(pxCurrentTCB))
    /\ where[pxCurrentTCB] = "ready" \/ MayBeElsewhere(pxCurrentTCB)

LEMMA RunInit == Init => RunInv
<1> SUFFICES ASSUME Init PROVE RunInv
  OBVIOUS
<1>1. \A t \in Tasks : pc[t] \in {"start", "run"}
  BY DEF Init, Entry
<1>2. pxCurrentTCB \in Tasks /\ where[pxCurrentTCB] = "ready"
  BY TasksAssumption DEF Init
<1> QED BY <1>1, <1>2 DEF Init, RunInv, Holding

(* A switch selects a ready task, since the bits are those of the lists.   *)
LEMMA SelectIsReady ==
  ASSUME ReadyBits', NEW prio, prio = uxPriority', Select(prio)
  PROVE  pxCurrentTCB' \in Tasks /\ where'[pxCurrentTCB'] = "ready"
<1>1. PICK p \in uxTopReadyPriority' :
        LET next == {t \in Tasks : where'[t] = "ready" /\ prio[t] = p}
        IN  pxCurrentTCB' \in IF next = {} THEN {NoTask} ELSE next
  BY DEF Select
<1>2. \E t \in Tasks : where'[t] = "ready" /\ prio[t] = p
  BY DEF ReadyBits
<1> QED BY <1>1, <1>2

(* After a step in which a switch may take place: it does, or the running  *)
(* task goes on.                                                           *)
LEMMA SwitchKeepsRunning ==
  ASSUME ReadyBits', uxSchedulerSuspended = 0, uxSchedulerSuspended' = 0, pending' = {},
         \A t \in Tasks : pc'[t] \notin Holding \cup {"ticks"},
         NEW prio, prio = uxPriority',
         \/ SwitchContext(prio)
         \/ /\ pxCurrentTCB' = pxCurrentTCB /\ pxCurrentTCB \in Tasks
            /\ where'[pxCurrentTCB] = "ready" \/ MayBeElsewhere(pxCurrentTCB)'
  PROVE  RunInv'
<1>1. /\ pxCurrentTCB' \in Tasks
      /\ where'[pxCurrentTCB'] = "ready" \/ MayBeElsewhere(pxCurrentTCB)'
  BY SelectIsReady DEF SwitchContext
<1>2. pc'[pxCurrentTCB'] \notin Holding \cup {"ticks"}
  BY <1>1
<1> QED BY <1>1, <1>2 DEF RunInv, Holding

(* The running task goes on, and nobody else is touched.                   *)
LEMMA NothingRuns ==
  ASSUME TypeOK, pxCurrentTCB = NoTask, Next
  PROVE  FALSE
<1>1. \A t \in Tasks : pxCurrentTCB # t
  BY TasksAssumption
<1>2. ASSUME NEW t \in Tasks, NEW c \in Calls[t]
      PROVE  ~(\/ Delay(t, c) \/ DelayUntil(t, c) \/ Await(t, c) \/ Notify(t, c)
               \/ Suspend(t, c) \/ Resume(t, c) \/ PrioritySet(t, c) \/ Abort(t, c)
               \/ CatchUp(t, c) \/ Create(t, c) \/ DeleteItself(t, c) \/ DeleteOther(t, c))
  BY <1>1 DEF Delay, DelayUntil, Await, Notify, Suspend, Resume, PrioritySet, Abort, CatchUp, Create,
     DeleteItself, DeleteOther, Begins, At
<1>3. ASSUME NEW t \in Tasks PROVE ~Continue(t) /\ ~Clean(t)
  <2>1. Idle \in Tasks
    BY TasksAssumption
  <2> QED BY <1>1, <2>1 DEF Continue, Start, Yield, ResumeAll, PendedTick, Resumed, Awaited, Suspended,
     AbortLook, AbortLookAgain, Aborted, CatchUpLoad, CatchUpStore, Created, Clean, At
<1>4. ~Tick /\ ~TickPended /\ \A i \in Interrupts : ~ResumeFromISR(i) /\ ~NotifyFromISR(i)
  BY DEF Tick, TickPended, ResumeFromISR, NotifyFromISR, InterruptsEnabled
<1> QED BY <1>2, <1>3, <1>4 DEF Next, Begin

(* What holds when a task starts a call.                                   *)
LEMMA Calling ==
  ASSUME TypeOK, RunInv, NEW t \in Tasks, At(t, "run")
  PROVE  /\ pxCurrentTCB = t /\ t # NoTask /\ uxSchedulerSuspended = 0 /\ pending = {}
         /\ where[t] = "ready" /\ \A u \in Tasks : pc[u] \notin Holding \cup {"ticks"}
<1>1. t # NoTask
  BY TasksAssumption
<1> QED BY <1>1 DEF RunInv, At, Holding, MayBeElsewhere, TypeOK

LEMMA CallsKeepRunning ==
  ASSUME TypeOK, TypeOK', ReadyBits', RunInv, NEW t \in Tasks, NEW c \in Calls[t], pxCurrentTCB' # NoTask,
         \/ Delay(t, c) \/ DelayUntil(t, c) \/ Await(t, c) \/ Notify(t, c)
         \/ Suspend(t, c) \/ Resume(t, c) \/ PrioritySet(t, c) \/ Abort(t, c)
         \/ CatchUp(t, c) \/ Create(t, c) \/ DeleteItself(t, c) \/ DeleteOther(t, c)
  PROVE  RunInv'
<1>1. At(t, "run") /\ c \in Call /\ c.on \in Tasks
  BY CallTypes DEF Delay, DelayUntil, Await, Notify, Suspend, Resume, PrioritySet, Abort, CatchUp,
     Create, DeleteItself, DeleteOther, Begins
<1>2. /\ pxCurrentTCB = t /\ t # NoTask /\ uxSchedulerSuspended = 0 /\ pending = {}
      /\ where[t] = "ready" /\ \A u \in Tasks : pc[u] \notin Holding \cup {"ticks"}
  BY <1>1, Calling
<1>3. ASSUME NEW label, Enter(t, c, label), label \notin Holding \cup {"ticks"}
      PROVE  /\ \A u \in Tasks : pc'[u] \notin Holding \cup {"ticks"}
             /\ pc'[t] = label /\ call'[t] = c /\ On(t)' = c.on
  BY <1>2, <1>3 DEF Enter, Goto, TypeOK, On
<1>4. ASSUME NEW label \in Holding, Enter(t, c, label), uxSchedulerSuspended' = 1,
             UNCHANGED <<pending, pxCurrentTCB>>,
             label \in {"look", "lookAgain", "abort"} => Exists(c.on) /\ UNCHANGED where,
             UNCHANGED where \/ (label = "resume" /\ c.op \in {"delay", "delayUntil"})
      PROVE  RunInv'
  <2>1. /\ \A u \in Tasks \ {t} : pc'[u] \notin Holding \cup {"ticks"}
        /\ pc'[t] = label /\ call'[t] = c /\ On(t)' = c.on
    BY <1>2, <1>4 DEF Enter, Goto, TypeOK, On
  <2>2. where'[t] = "ready" \/ MayBeElsewhere(t)'
    BY <1>2, <1>4, <2>1 DEF MayBeElsewhere
  <2>3. label \in {"look", "lookAgain", "abort"} => Exists(On(t))'
    BY <1>4, <2>1 DEF Exists
  <2> QED BY <1>2, <1>4, <2>1, <2>2, <2>3 DEF RunInv
<1>5. CASE Delay(t, c)
  <2>1. CASE c.arg = 0
    <3>1. Enter(t, c, "yield") /\ UNCHANGED <<running, uxSchedulerSuspended, pending>>
      BY <1>5, <2>1 DEF Delay
    <3>2. /\ \A u \in Tasks : pc'[u] \notin Holding \cup {"ticks"}
          /\ pc'[t] = "yield"
      BY <1>3, <3>1 DEF Holding
    <3> QED BY <1>2, <3>1, <3>2, SwitchKeepsRunning DEF running, MayBeElsewhere
  <2>2. CASE ~(c.arg = 0)
    BY <1>4, <1>5, <2>2 DEF Delay, running, Begins, Holding
  <2> QED BY <2>1, <2>2
<1>6. CASE DelayUntil(t, c)
  BY <1>4, <1>6 DEF DelayUntil, running, Begins, Holding
<1>7. CASE Await(t, c)
  <2>1. \A u \in Tasks : pc'[u] \notin Holding \cup {"ticks"}
    BY <1>3, <1>7 DEF Await, Holding
  <2>2. CASE NothingThere(t, c) /\ c.arg > 0
    <3>1. SwitchContext(uxPriority) /\ UNCHANGED <<uxPriority, uxSchedulerSuspended, pending>>
      BY <1>7, <2>2 DEF Await, SwitchIf
    <3> QED BY <1>2, <2>1, <3>1, SwitchKeepsRunning
  <2>3. CASE ~(NothingThere(t, c) /\ c.arg > 0)
    <3>1. UNCHANGED <<lists, running, uxPriority, uxSchedulerSuspended, pending>>
      BY <1>7, <2>3 DEF Await
    <3> QED BY <1>2, <2>1, <3>1, SwitchKeepsRunning DEF lists, running
  <2> QED BY <2>2, <2>3
<1>8. CASE Notify(t, c)
  <2>1. ~NotifyFails(c.on)
    BY <1>2 DEF NotifyFails
  <2>2. /\ SwitchContext(uxPriority) \/ UNCHANGED running
        /\ UNCHANGED <<uxPriority, uxSchedulerSuspended, pending, pc>>
    BY <1>8, <2>1 DEF Notify, SwitchIf, local
  <2>3. where'[t] = "ready"
    BY <1>2, <1>8 DEF Notify, AddToReady
  <2> QED BY <1>2, <2>2, <2>3, SwitchKeepsRunning DEF running
<1>9. CASE Suspend(t, c)
  <2>1. Enter(t, c, "suspend") /\ UNCHANGED <<running, uxSchedulerSuspended>> /\ pending' = {}
    BY <1>2, <1>9 DEF Suspend
  <2>2. /\ \A u \in Tasks : pc'[u] \notin Holding \cup {"ticks"}
        /\ pc'[t] = "suspend" /\ On(t)' = c.on
    BY <1>3, <2>1 DEF Holding
  <2>3. c.on # t => where'[t] = "ready"
    BY <1>1, <1>2, <1>9 DEF Suspend, RemoveTo, TypeOK
  <2> QED BY <1>2, <2>1, <2>2, <2>3, SwitchKeepsRunning DEF running, MayBeElsewhere
<1>10. CASE Resume(t, c)
  <2>1. /\ SwitchContext(uxPriority) \/ UNCHANGED running
        /\ UNCHANGED <<uxPriority, uxSchedulerSuspended, pending, pc>>
    BY <1>10 DEF Resume, SwitchIf, local
  <2>2. where'[t] = "ready"
    BY <1>2, <1>10 DEF Resume, AddToReady
  <2> QED BY <1>2, <2>1, <2>2, SwitchKeepsRunning DEF running
<1>11. CASE PrioritySet(t, c)
  <2>1. /\ SwitchContext(uxPriority') \/ UNCHANGED running
        /\ UNCHANGED <<where, uxSchedulerSuspended, pending, pc>>
    BY <1>11 DEF PrioritySet, local
  <2> QED BY <1>2, <2>1, SwitchKeepsRunning DEF running
<1>12. CASE Abort(t, c)
  BY <1>4, <1>12 DEF Abort, running, lists, Begins, Holding
<1>13. CASE CatchUp(t, c)
  BY <1>4, <1>13 DEF CatchUp, running, lists, Begins, Holding
<1>14. CASE Create(t, c)
  <2>1. /\ UNCHANGED <<running, uxSchedulerSuspended, pending>>
        /\ pc' = [pc EXCEPT ![t] = "created", ![c.on] = Entry(c.on)]
        /\ where' = [where EXCEPT ![c.on] = "ready"]
    BY <1>14 DEF Create
  <2>2. \A u \in Tasks : pc'[u] \notin Holding \cup {"ticks"}
    BY <1>1, <1>2, <2>1 DEF TypeOK, Entry, Holding
  <2>3. where'[t] = "ready"
    BY <1>1, <1>2, <2>1 DEF TypeOK
  <2> QED BY <1>2, <2>1, <2>2, <2>3, SwitchKeepsRunning DEF running
<1>15. CASE DeleteItself(t, c)
  <2>1. Enter(t, c, "yield") /\ UNCHANGED <<running, uxSchedulerSuspended, pending>>
    BY <1>15 DEF DeleteItself
  <2>2. /\ \A u \in Tasks : pc'[u] \notin Holding \cup {"ticks"}
        /\ pc'[t] = "yield"
    BY <1>3, <2>1 DEF Holding
  <2> QED BY <1>2, <2>1, <2>2, SwitchKeepsRunning DEF running, MayBeElsewhere
<1>16. CASE DeleteOther(t, c)
  <2>1. UNCHANGED <<running, uxSchedulerSuspended, pc>> /\ pending' = {}
    BY <1>2, <1>16 DEF DeleteOther, local
  <2>2. where'[t] = "ready"
    BY <1>1, <1>2, <1>16 DEF DeleteOther, RemoveTo, TypeOK
  <2> QED BY <1>2, <2>1, <2>2, SwitchKeepsRunning DEF running
<1> QED BY <1>5, <1>6, <1>7, <1>8, <1>9, <1>10, <1>11, <1>12, <1>13, <1>14, <1>15, <1>16

(* The later steps of a call.  While the scheduler is suspended they only  *)
(* go on to others of its kind.                                            *)
LEMMA HoldingOn ==
  ASSUME TypeOK, RunInv, NEW t \in Tasks, NEW label \in Holding \ {"resume"}, NEW next \in Holding,
         At(t, label), Goto(t, next), UNCHANGED <<call, uxSchedulerSuspended, pxCurrentTCB>>,
         pending' \subseteq pending, \A u \in Tasks : Exists(u) => Exists(u)',
         next \in {"look", "lookAgain", "abort"} => label \in {"look", "lookAgain", "abort"},
         where[t] = "ready" => where'[t] = "ready"
  PROVE  RunInv'
<1>1. t # NoTask /\ pxCurrentTCB = t /\ pc[t] = label
  BY TasksAssumption DEF At
<1>2. pc' = [pc EXCEPT ![t] = next]
  BY DEF Goto
<1>3. uxSchedulerSuspended = 1
  BY <1>1 DEF RunInv
<1>4. /\ \A u \in Tasks \ {t} : pc'[u] \notin Holding \cup {"ticks"}
      /\ pc'[t] = next
  BY <1>1, <1>2 DEF RunInv, TypeOK
<1>5. \A u \in pending' : Exists(u)'
  BY <1>1 DEF RunInv, TypeOK
<1>6. next \in {"look", "lookAgain", "abort"} => Exists(On(t))'
  <2>1. On(t)' = On(t) /\ On(t) \in Tasks
    BY OnTypes DEF On
  <2> QED BY <1>1, <2>1 DEF RunInv, Exists
<1>7. where'[t] = "ready"
  <2>1. ~MayBeElsewhere(t)
    BY <1>1 DEF Holding, MayBeElsewhere
  <2> QED BY <1>1, <2>1 DEF RunInv
<1>8. pxCurrentTCB' = t /\ uxSchedulerSuspended' = 1
  BY <1>1, <1>3
<1> QED BY <1>4, <1>5, <1>6, <1>7, <1>8 DEF RunInv

(* xTaskAbortDelay and xTaskCatchUpTicks, up to xTaskResumeAll.            *)
LEMMA HoldingStepsKeepRunning ==
  ASSUME TypeOK, TypeOK', RunInv, NEW t \in Tasks,
         AbortLook(t) \/ AbortLookAgain(t) \/ Aborted(t) \/ CatchUpLoad(t) \/ CatchUpStore(t)
  PROVE  RunInv'
<1>1. CASE AbortLook(t) \/ AbortLookAgain(t)
  <2>1. PICK label \in {"look", "lookAgain"}, next \in {"abort", "lookAgain", "resume"} :
          At(t, label) /\ Goto(t, next)
    BY <1>1 DEF AbortLook, AbortLookAgain
  <2>2. UNCHANGED <<call, uxSchedulerSuspended, pxCurrentTCB, pending, where>>
    BY <1>1 DEF AbortLook, AbortLookAgain, lists, running
  <2>3. \A u \in Tasks : Exists(u) => Exists(u)'
    BY <2>2 DEF Exists
  <2> QED BY <2>1, <2>2, <2>3, HoldingOn DEF Holding
<1>2. CASE Aborted(t)
  <2>1. /\ At(t, "abort") /\ Goto(t, "resume") /\ AddToReady({On(t)}) /\ pending' \subseteq pending
        /\ UNCHANGED <<call, uxSchedulerSuspended, pxCurrentTCB>>
    BY <1>2 DEF Aborted
  <2>2. /\ \A u \in Tasks : Exists(u) => Exists(u)'
        /\ where[t] = "ready" => where'[t] = "ready"
    BY <2>1 DEF AddToReady, Exists
  <2> QED BY <2>1, <2>2, HoldingOn DEF Holding
<1>3. CASE CatchUpLoad(t) \/ CatchUpStore(t)
  <2>1. PICK label \in {"load", "store"}, next \in {"store", "resume"} :
          At(t, label) /\ Goto(t, next)
    BY <1>3 DEF CatchUpLoad, CatchUpStore
  <2>2. UNCHANGED <<call, uxSchedulerSuspended, pxCurrentTCB, pending, where>>
    BY <1>3 DEF CatchUpLoad, CatchUpStore, lists, running
  <2>3. \A u \in Tasks : Exists(u) => Exists(u)'
    BY <2>2 DEF Exists
  <2> QED BY <2>1, <2>2, <2>3, HoldingOn DEF Holding
<1> QED BY <1>1, <1>2, <1>3

(* xTaskResumeAll.                                                         *)
LEMMA ResumeAllKeepsRunning ==
  ASSUME TypeOK, TypeOK', RunInv, NEW t \in Tasks, ResumeAll(t)
  PROVE  RunInv'
<1>1. t # NoTask /\ pxCurrentTCB = t /\ pc[t] = "resume" /\ pxCurrentTCB' = t /\ UNCHANGED call
  BY TasksAssumption DEF At, ResumeAll
<1>2. /\ pc' = [pc EXCEPT ![t] = "ticks"] /\ uxSchedulerSuspended' = 0 /\ pending' = {}
      /\ AddToReady(pending)
  BY DEF Goto, ResumeAll
<1>3. /\ \A u \in Tasks \ {t} : pc'[u] \notin Holding \cup {"ticks"}
      /\ pc'[t] = "ticks"
  BY <1>1, <1>2 DEF RunInv, TypeOK
<1>4. where[t] = "ready" \/ call[t].op \in {"delay", "delayUntil"}
  BY <1>1 DEF RunInv, MayBeElsewhere
<1>5. where'[t] = "ready" \/ MayBeElsewhere(t)'
  BY <1>1, <1>2, <1>3, <1>4 DEF AddToReady, MayBeElsewhere
<1> QED BY <1>1, <1>2, <1>3, <1>5 DEF RunInv, Holding

LEMMA CountTickKeepsReady ==
  ASSUME TypeOK, NEW due \in SUBSET Tasks, CountTick(due)
  PROVE  /\ \A t \in Tasks : /\ where[t] = "ready" => where'[t] = "ready"
                             /\ Exists(t)' <=> Exists(t)
                             /\ where'[t] = "termination" <=> where[t] = "termination"
                             /\ where'[t] = "none" <=> where[t] = "none"
                             /\ where[t] = "suspended" <=> where'[t] = "suspended"
         /\ pending' \subseteq pending
<1> DEFINE w == IF (xTickCount + 1) % TickRange = 0 THEN Wrapped(where) ELSE where
<1>1. PICK n \in Ticks : /\ due = Due((xTickCount + 1) % TickRange, w, n)
                         /\ where' = [t \in Tasks |-> IF t \in due THEN "ready" ELSE w[t]]
                         /\ pending' = pending \ due
  BY DEF CountTick
<1>2. \A t \in due : w[t] = "delayed"
  BY <1>1 DEF Due, Delayed
<1>3. \A t \in Tasks : \/ w[t] = where[t]
                       \/ w[t] \in {"delayed", "overflow"} /\ where[t] \in {"delayed", "overflow"}
  BY DEF Wrapped
<1> HIDE DEF w
<1> QED BY <1>1, <1>2, <1>3 DEF Exists

LEMMA StepsKeepRunning ==
  ASSUME TypeOK, TypeOK', ReadyBits', RunInv, NEW t \in Tasks, pxCurrentTCB' # NoTask,
         \/ Start(t) \/ Yield(t) \/ PendedTick(t) \/ Resumed(t)
         \/ Awaited(t) \/ Suspended(t) \/ Created(t)
  PROVE  RunInv'
<1> DEFINE from == {"start", "yield", "ticks", "await", "suspend", "created"}
           to   == {"run", "yield"}
<1>1. /\ t # NoTask /\ pxCurrentTCB = t /\ pc[t] \in from
  BY TasksAssumption DEF At, Start, Yield, PendedTick, Resumed, Awaited, Suspended, Created
<1>2. /\ uxSchedulerSuspended = 0 /\ pending = {}
      /\ \A u \in Tasks \ {t} : pc[u] \notin Holding \cup {"ticks"}
      /\ where[t] = "ready" \/ MayBeElsewhere(t)
  BY <1>1 DEF RunInv, TypeOK, Holding
<1>3. ASSUME NEW next \in to, Goto(t, next)
      PROVE  (\A u \in Tasks : pc'[u] \notin Holding \cup {"ticks"}) /\ pc'[t] = next
  BY <1>2, <1>3 DEF Goto, TypeOK, Holding
<1>4. CASE Start(t) \/ Awaited(t)
  <2>1. where[t] = "ready" /\ UNCHANGED <<where, running, uxSchedulerSuspended, pending, uxPriority>> /\ Goto(t, "run")
    BY <1>1, <1>2, <1>4 DEF MayBeElsewhere, At, Start, Awaited, lists, Return
  <2> QED BY <1>1, <1>2, <1>3, <2>1, SwitchKeepsRunning DEF running
<1>5. CASE Yield(t)
  <2>1. SwitchContext(uxPriority) /\ Goto(t, "run") /\ UNCHANGED <<uxPriority, uxSchedulerSuspended, pending>>
    BY <1>5 DEF Yield, SwitchIf, Return
  <2> QED BY <1>1, <1>2, <1>3, <2>1, SwitchKeepsRunning
<1>6. CASE Created(t)
  <2>1. /\ SwitchContext(uxPriority) \/ UNCHANGED running
        /\ Goto(t, "run") /\ UNCHANGED <<where, uxPriority, uxSchedulerSuspended, pending>>
    BY <1>6 DEF Created, SwitchIf, Return, lists
  <2>2. where[t] = "ready"
    BY <1>2, <1>6 DEF MayBeElsewhere, At, Created
  <2> QED BY <1>1, <1>2, <1>3, <2>1, <2>2, SwitchKeepsRunning DEF running
<1>7. CASE Suspended(t)
  <2>1. UNCHANGED <<where, running, uxSchedulerSuspended, pending, uxPriority>>
    BY <1>7 DEF Suspended
  <2>2. CASE On(t) = t
    <3>1. Goto(t, "yield")
      BY <1>7, <2>2 DEF Suspended
    <3> QED BY <1>1, <1>2, <1>3, <2>1, <3>1, SwitchKeepsRunning DEF running, MayBeElsewhere
  <2>3. CASE On(t) # t
    <3>1. Goto(t, "run") /\ where[t] = "ready"
      BY <1>2, <1>7, <2>3 DEF Suspended, Return, MayBeElsewhere, At
    <3> QED BY <1>1, <1>2, <1>3, <2>1, <3>1, SwitchKeepsRunning DEF running
  <2> QED BY <2>2, <2>3
<1>8. CASE Resumed(t)
  <2>1. /\ SwitchIf(xYieldPending) /\ pc[t] = "ticks"
        /\ UNCHANGED <<where, uxPriority, uxSchedulerSuspended, pending>>
    BY <1>8 DEF Resumed, lists, At
  <2>2. CASE xYieldPending
    <3>1. PICK next \in to : Goto(t, next)
      BY <1>8 DEF Resumed, Return
    <3> QED BY <1>1, <1>2, <1>3, <2>1, <2>2, <3>1, SwitchKeepsRunning DEF SwitchIf
  <2>3. CASE ~xYieldPending /\ call[t].op \in {"delay", "delayUntil"}
    <3>1. Goto(t, "yield") /\ UNCHANGED running
      BY <1>8, <2>1, <2>3 DEF Resumed, SwitchIf
    <3> QED BY <1>1, <1>2, <1>3, <2>1, <3>1, SwitchKeepsRunning DEF running, MayBeElsewhere
  <2>4. CASE ~xYieldPending /\ call[t].op \notin {"delay", "delayUntil"}
    <3>1. Goto(t, "run") /\ UNCHANGED running
      BY <1>8, <2>1, <2>4 DEF Resumed, SwitchIf, Return
    <3>2. where[t] = "ready"
      BY <1>2, <2>1, <2>4 DEF MayBeElsewhere
    <3> QED BY <1>1, <1>2, <1>3, <2>1, <3>1, <3>2, SwitchKeepsRunning DEF running
  <2> QED BY <2>2, <2>3, <2>4
<1>9. CASE PendedTick(t)
  <2>1. PICK due \in SUBSET Tasks : CountTick(due)
    BY <1>9 DEF PendedTick
  <2>2. /\ \A u \in Tasks : where[u] = "ready" => where'[u] = "ready"
        /\ pending' = {}
    BY <1>2, <2>1, CountTickKeepsReady
  <2>3. pc[t] = "ticks" /\ UNCHANGED <<pc, call, uxSchedulerSuspended>> /\ pxCurrentTCB' = t
    BY <1>1, <1>9 DEF PendedTick, local, At, Fail
  <2>4. where'[t] = "ready" \/ MayBeElsewhere(t)'
    BY <1>2, <2>2, <2>3 DEF MayBeElsewhere
  <2> QED BY <1>1, <1>2, <2>2, <2>3, <2>4 DEF RunInv, Holding
<1> QED BY <1>4, <1>5, <1>6, <1>7, <1>8, <1>9 DEF Start, Yield

LEMMA CleanKeepsRunning ==
  ASSUME TypeOK, RunInv, NEW u \in Tasks, Clean(u)
  PROVE  RunInv'
<1>1. /\ pxCurrentTCB = Idle /\ pc[Idle] = "run" /\ Idle \in Tasks /\ Idle # NoTask
      /\ where[u] = "termination" /\ where' = [where EXCEPT ![u] = "none"]
      /\ UNCHANGED <<pending, pxCurrentTCB, pc, call, uxSchedulerSuspended>>
  BY TasksAssumption DEF Clean, At, running, local
<1>2. where[Idle] = "ready" /\ pending = {}
  BY <1>1, Calling DEF At
<1>3. where'[Idle] = "ready"
  BY <1>1, <1>2 DEF TypeOK
<1> QED BY <1>1, <1>2, <1>3 DEF RunInv

(* Interrupts: at most one switch, and none while the scheduler is         *)
(* suspended.                                                              *)
LEMMA InterruptsKeepRunning ==
  ASSUME TypeOK, TypeOK', ReadyBits', RunInv, InterruptsEnabled, pxCurrentTCB' # NoTask,
         UNCHANGED <<pc, call, uxSchedulerSuspended, uxPriority>>,
         \A u \in Tasks : where[u] = "ready" => where'[u] = "ready",
         \A u \in Tasks : Exists(u) => Exists(u)',
         uxSchedulerSuspended = 0 => pending' = {},
         \A u \in pending' : Exists(u),
         SwitchContext(uxPriority) \/ UNCHANGED pxCurrentTCB
  PROVE  RunInv'
<1>1. PICK t \in Tasks : t = pxCurrentTCB /\ t # NoTask /\ pc[t] # "ticks"
  BY DEF InterruptsEnabled, TypeOK
<1>2. where'[t] = "ready" \/ MayBeElsewhere(t)'
  <2>1. where[t] = "ready" \/ MayBeElsewhere(t)
    BY <1>1 DEF RunInv
  <2> QED BY <1>1, <2>1 DEF MayBeElsewhere, On
<1>3. CASE uxSchedulerSuspended = 0
  <2>1. \A u \in Tasks : pc'[u] \notin Holding \cup {"ticks"}
    BY <1>1, <1>3 DEF RunInv, Holding
  <2>2. pending' = {} /\ uxSchedulerSuspended' = 0
    BY <1>3
  <2>3. CASE SwitchContext(uxPriority)
    BY <1>3, <2>1, <2>2, <2>3, SwitchKeepsRunning
  <2>4. CASE UNCHANGED pxCurrentTCB
    BY <1>1, <1>2, <1>3, <2>1, <2>2, <2>4, SwitchKeepsRunning
  <2> QED BY <2>3, <2>4
<1>4. CASE uxSchedulerSuspended = 1
  <2>1. pxCurrentTCB' = t /\ uxSchedulerSuspended' = 1
    BY <1>1, <1>4 DEF SwitchContext
  <2>2. \A u \in pending' : Exists(u)'
    BY DEF TypeOK
  <2>3. pc'[t] \in {"look", "lookAgain", "abort"} => Exists(On(t))'
    <3>1. On(t)' = On(t) /\ On(t) \in Tasks
      BY <1>1, <2>1, OnTypes DEF On
    <3> QED BY <1>1, <2>1, <3>1 DEF RunInv, Exists
  <2> QED BY <1>1, <1>2, <1>4, <2>1, <2>2, <2>3 DEF RunInv
<1> QED BY <1>3, <1>4 DEF TypeOK

LEMMA RunNext ==
  TypeOK /\ TypeOK' /\ ReadyBits' /\ RunInv /\ [Next]_vars => RunInv'
<1> SUFFICES ASSUME TypeOK, TypeOK', ReadyBits', RunInv, [Next]_vars PROVE RunInv'
  OBVIOUS
<1>1. CASE pxCurrentTCB' = NoTask
  BY <1>1 DEF RunInv
<1>2. CASE UNCHANGED vars
  BY <1>2 DEF vars, lists, running, local, RunInv, MayBeElsewhere, Exists, On
<1>3. ASSUME NEW t \in Tasks, Begin(t) \/ Continue(t) \/ Clean(t), pxCurrentTCB' # NoTask
      PROVE  RunInv'
  BY <1>3, CallsKeepRunning, HoldingStepsKeepRunning, ResumeAllKeepsRunning, StepsKeepRunning,
     CleanKeepsRunning DEF Begin, Continue
<1>4. ASSUME Tick \/ TickPended, pxCurrentTCB' # NoTask PROVE RunInv'
  <2>1. InterruptsEnabled /\ UNCHANGED <<pc, call, uxSchedulerSuspended, uxPriority>>
    BY <1>4 DEF Tick, TickPended, local
  <2>2. pxCurrentTCB # NoTask
    BY <2>1 DEF InterruptsEnabled
  <2>3. CASE Tick
    <3>1. PICK due \in SUBSET Tasks : CountTick(due)
      BY <2>3 DEF Tick
    <3>2. SwitchContext(uxPriority) \/ UNCHANGED pxCurrentTCB
      BY <1>4, <2>3 DEF Tick, Fail, SwitchIf, running
    <3>3. uxSchedulerSuspended = 0 /\ pending = {}
      BY <2>2, <2>3 DEF Tick, RunInv
    <3>4. /\ \A u \in Tasks : where[u] = "ready" => where'[u] = "ready"
          /\ \A u \in Tasks : Exists(u) => Exists(u)'
          /\ pending' = {}
      BY <3>1, <3>3, CountTickKeepsReady
    <3> QED BY <1>4, <2>1, <3>2, <3>4, InterruptsKeepRunning
  <2>4. CASE TickPended
    <3>1. UNCHANGED <<where, pending, pxCurrentTCB>>
      BY <2>4 DEF TickPended, lists, running
    <3>2. /\ uxSchedulerSuspended = 0 => pending' = {}
          /\ \A u \in pending' : Exists(u)
      BY <2>2, <3>1 DEF RunInv
    <3>3. \A u \in Tasks : Exists(u) => Exists(u)'
      BY <3>1 DEF Exists
    <3> QED BY <1>4, <2>1, <3>1, <3>2, <3>3, InterruptsKeepRunning
  <2> QED BY <1>4, <2>3, <2>4
<1>5. ASSUME NEW i \in Interrupts, ResumeFromISR(i) \/ NotifyFromISR(i), pxCurrentTCB' # NoTask
      PROVE  RunInv'
  <2>1. InterruptsEnabled /\ UNCHANGED <<pc, call, uxSchedulerSuspended, uxPriority>> /\ i.on \in Tasks
    BY <1>5, InterruptTypes DEF ResumeFromISR, NotifyFromISR, local
  <2>2. pxCurrentTCB # NoTask
    BY <2>1 DEF InterruptsEnabled
  <2>3. Exists(i.on)
    BY <1>5 DEF ResumeFromISR, NotifyFromISR, IsSuspended, Exists
  <2>4. WakeFromISR(i.on) \/ UNCHANGED <<where, pending>>
    BY <1>5 DEF ResumeFromISR, NotifyFromISR, lists
  <2>5. SwitchContext(uxPriority) \/ UNCHANGED pxCurrentTCB
    BY <1>5, <2>1 DEF ResumeFromISR, NotifyFromISR, SwitchIf, running, Fail
  <2>6. /\ \A u \in Tasks : where[u] = "ready" => where'[u] = "ready"
        /\ \A u \in Tasks : Exists(u) => Exists(u)'
    BY <2>1, <2>4 DEF WakeFromISR, AddToReady, Exists
  <2>7. /\ uxSchedulerSuspended = 0 => pending' = {}
        /\ \A u \in pending' : Exists(u)
    <3>1. /\ uxSchedulerSuspended = 0 => pending = {}
          /\ \A u \in pending : Exists(u)
      BY <2>2 DEF RunInv
    <3>2. UNCHANGED pending \/ (uxSchedulerSuspended # 0 /\ pending' = pending \cup {i.on})
      BY <2>4 DEF WakeFromISR
    <3> QED BY <2>3, <3>1, <3>2
  <2> QED BY <1>5, <2>1, <2>5, <2>6, <2>7, InterruptsKeepRunning
<1> QED BY <1>1, <1>2, <1>3, <1>4, <1>5 DEF Next

LEMMA RunInvariant == Spec => [](TypeOK /\ RunInv)
<1>1. TypeOK /\ TypeOK' /\ ReadyExactly' /\ RunInv /\ [Next]_vars => RunInv'
  <2> SUFFICES ASSUME TypeOK, TypeOK', ReadyExactly', RunInv, [Next]_vars PROVE RunInv'
    OBVIOUS
  <2>1. ReadyBits'
    BY DEF ReadyExactly, ReadyBits
  <2> QED BY <2>1, RunNext
<1> QED BY <1>1, RunInit, TypeCorrect, ReadyPrioritiesAreExact, PTL DEF Spec

(***************************************************************************)
(* A notified task is not left waiting.                                    *)
(***************************************************************************)
(* A task in its wait that waits for nothing is on its way.                *)
OnItsWay(t) == where[t] = "ready" \/ t \in pending \/ t \in held \/ ~Exists(t)

NotifiedInv == \A t \in Tasks : pc[t] = "await" /\ ~Waiting(t) => OnItsWay(t)

LEMMA NotifiedNext ==
  TypeOK /\ TypeOK' /\ RunInv /\ NotifiedInv /\ [Next]_vars => NotifiedInv'
<1> SUFFICES ASSUME TypeOK, TypeOK', RunInv, NotifiedInv, [Next]_vars PROVE NotifiedInv'
  OBVIOUS
<1> USE DEF OnItsWay, Exists
<1>1. CASE UNCHANGED vars
  BY <1>1 DEF vars, lists, notified, local, NotifiedInv, Waiting
<1>2. ASSUME NEW t \in Tasks, NEW c \in Calls[t],
             \/ Delay(t, c) \/ DelayUntil(t, c) \/ Await(t, c) \/ Notify(t, c)
             \/ Suspend(t, c) \/ Resume(t, c) \/ PrioritySet(t, c) \/ Abort(t, c)
             \/ CatchUp(t, c) \/ Create(t, c) \/ DeleteItself(t, c) \/ DeleteOther(t, c)
      PROVE  NotifiedInv'
  <2>1. At(t, "run") /\ c \in Call /\ c.on \in Tasks
    BY <1>2, CallTypes DEF Delay, DelayUntil, Await, Notify, Suspend, Resume, PrioritySet, Abort, CatchUp,
       Create, DeleteItself, DeleteOther, Begins
  <2>2. /\ pxCurrentTCB = t /\ pending = {} /\ where[t] = "ready" /\ pc[t] = "run"
    BY <2>1, Calling DEF At
  <2>3. ASSUME NEW n, DelayFor(t, n) \/ BlockFor(t, n) PROVE \A u \in Tasks \ {t} : where'[u] = where[u]
    BY <2>3 DEF DelayFor, BlockFor, RemoveTo, TypeOK
  <2>4. ASSUME NEW label, Enter(t, c, label)
        PROVE  /\ \A u \in Tasks \ {t} : pc'[u] = pc[u]
               /\ pc'[t] = label
    BY <2>4 DEF Enter, Goto, TypeOK
  <2>5. CASE Delay(t, c) \/ DelayUntil(t, c)
    <3>1. /\ UNCHANGED <<pending, held, ucNotifyState>> /\ pc'[t] # "await"
          /\ \A u \in Tasks \ {t} : where'[u] = where[u] /\ pc'[u] = pc[u]
      <4>1. UNCHANGED lists \/ \E n : DelayFor(t, n)
        BY <2>5 DEF Delay, DelayUntil
      <4>2. \A u \in Tasks \ {t} : where'[u] = where[u]
        BY <2>3, <4>1 DEF lists
      <4>3. \E label \in {"yield", "resume"} : Enter(t, c, label)
        BY <2>5 DEF Delay, DelayUntil
      <4>4. UNCHANGED <<pending, held, ucNotifyState>>
        BY <2>5 DEF Delay, DelayUntil, notified
      <4> QED BY <2>4, <4>2, <4>3, <4>4
    <3> QED BY <3>1 DEF NotifiedInv, Waiting
  <2>6. CASE Await(t, c)
    <3>1. UNCHANGED <<pending, held>> /\ Enter(t, c, "await")
          /\ ucNotifyState' = [ucNotifyState EXCEPT ![t] = IF NothingThere(t, c) THEN "waiting" ELSE @]
      BY <2>6 DEF Await
    <3>2. (NothingThere(t, c) /\ c.arg > 0 /\ BlockFor(t, c.arg)) \/ UNCHANGED where
      BY <2>6 DEF Await, lists
    <3>3. \A u \in Tasks \ {t} : where'[u] = where[u] /\ ucNotifyState'[u] = ucNotifyState[u] /\ pc'[u] = pc[u]
      BY <2>3, <2>4, <3>1, <3>2 DEF TypeOK
    <3>4. ucNotifyState'[t] = "waiting" \/ where'[t] = "ready"
      BY <2>2, <3>1, <3>2 DEF TypeOK
    <3> QED BY <3>1, <3>3, <3>4 DEF NotifiedInv, Waiting
  <2>7. CASE Notify(t, c)
    <3>1. /\ UNCHANGED <<pending, held, pc>>
          /\ ucNotifyState' = [ucNotifyState EXCEPT ![c.on] = "received"]
          /\ where' = [u \in Tasks |-> IF u \in (IF Waiting(c.on) THEN {c.on} ELSE {}) THEN "ready" ELSE where[u]]
      BY <2>7 DEF Notify, Notified, local, AddToReady
    <3> QED BY <2>1, <3>1 DEF NotifiedInv, Waiting, TypeOK
  <2>8. CASE Suspend(t, c)
    <3>1. /\ where' = [where EXCEPT ![c.on] = "suspended"] /\ pending' = pending \ {c.on}
          /\ ucNotifyState' = [ucNotifyState EXCEPT ![c.on] = NoLongerWaiting(@)]
          /\ held' = held \cup {c.on} /\ Enter(t, c, "suspend")
      BY <2>8 DEF Suspend, RemoveTo
    <3> QED BY <2>1, <2>4, <3>1 DEF NotifiedInv, Waiting, TypeOK
  <2>9. CASE Resume(t, c)
    <3>1. /\ UNCHANGED <<pending, ucNotifyState, pc>> /\ held' = held \ {c.on}
          /\ where' = [u \in Tasks |-> IF u = c.on THEN "ready" ELSE where[u]]
      BY <2>9 DEF Resume, AddToReady, notified, local
    <3> QED BY <2>1, <3>1 DEF NotifiedInv, Waiting, TypeOK
  <2>10. CASE PrioritySet(t, c)
    BY <2>10 DEF PrioritySet, notified, local, NotifiedInv, Waiting
  <2>11. CASE Abort(t, c) \/ CatchUp(t, c)
    <3>1. UNCHANGED <<where, pending, held, ucNotifyState>> /\ \E label \in {"look", "load"} : Enter(t, c, label)
      BY <2>11 DEF Abort, CatchUp, lists, notified
    <3> QED BY <2>4, <3>1 DEF NotifiedInv, Waiting
  <2>12. CASE Create(t, c)
    <3>1. /\ UNCHANGED <<pending, held>>
          /\ where' = [where EXCEPT ![c.on] = "ready"]
          /\ ucNotifyState' = [ucNotifyState EXCEPT ![c.on] = "notWaiting"]
          /\ pc' = [pc EXCEPT ![t] = "created", ![c.on] = Entry(c.on)]
      BY <2>12 DEF Create
    <3> QED BY <2>1, <3>1 DEF NotifiedInv, Waiting, TypeOK, Entry
  <2>13. CASE DeleteItself(t, c)
    <3>1. /\ UNCHANGED <<pending, held, ucNotifyState>> /\ Enter(t, c, "yield")
          /\ where' = [where EXCEPT ![t] = "termination"]
      BY <2>13 DEF DeleteItself, RemoveTo, notified
    <3> QED BY <2>4, <3>1 DEF NotifiedInv, Waiting, TypeOK
  <2>14. CASE DeleteOther(t, c)
    <3>1. /\ UNCHANGED <<ucNotifyState, pc>> /\ held' = held \ {c.on} /\ pending' = pending \ {c.on}
          /\ where' = [where EXCEPT ![c.on] = "none"]
      BY <2>14 DEF DeleteOther, RemoveTo, notified, local
    <3> QED BY <2>1, <3>1 DEF NotifiedInv, Waiting, TypeOK
  <2> QED BY <1>2, <2>5, <2>6, <2>7, <2>8, <2>9, <2>10, <2>11, <2>12, <2>13, <2>14
<1>3. ASSUME NEW t \in Tasks,
             \/ Start(t) \/ Yield(t) \/ Resumed(t) \/ Awaited(t) \/ Suspended(t) \/ AbortLook(t)
             \/ AbortLookAgain(t) \/ CatchUpLoad(t) \/ CatchUpStore(t) \/ Created(t)
      PROVE  NotifiedInv'
  <2>1. UNCHANGED <<where, pending, held>> /\ \E label \in Labels \ {"await"} : Goto(t, label)
    BY <1>3 DEF Start, Yield, Resumed, Awaited, Suspended, AbortLook, AbortLookAgain, CatchUpLoad,
       CatchUpStore, Created, lists, Return, Labels
  <2>2. \A u \in Tasks \ {t} : ucNotifyState'[u] = ucNotifyState[u] /\ pc'[u] = pc[u]
    <3>1. UNCHANGED ucNotifyState \/ ucNotifyState' = [ucNotifyState EXCEPT ![t] = "notWaiting"]
      BY <1>3 DEF Start, Yield, Resumed, Awaited, Suspended, AbortLook, AbortLookAgain, CatchUpLoad,
         CatchUpStore, Created, notified
    <3> QED BY <2>1, <3>1 DEF Goto, TypeOK
  <2>3. pc'[t] # "await"
    BY <2>1 DEF Goto, TypeOK
  <2> QED BY <2>1, <2>2, <2>3 DEF NotifiedInv, Waiting
<1>4. ASSUME NEW t \in Tasks, ResumeAll(t)
      PROVE  NotifiedInv'
  <2>1. /\ UNCHANGED <<held, ucNotifyState>> /\ Goto(t, "ticks") /\ pending' = {}
        /\ where' = [u \in Tasks |-> IF u \in pending THEN "ready" ELSE where[u]]
    BY <1>4 DEF ResumeAll, AddToReady, notified
  <2>2. \A u \in Tasks : pc'[u] = "await" => pc[u] = "await"
    BY <2>1 DEF Goto, TypeOK
  <2> QED BY <2>1, <2>2 DEF NotifiedInv, Waiting
<1>5. ASSUME NEW t \in Tasks, Aborted(t)
      PROVE  NotifiedInv'
  <2>1. /\ UNCHANGED ucNotifyState /\ Goto(t, "resume") /\ pending' = pending \ {On(t)}
        /\ held' = held \ {On(t)}
        /\ where' = [u \in Tasks |-> IF u = On(t) THEN "ready" ELSE where[u]]
    BY <1>5 DEF Aborted, AddToReady, notified
  <2>2. \A u \in Tasks : pc'[u] = "await" => pc[u] = "await"
    BY <2>1 DEF Goto, TypeOK
  <2> QED BY <2>1, <2>2 DEF NotifiedInv, Waiting
<1>6. ASSUME NEW due \in SUBSET Tasks, CountTick(due), UNCHANGED <<pc, ucNotifyState, held>>
      PROVE  NotifiedInv'
  <2>1. /\ \A u \in Tasks : /\ where[u] = "ready" => where'[u] = "ready"
                            /\ Exists(u)' <=> Exists(u)
        /\ pending' = pending \ due /\ \A u \in due : where'[u] = "ready"
    BY <1>6, CountTickKeepsReady DEF CountTick
  <2> QED BY <1>6, <2>1 DEF NotifiedInv, Waiting
<1>7. ASSUME NEW t \in Tasks, PendedTick(t)
      PROVE  NotifiedInv'
  BY <1>6, <1>7 DEF PendedTick, notified, local
<1>8. ASSUME NEW t \in Tasks, Clean(t)
      PROVE  NotifiedInv'
  BY <1>8 DEF Clean, notified, local, NotifiedInv, Waiting, TypeOK
<1>9. CASE Tick
  BY <1>6, <1>9 DEF Tick, notified, local
<1>10. CASE TickPended
  BY <1>10 DEF TickPended, lists, notified, local, NotifiedInv, Waiting
<1>11. ASSUME NEW i \in Interrupts, ResumeFromISR(i) \/ NotifyFromISR(i)
       PROVE  NotifiedInv'
  <2>0. i.on \in Tasks /\ UNCHANGED pc
    BY <1>11, InterruptTypes DEF ResumeFromISR, NotifyFromISR, local
  <2>1. ASSUME WakeFromISR(i.on)
        PROVE  /\ where'[i.on] = "ready" \/ i.on \in pending'
               /\ \A u \in Tasks \ {i.on} : where'[u] = where[u]
               /\ pending' \ {i.on} = pending \ {i.on}
    BY <2>0, <2>1 DEF WakeFromISR, AddToReady
  <2>2. CASE ResumeFromISR(i)
    <3>1. WakeFromISR(i.on) /\ UNCHANGED ucNotifyState /\ held' = held \ {i.on}
      BY <2>2 DEF ResumeFromISR, notified
    <3> QED BY <2>0, <2>1, <3>1 DEF NotifiedInv, Waiting
  <2>3. CASE NotifyFromISR(i)
    <3>1. ucNotifyState' = [ucNotifyState EXCEPT ![i.on] = "received"] /\ UNCHANGED held
      BY <2>3 DEF NotifyFromISR, Notified
    <3>2. \A u \in Tasks \ {i.on} : ucNotifyState'[u] = ucNotifyState[u]
      BY <3>1 DEF TypeOK
    <3>3. CASE WakeFromISR(i.on)
      BY <2>0, <2>1, <3>1, <3>2, <3>3 DEF NotifiedInv, Waiting
    <3>4. CASE UNCHANGED <<where, pending>> /\ (~Waiting(i.on) \/ i.on \in pending)
      BY <2>0, <3>1, <3>2, <3>4 DEF NotifiedInv, Waiting
    <3> QED BY <2>3, <3>3, <3>4 DEF NotifyFromISR, lists, NotifyFails
  <2> QED BY <1>11, <2>2, <2>3
<1> QED BY <1>1, <1>2, <1>3, <1>4, <1>5, <1>7, <1>8, <1>9, <1>10, <1>11 DEF Next, Begin, Continue

(* A task that is notified in its wait, by a task or a handler, with the   *)
(* scheduler running or suspended, is ready or becomes so at the end of    *)
(* the suspension, unless vTaskSuspend holds it.                           *)
THEOREM NotifiedTasksAreWoken == Spec => []NotifiedNotBlocked
<1>1. Init => NotifiedInv
  BY DEF Init, NotifiedInv, Entry
<1>2. NotifiedInv => NotifiedNotBlocked
  BY DEF NotifiedInv, NotifiedNotBlocked, Waiting, OnItsWay
<1> QED BY <1>1, <1>2, NotifiedNext, RunInvariant, PTL DEF Spec

(***************************************************************************)
(* The counts of tasks, and the assertions.                                *)
(***************************************************************************)
Present(w)    == {t \in Tasks : w[t] # "none"}
Terminated(w) == {t \in Tasks : w[t] = "termination"}

CountInv ==
  /\ uxCurrentNumberOfTasks = Cardinality(Present(where))
  /\ uxDeletedTasksWaitingCleanUp = Cardinality(Terminated(where))

LEMMA CountsStart == Init => CountInv
<1> SUFFICES ASSUME Init PROVE CountInv
  OBVIOUS
<1>1. Present(where) = Initially /\ Terminated(where) = {}
  BY TasksAssumption DEF Init, Present, Terminated
<1> QED BY <1>1, FS_EmptySet DEF Init, CountInv

(* A step that neither brings a task nor takes one away.                   *)
SameTasks ==
  /\ UNCHANGED counts
  /\ \A t \in Tasks : /\ where'[t] = "none" <=> where[t] = "none"
                      /\ where'[t] = "termination" <=> where[t] = "termination"

LEMMA SameTasksKeepsCounts ==
  ASSUME CountInv, SameTasks
  PROVE  CountInv'
<1>1. Present(where') = Present(where) /\ Terminated(where') = Terminated(where)
  BY DEF SameTasks, Present, Terminated
<1> QED BY <1>1 DEF CountInv, SameTasks, counts

LEMMA UnchangedSameTasks ==
  ASSUME UNCHANGED <<where, counts>>
  PROVE  SameTasks
  BY DEF SameTasks, counts

LEMMA AddToReadySameTasks ==
  ASSUME NEW S, \A t \in Tasks : t \in S => Exists(t), AddToReady(S), UNCHANGED counts
  PROVE  SameTasks
  BY DEF SameTasks, AddToReady, Exists

(* A task that is there is put into another list than that of the deleted. *)
LEMMA MoveSameTasks ==
  ASSUME TypeOK, NEW t \in Tasks, Exists(t),
         NEW list \in Lists \ {"none", "termination"}, where' = [where EXCEPT ![t] = list],
         UNCHANGED counts
  PROVE  SameTasks
  BY DEF SameTasks, Exists, TypeOK

LEMMA DelaySameTasks ==
  ASSUME TypeOK, NEW t \in Tasks, Exists(t), NEW n, DelayFor(t, n) \/ BlockFor(t, n), UNCHANGED counts
  PROVE  SameTasks
<1>1. \E list \in {"overflow", "delayed", "suspended"} : where' = [where EXCEPT ![t] = list]
  BY DEF DelayFor, BlockFor, RemoveTo
<1> QED BY <1>1, MoveSameTasks DEF Lists

(* One more, one less.                                                     *)
LEMMA TasksAreFinite ==
  /\ IsFiniteSet(Present(where)) /\ IsFiniteSet(Terminated(where))
  /\ Cardinality(Present(where)) \in Nat /\ Cardinality(Terminated(where)) \in Nat
<1>1. Present(where) \subseteq Tasks /\ Terminated(where) \subseteq Tasks
  BY DEF Present, Terminated
<1>2. IsFiniteSet(Present(where)) /\ IsFiniteSet(Terminated(where))
  BY <1>1, TasksAssumption, FS_Subset
<1> QED BY <1>2, FS_CardinalityType

LEMMA CreateKeepsCounts ==
  ASSUME TypeOK, CountInv, NEW t \in Tasks, NEW c \in Calls[t], Create(t, c)
  PROVE  CountInv'
<1>1. /\ c.on \in Tasks /\ where[c.on] = "none" /\ where' = [where EXCEPT ![c.on] = "ready"]
      /\ uxCurrentNumberOfTasks' = uxCurrentNumberOfTasks + 1
      /\ UNCHANGED uxDeletedTasksWaitingCleanUp
  BY CallTypes DEF Create
<1>2. /\ Present(where') = Present(where) \cup {c.on} /\ c.on \notin Present(where)
      /\ Terminated(where') = Terminated(where)
  BY <1>1 DEF Present, Terminated, TypeOK
<1>3. Cardinality(Present(where) \cup {c.on}) = Cardinality(Present(where)) + 1
  BY <1>2, TasksAreFinite, FS_AddElement
<1> QED BY <1>1, <1>2, <1>3 DEF CountInv

LEMMA DeleteOtherKeepsCounts ==
  ASSUME TypeOK, CountInv, NEW t \in Tasks, NEW c \in Calls[t], DeleteOther(t, c)
  PROVE  CountInv'
<1>1. /\ c.on \in Tasks /\ Exists(c.on) /\ where' = [where EXCEPT ![c.on] = "none"]
      /\ uxCurrentNumberOfTasks' = uxCurrentNumberOfTasks - 1
      /\ UNCHANGED uxDeletedTasksWaitingCleanUp
  BY CallTypes DEF DeleteOther, Begins, RemoveTo
<1>2. /\ Present(where') = Present(where) \ {c.on} /\ c.on \in Present(where)
      /\ Terminated(where') = Terminated(where)
  BY <1>1 DEF Present, Terminated, TypeOK, Exists
<1>3. Cardinality(Present(where) \ {c.on}) = Cardinality(Present(where)) - 1
  BY <1>2, TasksAreFinite, FS_RemoveElement
<1> QED BY <1>1, <1>2, <1>3 DEF CountInv

LEMMA DeleteItselfKeepsCounts ==
  ASSUME TypeOK, RunInv, CountInv, NEW t \in Tasks, NEW c \in Calls[t], DeleteItself(t, c)
  PROVE  CountInv'
<1>1. /\ where' = [where EXCEPT ![t] = "termination"]
      /\ uxDeletedTasksWaitingCleanUp' = uxDeletedTasksWaitingCleanUp + 1
      /\ UNCHANGED uxCurrentNumberOfTasks
  BY DEF DeleteItself, RemoveTo
<1>2. where[t] = "ready"
  BY Calling DEF DeleteItself, Begins, At
<1>3. /\ Present(where') = Present(where)
      /\ Terminated(where') = Terminated(where) \cup {t} /\ t \notin Terminated(where)
  BY <1>1, <1>2 DEF Present, Terminated, TypeOK
<1>4. Cardinality(Terminated(where) \cup {t}) = Cardinality(Terminated(where)) + 1
  BY <1>3, TasksAreFinite, FS_AddElement
<1> QED BY <1>1, <1>3, <1>4 DEF CountInv

LEMMA CleanKeepsCounts ==
  ASSUME TypeOK, CountInv, NEW t \in Tasks, Clean(t)
  PROVE  CountInv'
<1>1. /\ where[t] = "termination" /\ where' = [where EXCEPT ![t] = "none"]
      /\ uxCurrentNumberOfTasks' = uxCurrentNumberOfTasks - 1
      /\ uxDeletedTasksWaitingCleanUp' = uxDeletedTasksWaitingCleanUp - 1
  BY DEF Clean
<1>2. /\ Present(where') = Present(where) \ {t} /\ t \in Present(where)
      /\ Terminated(where') = Terminated(where) \ {t} /\ t \in Terminated(where)
  BY <1>1 DEF Present, Terminated, TypeOK
<1>3. /\ Cardinality(Present(where) \ {t}) = Cardinality(Present(where)) - 1
      /\ Cardinality(Terminated(where) \ {t}) = Cardinality(Terminated(where)) - 1
  BY <1>2, TasksAreFinite, FS_RemoveElement
<1> QED BY <1>1, <1>2, <1>3 DEF CountInv

LEMMA CountNext ==
  TypeOK /\ RunInv /\ CountInv /\ [Next]_vars => CountInv'
<1> SUFFICES ASSUME TypeOK, RunInv, CountInv, [Next]_vars PROVE CountInv'
  OBVIOUS
<1> USE DEF lists
<1>1. CASE UNCHANGED vars
  BY <1>1, UnchangedSameTasks, SameTasksKeepsCounts DEF vars
<1>2. ASSUME NEW t \in Tasks, NEW c \in Calls[t],
             \/ Delay(t, c) \/ DelayUntil(t, c) \/ Await(t, c) \/ Notify(t, c)
             \/ Suspend(t, c) \/ Resume(t, c) \/ PrioritySet(t, c) \/ Abort(t, c)
             \/ CatchUp(t, c)
      PROVE  CountInv'
  <2>1. /\ c.on \in Tasks /\ UNCHANGED counts /\ Exists(c.on)
        /\ At(t, "run")
    BY <1>2, CallTypes DEF Delay, DelayUntil, Await, Notify, Suspend, Resume, PrioritySet, Abort, CatchUp,
       Begins
  <2>2. Exists(t)
    BY <2>1, Calling DEF Exists
  <2>3. CASE Delay(t, c) \/ DelayUntil(t, c) \/ Await(t, c)
    <3>1. UNCHANGED where \/ \E n : DelayFor(t, n) \/ BlockFor(t, n)
      BY <2>3 DEF Delay, DelayUntil, Await
    <3> QED BY <2>1, <2>2, <3>1, DelaySameTasks, UnchangedSameTasks, SameTasksKeepsCounts
  <2>4. CASE Notify(t, c) \/ Resume(t, c)
    <3>1. AddToReady({c.on}) \/ AddToReady({})
      BY <2>4 DEF Notify, Resume
    <3> QED BY <2>1, <3>1, AddToReadySameTasks, SameTasksKeepsCounts
  <2>5. CASE Suspend(t, c)
    <3>1. where' = [where EXCEPT ![c.on] = "suspended"]
      BY <2>5 DEF Suspend, RemoveTo
    <3> QED BY <2>1, <3>1, MoveSameTasks, SameTasksKeepsCounts DEF Lists
  <2>6. CASE PrioritySet(t, c) \/ Abort(t, c) \/ CatchUp(t, c)
    <3>1. UNCHANGED where
      BY <2>6 DEF PrioritySet, Abort, CatchUp
    <3> QED BY <2>1, <3>1, UnchangedSameTasks, SameTasksKeepsCounts
  <2> QED BY <1>2, <2>3, <2>4, <2>5, <2>6
<1>3. ASSUME NEW t \in Tasks, NEW c \in Calls[t],
             Create(t, c) \/ DeleteItself(t, c) \/ DeleteOther(t, c)
      PROVE  CountInv'
  BY <1>3, CreateKeepsCounts, DeleteItselfKeepsCounts, DeleteOtherKeepsCounts
<1>4. ASSUME NEW t \in Tasks, Clean(t)
      PROVE  CountInv'
  BY <1>4, CleanKeepsCounts
<1>5. ASSUME NEW t \in Tasks,
             \/ Start(t) \/ Yield(t) \/ Resumed(t) \/ Awaited(t) \/ Suspended(t) \/ AbortLook(t)
             \/ AbortLookAgain(t) \/ CatchUpLoad(t) \/ CatchUpStore(t) \/ Created(t)
      PROVE  CountInv'
  <2>1. UNCHANGED <<where, counts>>
    BY <1>5 DEF Start, Yield, Resumed, Awaited, Suspended, AbortLook, AbortLookAgain, CatchUpLoad,
       CatchUpStore, Created
  <2> QED BY <2>1, UnchangedSameTasks, SameTasksKeepsCounts
<1>6. ASSUME NEW t \in Tasks, ResumeAll(t) \/ Aborted(t)
      PROVE  CountInv'
  <2>1. pxCurrentTCB = t /\ t # NoTask /\ UNCHANGED counts
    BY <1>6, TasksAssumption DEF ResumeAll, Aborted, At
  <2>2. CASE ResumeAll(t)
    <3>1. AddToReady(pending) /\ \A u \in pending : Exists(u)
      BY <2>1, <2>2 DEF ResumeAll, RunInv
    <3> QED BY <2>1, <3>1, AddToReadySameTasks, SameTasksKeepsCounts
  <2>3. CASE Aborted(t)
    <3>1. AddToReady({On(t)}) /\ Exists(On(t))
      BY <2>1, <2>3 DEF Aborted, At, RunInv
    <3> QED BY <2>1, <3>1, AddToReadySameTasks, SameTasksKeepsCounts
  <2> QED BY <1>6, <2>2, <2>3
<1>7. ASSUME NEW due \in SUBSET Tasks, CountTick(due), UNCHANGED counts
      PROVE  CountInv'
  BY <1>7, CountTickKeepsReady, SameTasksKeepsCounts DEF SameTasks
<1>8. ASSUME NEW t \in Tasks, PendedTick(t)
      PROVE  CountInv'
  BY <1>7, <1>8 DEF PendedTick
<1>9. CASE Tick
  BY <1>7, <1>9 DEF Tick
<1>10. CASE TickPended
  BY <1>10, UnchangedSameTasks, SameTasksKeepsCounts DEF TickPended
<1>11. ASSUME NEW i \in Interrupts, ResumeFromISR(i) \/ NotifyFromISR(i)
       PROVE  CountInv'
  <2>1. UNCHANGED counts /\ Exists(i.on) /\ (WakeFromISR(i.on) \/ UNCHANGED where)
    BY <1>11 DEF ResumeFromISR, NotifyFromISR, IsSuspended, Exists
  <2>2. AddToReady({i.on}) \/ UNCHANGED where
    BY <2>1 DEF WakeFromISR
  <2> QED BY <2>1, <2>2, AddToReadySameTasks, UnchangedSameTasks, SameTasksKeepsCounts
<1> QED BY <1>1, <1>2, <1>3, <1>4, <1>5, <1>6, <1>8, <1>9, <1>10, <1>11 DEF Next, Begin, Continue

(* No handler resumes a task that may wait without limit for a             *)
(* notification.  If one did while the scheduler is suspended, the task    *)
(* would be in xPendingReadyList and still wait, and a notification would  *)
(* fail the assertion that it is in no event list.                         *)
NoWaiterIsResumed ==
  \A i \in Interrupts : \A c \in Calls[i.on] :
    i.op = "resume" /\ c.op \in {"take", "wait"} => c.arg < portMAX_DELAY

ResumedByHandler(u) == \E i \in Interrupts : i.op = "resume" /\ i.on = u

PendingInv ==
  /\ \A u \in Tasks : where[u] = "suspended" /\ Waiting(u) => ~ResumedByHandler(u)
  /\ \A u \in pending : ~Waiting(u)

(* A step after which no more tasks wait, are suspended or are pending.    *)
LEMMA FewerKeepPending ==
  ASSUME TypeOK, TypeOK', PendingInv,
         \A u \in Tasks : \/ ucNotifyState'[u] # "waiting"
                          \/ /\ ucNotifyState'[u] = ucNotifyState[u]
                             /\ where'[u] = "suspended" => where[u] = "suspended"
                             /\ u \in pending' => u \in pending
  PROVE  PendingInv'
  BY DEF PendingInv, Waiting, TypeOK

LEMMA PendingNext ==
  ASSUME NoWaiterIsResumed, TypeOK, TypeOK', RunInv, PendingInv, [Next]_vars
  PROVE  PendingInv'
<1>1. CASE UNCHANGED vars
  BY <1>1, FewerKeepPending DEF vars, lists, notified
<1>2. ASSUME NEW t \in Tasks, NEW c \in Calls[t], Await(t, c)
      PROVE  PendingInv'
  <2>1. /\ UNCHANGED pending /\ c.op \in {"take", "wait"} /\ At(t, "run")
        /\ ucNotifyState' = [ucNotifyState EXCEPT ![t] = IF NothingThere(t, c) THEN "waiting" ELSE @]
        /\ BlockFor(t, c.arg) \/ UNCHANGED where
    BY <1>2 DEF Await, Begins, lists
  <2>2. pending = {} /\ where[t] = "ready"
    BY <2>1, Calling
  <2>3. \A u \in Tasks \ {t} : where'[u] = where[u] /\ ucNotifyState'[u] = ucNotifyState[u]
    BY <2>1 DEF BlockFor, RemoveTo, DelayFor, TypeOK
  <2>4. where'[t] = "suspended" => c.arg = portMAX_DELAY
    BY <2>1, <2>2 DEF BlockFor, DelayFor, TypeOK
  <2>5. where'[t] = "suspended" => ~ResumedByHandler(t)
    BY <2>1, <2>4, CallTypes DEF NoWaiterIsResumed, ResumedByHandler
  <2> QED BY <2>1, <2>2, <2>3, <2>5 DEF PendingInv, Waiting
<1>3. ASSUME NEW t \in Tasks, NEW c \in Calls[t],
             \/ Delay(t, c) \/ DelayUntil(t, c) \/ Notify(t, c)
             \/ Suspend(t, c) \/ Resume(t, c) \/ PrioritySet(t, c) \/ Abort(t, c)
             \/ CatchUp(t, c) \/ Create(t, c) \/ DeleteItself(t, c) \/ DeleteOther(t, c)
      PROVE  PendingInv'
  <2>0. c.on \in Tasks
    BY CallTypes
  <2>1. CASE Delay(t, c) \/ DelayUntil(t, c)
    <3>1. UNCHANGED where \/ \E list \in {"overflow", "delayed"} : where' = [where EXCEPT ![t] = list]
      BY <2>1 DEF Delay, DelayUntil, DelayFor, lists
    <3>2. UNCHANGED <<pending, ucNotifyState>>
      BY <2>1 DEF Delay, DelayUntil, notified
    <3> QED BY <3>1, <3>2, FewerKeepPending DEF TypeOK
  <2>2. CASE Notify(t, c)
    BY <2>0, <2>2, FewerKeepPending DEF Notify, Notified, AddToReady, TypeOK
  <2>3. CASE Suspend(t, c)
    BY <2>0, <2>3, FewerKeepPending DEF Suspend, RemoveTo, NoLongerWaiting, TypeOK
  <2>4. CASE Resume(t, c)
    BY <2>0, <2>4, FewerKeepPending DEF Resume, AddToReady, TypeOK, notified
  <2>5. CASE PrioritySet(t, c) \/ Abort(t, c) \/ CatchUp(t, c)
    BY <2>5, FewerKeepPending DEF PrioritySet, Abort, CatchUp, notified, lists
  <2>6. CASE Create(t, c)
    BY <2>0, <2>6, FewerKeepPending DEF Create, TypeOK
  <2>7. CASE DeleteItself(t, c) \/ DeleteOther(t, c)
    BY <2>0, <2>7, FewerKeepPending DEF DeleteItself, DeleteOther, RemoveTo, notified, TypeOK
  <2> QED BY <1>3, <2>1, <2>2, <2>3, <2>4, <2>5, <2>6, <2>7
<1>4. ASSUME NEW t \in Tasks,
             \/ Start(t) \/ Yield(t) \/ Resumed(t) \/ Awaited(t) \/ Suspended(t) \/ AbortLook(t)
             \/ AbortLookAgain(t) \/ CatchUpLoad(t) \/ CatchUpStore(t) \/ Created(t)
      PROVE  PendingInv'
  <2>1. /\ UNCHANGED <<where, pending>>
        /\ UNCHANGED ucNotifyState \/ ucNotifyState' = [ucNotifyState EXCEPT ![t] = "notWaiting"]
    BY <1>4 DEF Start, Yield, Resumed, Awaited, Suspended, AbortLook, AbortLookAgain, CatchUpLoad,
       CatchUpStore, Created, lists, notified
  <2> QED BY <2>1, FewerKeepPending DEF TypeOK
<1>5. ASSUME NEW t \in Tasks, ResumeAll(t) \/ Aborted(t) \/ Clean(t)
      PROVE  PendingInv'
  <2>1. CASE ResumeAll(t) \/ Aborted(t)
    <3>1. /\ UNCHANGED ucNotifyState /\ pending' \subseteq pending
          /\ \E S : AddToReady(S)
      BY <2>1 DEF ResumeAll, Aborted, notified
    <3> QED BY <3>1, FewerKeepPending DEF AddToReady
  <2>2. CASE Clean(t)
    BY <2>2, FewerKeepPending DEF Clean, notified, TypeOK
  <2> QED BY <1>5, <2>1, <2>2
<1>6. ASSUME NEW due \in SUBSET Tasks, CountTick(due), UNCHANGED ucNotifyState
      PROVE  PendingInv'
  BY <1>6, CountTickKeepsReady, FewerKeepPending
<1>7. ASSUME NEW t \in Tasks, PendedTick(t)
      PROVE  PendingInv'
  BY <1>6, <1>7 DEF PendedTick, notified
<1>8. CASE Tick
  BY <1>6, <1>8 DEF Tick, notified
<1>9. CASE TickPended
  BY <1>9, FewerKeepPending DEF TickPended, notified, lists
<1>10. ASSUME NEW i \in Interrupts, ResumeFromISR(i) \/ NotifyFromISR(i)
       PROVE  PendingInv'
  <2>1. i.on \in Tasks
    BY InterruptTypes
  <2>2. /\ \A u \in Tasks : where'[u] = "suspended" => where[u] = "suspended"
        /\ pending' \subseteq pending \cup {i.on}
    BY <1>10 DEF ResumeFromISR, NotifyFromISR, WakeFromISR, AddToReady, lists
  <2>3. CASE ResumeFromISR(i)
    <3>1. UNCHANGED ucNotifyState /\ ~Waiting(i.on)
      BY <2>1, <2>3 DEF ResumeFromISR, notified, IsSuspended, PendingInv, ResumedByHandler
    <3> QED BY <2>1, <2>2, <3>1, FewerKeepPending DEF Waiting, PendingInv
  <2>4. CASE NotifyFromISR(i)
    <3>1. ucNotifyState' = [ucNotifyState EXCEPT ![i.on] = "received"]
      BY <2>4 DEF NotifyFromISR, Notified
    <3>2. ASSUME NEW u \in Tasks
          PROVE  \/ ucNotifyState'[u] # "waiting"
                 \/ /\ ucNotifyState'[u] = ucNotifyState[u]
                    /\ where'[u] = "suspended" => where[u] = "suspended"
                    /\ u \in pending' => u \in pending
      BY <2>1, <2>2, <3>1 DEF TypeOK
    <3> QED BY <3>2, FewerKeepPending
  <2> QED BY <1>10, <2>3, <2>4
<1> QED BY <1>1, <1>2, <1>3, <1>4, <1>5, <1>7, <1>8, <1>9, <1>10 DEF Next, Begin, Continue

(* As long as no task waits for a notification while it is in              *)
(* xPendingReadyList, no step fails an assertion.                          *)
LEMMA NoStepFails ==
  ASSUME TypeOK, ReadyBits', RunInv, DelayInv, \A u \in Tasks : ~NotifyFails(u), pxCurrentTCB # NoTask, [Next]_vars
  PROVE  pxCurrentTCB' # NoTask
<1>1. ASSUME NEW prio, prio = uxPriority', SwitchContext(prio)
      PROVE  pxCurrentTCB' # NoTask
  <2>1. CASE uxSchedulerSuspended > 0
    BY <1>1, <2>1 DEF SwitchContext
  <2>2. CASE ~(uxSchedulerSuspended > 0)
    <3>1. Select(prio)
      BY <1>1, <2>2 DEF SwitchContext
    <3>2. pxCurrentTCB' \in Tasks
      BY <1>1, <3>1, SelectIsReady
    <3> QED BY <3>2, TasksAssumption
  <2> QED BY <2>1, <2>2
<1>2. ASSUME UNCHANGED uxPriority, NEW yield, SwitchIf(yield)
      PROVE  pxCurrentTCB' # NoTask
  BY <1>1, <1>2 DEF SwitchIf, running
<1>3. \A u \in Tasks : ~NotifyFails(u)
  OBVIOUS
<1>4. ~WrapFails
  BY NoneDelayedAtWrap
<1>5. CASE UNCHANGED vars
  BY <1>5 DEF vars, running
<1>6. ASSUME NEW t \in Tasks, NEW c \in Calls[t],
             \/ Delay(t, c) \/ DelayUntil(t, c) \/ Await(t, c) \/ Notify(t, c)
             \/ Suspend(t, c) \/ Resume(t, c) \/ PrioritySet(t, c) \/ Abort(t, c)
             \/ CatchUp(t, c) \/ Create(t, c) \/ DeleteItself(t, c) \/ DeleteOther(t, c)
      PROVE  pxCurrentTCB' # NoTask
  <2>1. CASE \/ Delay(t, c) \/ DelayUntil(t, c) \/ Suspend(t, c) \/ Abort(t, c)
             \/ CatchUp(t, c) \/ Create(t, c) \/ DeleteItself(t, c) \/ DeleteOther(t, c)
    BY <2>1 DEF Delay, DelayUntil, Suspend, Abort, CatchUp, Create, DeleteItself, DeleteOther, running
  <2>2. CASE Await(t, c)
    BY <1>2, <2>2 DEF Await, running
  <2>3. CASE Notify(t, c)
    BY <1>2, <1>3, <2>3, CallTypes DEF Notify
  <2>4. CASE Resume(t, c)
    BY <1>2, <2>4 DEF Resume
  <2>5. CASE PrioritySet(t, c)
    BY <1>1, <2>5 DEF PrioritySet, running
  <2> QED BY <1>6, <2>1, <2>2, <2>3, <2>4, <2>5
<1>7. ASSUME NEW t \in Tasks, Continue(t) \/ Clean(t)
      PROVE  pxCurrentTCB' # NoTask
  <2>1. CASE \/ Start(t) \/ ResumeAll(t) \/ Awaited(t) \/ Suspended(t) \/ AbortLook(t)
             \/ AbortLookAgain(t) \/ Aborted(t) \/ CatchUpLoad(t) \/ CatchUpStore(t) \/ Clean(t)
    BY <2>1 DEF Start, ResumeAll, Awaited, Suspended, AbortLook, AbortLookAgain, Aborted, CatchUpLoad,
       CatchUpStore, Clean, running
  <2>2. CASE Yield(t) \/ Resumed(t) \/ Created(t)
    BY <1>2, <2>2 DEF Yield, Resumed, Created
  <2>3. CASE PendedTick(t)
    BY <1>4, <2>3 DEF PendedTick
  <2> QED BY <1>7, <2>1, <2>2, <2>3 DEF Continue
<1>8. CASE Tick
  BY <1>2, <1>4, <1>8 DEF Tick
<1>9. CASE TickPended
  BY <1>9 DEF TickPended, running
<1>10. ASSUME NEW i \in Interrupts, ResumeFromISR(i) \/ NotifyFromISR(i)
       PROVE  pxCurrentTCB' # NoTask
  BY <1>2, <1>3, <1>10, InterruptTypes DEF ResumeFromISR, NotifyFromISR
<1> QED BY <1>5, <1>6, <1>7, <1>8, <1>9, <1>10 DEF Next, Begin

(* Whatever the handlers do, only one of the assertions that are modelled  *)
(* can fail, and only for a task that waits for a notification while it is *)
(* in xPendingReadyList: that a notified task is in no event list          *)
(* (xTaskGenericNotify and its two relatives for handlers).  A switch      *)
(* always finds a ready task in the highest list                           *)
(* (taskSELECT_HIGHEST_PRIORITY_TASK), and the list that is retired at the *)
(* wrap is empty (taskSWITCH_DELAYED_LISTS).                               *)
OnlyNotifyFails ==
  [][pxCurrentTCB # NoTask /\ pxCurrentTCB' = NoTask => \E u \in Tasks : NotifyFails(u)]_vars

THEOREM OnlyANotificationFails == Spec => OnlyNotifyFails
<1>1. /\ TypeOK /\ ReadyExactly' /\ RunInv /\ DelayInv /\ [Next]_vars
      => [pxCurrentTCB # NoTask /\ pxCurrentTCB' = NoTask => \E u \in Tasks : NotifyFails(u)]_vars
  <2> SUFFICES ASSUME TypeOK, ReadyExactly', RunInv, DelayInv, [Next]_vars,
                      pxCurrentTCB # NoTask, \A u \in Tasks : ~NotifyFails(u)
               PROVE  pxCurrentTCB' # NoTask
    OBVIOUS
  <2>1. ReadyBits'
    BY DEF ReadyExactly, ReadyBits
  <2> QED BY <2>1, NoStepFails
<1> QED BY <1>1, RunInvariant, DelayInvariant, ReadyPrioritiesAreExact, PTL DEF Spec, OnlyNotifyFails

(* The counts of tasks are exact, and if no handler resumes a task that    *)
(* may wait without limit for a notification, no assertion fails: then no  *)
(* task in xPendingReadyList waits.  Without the premise the assertion at  *)
(* a notification does fail.                                               *)
THEOREM AssertionsDoHold ==
  ASSUME NoWaiterIsResumed PROVE Spec => []AssertionsHold
<1>1. Init => CountInv /\ PendingInv /\ pxCurrentTCB # NoTask
  BY CountsStart, TasksAssumption DEF Init, PendingInv, Waiting
<1>2. /\ TypeOK /\ TypeOK' /\ ReadyExactly' /\ RunInv /\ DelayInv
      /\ CountInv /\ PendingInv /\ pxCurrentTCB # NoTask /\ [Next]_vars
      => CountInv' /\ PendingInv' /\ (pxCurrentTCB # NoTask)'
  <2> SUFFICES ASSUME TypeOK, TypeOK', ReadyExactly', RunInv, DelayInv,
                      CountInv, PendingInv, pxCurrentTCB # NoTask, [Next]_vars
               PROVE  CountInv' /\ PendingInv' /\ (pxCurrentTCB # NoTask)'
    OBVIOUS
  <2>1. ReadyBits'
    BY DEF ReadyExactly, ReadyBits
  <2>2. \A u \in Tasks : ~NotifyFails(u)
    BY DEF PendingInv, NotifyFails
  <2> QED BY <2>1, <2>2, CountNext, PendingNext, NoStepFails
<1>3. CountInv /\ pxCurrentTCB # NoTask => AssertionsHold
  BY DEF CountInv, AssertionsHold, Present, Terminated
<1> QED BY <1>1, <1>2, <1>3, RunInvariant, DelayInvariant, ReadyPrioritiesAreExact, PTL DEF Spec

(***************************************************************************)
(* Ticks that are held back.                                               *)
(***************************************************************************)
LEMMA Division ==
  ASSUME NEW a \in Nat
  PROVE  /\ a \div TickRange \in Int /\ a % TickRange \in 0 .. TickRange - 1
         /\ a = TickRange * (a \div TickRange) + (a % TickRange)
  BY SMT

LEMMA Remainder ==
  ASSUME NEW q \in Int, NEW r \in 0 .. TickRange - 1
  PROVE  (TickRange * q + r) % TickRange = r
  BY SMT

LEMMA OneMoreTimes ==
  ASSUME NEW q \in Int
  PROVE  TickRange * (q + 1) = TickRange * q + TickRange
  BY SMT

LEMMA NextRemainder ==
  ASSUME NEW a \in Nat
  PROVE  (a + 1) % TickRange = ((a % TickRange) + 1) % TickRange
<1> DEFINE q == a \div TickRange
           r == a % TickRange
<1>1. q \in Int /\ r \in 0 .. TickRange - 1 /\ a = TickRange * q + r
  BY Division
<1> HIDE DEF q, r
<1>2. (r + 1) % TickRange = IF r = TickRange - 1 THEN 0 ELSE r + 1
  <2>1. r + 1 \in 0 .. TickRange + TickRange - 1
    BY <1>1
  <2> QED BY <1>1, <2>1, WrapOnce
<1>3. CASE r = TickRange - 1
  <2>1. TickRange * (q + 1) \in Int /\ TickRange * q \in Int
    BY <1>1
  <2>2. a + 1 = TickRange * (q + 1) + 0
    BY <1>1, <1>3, <2>1, OneMoreTimes
  <2>3. (a + 1) % TickRange = 0
    BY <1>1, <2>2, Remainder
  <2> QED BY <1>2, <1>3, <2>3 DEF r
<1>4. CASE r # TickRange - 1
  <2>1. a + 1 = TickRange * q + (r + 1) /\ r + 1 \in 0 .. TickRange - 1
    <3>1. TickRange * q \in Int
      BY <1>1
    <3> QED BY <1>1, <1>4, <3>1
  <2>2. (a + 1) % TickRange = r + 1
    BY <1>1, <2>1, Remainder
  <2> QED BY <1>2, <1>4, <2>2 DEF r
<1> QED BY <1>3, <1>4

LEMMA Distribution ==
  ASSUME NEW p \in Int, NEW q \in Int
  PROVE  TickRange * (p + q) = TickRange * p + TickRange * q
  BY SMT

LEMMA SumRemainder ==
  ASSUME NEW a \in Nat, NEW k \in Nat
  PROVE  (a + k) % TickRange = ((a % TickRange) + k) % TickRange
<1> DEFINE q == a \div TickRange
           r == a % TickRange
<1>1. q \in Int /\ r \in 0 .. TickRange - 1 /\ a = TickRange * q + r
  BY Division
<1> HIDE DEF q, r
<1>2. PICK b \in Nat : b = r + k
  BY <1>1
<1> DEFINE p == b \div TickRange
           s == b % TickRange
<1>3. p \in Int /\ s \in 0 .. TickRange - 1 /\ b = TickRange * p + s
  BY Division
<1> HIDE DEF p, s
<1>4. a + k = TickRange * (q + p) + s /\ q + p \in Int
  <2>1. TickRange * (q + p) = TickRange * q + TickRange * p
    BY <1>1, <1>3, Distribution
  <2>2. TickRange * q \in Int /\ TickRange * p \in Int
    BY <1>1, <1>3
  <2> QED BY <1>1, <1>2, <1>3, <2>1, <2>2
<1>5. (a + k) % TickRange = s
  BY <1>3, <1>4, Remainder
<1> QED BY <1>2, <1>5 DEF r, s

LEMMA OneRound ==
  ASSUME NEW a \in Nat
  PROVE  (a + TickRange) % TickRange = a % TickRange
<1> DEFINE q == a \div TickRange
           r == a % TickRange
<1>1. q \in Int /\ r \in 0 .. TickRange - 1 /\ a = TickRange * q + r
  BY Division
<1> HIDE DEF q, r
<1>2. a + TickRange = TickRange * (q + 1) + r /\ q + 1 \in Int
  <2>1. TickRange * (q + 1) \in Int /\ TickRange * q \in Int
    BY <1>1
  <2> QED BY <1>1, <2>1, OneMoreTimes
<1>3. (a + TickRange) % TickRange = r
  BY <1>1, <1>2, Remainder
<1> QED BY <1>3 DEF r

(* Counting a tick that was pended leaves the total as it was; a tick that *)
(* is counted at once, or is pended, adds one.                             *)
LEMMA CountedNow ==
  ASSUME NEW x \in Ticks, NEW p \in Nat
  PROVE  (((x + 1) % TickRange) + p) % TickRange = (x + p + 1) % TickRange
<1>1. CASE x = TickRange - 1
  <2>1. (x + 1) % TickRange = 0
    BY <1>1, WrapOnce
  <2>2. (p + TickRange) % TickRange = p % TickRange
    BY OneRound
  <2>3. x + p + 1 = p + TickRange /\ 0 + p = p
    BY <1>1
  <2> QED BY <2>1, <2>2, <2>3
<1>2. CASE x # TickRange - 1
  <2>1. (x + 1) % TickRange = x + 1
    BY <1>2, WrapOnce
  <2>2. (x + 1) + p = x + p + 1
    OBVIOUS
  <2> QED BY <2>1, <2>2
<1> QED BY <1>1, <1>2

(* Every tick interrupt adds exactly one to the ticks counted or pended,   *)
(* and nothing else changes their number but xTaskCatchUpTicks: neither    *)
(* the loop that works them off when the scheduler is resumed nor the wrap *)
(* of the counter loses one or counts one twice.  xTaskCatchUpTicks adds   *)
(* its argument if no tick came between its load and its store; the        *)
(* theorem leaves open what it does otherwise, which is to lose that tick. *)
THEOREM NoTickIsLost == Spec => TicksCounted
<1>1. ASSUME TypeOK, [Next]_vars
      PROVE  /\ Tick \/ TickPended => Total' = (Total + 1) % TickRange
             /\ \A t \in Tasks : CatchUpStore(t) /\ loaded = xPendedTicks =>
                  Total' = (Total + call[t].arg) % TickRange
             /\ Total' = Total \/ Tick \/ TickPended \/ \E t \in Tasks : CatchUpStore(t)
  <2>0. xTickCount \in Ticks /\ xPendedTicks \in Nat /\ xTickCount + xPendedTicks \in Nat
    <3>1. xTickCount \in Ticks /\ xPendedTicks \in Nat
      BY <1>1 DEF TypeOK
    <3> QED BY <3>1
  <2>1. (xTickCount + xPendedTicks + 1) % TickRange = (Total + 1) % TickRange
    BY <2>0, NextRemainder DEF Total
  <2>2. ASSUME UNCHANGED time
        PROVE  Total' = Total
    BY <2>2 DEF time, Total
  <2>3. ASSUME xTickCount' = (xTickCount + 1) % TickRange, UNCHANGED xPendedTicks
        PROVE  Total' = (Total + 1) % TickRange
    BY <2>0, <2>1, <2>3, CountedNow DEF Total
  <2>4. ASSUME NEW t \in Tasks, PendedTick(t)
        PROVE  Total' = Total
    <3>1. /\ xTickCount' = (xTickCount + 1) % TickRange /\ xPendedTicks' = xPendedTicks - 1
          /\ xPendedTicks > 0
      BY <2>4 DEF PendedTick, CountTick, OneLess
    <3>2. xPendedTicks - 1 \in Nat /\ xTickCount + (xPendedTicks - 1) + 1 = xTickCount + xPendedTicks
      BY <2>0, <3>1
    <3> QED BY <2>0, <3>1, <3>2, CountedNow DEF Total
  <2>5. ASSUME Tick
        PROVE  Total' = (Total + 1) % TickRange
    BY <2>3, <2>5 DEF Tick, CountTick
  <2>6. ASSUME TickPended
        PROVE  Total' = (Total + 1) % TickRange
    <3>1. UNCHANGED xTickCount /\ xPendedTicks' = xPendedTicks + 1
      BY <2>6 DEF TickPended
    <3>2. xTickCount + (xPendedTicks + 1) = xTickCount + xPendedTicks + 1
      BY <2>0
    <3> QED BY <2>1, <3>1, <3>2 DEF Total
  <2>7. ASSUME NEW t \in Tasks, Begin(t) \/ Clean(t)
        PROVE  UNCHANGED time
    BY <2>7 DEF Begin, Delay, DelayUntil, Await, Notify, Suspend, Resume, PrioritySet, Abort, CatchUp,
       Create, DeleteItself, DeleteOther, Clean
  <2>8. ASSUME NEW t \in Tasks, Continue(t), ~PendedTick(t), ~CatchUpStore(t)
        PROVE  UNCHANGED time
    BY <2>8 DEF Continue, Start, Yield, ResumeAll, Resumed, Awaited, Suspended, AbortLook,
       AbortLookAgain, Aborted, CatchUpLoad, Created
  <2>9. ASSUME NEW i \in Interrupts, ResumeFromISR(i) \/ NotifyFromISR(i)
        PROVE  UNCHANGED time
    BY <2>9 DEF ResumeFromISR, NotifyFromISR
  <2>10. ASSUME UNCHANGED vars
         PROVE  Total' = Total
    BY <2>2, <2>10 DEF vars
  <2>11. ASSUME NEW t \in Tasks, CatchUpStore(t), loaded = xPendedTicks
         PROVE  Total' = (Total + call[t].arg) % TickRange
    <3>1. UNCHANGED xTickCount /\ xPendedTicks' = xPendedTicks + call[t].arg
      BY <2>11 DEF CatchUpStore
    <3>2. call[t].arg \in Nat
      BY <1>1 DEF TypeOK, Call, NoCall
    <3>3. PICK k \in Nat, w \in Nat : k = call[t].arg /\ w = xTickCount + xPendedTicks
      BY <2>0, <3>2
    <3>4. xTickCount' + xPendedTicks' = w + k
      BY <2>0, <3>1, <3>3
    <3>5. (w + k) % TickRange = ((w % TickRange) + k) % TickRange
      BY SumRemainder
    <3> QED BY <3>3, <3>4, <3>5 DEF Total
  <2>12. Total' = Total \/ Tick \/ TickPended \/ \E t \in Tasks : CatchUpStore(t)
    BY <1>1, <2>2, <2>4, <2>7, <2>8, <2>9, <2>10 DEF Next
  <2> QED BY <2>3, <2>5, <2>6, <2>11, <2>12
<1>2. TypeOK /\ [Next]_vars =>
        [/\ Tick \/ TickPended => Total' = (Total + 1) % TickRange
         /\ \A t \in Tasks : CatchUpStore(t) /\ loaded = xPendedTicks => Total' = (Total + call[t].arg) % TickRange
         /\ Total' = Total \/ Tick \/ TickPended \/ \E t \in Tasks : CatchUpStore(t)]_vars
  BY <1>1
<1> QED BY <1>2, TypeCorrect, PTL DEF Spec, TicksCounted

(***************************************************************************)
(* Periods: until it is out of range, lag says how long ago the last wake  *)
(* time was, though both the counter and that time wrap.                   *)
(***************************************************************************)
LagInv ==
  \A t \in Tasks : Known(t) =>
    xLastWakeTime[t] + lag[t] \in {xTickCount - TickRange, xTickCount, xTickCount + TickRange}

LEMMA LagInit == Init => LagInv
  BY DEF Init, LagInv, Known

LEMMA DelayUntilKeepsLag ==
  ASSUME TypeOK, LagInv, NEW t \in Tasks, NEW c \in Calls[t], DelayUntil(t, c)
  PROVE  LagInv'
<1> DEFINE to == (xLastWakeTime[t] + c.arg) % TickRange
<1>1. /\ xLastWakeTime' = [xLastWakeTime EXCEPT ![t] = to]
      /\ lag' = [lag EXCEPT ![t] = IF Known(t) THEN @ - c.arg ELSE @]
      /\ UNCHANGED xTickCount /\ c.arg \in Ticks
  BY CallsAssumption DEF DelayUntil, Begins, time
<1>2. xLastWakeTime[t] \in Ticks /\ xTickCount \in Ticks /\ lag[t] \in Int
  BY DEF TypeOK
<1>3. to = IF xLastWakeTime[t] + c.arg < TickRange THEN xLastWakeTime[t] + c.arg
           ELSE xLastWakeTime[t] + c.arg - TickRange
  <2>1. xLastWakeTime[t] + c.arg \in 0 .. TickRange + TickRange - 1
    BY <1>1, <1>2
  <2>2. to = IF xLastWakeTime[t] + c.arg < TickRange THEN xLastWakeTime[t] + c.arg
             ELSE (xLastWakeTime[t] + c.arg) - TickRange
    BY <2>1, WrapOnce
  <2> QED BY <1>1, <1>2, <2>2
<1> HIDE DEF to
<1>4. ASSUME NEW u \in Tasks \ {t}, Known(u)'
      PROVE  xLastWakeTime'[u] + lag'[u] \in {xTickCount' - TickRange, xTickCount', xTickCount' + TickRange}
  <2>1. xLastWakeTime'[u] = xLastWakeTime[u] /\ lag'[u] = lag[u]
    BY <1>1 DEF TypeOK
  <2> QED BY <1>1, <1>4, <2>1 DEF LagInv, Known
<1>5. ASSUME Known(t)'
      PROVE  xLastWakeTime'[t] + lag'[t] \in {xTickCount' - TickRange, xTickCount', xTickCount' + TickRange}
  <2>1. xLastWakeTime'[t] = to /\ lag'[t] = IF Known(t) THEN lag[t] - c.arg ELSE lag[t]
    BY <1>1 DEF TypeOK
  <2>2. Known(t)
    BY <1>5, <2>1 DEF Known
  <2>3. xLastWakeTime[t] + lag[t] \in {xTickCount - TickRange, xTickCount, xTickCount + TickRange}
    BY <2>2 DEF LagInv
  <2>4. -TickRange < lag[t] - c.arg /\ lag[t] < TickRange
    BY <1>5, <2>1, <2>2 DEF Known
  <2> QED BY <1>1, <1>2, <1>3, <2>1, <2>2, <2>3, <2>4
<1> QED BY <1>4, <1>5 DEF LagInv

LEMMA CountTickKeepsLag ==
  ASSUME TypeOK, LagInv, NEW due \in SUBSET Tasks, CountTick(due), UNCHANGED xLastWakeTime
  PROVE  LagInv'
<1>1. /\ xTickCount' = IF xTickCount = TickRange - 1 THEN 0 ELSE xTickCount + 1
      /\ lag' = [u \in Tasks |-> IF Known(u) THEN lag[u] + 1 ELSE lag[u]]
      /\ xTickCount \in Ticks
  BY NextTick DEF CountTick, TypeOK
<1>2. ASSUME NEW u \in Tasks, Known(u)'
      PROVE  xLastWakeTime'[u] + lag'[u] \in {xTickCount' - TickRange, xTickCount', xTickCount' + TickRange}
  <2>1. lag'[u] = (IF Known(u) THEN lag[u] + 1 ELSE lag[u]) /\ lag[u] \in Int /\ xLastWakeTime[u] \in Ticks
    BY <1>1 DEF TypeOK
  <2>2. Known(u) /\ lag'[u] = lag[u] + 1
    BY <1>2, <2>1 DEF Known
  <2>3. xLastWakeTime[u] + lag[u] \in {xTickCount - TickRange, xTickCount, xTickCount + TickRange}
    BY <2>2 DEF LagInv
  <2>4. lag[u] + 1 < TickRange
    BY <1>2, <2>2 DEF Known
  <2> QED BY <1>1, <2>1, <2>2, <2>3, <2>4
<1> QED BY <1>2 DEF LagInv

LEMMA LagNext == TypeOK /\ LagInv /\ [Next]_vars => LagInv'
<1> SUFFICES ASSUME TypeOK, LagInv, [Next]_vars PROVE LagInv'
  OBVIOUS
<1>1. CASE UNCHANGED <<xTickCount, periods>>
  BY <1>1 DEF periods, LagInv, Known
<1>2. ASSUME NEW t \in Tasks, Start(t)
      PROVE  LagInv'
  <2>1. /\ xLastWakeTime' = [xLastWakeTime EXCEPT ![t] = xTickCount]
        /\ lag' = [lag EXCEPT ![t] = 0] /\ UNCHANGED xTickCount
    BY <1>2 DEF Start, time
  <2>2. ASSUME NEW u \in Tasks, Known(u)'
        PROVE  xLastWakeTime'[u] + lag'[u] \in {xTickCount' - TickRange, xTickCount', xTickCount' + TickRange}
    <3>1. CASE u = t
      BY <2>1, <3>1 DEF TypeOK
    <3>2. CASE u # t
      BY <2>1, <2>2, <3>2 DEF TypeOK, LagInv, Known
    <3> QED BY <3>1, <3>2
  <2> QED BY <2>2 DEF LagInv
<1>3. ASSUME NEW t \in Tasks, PendedTick(t)
      PROVE  LagInv'
  BY <1>3, CountTickKeepsLag DEF PendedTick
<1>4. CASE Tick
  BY <1>4, CountTickKeepsLag DEF Tick
<1>5. ASSUME NEW t \in Tasks, NEW c \in Calls[t],
             \/ Delay(t, c) \/ Await(t, c) \/ Notify(t, c)
             \/ Suspend(t, c) \/ Resume(t, c) \/ PrioritySet(t, c) \/ Abort(t, c)
             \/ CatchUp(t, c) \/ Create(t, c) \/ DeleteItself(t, c) \/ DeleteOther(t, c)
      PROVE  UNCHANGED <<xTickCount, periods>>
  BY <1>5 DEF Delay, Await, Notify, Suspend, Resume, PrioritySet, Abort, CatchUp, Create, DeleteItself,
     DeleteOther, time
<1>6. ASSUME NEW t \in Tasks,
             \/ Yield(t) \/ ResumeAll(t) \/ Resumed(t) \/ Awaited(t) \/ Suspended(t) \/ AbortLook(t)
             \/ AbortLookAgain(t) \/ Aborted(t) \/ CatchUpLoad(t) \/ CatchUpStore(t) \/ Created(t)
             \/ Clean(t)
      PROVE  UNCHANGED <<xTickCount, periods>>
  BY <1>6 DEF Yield, ResumeAll, Resumed, Awaited, Suspended, AbortLook, AbortLookAgain, Aborted,
     CatchUpLoad, CatchUpStore, Created, Clean, time
<1>7. ASSUME NEW i \in Interrupts, ResumeFromISR(i) \/ NotifyFromISR(i)
      PROVE  UNCHANGED <<xTickCount, periods>>
  BY <1>7 DEF ResumeFromISR, NotifyFromISR, time
<1>8. ASSUME UNCHANGED vars \/ TickPended
      PROVE  UNCHANGED <<xTickCount, periods>>
  BY <1>8 DEF vars, TickPended, time
<1> QED BY <1>1, <1>2, <1>3, <1>4, <1>5, <1>6, <1>7, <1>8, DelayUntilKeepsLag DEF Next, Begin, Continue

(* A period goes on where it left off: vTaskDelayUntil blocks until the    *)
(* last wake time plus the increment, wherever the times wrap, or not at   *)
(* all when that is past, unless the last wake time is in the future.      *)
THEOREM PeriodsAreKept == Spec => PeriodKept
<1>1. ASSUME TypeOK, RunInv, LagInv, NEW t \in Tasks, NEW c \in Calls[t],
             DelayUntil(t, c), Known(t), lag[t] >= 0
      PROVE  BlocksUntil(t, c)
  <2> DEFINE to == (xLastWakeTime[t] + c.arg) % TickRange
             n  == (to + TickRange - xTickCount) % TickRange
  <2>1. c.arg \in Ticks /\ c.arg > 0 /\ At(t, "run")
    BY <1>1, CallsAssumption DEF DelayUntil, Begins
  <2>2. xLastWakeTime[t] \in Ticks /\ xTickCount \in Ticks /\ lag[t] \in Ticks
    BY <1>1 DEF TypeOK, Known
  <2>3. xLastWakeTime[t] + lag[t] \in {xTickCount, xTickCount + TickRange}
    <3>1. xLastWakeTime[t] + lag[t] \in {xTickCount - TickRange, xTickCount, xTickCount + TickRange}
      BY <1>1 DEF LagInv
    <3> QED BY <2>2, <3>1
  <2>4. to \in Ticks /\ to = IF xLastWakeTime[t] + c.arg < TickRange THEN xLastWakeTime[t] + c.arg
                             ELSE xLastWakeTime[t] + c.arg - TickRange
    <3>1. xLastWakeTime[t] + c.arg \in 0 .. TickRange + TickRange - 1
      BY <2>1, <2>2
    <3>2. to = IF xLastWakeTime[t] + c.arg < TickRange THEN xLastWakeTime[t] + c.arg
               ELSE (xLastWakeTime[t] + c.arg) - TickRange
      BY <3>1, WrapOnce
    <3> QED BY <2>1, <2>2, <3>2
  <2>5. IF ShouldDelay(xLastWakeTime[t], to) THEN DelayFor(t, n) ELSE UNCHANGED lists
    BY <1>1 DEF DelayUntil
  <2>6. n = IF to + TickRange - xTickCount < TickRange THEN to + TickRange - xTickCount
            ELSE to - xTickCount
    <3> HIDE DEF to
    <3>1. to + TickRange - xTickCount \in 0 .. TickRange + TickRange - 1
      BY <2>2, <2>4
    <3>2. n = IF to + TickRange - xTickCount < TickRange THEN to + TickRange - xTickCount
              ELSE (to + TickRange - xTickCount) - TickRange
      BY <3>1, WrapOnce
    <3> QED BY <2>2, <2>4, <3>2
  <2> HIDE DEF to, n
  <2>7. ShouldDelay(xLastWakeTime[t], to) <=> c.arg > lag[t]
    BY <2>1, <2>2, <2>3, <2>4 DEF ShouldDelay
  <2>8. c.arg > lag[t] => n = c.arg - lag[t]
    BY <2>1, <2>2, <2>3, <2>4, <2>6
  <2>9. CASE c.arg > lag[t]
    <3>1. DelayFor(t, n)
      BY <2>5, <2>7, <2>9
    <3>2. left'[t] = n /\ where'[t] \in {"delayed", "overflow"}
      BY <1>1, <3>1 DEF DelayFor, TypeOK
    <3> QED BY <2>8, <2>9, <3>2 DEF BlocksUntil
  <2>10. CASE ~(c.arg > lag[t])
    <3>1. UNCHANGED where
      BY <2>5, <2>7, <2>10 DEF lists
    <3>2. where[t] = "ready"
      BY <1>1, <2>1, Calling
    <3> QED BY <2>10, <3>1, <3>2 DEF BlocksUntil
  <2> QED BY <2>9, <2>10
<1>2. TypeOK /\ RunInv /\ LagInv /\ [Next]_vars =>
        [\A t \in Tasks : \A c \in Calls[t] :
           DelayUntil(t, c) /\ Known(t) /\ lag[t] >= 0 => BlocksUntil(t, c)]_vars
  BY <1>1
<1> QED BY <1>2, LagInit, LagNext, RunInvariant, PTL DEF Spec, PeriodKept
=============================================================================
