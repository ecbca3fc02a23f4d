----------------------------- MODULE Scheduler ------------------------------
(***************************************************************************)
(* The scheduler, freeRTOS/FreeRTOS_Source/tasks.c: delays on a tick       *)
(* counter that wraps, the two delayed lists, the suspension of the        *)
(* scheduler with the ticks and tasks it holds back, suspension,           *)
(* creation, deletion and priorities of tasks, and task notifications.     *)
(*                                                                         *)
(* The list of a task's xStateListItem is `where', the tasks with their    *)
(* xEventListItem in xPendingReadyList are `pending'; no task is in the    *)
(* event list of a queue here (see KernelQueue) or holds a mutex (see      *)
(* KernelMutex).  A step is a critical section or a stretch of code that   *)
(* touches nothing an interrupt touches.  Interrupts come between any two  *)
(* steps, except inside the critical section of xTaskResumeAll.            *)
(***************************************************************************)
EXTENDS Integers, FiniteSets

CONSTANTS
  Tasks,
  Idle,             \* the idle task
  NoTask,           \* no task runs: an assertion has failed
  Initially,        \* the tasks created before the scheduler starts
  InitialPriority,  \* of each task, when it is created
  Priorities,
  TickRange,        \* the tick counter wraps here: 2^32 in the code
  Calls,            \* of each task, the calls it may make
  Interrupts,       \* the calls interrupt handlers may make
  MaxPended,        \* bound: ticks while the scheduler is suspended
  MaxValue          \* bound: the notification value

portMAX_DELAY == TickRange - 1

Ticks == 0 .. portMAX_DELAY

ASSUME TasksAssumption ==
  /\ IsFiniteSet(Tasks)
  /\ Idle \in Initially /\ Initially \subseteq Tasks
  /\ NoTask \notin Tasks
  /\ Priorities \subseteq Nat
  /\ InitialPriority \in [Tasks -> Priorities]

ASSUME BoundsAssumption ==
  TickRange \in Nat \ {0, 1} /\ MaxPended \in Nat /\ MaxValue \in Nat

(* What a call is about: a task, and ticks, a priority or an increment.    *)
Call == [op  : {"delay", "delayUntil", "take", "wait", "notify", "suspend",
                "resume", "abort", "prioritySet", "create", "delete", "catchUp"},
         on  : Tasks,
         arg : Nat]

NoCall == [op |-> "none", on |-> Idle, arg |-> 0]

ASSUME CallsAssumption ==
  /\ Calls \in [Tasks -> SUBSET Call]
  /\ Calls[Idle] = {}
  /\ Interrupts \subseteq [op : {"notify", "resume"}, on : Tasks, arg : {0, 1}]
  /\ \A t \in Tasks : \A c \in Calls[t] :
       /\ c.op \in {"delay", "take", "wait", "delayUntil"} => c.arg \in Ticks
       /\ c.op = "delayUntil" => c.arg > 0
       /\ c.op = "prioritySet" => c.arg \in Priorities
       /\ c.op = "notify" => c.arg \in {0, 1}
       /\ c.op \in {"suspend", "resume", "abort", "create", "delete"} => c.on # Idle

VARIABLES
  where,              \* the list xStateListItem is in
  wake,               \* its value while that is a delayed list
  pending,            \* xPendingReadyList
  uxPriority,
  uxTopReadyPriority, \* the set bits
  pxCurrentTCB,
  xTickCount,
  xNextTaskUnblockTime,
  uxSchedulerSuspended,
  xPendedTicks,
  xYieldPending,
  ucNotifyState,
  ulNotifiedValue,
  uxCurrentNumberOfTasks,
  uxDeletedTasksWaitingCleanUp,
  pc,                 \* where each task is in its call
  call,               \* what it called, if it takes several steps
  xLastWakeTime,      \* of a task that uses vTaskDelayUntil
  loaded,             \* the value xTaskCatchUpTicks read
  (* History, which no step reads: *)
  left,               \* the ticks a delayed task has still to wait
  lag,                \* the ticks since the time xLastWakeTime stands for
  held                \* suspended by vTaskSuspend and not resumed

lists    == <<where, wake, uxTopReadyPriority, xNextTaskUnblockTime, left>>
running  == <<pxCurrentTCB, xYieldPending>>
time     == <<xTickCount, xPendedTicks>>
notified == <<ucNotifyState, ulNotifiedValue>>
counts   == <<uxCurrentNumberOfTasks, uxDeletedTasksWaitingCleanUp>>
local    == <<pc, call, loaded>>
periods  == <<xLastWakeTime, lag>>
vars == <<lists, pending, uxPriority, running, time, uxSchedulerSuspended, notified,
          counts, local, periods, held>>

(* A task with a period starts by reading the time (main.c).               *)
Entry(t) == IF \E c \in Calls[t] : c.op = "delayUntil" THEN "start" ELSE "run"

Init ==
  /\ where = [t \in Tasks |-> IF t \in Initially THEN "ready" ELSE "none"]
  /\ wake = [t \in Tasks |-> 0]
  /\ pending = {}
  /\ uxPriority = InitialPriority
  /\ uxTopReadyPriority = {InitialPriority[t] : t \in Initially}
  /\ pxCurrentTCB \in {t \in Initially :
                         \A u \in Initially : InitialPriority[u] <= InitialPriority[t]}
  /\ xTickCount = 0
  /\ xNextTaskUnblockTime = portMAX_DELAY
  /\ uxSchedulerSuspended = 0
  /\ xPendedTicks = 0
  /\ xYieldPending = FALSE
  /\ ucNotifyState = [t \in Tasks |-> "notWaiting"]
  /\ ulNotifiedValue = [t \in Tasks |-> 0]
  /\ uxCurrentNumberOfTasks = Cardinality(Initially)
  /\ uxDeletedTasksWaitingCleanUp = 0
  /\ pc = [t \in Tasks |-> Entry(t)]
  /\ call = [t \in Tasks |-> NoCall]
  /\ xLastWakeTime = [t \in Tasks |-> 0]
  /\ loaded = 0
  /\ left = [t \in Tasks |-> 0]
  /\ lag = [t \in Tasks |-> 0]
  /\ held = {}

(***************************************************************************)
(* Lists.                                                                  *)
(***************************************************************************)
Exists(t) == where[t] \notin {"none", "termination"}

ReadyAt(p) == {t \in Tasks : where[t] = "ready" /\ uxPriority[t] = p}

(* The bits after t left its list: taskRESET_READY_PRIORITY, when the list *)
(* that t left and the ready list of its priority are empty.               *)
TopWithout(t) ==
  IF \/ ReadyAt(uxPriority[t]) \ {t} # {}
     \/ where[t] # "ready" /\ \E u \in Tasks \ {t} : where[u] = where[t]
  THEN uxTopReadyPriority ELSE uxTopReadyPriority \ {uxPriority[t]}

(* A wrong variant, for contrast. *)
AddToReadyNoBit(S) ==
  /\ where' = [t \in Tasks |-> IF t \in S THEN "ready" ELSE where[t]]
  /\ wake' = [t \in Tasks |-> IF t \in S THEN 0 ELSE wake[t]]
  /\ left' = [t \in Tasks |-> IF t \in S THEN 0 ELSE left[t]]
  /\ uxTopReadyPriority' = uxTopReadyPriority

(* prvAddTaskToReadyList for the tasks in S, whatever list they leave.     *)
AddToReady(S) ==
  /\ where' = [t \in Tasks |-> IF t \in S THEN "ready" ELSE where[t]]
  /\ wake' = [t \in Tasks |-> IF t \in S THEN 0 ELSE wake[t]]
  /\ left' = [t \in Tasks |-> IF t \in S THEN 0 ELSE left[t]]
  /\ uxTopReadyPriority' = uxTopReadyPriority \cup {uxPriority[t] : t \in S}

(* t is taken out of the list it is in and put into another, not delayed.  *)
RemoveTo(t, list) ==
  /\ uxTopReadyPriority' = TopWithout(t)
  /\ where' = [where EXCEPT ![t] = list]
  /\ wake' = [wake EXCEPT ![t] = 0]
  /\ left' = [left EXCEPT ![t] = 0]

(* prvResetNextTaskUnblockTime, for the lists w: the head of the delayed   *)
(* list is the first to wake.                                              *)
Delayed(w) == {t \in Tasks : w[t] = "delayed"}

IsFirstWake(n, w) ==
  IF Delayed(w) = {} THEN n = portMAX_DELAY
  ELSE \E t \in Delayed(w) : n = wake[t] /\ \A u \in Delayed(w) : n <= wake[u]

ResetNextTaskUnblockTime(w) ==
  \E n \in Ticks : IsFirstWake(n, w) /\ xNextTaskUnblockTime' = n

(* A wrong variant, for contrast. *)
DelayNoOverflow(t, n) ==
  LET xTimeToWake == (xTickCount + n) % TickRange IN
    /\ uxTopReadyPriority' = TopWithout(t)
    /\ wake' = [wake EXCEPT ![t] = xTimeToWake]
    /\ left' = [left EXCEPT ![t] = n]
    /\ where' = [where EXCEPT ![t] = "delayed"]
    /\ xNextTaskUnblockTime' = IF xTimeToWake < xNextTaskUnblockTime
                               THEN xTimeToWake ELSE xNextTaskUnblockTime

(* prvAddCurrentTaskToDelayedList.                                         *)
DelayFor(t, n) ==
  LET xTimeToWake == (xTickCount + n) % TickRange IN
    /\ uxTopReadyPriority' = TopWithout(t)
    /\ wake' = [wake EXCEPT ![t] = xTimeToWake]
    /\ left' = [left EXCEPT ![t] = n]
    /\ IF xTimeToWake < xTickCount
       THEN /\ where' = [where EXCEPT ![t] = "overflow"]
            /\ UNCHANGED xNextTaskUnblockTime
       ELSE /\ where' = [where EXCEPT ![t] = "delayed"]
            /\ xNextTaskUnblockTime' = IF xTimeToWake < xNextTaskUnblockTime
                                       THEN xTimeToWake ELSE xNextTaskUnblockTime

BlockFor(t, n) ==
  IF n = portMAX_DELAY THEN RemoveTo(t, "suspended") /\ UNCHANGED xNextTaskUnblockTime
                       ELSE DelayFor(t, n)

(***************************************************************************)
(* vTaskSwitchContext, with the lists the step leaves and the priorities   *)
(* prio.  Which task of the highest list is next is left open.  The        *)
(* selection asserts that the list is not empty.                           *)
(***************************************************************************)
Select(prio) ==
  \E p \in uxTopReadyPriority' :
    /\ \A q \in uxTopReadyPriority' : q <= p
    /\ LET next == {t \in Tasks : where'[t] = "ready" /\ prio[t] = p}
       IN  pxCurrentTCB' \in IF next = {} THEN {NoTask} ELSE next

SwitchContext(prio) ==
  IF uxSchedulerSuspended > 0
  THEN xYieldPending' = TRUE /\ UNCHANGED pxCurrentTCB
  ELSE xYieldPending' = FALSE /\ Select(prio)

SwitchIf(yield) == IF yield THEN SwitchContext(uxPriority) ELSE UNCHANGED running

Fail == pxCurrentTCB' = NoTask /\ UNCHANGED xYieldPending

(***************************************************************************)
(* A task runs, and begins a call when it is in none.                      *)
(***************************************************************************)
At(t, label) == pxCurrentTCB = t /\ pc[t] = label

Begins(t, c, op) == At(t, "run") /\ c.op = op /\ Exists(c.on)

Goto(t, label) == pc' = [pc EXCEPT ![t] = label]

Enter(t, c, label) == Goto(t, label) /\ call' = [call EXCEPT ![t] = c]

Return(t) == Goto(t, "run") /\ call' = [call EXCEPT ![t] = NoCall]

On(t) == call[t].on

(***************************************************************************)
(* vTaskDelay and vTaskDelayUntil up to xTaskResumeAll.  Interrupts that   *)
(* come while the scheduler is suspended touch none of what they change.   *)
(***************************************************************************)
Delay(t, c) ==
  /\ Begins(t, c, "delay")
  /\ \/ /\ c.arg = 0
        /\ Enter(t, c, "yield")
        /\ UNCHANGED <<lists, uxSchedulerSuspended>>
     \/ /\ c.arg > 0
        /\ uxSchedulerSuspended' = 1
        /\ DelayFor(t, c.arg)
        /\ Enter(t, c, "resume")
  /\ UNCHANGED <<pending, uxPriority, running, time, notified, counts, periods, loaded, held>>

Start(t) ==
  /\ At(t, "start")
  /\ xLastWakeTime' = [xLastWakeTime EXCEPT ![t] = xTickCount]
  /\ lag' = [lag EXCEPT ![t] = 0]
  /\ Goto(t, "run")
  /\ UNCHANGED <<lists, pending, uxPriority, running, time, uxSchedulerSuspended, notified,
                 counts, call, loaded, held>>

(* A wrong variant, for contrast. *)
ShouldDelayNoWrap(last, to) == to > xTickCount

ShouldDelay(last, to) ==
  IF xTickCount < last THEN to < last /\ to > xTickCount
                       ELSE to < last \/ to > xTickCount

(* The history variable lag is no longer kept once it is out of range.     *)
Known(t) == -TickRange < lag[t] /\ lag[t] < TickRange

DelayUntil(t, c) ==
  /\ Begins(t, c, "delayUntil")
  /\ uxSchedulerSuspended' = 1
  /\ LET last == xLastWakeTime[t]
         xTimeToWake == (last + c.arg) % TickRange
     IN  /\ xLastWakeTime' = [xLastWakeTime EXCEPT ![t] = xTimeToWake]
         /\ IF ShouldDelay(last, xTimeToWake)
            THEN DelayFor(t, (xTimeToWake + TickRange - xTickCount) % TickRange)
            ELSE UNCHANGED lists
  /\ lag' = [lag EXCEPT ![t] = IF Known(t) THEN @ - c.arg ELSE @]
  /\ Enter(t, c, "resume")
  /\ UNCHANGED <<pending, uxPriority, running, time, notified, counts, loaded, held>>

(* portYIELD_WITHIN_API outside of critical sections.                      *)
Yield(t) ==
  /\ At(t, "yield")
  /\ UNCHANGED lists
  /\ SwitchIf(TRUE)
  /\ Return(t)
  /\ UNCHANGED <<pending, uxPriority, time, uxSchedulerSuspended, notified, counts, periods,
                 loaded, held>>

(***************************************************************************)
(* One tick, counted: xTaskIncrementTick with the scheduler running.       *)
(***************************************************************************)
Wrapped(w) == [t \in Tasks |-> IF w[t] = "overflow" THEN "delayed"
                              ELSE IF w[t] = "delayed" THEN "overflow" ELSE w[t]]

(* taskSWITCH_DELAYED_LISTS asserts that the list it retires is empty.     *)
WrapFails == xTickCount = portMAX_DELAY /\ Delayed(where) # {}

(* The tasks whose time has come, once the tick count is now, in lists w;  *)
(* n is the next time to unblock.                                          *)
Due(now, w, n) == IF now >= n THEN {t \in Delayed(w) : wake[t] <= now} ELSE {}

CountTick(due) ==
  LET now == (xTickCount + 1) % TickRange
      w   == IF now = 0 THEN Wrapped(where) ELSE where
  IN  \E n \in Ticks :
        /\ IF now = 0 THEN IsFirstWake(n, w) ELSE n = xNextTaskUnblockTime
        /\ due = Due(now, w, n)
        /\ xTickCount' = now
        /\ where' = [t \in Tasks |-> IF t \in due THEN "ready" ELSE w[t]]
        /\ wake' = [t \in Tasks |-> IF t \in due THEN 0 ELSE wake[t]]
        /\ uxTopReadyPriority' = uxTopReadyPriority \cup {uxPriority[t] : t \in due}
        /\ pending' = pending \ due
        /\ IF now >= n THEN ResetNextTaskUnblockTime(where')
                       ELSE xNextTaskUnblockTime' = n
        /\ left' = [t \in Tasks |-> IF left[t] > 0 THEN left[t] - 1 ELSE 0]
        /\ lag' = [t \in Tasks |-> IF Known(t) THEN lag[t] + 1 ELSE lag[t]]

(* A switch: a woken task is no lower than the running one, the running    *)
(* one shares its priority with a ready task, or a switch was pending.      *)
TickSwitches(due) ==
  LET prio == uxPriority[pxCurrentTCB] IN
    \/ \E t \in due : uxPriority[t] >= prio
    \/ \E t, u \in Tasks : /\ t # u
                           /\ where'[t] = "ready" /\ uxPriority[t] = prio
                           /\ where'[u] = "ready" /\ uxPriority[u] = prio
    \/ xYieldPending

(***************************************************************************)
(* xTaskResumeAll: one critical section, taken here in steps between which *)
(* no interrupt comes.  First the pending tasks, then the pended ticks one *)
(* by one, then the switch.                                                *)
(***************************************************************************)
InterruptsEnabled == pxCurrentTCB # NoTask /\ pc[pxCurrentTCB] # "ticks"

Outranks(t, S) == \E u \in S : uxPriority[u] >= uxPriority[t]

ResumeAll(t) ==
  /\ At(t, "resume")
  /\ uxSchedulerSuspended' = 0
  /\ AddToReady(pending)
  /\ IF pending = {} THEN UNCHANGED xNextTaskUnblockTime
                     ELSE ResetNextTaskUnblockTime(where')
  /\ xYieldPending' = (xYieldPending \/ Outranks(t, pending))
  /\ pending' = {}
  /\ Goto(t, "ticks")
  /\ UNCHANGED <<uxPriority, pxCurrentTCB, time, notified, counts, call, periods, loaded, held>>

(* A wrong variant, for contrast. *)
NoneLeft(n) == 0

OneLess(n) == n - 1

PendedTick(t) ==
  /\ At(t, "ticks")
  /\ xPendedTicks > 0
  /\ xPendedTicks' = OneLess(xPendedTicks)
  /\ \E due \in SUBSET Tasks :
       /\ CountTick(due)
       /\ IF WrapFails THEN Fail
          ELSE /\ xYieldPending' = TickSwitches(due)
               /\ UNCHANGED pxCurrentTCB
  /\ UNCHANGED <<uxPriority, uxSchedulerSuspended, notified, counts, local, xLastWakeTime, held>>

(* A delay yields afterwards, unless a switch is made here.                *)
Resumed(t) ==
  /\ At(t, "ticks")
  /\ xPendedTicks = 0
  /\ UNCHANGED lists
  /\ SwitchIf(xYieldPending)
  /\ IF call[t].op \in {"delay", "delayUntil"} /\ ~xYieldPending
     THEN Goto(t, "yield") /\ UNCHANGED call
     ELSE Return(t)
  /\ UNCHANGED <<pending, uxPriority, time, uxSchedulerSuspended, notified, counts, periods,
                 loaded, held>>

(***************************************************************************)
(* Task notifications.  ulTaskNotifyTake waits while the value is zero,    *)
(* xTaskNotifyWait while no notification is there.                         *)
(***************************************************************************)
NothingThere(t, c) == IF c.op = "take" THEN ulNotifiedValue[t] = 0
                                       ELSE ucNotifyState[t] # "received"

Await(t, c) ==
  /\ Begins(t, c, "take") \/ Begins(t, c, "wait")
  /\ Enter(t, c, "await")
  /\ ucNotifyState' = [ucNotifyState EXCEPT ![t] = IF NothingThere(t, c) THEN "waiting" ELSE @]
  /\ IF NothingThere(t, c) /\ c.arg > 0
     THEN BlockFor(t, c.arg) /\ SwitchIf(TRUE)
     ELSE UNCHANGED <<lists, running>>
  /\ UNCHANGED <<pending, uxPriority, time, uxSchedulerSuspended, ulNotifiedValue, counts,
                 periods, loaded, held>>

(* The second critical section; the value is not cleared but decremented,  *)
(* as the callers have it.                                                 *)
Awaited(t) ==
  /\ At(t, "await")
  /\ ucNotifyState' = [ucNotifyState EXCEPT ![t] = "notWaiting"]
  /\ ulNotifiedValue' = [ulNotifiedValue EXCEPT
                           ![t] = IF call[t].op = "take" /\ @ > 0 THEN @ - 1 ELSE @]
  /\ Return(t)
  /\ UNCHANGED <<lists, pending, uxPriority, running, time, uxSchedulerSuspended, counts,
                 periods, loaded, held>>

Notified(u, n) ==
  /\ ulNotifiedValue[u] + n <= MaxValue
  /\ ulNotifiedValue' = [ulNotifiedValue EXCEPT ![u] = @ + n]
  /\ ucNotifyState' = [ucNotifyState EXCEPT ![u] = "received"]

(* A wrong variant, for contrast. *)
WaitingForATime(u) == ucNotifyState[u] = "waiting" /\ where[u] # "suspended"

Waiting(u) == ucNotifyState[u] = "waiting"

(* A notified task is not in another list of waiting tasks.                *)
NotifyFails(u) == Waiting(u) /\ u \in pending

(* xTaskGenericNotify.                                                     *)
Notify(t, c) ==
  /\ Begins(t, c, "notify")
  /\ Notified(c.on, c.arg)
  /\ AddToReady(IF Waiting(c.on) THEN {c.on} ELSE {})
  /\ IF NotifyFails(c.on) THEN Fail
     ELSE SwitchIf(Waiting(c.on) /\ uxPriority[c.on] > uxPriority[t])
  /\ UNCHANGED <<xNextTaskUnblockTime, pending, uxPriority, time, uxSchedulerSuspended, counts,
                 local, periods, held>>

(***************************************************************************)
(* vTaskSuspend: two critical sections, then the yield.                    *)
(***************************************************************************)
(* The task no longer waits for a notification.                            *)
NoLongerWaiting(state) == IF state = "waiting" THEN "notWaiting" ELSE state

Suspend(t, c) ==
  /\ Begins(t, c, "suspend")
  /\ RemoveTo(c.on, "suspended")
  /\ pending' = pending \ {c.on}
  /\ ucNotifyState' = [ucNotifyState EXCEPT ![c.on] = NoLongerWaiting(@)]
  /\ held' = held \cup {c.on}
  /\ Enter(t, c, "suspend")
  /\ UNCHANGED <<xNextTaskUnblockTime, uxPriority, running, time, uxSchedulerSuspended,
                 ulNotifiedValue, counts, periods, loaded>>

Suspended(t) ==
  /\ At(t, "suspend")
  /\ ResetNextTaskUnblockTime(where)
  /\ IF On(t) = t THEN Goto(t, "yield") /\ UNCHANGED call ELSE Return(t)
  /\ UNCHANGED <<where, wake, uxTopReadyPriority, left, pending, uxPriority, running, time,
                 uxSchedulerSuspended, notified, counts, periods, loaded, held>>

(* prvTaskIsTaskSuspended: also of a task that waits without limit for a   *)
(* notification, which is in no event list.                                *)
IsSuspended(u) == where[u] = "suspended" /\ u \notin pending

(* vTaskResume.                                                            *)
Resume(t, c) ==
  /\ Begins(t, c, "resume")
  /\ c.on # t /\ IsSuspended(c.on)
  /\ AddToReady({c.on})
  /\ held' = held \ {c.on}
  /\ SwitchIf(uxPriority[c.on] >= uxPriority[t])
  /\ UNCHANGED <<xNextTaskUnblockTime, pending, uxPriority, time, uxSchedulerSuspended, notified,
                 counts, local, periods>>

(***************************************************************************)
(* vTaskPrioritySet; no priority is inherited here.                        *)
(***************************************************************************)
Moved(u, new) ==
  LET left_ == IF ReadyAt(uxPriority[u]) = {u} THEN uxTopReadyPriority \ {uxPriority[u]}
                                               ELSE uxTopReadyPriority
  IN  IF where[u] = "ready" THEN left_ \cup {new} ELSE uxTopReadyPriority

PrioritySet(t, c) ==
  /\ Begins(t, c, "prioritySet")
  /\ c.arg # uxPriority[c.on]
  /\ uxPriority' = [uxPriority EXCEPT ![c.on] = c.arg]
  /\ uxTopReadyPriority' = Moved(c.on, c.arg)
  /\ UNCHANGED <<where, wake, left, xNextTaskUnblockTime>>
  /\ IF \/ c.arg > uxPriority[c.on] /\ c.on # t /\ c.arg >= uxPriority[t]
        \/ c.arg < uxPriority[c.on] /\ c.on = t
     THEN SwitchContext(uxPriority') ELSE UNCHANGED running
  /\ UNCHANGED <<pending, time, uxSchedulerSuspended, notified, counts, local, periods, held>>

(***************************************************************************)
(* xTaskAbortDelay: eTaskGetState reads the lists first and ucNotifyState  *)
(* after it; interrupts between them may notify the task.                  *)
(***************************************************************************)
Abort(t, c) ==
  /\ Begins(t, c, "abort")
  /\ uxSchedulerSuspended' = 1
  /\ Enter(t, c, "look")
  /\ UNCHANGED <<lists, pending, uxPriority, running, time, notified, counts, periods,
                 loaded, held>>

AbortLook(t) ==
  /\ At(t, "look")
  /\ LET u == On(t)
         blocked == \/ where[u] \in {"delayed", "overflow"}
                    \/ where[u] = "suspended" /\ u \in pending
     IN  Goto(t, IF u # t /\ blocked THEN "abort"
                 ELSE IF u # t /\ where[u] = "suspended" THEN "lookAgain" ELSE "resume")
  /\ UNCHANGED <<lists, pending, uxPriority, running, time, uxSchedulerSuspended, notified,
                 counts, call, periods, loaded, held>>

AbortLookAgain(t) ==
  /\ At(t, "lookAgain")
  /\ Goto(t, IF Waiting(On(t)) THEN "abort" ELSE "resume")
  /\ UNCHANGED <<lists, pending, uxPriority, running, time, uxSchedulerSuspended, notified,
                 counts, call, periods, loaded, held>>

Aborted(t) ==
  /\ At(t, "abort")
  /\ AddToReady({On(t)})
  /\ pending' = pending \ {On(t)}
  /\ held' = held \ {On(t)}
  /\ xYieldPending' = (xYieldPending \/ uxPriority[On(t)] > uxPriority[t])
  /\ Goto(t, "resume")
  /\ UNCHANGED <<xNextTaskUnblockTime, uxPriority, pxCurrentTCB, time, uxSchedulerSuspended,
                 notified, counts, call, periods, loaded>>

(***************************************************************************)
(* xTaskCatchUpTicks: xPendedTicks is read and written with interrupts     *)
(* enabled.                                                                *)
(***************************************************************************)
CatchUp(t, c) ==
  /\ Begins(t, c, "catchUp")
  /\ uxSchedulerSuspended' = 1
  /\ Enter(t, c, "load")
  /\ UNCHANGED <<lists, pending, uxPriority, running, time, notified, counts, periods,
                 loaded, held>>

CatchUpLoad(t) ==
  /\ At(t, "load")
  /\ loaded' = xPendedTicks
  /\ Goto(t, "store")
  /\ UNCHANGED <<lists, pending, uxPriority, running, time, uxSchedulerSuspended, notified,
                 counts, call, periods, held>>

CatchUpStore(t) ==
  /\ At(t, "store")
  /\ xPendedTicks' = loaded + call[t].arg
  /\ loaded' = 0
  /\ Goto(t, "resume")
  /\ UNCHANGED <<lists, pending, uxPriority, running, xTickCount, uxSchedulerSuspended, notified,
                 counts, call, periods, held>>

(***************************************************************************)
(* xTaskCreate, vTaskDelete and the cleaning up by the idle task.          *)
(***************************************************************************)
Create(t, c) ==
  /\ At(t, "run") /\ c.op = "create" /\ where[c.on] = "none"
  /\ pc' = [pc EXCEPT ![t] = "created", ![c.on] = Entry(c.on)]
  /\ call' = [call EXCEPT ![t] = c, ![c.on] = NoCall]
  /\ where' = [where EXCEPT ![c.on] = "ready"]
  /\ uxPriority' = [uxPriority EXCEPT ![c.on] = InitialPriority[c.on]]
  /\ uxTopReadyPriority' = uxTopReadyPriority \cup {InitialPriority[c.on]}
  /\ ucNotifyState' = [ucNotifyState EXCEPT ![c.on] = "notWaiting"]
  /\ ulNotifiedValue' = [ulNotifiedValue EXCEPT ![c.on] = 0]
  /\ uxCurrentNumberOfTasks' = uxCurrentNumberOfTasks + 1
  /\ UNCHANGED <<wake, left, xNextTaskUnblockTime, pending, running, time, uxSchedulerSuspended,
                 uxDeletedTasksWaitingCleanUp, periods, loaded, held>>

(* The priorities are compared after the critical section; by then another *)
(* task may have freed the new one.                                        *)
Created(t) ==
  /\ At(t, "created")
  /\ UNCHANGED lists
  /\ \E higher \in BOOLEAN :
       /\ where[On(t)] # "none" => higher = (uxPriority[t] < uxPriority[On(t)])
       /\ SwitchIf(higher)
  /\ Return(t)
  /\ UNCHANGED <<pending, uxPriority, time, uxSchedulerSuspended, notified, counts, periods,
                 loaded, held>>

DeleteItself(t, c) ==
  /\ Begins(t, c, "delete") /\ c.on = t
  /\ RemoveTo(t, "termination")
  /\ uxDeletedTasksWaitingCleanUp' = uxDeletedTasksWaitingCleanUp + 1
  /\ Enter(t, c, "yield")
  /\ UNCHANGED <<xNextTaskUnblockTime, pending, uxPriority, running, time, uxSchedulerSuspended,
                 notified, uxCurrentNumberOfTasks, periods, loaded, held>>

DeleteOther(t, c) ==
  /\ Begins(t, c, "delete") /\ c.on # t
  /\ RemoveTo(c.on, "none")
  /\ pending' = pending \ {c.on}
  /\ uxCurrentNumberOfTasks' = uxCurrentNumberOfTasks - 1
  /\ ResetNextTaskUnblockTime(where')
  /\ held' = held \ {c.on}
  /\ UNCHANGED <<uxPriority, running, time, uxSchedulerSuspended, notified,
                 uxDeletedTasksWaitingCleanUp, local, periods>>

(* A wrong variant, for contrast. *)
CleanKeepsCount(u) ==
  /\ At(Idle, "run")
  /\ uxDeletedTasksWaitingCleanUp > 0
  /\ where[u] = "termination"
  /\ where' = [where EXCEPT ![u] = "none"]
  /\ uxDeletedTasksWaitingCleanUp' = uxDeletedTasksWaitingCleanUp - 1
  /\ UNCHANGED <<wake, left, uxTopReadyPriority, xNextTaskUnblockTime, pending, uxPriority,
                 running, time, uxSchedulerSuspended, notified, uxCurrentNumberOfTasks, local,
                 periods, held>>

(* prvCheckTasksWaitingTermination.                                        *)
Clean(u) ==
  /\ At(Idle, "run")
  /\ uxDeletedTasksWaitingCleanUp > 0
  /\ where[u] = "termination"
  /\ where' = [where EXCEPT ![u] = "none"]
  /\ uxCurrentNumberOfTasks' = uxCurrentNumberOfTasks - 1
  /\ uxDeletedTasksWaitingCleanUp' = uxDeletedTasksWaitingCleanUp - 1
  /\ UNCHANGED <<wake, left, uxTopReadyPriority, xNextTaskUnblockTime, pending, uxPriority,
                 running, time, uxSchedulerSuspended, notified, local, periods, held>>

(***************************************************************************)
(* Interrupts.                                                             *)
(***************************************************************************)
Tick ==
  /\ InterruptsEnabled
  /\ uxSchedulerSuspended = 0
  /\ \E due \in SUBSET Tasks :
       /\ CountTick(due)
       /\ IF WrapFails THEN Fail ELSE SwitchIf(TickSwitches(due))
  /\ UNCHANGED <<uxPriority, uxSchedulerSuspended, xPendedTicks, notified, counts, local,
                 xLastWakeTime, held>>

TickPended ==
  /\ InterruptsEnabled
  /\ uxSchedulerSuspended > 0
  /\ xPendedTicks < MaxPended
  /\ xPendedTicks' = xPendedTicks + 1
  /\ UNCHANGED <<lists, pending, uxPriority, running, xTickCount, uxSchedulerSuspended, notified,
                 counts, local, periods, held>>

(* A handler that wakes u: at once, or by way of the pending list.         *)
WakeFromISR(u) ==
  /\ UNCHANGED xNextTaskUnblockTime
  /\ IF uxSchedulerSuspended = 0
     THEN AddToReady({u}) /\ UNCHANGED pending
     ELSE /\ pending' = pending \cup {u}
          /\ UNCHANGED <<where, wake, left, uxTopReadyPriority>>

(* xTaskResumeFromISR; the handler yields when it is told to.              *)
ResumeFromISR(i) ==
  /\ InterruptsEnabled
  /\ i.op = "resume" /\ IsSuspended(i.on)
  /\ held' = held \ {i.on}
  /\ WakeFromISR(i.on)
  /\ SwitchIf(/\ uxSchedulerSuspended = 0
              /\ uxPriority[i.on] >= uxPriority[pxCurrentTCB])
  /\ UNCHANGED <<uxPriority, uxSchedulerSuspended, time, notified, counts,
                 local, periods>>

(* xTaskGenericNotifyFromISR and vTaskNotifyGiveFromISR.                   *)
NotifyFromISR(i) ==
  /\ InterruptsEnabled
  /\ i.op = "notify" /\ Exists(i.on)
  /\ Notified(i.on, i.arg)
  /\ IF Waiting(i.on) /\ ~NotifyFails(i.on) THEN WakeFromISR(i.on)
                                             ELSE UNCHANGED <<lists, pending>>
  /\ IF NotifyFails(i.on) THEN Fail
     ELSE SwitchIf(Waiting(i.on) /\ uxPriority[i.on] > uxPriority[pxCurrentTCB])
  /\ UNCHANGED <<uxPriority, uxSchedulerSuspended, time, counts, local,
                 periods, held>>

Begin(t) ==
  \E c \in Calls[t] :
    \/ Delay(t, c) \/ DelayUntil(t, c) \/ Await(t, c) \/ Notify(t, c)
    \/ Suspend(t, c) \/ Resume(t, c) \/ PrioritySet(t, c) \/ Abort(t, c)
    \/ CatchUp(t, c) \/ Create(t, c) \/ DeleteItself(t, c) \/ DeleteOther(t, c)

Continue(t) ==
  \/ Start(t) \/ Yield(t) \/ ResumeAll(t) \/ PendedTick(t) \/ Resumed(t)
  \/ Awaited(t) \/ Suspended(t) \/ AbortLook(t) \/ AbortLookAgain(t) \/ Aborted(t)
  \/ CatchUpLoad(t) \/ CatchUpStore(t) \/ Created(t)

Next ==
  \/ \E t \in Tasks : Begin(t) \/ Continue(t) \/ Clean(t)
  \/ Tick \/ TickPended
  \/ \E i \in Interrupts : ResumeFromISR(i) \/ NotifyFromISR(i)

Spec == Init /\ [][Next]_vars

(***************************************************************************)
(* Properties.                                                             *)
(***************************************************************************)
Lists == {"ready", "delayed", "overflow", "suspended", "termination", "none"}

Labels == {"start", "run", "yield", "resume", "ticks", "await", "suspend", "look",
           "lookAgain", "abort", "load", "store", "created"}

(* The variables keep their types; every wake time and the time to unblock *)
(* are values of the tick counter.                                         *)
TypeOK ==
  /\ where \in [Tasks -> Lists]
  /\ wake \in [Tasks -> Ticks]
  /\ pending \subseteq Tasks
  /\ uxPriority \in [Tasks -> Priorities]
  /\ uxTopReadyPriority \subseteq Priorities
  /\ pxCurrentTCB \in Tasks \cup {NoTask}
  /\ xTickCount \in Ticks
  /\ xNextTaskUnblockTime \in Ticks
  /\ uxSchedulerSuspended \in {0, 1}
  /\ xPendedTicks \in Nat
  /\ xYieldPending \in BOOLEAN
  /\ ucNotifyState \in [Tasks -> {"notWaiting", "waiting", "received"}]
  /\ ulNotifiedValue \in [Tasks -> 0 .. MaxValue]
  /\ uxCurrentNumberOfTasks \in Int
  /\ uxDeletedTasksWaitingCleanUp \in Int
  /\ pc \in [Tasks -> Labels]
  /\ call \in [Tasks -> Call \cup {NoCall}]
  /\ xLastWakeTime \in [Tasks -> Ticks]
  /\ loaded \in Nat
  /\ left \in [Tasks -> Ticks]
  /\ lag \in [Tasks -> Int]
  /\ held \subseteq Tasks

(* xNextTaskUnblockTime is never after the first wake time of the delayed  *)
(* list, though it is not kept up to date at every removal: otherwise      *)
(* xTaskIncrementTick would not look at the list in time.                  *)
UnblockTimeNotLate == \A t \in Delayed(where) : xNextTaskUnblockTime <= wake[t]

(* A task sleeps exactly the ticks it asked for, unless it is woken:       *)
(* across the wrap of the tick counter, the change of the two lists and    *)
(* ticks that were held back.                                              *)
DelaysExact ==
  \A t \in Tasks :
    /\ where[t] = "delayed"  => left[t] > 0 /\ wake[t] = xTickCount + left[t]
    /\ where[t] = "overflow" => left[t] > 0 /\ wake[t] + TickRange = xTickCount + left[t]
    /\ left[t] > 0 => where[t] \in {"delayed", "overflow"}

(* uxTopReadyPriority has the bits of the non-empty ready lists, whatever  *)
(* moved a task or changed its priority.                                   *)
ReadyExactly == uxTopReadyPriority = {uxPriority[t] : t \in {u \in Tasks : where[u] = "ready"}}

(* Whenever the scheduler runs and the running task is not about to yield, *)
(* no task of a higher priority is ready: no wake-up, from whatever task   *)
(* or interrupt and however long it was held back, misses its switch.      *)
AboutToYield(t) == \/ pc[t] \in {"yield", "created", "ticks"}
                   \/ pc[t] = "suspend" /\ On(t) = t

HighestRuns ==
  pxCurrentTCB # NoTask /\ uxSchedulerSuspended = 0 /\ ~AboutToYield(pxCurrentTCB) =>
    /\ where[pxCurrentTCB] = "ready"
    /\ ~xYieldPending
    /\ \A t \in Tasks : where[t] = "ready" => uxPriority[t] <= uxPriority[pxCurrentTCB]

(* A task that was notified in its wait is ready, or becomes so when the   *)
(* scheduler is resumed, unless vTaskSuspend holds it.                     *)
NotifiedNotBlocked ==
  \A t \in Tasks : pc[t] = "await" /\ ucNotifyState[t] = "received" /\ Exists(t) =>
    where[t] = "ready" \/ t \in pending \/ t \in held

(* A task suspended by vTaskSuspend stays so until it is resumed: no       *)
(* notification, time-out or wake-up that was held back makes it ready.    *)
SuspendedUntilResumed == \A t \in held : where[t] = "suspended" /\ t \notin pending

(* The assertions of the scheduler hold: the list retired at the wrap is   *)
(* empty, the list selected is not, a notified task waits for nothing else;*)
(* and the counts that xTaskResumeAll and the idle task rely on are exact. *)
AssertionsHold ==
  /\ pxCurrentTCB # NoTask
  /\ uxCurrentNumberOfTasks = Cardinality({t \in Tasks : where[t] # "none"})
  /\ uxDeletedTasksWaitingCleanUp = Cardinality({t \in Tasks : where[t] = "termination"})

(* Every tick interrupt makes the ticks that were counted or are pended    *)
(* one more, whether the scheduler is suspended or not, and no other step  *)
(* changes their number: those that are replayed when it is resumed were   *)
(* counted before.  xTaskCatchUpTicks adds what it is asked to if no tick  *)
(* comes between its load and its store; of a tick between them nothing is *)
(* said here: it is lost (TicksCaughtUp).                                  *)
Total == (xTickCount + xPendedTicks) % TickRange

TicksCounted ==
  [][/\ Tick \/ TickPended => Total' = (Total + 1) % TickRange
     /\ \A t \in Tasks : CatchUpStore(t) /\ loaded = xPendedTicks => Total' = (Total + call[t].arg) % TickRange
     /\ Total' = Total \/ Tick \/ TickPended \/ \E t \in Tasks : CatchUpStore(t)]_vars

(* xTaskCatchUpTicks adds its ticks to those that are pended.              *)
TicksCaughtUp ==
  [][\A t \in Tasks : CatchUpStore(t) => xPendedTicks' = xPendedTicks + call[t].arg]_vars

(* vTaskDelayUntil blocks until the last wake time plus the increment, or  *)
(* not at all if that is past, whether or not any of the times wrapped, as *)
(* long as the last wake time is not in the future.                        *)
BlocksUntil(t, c) ==
  IF c.arg > lag[t] THEN where'[t] \in {"delayed", "overflow"} /\ left'[t] = c.arg - lag[t]
                    ELSE where'[t] = "ready"

PeriodKept ==
  [][\A t \in Tasks : \A c \in Calls[t] :
       DelayUntil(t, c) /\ Known(t) /\ lag[t] >= 0 => BlocksUntil(t, c)]_vars

(* task.h says that vTaskDelayUntil unblocks the task "at time             *)
(* *pxPreviousWakeTime + xTimeIncrement", also when the last wake was      *)
(* early because the task was aborted or resumed.                          *)
PeriodKeptAfterEarlyWake ==
  [][\A t \in Tasks : \A c \in Calls[t] :
       DelayUntil(t, c) /\ Known(t) => BlocksUntil(t, c)]_vars

(* A task that waits without limit for a notification, and whose wait is   *)
(* neither aborted nor suspended, is notified when its wait ends.          *)
UnlimitedWaitIsNotified ==
  [][\A t \in Tasks : Awaited(t) /\ call[t].op = "wait" /\ call[t].arg = portMAX_DELAY
                        => ucNotifyState[t] = "received"]_vars

=============================================================================
