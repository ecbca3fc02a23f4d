---------------------------- MODULE KernelQueue ----------------------------
(***************************************************************************)
(* One queue of the kernel (freeRTOS/FreeRTOS_Source/queue.c), the tasks   *)
(* that send to it, receive from it, peek at it and reset it, and the      *)
(* interrupt handlers that use its FromISR functions, together with the    *)
(* parts of tasks.c a blocking call goes through: vTaskSuspendAll,         *)
(* xTaskResumeAll, xTaskCheckForTimeOut, the event lists, the pending      *)
(* ready list, the tick and xTaskAbortDelay.                               *)
(*                                                                         *)
(* A step is what runs without an interrupt in between: a critical         *)
(* section, or a stretch of code that touches nothing an interrupt handler *)
(* touches.  Between two steps of a task any interrupt may come, and any   *)
(* other ready task may run unless the scheduler is suspended.  Which of   *)
(* the ready tasks runs is left open, so the model covers every assignment *)
(* of priorities and every time slicing.                                   *)
(***************************************************************************)
EXTENDS Integers, Sequences, FiniteSets

CONSTANTS
  Tasks,        \* the tasks that use the queue
  Items,        \* the values an item can take
  NoItem,       \* content of a slot or a buffer that was never written
  NoTask,       \* "the scheduler is not suspended"
  uxLength,     \* number of items the queue holds
  Priority,     \* Priority[t]: the priority the event lists are ordered by
  Calls,        \* Calls[t]: the calls task t makes (a set of Call records)
  IsrOps,       \* the FromISR functions interrupts use: "send", "receive"
  IsrSend,      \* the positions SendFromISR is called with
  MaxLock       \* bound: how far interrupts drive a lock count

Unlocked == -1          \* queueUNLOCKED
LockedUnmodified == 0   \* queueLOCKED_UNMODIFIED
Int8(n) == ((n + 128) % 256) - 128

Positions == {"back", "front", "overwrite"}
Waits == {"zero", "finite", "max"}

Call == [op    : {"send", "receive", "peek", "reset", "abort", "none"},
         item  : Items \cup {NoItem},
         pos   : Positions,
         ticks : Waits]

NoCall == [op |-> "none", item |-> NoItem, pos |-> "back", ticks |-> "zero"]

ASSUME TasksAssumption == IsFiniteSet(Tasks)

ASSUME LengthAssumption == uxLength \in Nat \ {0}

ASSUME NoTaskAssumption == NoTask \notin Tasks

ASSUME NoItemAssumption == NoItem \notin Items

ASSUME PriorityAssumption == Priority \in [Tasks -> Nat]

(* xQueueOverwrite is only for queues of length one: the assertion at the  *)
(* head of the send functions.                                             *)
ASSUME CallsAssumption ==
  /\ Calls \in [Tasks -> SUBSET Call]
  /\ \A t \in Tasks : \A c \in Calls[t] :
        /\ c.op # "none"
        /\ c.op = "send" => c.item \in Items
        /\ c.op = "send" /\ c.pos = "overwrite" => uxLength = 1

ASSUME IsrAssumption == /\ IsrSend \subseteq Positions
                        /\ "overwrite" \in IsrSend => uxLength = 1
                        /\ MaxLock \in Nat

VARIABLES
  storage,                 \* the item slots
  pcWriteTo,               \* slot the next item sent to the back goes to
  pcReadFrom,              \* slot the last item was read from
  uxMessagesWaiting,       \* number of items
  cRxLock, cTxLock,        \* receives and sends counted while locked
  xTasksWaitingToSend,     \* event lists, the best priority first
  xTasksWaitingToReceive,
  xPendingReadyList,       \* made ready while the scheduler was suspended
  suspender,               \* the task that suspended the scheduler
  xPendedTicks,            \* a tick came meanwhile
  pc,                      \* where each task is in its call
  call,                    \* the call it makes; call[t].ticks is xTicksToWait
  expired,                 \* its block time has passed
  timedOut,                \* what xTaskCheckForTimeOut told it
  ucDelayAborted,          \* set by xTaskAbortDelay
  aborted,                 \* history: the call in progress was aborted
  buffer                   \* what it received last

ring   == <<storage, pcWriteTo, pcReadFrom, uxMessagesWaiting>>
locks  == <<cRxLock, cTxLock>>
events == <<xTasksWaitingToSend, xTasksWaitingToReceive, xPendingReadyList>>
sched  == <<suspender, xPendedTicks>>
local  == <<pc, call, timedOut, buffer>>
time   == <<expired, ucDelayAborted, aborted>>
vars   == <<ring, locks, events, sched, local, time>>

(***************************************************************************)
(* The initial state is a queue just created (prvInitialiseNewQueue and    *)
(* the reset it ends with) and tasks that have not called it yet.  A slot  *)
(* nothing was written to holds NoItem.                                    *)
(***************************************************************************)
Init ==
  /\ storage = [i \in 0 .. uxLength - 1 |-> NoItem]
  /\ pcWriteTo = 0
  /\ pcReadFrom = uxLength - 1
  /\ uxMessagesWaiting = 0
  /\ cRxLock = Unlocked
  /\ cTxLock = Unlocked
  /\ xTasksWaitingToSend = {}
  /\ xTasksWaitingToReceive = {}
  /\ xPendingReadyList = {}
  /\ suspender = NoTask
  /\ xPendedTicks = FALSE
  /\ pc = [t \in Tasks |-> "idle"]
  /\ call = [t \in Tasks |-> NoCall]
  /\ expired = [t \in Tasks |-> FALSE]
  /\ timedOut = [t \in Tasks |-> FALSE]
  /\ ucDelayAborted = [t \in Tasks |-> FALSE]
  /\ aborted = [t \in Tasks |-> FALSE]
  /\ buffer = [t \in Tasks |-> NoItem]

(***************************************************************************)
(* Which task can take a step.  A task is off the ready lists from the     *)
(* moment it is placed on an event list until a wake-up, the tick or an    *)
(* abort puts it back; a wake-up that finds the scheduler suspended leaves *)
(* it in the pending ready list until xTaskResumeAll.                      *)
(***************************************************************************)
OffReadyList ==
  xTasksWaitingToSend \cup xTasksWaitingToReceive \cup xPendingReadyList

CanRun(t) == \/ suspender = t
             \/ suspender = NoTask /\ t \notin OffReadyList

Goto(t, label) == pc' = [pc EXCEPT ![t] = label]

(* A call returns: pdPASS leaves the task "idle", an error "failed".       *)
Return(t, label) == /\ Goto(t, label)
                    /\ call' = [call EXCEPT ![t] = NoCall]

(***************************************************************************)
(* prvCopyDataToQueue and prvCopyDataFromQueue on the ring of slots.       *)
(***************************************************************************)
Forward(slot) == IF slot + 1 >= uxLength THEN 0 ELSE slot + 1

(* A wrong variant, for contrast.                                          *)
BackwardStuck(slot) == IF slot - 1 < 0 THEN 0 ELSE slot - 1
Backward(slot) == IF slot - 1 < 0 THEN uxLength - 1 ELSE slot - 1

CopyDataToQueue(x, pos) ==
  /\ IF pos = "back"
     THEN /\ storage' = [storage EXCEPT ![pcWriteTo] = x]
          /\ pcWriteTo' = Forward(pcWriteTo)
          /\ UNCHANGED pcReadFrom
     ELSE /\ storage' = [storage EXCEPT ![pcReadFrom] = x]
          /\ pcReadFrom' = Backward(pcReadFrom)
          /\ UNCHANGED pcWriteTo
  /\ uxMessagesWaiting' =
       IF pos = "overwrite" /\ uxMessagesWaiting > 0
       THEN uxMessagesWaiting
       ELSE uxMessagesWaiting + 1

NextItem == storage[Forward(pcReadFrom)]

RemoveItem == /\ pcReadFrom' = Forward(pcReadFrom)
              /\ uxMessagesWaiting' = uxMessagesWaiting - 1
              /\ UNCHANGED <<storage, pcWriteTo>>

(***************************************************************************)
(* Event lists.  First(S, n, W): W are the n tasks at the head of the      *)
(* priority ordered list S (all of S when it is shorter).  The order among *)
(* waiters of one priority is left open.                                   *)
(***************************************************************************)
First(S, n, W) ==
  /\ W \subseteq S
  /\ Cardinality(W) = IF n < Cardinality(S) THEN n ELSE Cardinality(S)
  /\ \A u \in W, v \in S \ W : Priority[u] >= Priority[v]

(* xTaskRemoveFromEventList for each task of W.                            *)
MakeReady(W) ==
  xPendingReadyList' =
    IF suspender = NoTask THEN xPendingReadyList ELSE xPendingReadyList \cup W

WakeReceivers(n) ==
  \E W \in SUBSET xTasksWaitingToReceive :
    /\ First(xTasksWaitingToReceive, n, W)
    /\ xTasksWaitingToReceive' = xTasksWaitingToReceive \ W
    /\ MakeReady(W)
    /\ UNCHANGED xTasksWaitingToSend

WakeSenders(n) ==
  \E W \in SUBSET xTasksWaitingToSend :
    /\ First(xTasksWaitingToSend, n, W)
    /\ xTasksWaitingToSend' = xTasksWaitingToSend \ W
    /\ MakeReady(W)
    /\ UNCHANGED xTasksWaitingToReceive

(***************************************************************************)
(* Calls of a task.                                                        *)
(***************************************************************************)
Start(t) ==
  /\ CanRun(t)
  /\ pc[t] \in {"idle", "failed"}
  /\ \E c \in Calls[t] :
       /\ call' = [call EXCEPT ![t] = c]
       /\ Goto(t, IF c.op = "abort" THEN "suspend" ELSE "enter")
  /\ aborted' = [aborted EXCEPT ![t] = FALSE]
  /\ expired' = [expired EXCEPT ![t] = FALSE]
  /\ UNCHANGED <<ring, locks, events, sched, timedOut, buffer, ucDelayAborted>>

(* The critical section at the head of the loop of each blocking function. *)
AtHead(t, op) == /\ CanRun(t)
                 /\ pc[t] \in {"enter", "retry"}
                 /\ call[t].op = op

(* Nothing to do yet: fail, or note the time and prepare to block.         *)
GiveUpOrBlock(t) ==
  /\ IF call[t].ticks = "zero" THEN Return(t, "failed")
                               ELSE Goto(t, "suspend") /\ UNCHANGED call
  /\ UNCHANGED <<ring, locks, events, sched, timedOut, buffer, time>>

HasRoomFor(pos) == uxMessagesWaiting < uxLength \/ pos = "overwrite"

TrySend(t) ==
  /\ AtHead(t, "send")
  /\ \/ /\ HasRoomFor(call[t].pos)
        /\ CopyDataToQueue(call[t].item, call[t].pos)
        /\ WakeReceivers(1)
        /\ Return(t, "idle")
        /\ UNCHANGED <<locks, sched, timedOut, buffer, time>>
     \/ /\ ~HasRoomFor(call[t].pos)
        /\ GiveUpOrBlock(t)

TryReceive(t) ==
  /\ AtHead(t, "receive")
  /\ \/ /\ uxMessagesWaiting > 0
        /\ buffer' = [buffer EXCEPT ![t] = NextItem]
        /\ RemoveItem
        /\ WakeSenders(1)
        /\ Return(t, "idle")
        /\ UNCHANGED <<locks, sched, timedOut, time>>
     \/ /\ uxMessagesWaiting = 0
        /\ GiveUpOrBlock(t)

(* A peek leaves the item, so it passes the wake-up on.                    *)
TryPeek(t) ==
  /\ AtHead(t, "peek")
  /\ \/ /\ uxMessagesWaiting > 0
        /\ buffer' = [buffer EXCEPT ![t] = NextItem]
        /\ WakeReceivers(1)
        /\ Return(t, "idle")
        /\ UNCHANGED <<ring, locks, sched, timedOut, time>>
     \/ /\ uxMessagesWaiting = 0
        /\ GiveUpOrBlock(t)

(* xQueueGenericReset of a queue in use.                                   *)
Reset(t) ==
  /\ AtHead(t, "reset")
  /\ uxMessagesWaiting' = 0
  /\ pcWriteTo' = 0
  /\ pcReadFrom' = uxLength - 1
  /\ cRxLock' = Unlocked
  /\ cTxLock' = Unlocked
  /\ WakeSenders(1)
  /\ Return(t, "idle")
  /\ UNCHANGED <<storage, sched, timedOut, buffer, time>>

(***************************************************************************)
(* The way to block: suspend the scheduler, lock the queue, look at the    *)
(* time and at the queue again, join the event list, unlock, resume.       *)
(***************************************************************************)
SuspendAll(t) ==
  /\ CanRun(t)
  /\ pc[t] = "suspend"
  /\ suspender' = t
  /\ Goto(t, IF call[t].op = "abort" THEN "remove" ELSE "lock")
  /\ UNCHANGED <<ring, locks, events, xPendedTicks, call, timedOut, buffer, time>>

(* A wrong variant, for contrast.                                          *)
LockRxOnly(t) ==
  /\ pc[t] = "lock"
  /\ cRxLock' = IF cRxLock = Unlocked THEN LockedUnmodified ELSE cRxLock
  /\ Goto(t, "check")
  /\ UNCHANGED <<ring, cTxLock, events, sched, call, timedOut, buffer, time>>

(* A wrong variant, for contrast.                                          *)
LockTxOnly(t) ==
  /\ pc[t] = "lock"
  /\ cTxLock' = IF cTxLock = Unlocked THEN LockedUnmodified ELSE cTxLock
  /\ Goto(t, "check")
  /\ UNCHANGED <<ring, cRxLock, events, sched, call, timedOut, buffer, time>>

LockQueue(t) ==
  /\ pc[t] = "lock"
  /\ cRxLock' = IF cRxLock = Unlocked THEN LockedUnmodified ELSE cRxLock
  /\ cTxLock' = IF cTxLock = Unlocked THEN LockedUnmodified ELSE cTxLock
  /\ Goto(t, "check")
  /\ UNCHANGED <<ring, events, sched, call, timedOut, buffer, time>>

(* A wrong variant, for contrast.                                          *)
CheckKeepsTicks(t) ==
  /\ pc[t] = "check"
  /\ LET out == ucDelayAborted[t] \/ (call[t].ticks # "max" /\ expired[t])
     IN  /\ timedOut' = [timedOut EXCEPT ![t] = out]
         /\ Goto(t, IF out THEN "unlockTx" ELSE "test")
  /\ ucDelayAborted' = [ucDelayAborted EXCEPT ![t] = FALSE]
  /\ UNCHANGED <<ring, locks, events, sched, call, buffer, expired, aborted>>

(* xTaskCheckForTimeOut: an abort counts as a timeout but leaves the ticks *)
(* to wait alone; a genuine timeout sets them to 0.                        *)
CheckForTimeOut(t) ==
  /\ pc[t] = "check"
  /\ \/ /\ ucDelayAborted[t]
        /\ ucDelayAborted' = [ucDelayAborted EXCEPT ![t] = FALSE]
        /\ timedOut' = [timedOut EXCEPT ![t] = TRUE]
        /\ Goto(t, "unlockTx")
        /\ UNCHANGED call
     \/ /\ ~ucDelayAborted[t]
        /\ call[t].ticks # "max" /\ expired[t]
        /\ call' = [call EXCEPT ![t].ticks = "zero"]
        /\ timedOut' = [timedOut EXCEPT ![t] = TRUE]
        /\ Goto(t, "unlockTx")
        /\ UNCHANGED ucDelayAborted
     \/ /\ ~ucDelayAborted[t]
        /\ call[t].ticks = "max" \/ ~expired[t]
        /\ timedOut' = [timedOut EXCEPT ![t] = FALSE]
        /\ Goto(t, "test")
        /\ UNCHANGED <<call, ucDelayAborted>>
  /\ UNCHANGED <<ring, locks, events, sched, buffer, expired, aborted>>

(* prvIsQueueFull, prvIsQueueEmpty.                                        *)
MustWait(t) == IF call[t].op = "send" THEN uxMessagesWaiting = uxLength
                                      ELSE uxMessagesWaiting = 0

TestQueue(t) ==
  /\ pc[t] = "test"
  /\ Goto(t, IF MustWait(t) THEN "place" ELSE "unlockTx")
  /\ UNCHANGED <<ring, locks, events, sched, call, timedOut, buffer, time>>

PlaceOnEventList(t) ==
  /\ pc[t] = "place"
  /\ IF call[t].op = "send"
     THEN /\ xTasksWaitingToSend' = xTasksWaitingToSend \cup {t}
          /\ UNCHANGED xTasksWaitingToReceive
     ELSE /\ xTasksWaitingToReceive' = xTasksWaitingToReceive \cup {t}
          /\ UNCHANGED xTasksWaitingToSend
  /\ ucDelayAborted' = [ucDelayAborted EXCEPT ![t] = FALSE]
  /\ Goto(t, "unlockTx")
  /\ UNCHANGED <<ring, locks, xPendingReadyList, sched, call, timedOut, buffer,
                 expired, aborted>>

(* The two critical sections of prvUnlockQueue: one waiter per counted     *)
(* send, then one per counted receive.                                     *)
Counted(lock) == IF lock > LockedUnmodified THEN lock ELSE 0

UnlockTx(t) ==
  /\ pc[t] = "unlockTx"
  /\ WakeReceivers(Counted(cTxLock))
  /\ cTxLock' = Unlocked
  /\ Goto(t, "unlockRx")
  /\ UNCHANGED <<ring, cRxLock, sched, call, timedOut, buffer, time>>

UnlockRx(t) ==
  /\ pc[t] = "unlockRx"
  /\ WakeSenders(Counted(cRxLock))
  /\ cRxLock' = Unlocked
  /\ Goto(t, "resume")
  /\ UNCHANGED <<ring, cTxLock, sched, call, timedOut, buffer, time>>

(***************************************************************************)
(* The tick.  The block time of a task runs from the first time its call   *)
(* finds it has to wait.  When it is over the tick handler puts the task   *)
(* back on the ready list and takes it off the event list.  E is the set   *)
(* of tasks the ticks handled in this step are the last ones for.          *)
(***************************************************************************)
Timed(t) == /\ call[t].ticks = "finite"
            /\ pc[t] \notin {"idle", "failed", "enter"}
            /\ ~expired[t]

TickReaches(E) ==
  /\ expired' = [t \in Tasks |-> expired[t] \/ t \in E]
  /\ xTasksWaitingToSend' = xTasksWaitingToSend \ E
  /\ xTasksWaitingToReceive' = xTasksWaitingToReceive \ E

IncrementTick ==
  /\ IF suspender = NoTask
     THEN /\ \E E \in SUBSET {t \in Tasks : Timed(t)} : E # {} /\ TickReaches(E)
          /\ UNCHANGED xPendedTicks
     ELSE /\ \E t \in Tasks : Timed(t)
          /\ xPendedTicks' = TRUE
          /\ UNCHANGED <<expired, xTasksWaitingToSend, xTasksWaitingToReceive>>
  /\ UNCHANGED <<ring, locks, xPendingReadyList, suspender, local,
                 ucDelayAborted, aborted>>

(* xTaskResumeAll empties the pending ready list, then catches up with the *)
(* ticks; after it the call loops, fails or is done.                       *)
AfterResume(t) ==
  CASE call[t].op = "abort" -> Return(t, "idle")
    [] call[t].op = "send" /\ timedOut[t] -> Return(t, "failed")
    [] call[t].op \in {"receive", "peek"} /\ timedOut[t] ->
         Goto(t, "recheck") /\ UNCHANGED call
    [] OTHER -> Goto(t, "retry") /\ UNCHANGED call

ResumeAll(t) ==
  /\ pc[t] = "resume"
  /\ suspender' = NoTask
  /\ xPendingReadyList' = {}
  /\ xPendedTicks' = FALSE
  /\ \E E \in SUBSET {u \in Tasks : Timed(u)} :
       /\ ~xPendedTicks => E = {}
       /\ TickReaches(E)
  /\ AfterResume(t)
  /\ timedOut' = [timedOut EXCEPT ![t] = FALSE]
  /\ UNCHANGED <<ring, locks, buffer, ucDelayAborted, aborted>>

(* After a timeout a receiver, unlike a sender, looks at the queue again.  *)
Recheck(t) ==
  /\ CanRun(t)
  /\ pc[t] = "recheck"
  /\ IF uxMessagesWaiting = 0 THEN Return(t, "failed")
                              ELSE Goto(t, "retry") /\ UNCHANGED call
  /\ UNCHANGED <<ring, locks, events, sched, timedOut, buffer, time>>

(* xTaskAbortDelay of another task, with the scheduler suspended.  A task  *)
(* that waits in the pending ready list still counts as blocked.           *)
AbortDelay(t) ==
  /\ pc[t] = "remove"
  /\ \E u \in Tasks \ {t} :
       IF u \in OffReadyList
       THEN /\ xTasksWaitingToSend' = xTasksWaitingToSend \ {u}
            /\ xTasksWaitingToReceive' = xTasksWaitingToReceive \ {u}
            /\ xPendingReadyList' = xPendingReadyList \ {u}
            /\ ucDelayAborted' = [ucDelayAborted EXCEPT ![u] = TRUE]
            /\ aborted' = [aborted EXCEPT ![u] = TRUE]
       ELSE UNCHANGED <<events, ucDelayAborted, aborted>>
  /\ Goto(t, "resume")
  /\ UNCHANGED <<ring, locks, sched, call, timedOut, buffer, expired>>

(***************************************************************************)
(* Interrupt handlers.  They never block, and they leave the event lists   *)
(* of a locked queue alone: they count instead.                            *)
(***************************************************************************)
SendFromISR ==
  /\ "send" \in IsrOps
  /\ cTxLock < MaxLock
  /\ \E x \in Items, pos \in IsrSend :
       /\ HasRoomFor(pos)
       /\ CopyDataToQueue(x, pos)
  /\ IF cTxLock = Unlocked
     THEN WakeReceivers(1) /\ UNCHANGED cTxLock
     ELSE cTxLock' = Int8(cTxLock + 1) /\ UNCHANGED events
  /\ UNCHANGED <<cRxLock, sched, local, time>>

ReceiveFromISR ==
  /\ "receive" \in IsrOps
  /\ cRxLock < MaxLock
  /\ uxMessagesWaiting > 0
  /\ RemoveItem
  /\ IF cRxLock = Unlocked
     THEN WakeSenders(1) /\ UNCHANGED cRxLock
     ELSE cRxLock' = Int8(cRxLock + 1) /\ UNCHANGED events
  /\ UNCHANGED <<cTxLock, sched, local, time>>

(***************************************************************************)
(* The specification.                                                      *)
(***************************************************************************)
Proceed(t) ==
  \/ TrySend(t) \/ TryReceive(t) \/ TryPeek(t) \/ Reset(t)
  \/ SuspendAll(t) \/ LockQueue(t) \/ CheckForTimeOut(t) \/ TestQueue(t)
  \/ PlaceOnEventList(t) \/ UnlockTx(t) \/ UnlockRx(t) \/ ResumeAll(t)
  \/ Recheck(t) \/ AbortDelay(t)

Next == \/ \E t \in Tasks : Start(t) \/ Proceed(t)
        \/ IncrementTick
        \/ SendFromISR
        \/ ReceiveFromISR

Spec == Init /\ [][Next]_vars

(* Every ready task gets the processor again and again, and time passes.   *)
(* Calls and interrupts come when they come.                               *)
Fairness == /\ \A t \in Tasks : SF_vars(Proceed(t))
            /\ \A t \in Tasks : SF_vars(IncrementTick /\ ~expired[t] /\ expired'[t])

FairSpec == Spec /\ Fairness

(***************************************************************************)
(* Properties.                                                             *)
(***************************************************************************)

Labels == {"idle", "failed", "enter", "retry", "suspend", "lock", "check",
           "test", "place", "unlockTx", "unlockRx", "resume", "recheck", "remove"}

(* Types of the variables; the lock counts are int8_t.                     *)
TypeOK ==
  /\ storage \in [0 .. uxLength - 1 -> Items \cup {NoItem}]
  /\ pcWriteTo \in 0 .. uxLength - 1
  /\ pcReadFrom \in 0 .. uxLength - 1
  /\ uxMessagesWaiting \in 0 .. uxLength
  /\ cRxLock \in -128 .. 127
  /\ cTxLock \in -128 .. 127
  /\ xTasksWaitingToSend \in SUBSET Tasks
  /\ xTasksWaitingToReceive \in SUBSET Tasks
  /\ xPendingReadyList \in SUBSET Tasks
  /\ suspender \in Tasks \cup {NoTask}
  /\ xPendedTicks \in BOOLEAN
  /\ pc \in [Tasks -> Labels]
  /\ call \in [Tasks -> Call]
  /\ expired \in [Tasks -> BOOLEAN]
  /\ timedOut \in [Tasks -> BOOLEAN]
  /\ ucDelayAborted \in [Tasks -> BOOLEAN]
  /\ aborted \in [Tasks -> BOOLEAN]
  /\ buffer \in [Tasks -> Items \cup {NoItem}]

(* The queue is locked exactly while the task that suspended the scheduler *)
(* is between prvLockQueue and the matching half of prvUnlockQueue: no     *)
(* path through a blocking call leaves the queue locked behind it.         *)
LockedBySuspender ==
  /\ cTxLock # Unlocked <=>
       \E t \in Tasks : /\ suspender = t
                        /\ pc[t] \in {"check", "test", "place", "unlockTx"}
  /\ cRxLock # Unlocked <=>
       \E t \in Tasks : /\ suspender = t
                        /\ pc[t] \in {"check", "test", "place", "unlockTx", "unlockRx"}

(* The scheduler is suspended exactly while its suspender is on the way    *)
(* from vTaskSuspendAll to xTaskResumeAll, one task at a time.             *)
Suspended == {"lock", "check", "test", "place", "unlockTx", "unlockRx",
              "resume", "remove"}

OneSuspender ==
  \A t \in Tasks : pc[t] \in Suspended <=> suspender = t

(* A task sits in at most one list, the one of the call it is in, and only *)
(* between joining it and looking at the queue again; tasks are pending    *)
(* only while the scheduler is suspended.                                  *)
ListsConsistent ==
  /\ \A t \in xTasksWaitingToSend : call[t].op = "send"
  /\ \A t \in xTasksWaitingToReceive : call[t].op \in {"receive", "peek"}
  /\ \A t \in OffReadyList : /\ pc[t] \in {"unlockTx", "unlockRx", "resume", "retry"}
                             /\ ~timedOut[t]
  /\ xPendingReadyList \cap
       (xTasksWaitingToSend \cup xTasksWaitingToReceive) = {}
  /\ suspender = NoTask => xPendingReadyList = {}

(* Each label is reached by the calls that go through it, and a task that  *)
(* is about to test the queue or to join an event list has not timed out.  *)
CallsInOrder ==
  \A t \in Tasks :
    /\ pc[t] \in {"idle", "failed"} => call[t].op = "none"
    /\ pc[t] = "enter" => call[t].op \in {"send", "receive", "peek", "reset"}
    /\ pc[t] \in {"suspend", "resume"} =>
         call[t].op \in {"send", "receive", "peek", "abort"}
    /\ pc[t] \in {"retry", "lock", "check", "test", "place", "unlockTx", "unlockRx"} =>
         call[t].op \in {"send", "receive", "peek"}
    /\ pc[t] = "recheck" => call[t].op \in {"receive", "peek"}
    /\ pc[t] = "remove" => call[t].op = "abort"
    /\ pc[t] \in {"test", "place"} => ~timedOut[t]

(* Who may touch what: the part of the state the wake-up properties rest   *)
(* on, inductive while the lock counts do not overflow.                    *)
Control == /\ OneSuspender
           /\ LockedBySuspender
           /\ ListsConsistent
           /\ CallsInOrder
           /\ cTxLock >= Unlocked
           /\ cRxLock >= Unlocked

(* A receiver that saw the queue empty under the lock knows of every item  *)
(* that arrived since.                                                     *)
PlacedInTime ==
  \A t \in Tasks :
    pc[t] = "place" /\ call[t].op # "send" => uxMessagesWaiting <= Counted(cTxLock)

(* Tasks that joined an event list, have left it, and will look at the     *)
(* queue before they do anything else.                                     *)
LookingAgain(ops) ==
  {t \in Tasks \ (xTasksWaitingToSend \cup xTasksWaitingToReceive) :
     /\ call[t].op \in ops
     /\ pc[t] \in {"unlockTx", "unlockRx", "resume", "recheck", "retry"}}

(* No lost wake-up, receiving side: while a receiver sleeps on the event   *)
(* list, every item in the queue is matched by a receiver that is about to *)
(* look at the queue or by a send counted in cTxLock, whatever tasks and   *)
(* interrupts did between a receiver's test of the queue and its joining   *)
(* the list.                                                               *)
ReceiverNotForgotten ==
  xTasksWaitingToReceive # {} =>
    uxMessagesWaiting <= Cardinality(LookingAgain({"receive", "peek"}))
                         + Counted(cTxLock)

(* No lost wake-up, sending side.  A sender that timed out does not look   *)
(* at the queue again, so it does not count.                               *)
SenderNotForgotten ==
  xTasksWaitingToSend # {} =>
    uxLength - uxMessagesWaiting
      <= Cardinality({t \in LookingAgain({"send"}) : ~timedOut[t]})
         + Counted(cRxLock)

(* The queue seen through its positions, oldest item first.                *)
Contents ==
  [i \in 1 .. uxMessagesWaiting |-> storage[(pcReadFrom + i) % uxLength]]

Abstract == INSTANCE BoundedQueue WITH items <- Contents, Readers <- Tasks

(* The ring of slots, written and read under interrupts, locks and         *)
(* suspensions, is a bounded first-in first-out queue: what a receive or a *)
(* peek delivers is the head of the abstract queue.                        *)
IsBoundedQueue == Abstract!Spec

(* A call that waits with portMAX_DELAY fails only if it was aborted while *)
(* it waited (xTaskCheckForTimeOut: block indefinitely).                   *)
MaxDelayNeverFails ==
  [][\A t \in Tasks : pc[t] # "failed" /\ pc'[t] = "failed" /\ call[t].ticks = "max"
                        => aborted[t]]_vars

(* A task whose wait was aborted leaves the call: it does not block in it  *)
(* again (task.h on xTaskAbortDelay).                                      *)
AbortEndsTheWait ==
  [][\A t \in Tasks : /\ t \notin xTasksWaitingToSend \cup xTasksWaitingToReceive
                      /\ t \in (xTasksWaitingToSend \cup xTasksWaitingToReceive)'
                        => ~aborted[t]]_vars

(* Receivers do not sleep forever beside a queue that stays non-empty, nor *)
(* senders beside one that keeps room.                                     *)
ReceiverServed ==
  (xTasksWaitingToReceive # {} /\ uxMessagesWaiting > 0)
    ~> (xTasksWaitingToReceive = {} \/ uxMessagesWaiting = 0)

SenderServed ==
  (xTasksWaitingToSend # {} /\ uxMessagesWaiting < uxLength)
    ~> (xTasksWaitingToSend = {} \/ uxMessagesWaiting = uxLength)

(* A call with a finite block time returns, with an item or without.       *)
FiniteWaitReturns ==
  \A t \in Tasks : (call[t].ticks = "finite") ~> (pc[t] \in {"idle", "failed"})
=============================================================================
