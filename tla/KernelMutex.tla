---------------------------- MODULE KernelMutex ----------------------------
(***************************************************************************)
(* Mutexes and priority inheritance: xQueueSemaphoreTake, the give of a    *)
(* mutex and their recursive forms (freeRTOS/FreeRTOS_Source/queue.c),     *)
(* xTaskPriorityInherit, xTaskPriorityDisinherit and                       *)
(* vTaskPriorityDisinheritAfterTimeout (tasks.c), on one core with the     *)
(* ready lists, the bit map of their priorities and the switch to the      *)
(* highest of them.  Interrupts do not use mutexes; the tick is the only   *)
(* one here.                                                               *)
(*                                                                         *)
(* A step is a critical section, or what runs with the scheduler           *)
(* suspended.  Another task runs only when a step asks for a switch, as in *)
(* the code, so a switch that is not asked for does not happen.            *)
(***************************************************************************)
EXTENDS Naturals, Sequences, FiniteSets

CONSTANTS
  Tasks,            \* the tasks, the idle task included
  Idle,             \* the idle task: it uses no mutex and never blocks
  Mutexes,
  Recursive,        \* those taken and given with the recursive functions
  NoTask,           \* no holder; no task runs: an assertion has failed
  uxBasePriority,   \* the priority each task was given
  MutexRequests,    \* the mutexes and block times each task asks for
  MaxDepth          \* bound: how often a recursive mutex is taken

ASSUME TasksAssumption == /\ Idle \in Tasks
                          /\ NoTask \notin Tasks
                          /\ IsFiniteSet(Mutexes)
                          /\ Recursive \subseteq Mutexes
ASSUME PriorityAssumption == /\ uxBasePriority \in [Tasks -> Nat]
                             /\ uxBasePriority[Idle] = 0

Call == [mutex : Mutexes, ticks : {"zero", "finite", "max"}]

ASSUME RequestsAssumption == MutexRequests \in [Tasks -> SUBSET Call] /\ MaxDepth \in Nat

VARIABLES
  xMutexHolder,          \* of each mutex
  uxMessagesWaiting,     \* 1 when the mutex is free
  uxRecursiveCallCount,
  xTasksWaitingToReceive,\* the waiting tasks, in list order
  uxPriority,            \* of each task, with what it inherited; its
                         \* xEventListItem is set along with it
  uxMutexesHeld,
  ready,                 \* lists: pxReadyTasksLists, top: uxTopReadyPriority
  pxCurrentTCB,
  pc,                    \* where each task is
  call,                  \* the mutex and the ticks to wait of its call
  expired,               \* its block time has passed
  xInheritanceOccurred

mutex  == <<xMutexHolder, uxMessagesWaiting, uxRecursiveCallCount>>
tcb    == <<uxPriority, uxMutexesHeld>>
local  == <<pc, call, expired, xInheritanceOccurred>>
mutexVars == <<mutex, xTasksWaitingToReceive, tcb, ready, pxCurrentTCB, local>>

Priorities == {uxBasePriority[t] : t \in Tasks}

MutexInit ==
  /\ xMutexHolder = [m \in Mutexes |-> NoTask]
  /\ uxMessagesWaiting = [m \in Mutexes |-> 1]
  /\ uxRecursiveCallCount = [m \in Mutexes |-> 0]
  /\ xTasksWaitingToReceive = [m \in Mutexes |-> <<>>]
  /\ uxPriority = uxBasePriority
  /\ uxMutexesHeld = [t \in Tasks |-> 0]
  /\ ready = [lists |-> [p \in Priorities |-> {t \in Tasks : uxBasePriority[t] = p}],
              top |-> Priorities]
  /\ pxCurrentTCB \in {t \in Tasks : \A u \in Tasks : uxBasePriority[u] <= uxBasePriority[t]}
  /\ pc = [t \in Tasks |-> "run"]
  /\ \E m \in Mutexes : call = [t \in Tasks |-> [mutex |-> m, ticks |-> "zero"]]
  /\ expired = [t \in Tasks |-> FALSE]
  /\ xInheritanceOccurred = [t \in Tasks |-> FALSE]

(***************************************************************************)
(* The ready lists r, without task t and with it.                          *)
(***************************************************************************)
Removed(r, t, p) ==
  [lists |-> [r.lists EXCEPT ![p] = @ \ {t}],
   top   |-> IF r.lists[p] \subseteq {t} THEN r.top \ {p} ELSE r.top]

Added(r, t, p) ==
  [lists |-> [r.lists EXCEPT ![p] = @ \cup {t}], top |-> r.top \cup {p}]

(* A wrong variant, for contrast. *)
MovedNot(r, t, from, to) == r

Moved(r, t, from, to) == IF t \in r.lists[from]
                         THEN Added(Removed(r, t, from), t, to) ELSE r

Highest(p, r) == p \in r.top /\ \A q \in r.top : q <= p

(* taskSELECT_HIGHEST_PRIORITY_TASK asserts that the list is not empty.    *)
(* Which task of the list is next is left open.                            *)
Select(r) == \E p \in Priorities :
               /\ Highest(p, r)
               /\ pxCurrentTCB' \in IF r.lists[p] = {} THEN {NoTask} ELSE r.lists[p]

SwitchIf(yield, r) == IF yield THEN Select(r) ELSE UNCHANGED pxCurrentTCB

At(t, label) == pxCurrentTCB = t /\ t # Idle /\ pc[t] = label

Goto(t, label) == pc' = [pc EXCEPT ![t] = label]

(***************************************************************************)
(* A task begins a call, or delays itself.                                 *)
(***************************************************************************)
Holds(t, m) == xMutexHolder[m] = t

BeginTake(t) ==
  /\ At(t, "run")
  /\ \E c \in MutexRequests[t] : /\ ~Holds(t, c.mutex)
                           /\ call' = [call EXCEPT ![t] = c]
  /\ xInheritanceOccurred' = [xInheritanceOccurred EXCEPT ![t] = FALSE]
  /\ expired' = [expired EXCEPT ![t] = FALSE]
  /\ Goto(t, "head")
  /\ UNCHANGED <<mutex, xTasksWaitingToReceive, tcb, ready, pxCurrentTCB>>

(* xQueueTakeMutexRecursive by the holder.                                 *)
TakeAgain(t) ==
  /\ At(t, "run")
  /\ \E m \in Recursive :
       /\ Holds(t, m)
       /\ uxRecursiveCallCount[m] < MaxDepth
       /\ uxRecursiveCallCount' = [uxRecursiveCallCount EXCEPT ![m] = @ + 1]
  /\ UNCHANGED <<xMutexHolder, uxMessagesWaiting, xTasksWaitingToReceive, tcb,
                 ready, pxCurrentTCB, local>>

(* vTaskDelay, for what a task does between its calls.                     *)
Delay(t) ==
  /\ At(t, "run")
  /\ Goto(t, "delayed")
  /\ ready' = Removed(ready, t, uxPriority[t])
  /\ Select(ready')
  /\ UNCHANGED <<mutex, xTasksWaitingToReceive, tcb, call, expired,
                 xInheritanceOccurred>>

(***************************************************************************)
(* xQueueSemaphoreTake.                                                    *)
(***************************************************************************)
Wanted(t) == call[t].mutex

Free(m) == uxMessagesWaiting[m] > 0

Obtain(t) ==
  /\ At(t, "head")
  /\ LET m == Wanted(t) IN
       /\ Free(m)
       /\ uxMessagesWaiting' = [uxMessagesWaiting EXCEPT ![m] = @ - 1]
       /\ xMutexHolder' = [xMutexHolder EXCEPT ![m] = t]
       /\ uxRecursiveCallCount' = [uxRecursiveCallCount EXCEPT
                                     ![m] = IF m \in Recursive THEN @ + 1 ELSE @]
  /\ uxMutexesHeld' = [uxMutexesHeld EXCEPT ![t] = @ + 1]
  /\ Goto(t, "run")
  /\ UNCHANGED <<xTasksWaitingToReceive, uxPriority, ready,
                 pxCurrentTCB, call, expired, xInheritanceOccurred>>

(* With no time left the call fails and asserts that nothing was inherited. *)
NotFree(t) ==
  /\ At(t, "head")
  /\ ~Free(Wanted(t))
  /\ Goto(t, IF call[t].ticks = "zero" THEN "run" ELSE "suspend")
  /\ pxCurrentTCB' = IF call[t].ticks = "zero" /\ xInheritanceOccurred[t]
                     THEN NoTask ELSE t
  /\ UNCHANGED <<mutex, xTasksWaitingToReceive, tcb, ready, call, expired,
                 xInheritanceOccurred>>

(* vListInsert: behind the tasks of the same priority.  The list is not     *)
(* sorted again when the priority of a task in it changes.                 *)
Inserted(s, t) ==
  LET ahead == {i \in 1 .. Len(s) :
                  \A j \in 1 .. i : uxPriority[s[j]] >= uxPriority[t]}
      n == Cardinality(ahead)
  IN  SubSeq(s, 1, n) \o <<t>> \o SubSeq(s, n + 1, Len(s))

Lends(t, h) == uxPriority[h] < uxPriority[t]

(* With the scheduler suspended: xTaskPriorityInherit, join the event      *)
(* list, leave the ready list.                                             *)
BlockOnMutex(t) ==
  /\ At(t, "suspend")
  /\ ~expired[t]
  /\ ~Free(Wanted(t))
  /\ LET m == Wanted(t)
         h == xMutexHolder[m]
         raised == IF Lends(t, h) THEN uxPriority[t] ELSE uxPriority[h]
     IN  /\ uxPriority' = [uxPriority EXCEPT ![h] = raised]
         /\ xInheritanceOccurred' = [xInheritanceOccurred EXCEPT
                                       ![t] = uxBasePriority[h] < uxPriority[t]]
         /\ xTasksWaitingToReceive' = [xTasksWaitingToReceive EXCEPT ![m] = Inserted(@, t)]
         /\ ready' = Removed(Moved(ready, h, uxPriority[h], raised), t, uxPriority[t])
  /\ Select(ready')
  /\ Goto(t, "head")
  /\ UNCHANGED <<mutex, uxMutexesHeld, call, expired>>

(* It became free meanwhile, or the time is over.                          *)
LookAgain(t) ==
  /\ At(t, "suspend")
  /\ expired[t] \/ Free(Wanted(t))
  /\ call' = [call EXCEPT ![t].ticks = IF expired[t] THEN "zero" ELSE @]
  /\ Goto(t, IF expired[t] THEN "late" ELSE "head")
  /\ UNCHANGED <<mutex, xTasksWaitingToReceive, tcb, ready, pxCurrentTCB,
                 expired, xInheritanceOccurred>>

(* Timed out: try once more if the mutex is free, otherwise fail.          *)
TimedOut(t) ==
  /\ At(t, "late")
  /\ Goto(t, IF Free(Wanted(t)) THEN "head"
             ELSE IF xInheritanceOccurred[t] THEN "disinherit" ELSE "run")
  /\ UNCHANGED <<mutex, xTasksWaitingToReceive, tcb, ready, pxCurrentTCB, call,
                 expired, xInheritanceOccurred>>

(* prvGetDisinheritPriorityAfterTimeout.                                   *)
HighestWaiting(m) == IF xTasksWaitingToReceive[m] = <<>> THEN 0
                     ELSE uxPriority[Head(xTasksWaitingToReceive[m])]

(* A wrong variant, for contrast. *)
PriorityToUseIsBase(m, h) == uxBasePriority[h]

PriorityToUse(m, h) == IF uxBasePriority[h] < HighestWaiting(m)
                       THEN HighestWaiting(m) ELSE uxBasePriority[h]

(* The list of the old priority loses the holder; the bit that is reset is *)
(* the one of the new priority.                                            *)
MovedDown(r, h, from, to) ==
  IF h \in r.lists[from]
  THEN Added([lists |-> [r.lists EXCEPT ![from] = @ \ {h}],
              top   |-> IF r.lists[from] = {h} THEN r.top \ {to} ELSE r.top], h, to)
  ELSE r

(* vTaskPriorityDisinheritAfterTimeout; the call fails.                    *)
DisinheritAfterTimeout(t) ==
  /\ At(t, "disinherit")
  /\ LET m == Wanted(t)
         h == xMutexHolder[m]
     IN  IF /\ h # NoTask
            /\ uxPriority[h] # PriorityToUse(m, h)
            /\ uxMutexesHeld[h] = 1
         THEN /\ uxPriority' = [uxPriority EXCEPT ![h] = PriorityToUse(m, h)]
              /\ ready' = MovedDown(ready, h, uxPriority[h], PriorityToUse(m, h))
         ELSE UNCHANGED <<uxPriority, ready>>
  /\ Goto(t, "run")
  /\ UNCHANGED <<mutex, xTasksWaitingToReceive, uxMutexesHeld, pxCurrentTCB, call,
                 expired, xInheritanceOccurred>>

(***************************************************************************)
(* Giving a mutex.                                                         *)
(***************************************************************************)
(* xQueueGiveMutexRecursive, not the last time.                            *)
GiveInner(t) ==
  /\ At(t, "run")
  /\ \E m \in Recursive :
       /\ Holds(t, m)
       /\ uxRecursiveCallCount[m] > 1
       /\ uxRecursiveCallCount' = [uxRecursiveCallCount EXCEPT ![m] = @ - 1]
  /\ UNCHANGED <<xMutexHolder, uxMessagesWaiting, xTasksWaitingToReceive, tcb,
                 ready, pxCurrentTCB, local>>

(* A wrong variant, for contrast. *)
DisinheritsAtZero(t) == uxPriority[t] # uxBasePriority[t] /\ uxMutexesHeld[t] = 0

(* xTaskPriorityDisinherit: nothing while other mutexes are held.          *)
Disinherits(t) == uxPriority[t] # uxBasePriority[t] /\ uxMutexesHeld[t] = 1

(* xTaskRemoveFromEventList compares with what the giver is left with.     *)
YieldsTo(w, t, kept) == uxPriority[w] > kept

(* xQueueGenericSend on a mutex.  Whether it yields depends on the waiter  *)
(* it wakes, if there is one, and else on whether a priority was given up. *)
Give(t) ==
  /\ At(t, "run")
  /\ \E m \in Mutexes :
       LET w == xTasksWaitingToReceive[m]
           kept == IF Disinherits(t) THEN uxBasePriority[t] ELSE uxPriority[t]
           down == Moved(ready, t, uxPriority[t], kept)
       IN  /\ Holds(t, m)
           /\ uxRecursiveCallCount[m] <= 1
           /\ uxRecursiveCallCount' = [uxRecursiveCallCount EXCEPT ![m] = 0]
           /\ xMutexHolder' = [xMutexHolder EXCEPT ![m] = NoTask]
           /\ uxMessagesWaiting' = [uxMessagesWaiting EXCEPT ![m] = @ + 1]
           /\ uxMutexesHeld' = [uxMutexesHeld EXCEPT ![t] = @ - 1]
           /\ uxPriority' = [uxPriority EXCEPT ![t] = kept]
           /\ IF w = <<>>
              THEN /\ ready' = down
                   /\ UNCHANGED xTasksWaitingToReceive
                   /\ SwitchIf(Disinherits(t), ready')
              ELSE /\ ready' = Added(down, Head(w), uxPriority[Head(w)])
                   /\ xTasksWaitingToReceive' = [xTasksWaitingToReceive EXCEPT ![m] = Tail(w)]
                   /\ SwitchIf(YieldsTo(Head(w), t, kept), ready')
  /\ UNCHANGED local

(***************************************************************************)
(* The tick.  Delays and limited waits of the tasks of E end with it;      *)
(* tasks of one priority take turns.                                       *)
(***************************************************************************)
OffList(t) == t \notin ready.lists[uxPriority[t]]

(* A block time that ends before the first look is noticed as late as one   *)
(* that ends right after it.                                               *)
Timed(t) == \/ pc[t] = "delayed"
            \/ /\ pc[t] \in {"head", "suspend"}
               /\ call[t].ticks = "finite"
               /\ ~expired[t]

(* uxListRemove: the list s without the tasks of E, as a function that     *)
(* proofs can be about.                                                    *)
WithoutTasks(s, E) ==
  LET kept[i \in 0 .. Len(s)] ==
        IF i = 0 THEN <<>>
        ELSE IF s[i] \in E THEN kept[i - 1] ELSE Append(kept[i - 1], s[i])
  IN  kept[Len(s)]

IncrementTick ==
  /\ pxCurrentTCB # NoTask
  /\ \E E \in SUBSET {t \in Tasks : Timed(t)} :
       LET woken == {t \in E : OffList(t)}
           lists == [p \in Priorities |->
                       ready.lists[p] \cup {t \in woken : uxPriority[t] = p}]
           mine  == uxPriority[pxCurrentTCB]
       IN  /\ ready' = [lists |-> lists,
                        top |-> ready.top \cup {uxPriority[t] : t \in woken}]
           /\ pc' = [t \in Tasks |-> IF t \in E /\ pc[t] = "delayed" THEN "run" ELSE pc[t]]
           /\ expired' = [t \in Tasks |-> expired[t] \/ (t \in E /\ pc[t] # "delayed")]
           /\ xTasksWaitingToReceive' =
                [m \in Mutexes |->
                   WithoutTasks(xTasksWaitingToReceive[m], E)]
           /\ SwitchIf(\/ \E t \in woken : uxPriority[t] >= mine
                       \/ Cardinality(lists[mine]) > 1, ready')
  /\ UNCHANGED <<mutex, tcb, call, xInheritanceOccurred>>

(***************************************************************************)
(* The specification.                                                      *)
(***************************************************************************)
Take(t) == \/ BeginTake(t) \/ TakeAgain(t) \/ Obtain(t) \/ NotFree(t) \/ BlockOnMutex(t)
           \/ LookAgain(t) \/ TimedOut(t) \/ DisinheritAfterTimeout(t)

MutexNext == \/ \E t \in Tasks : Take(t) \/ Give(t) \/ GiveInner(t) \/ Delay(t)
             \/ IncrementTick

MutexSpec == MutexInit /\ [][MutexNext]_mutexVars

(***************************************************************************)
(* Properties.                                                             *)
(***************************************************************************)
Labels == {"run", "head", "suspend", "late", "disinherit", "delayed"}

TypeOK ==
  /\ xMutexHolder \in [Mutexes -> Tasks \cup {NoTask}]
  /\ uxMessagesWaiting \in [Mutexes -> {0, 1}]
  /\ uxRecursiveCallCount \in [Mutexes -> Nat]
  /\ xTasksWaitingToReceive \in [Mutexes -> Seq(Tasks)]
  /\ uxPriority \in [Tasks -> Priorities]
  /\ uxMutexesHeld \in [Tasks -> Nat]
  /\ ready \in [lists : [Priorities -> SUBSET Tasks], top : SUBSET Priorities]
  /\ pxCurrentTCB \in Tasks \cup {NoTask}
  /\ pc \in [Tasks -> Labels]
  /\ call \in [Tasks -> Call]
  /\ expired \in [Tasks -> BOOLEAN]
  /\ xInheritanceOccurred \in [Tasks -> BOOLEAN]

Waiting(m) == {xTasksWaitingToReceive[m][i] : i \in DOMAIN xTasksWaitingToReceive[m]}

Held(t) == {m \in Mutexes : Holds(t, m)}

Withdrawing(m) == {t \in Tasks : /\ Wanted(t) = m
                                 /\ xInheritanceOccurred[t]
                                 /\ pc[t] \in {"head", "suspend", "late", "disinherit"}
                                 /\ expired[t]}

(* A mutex is free exactly when it has no holder and its recursive count   *)
(* is zero, and uxMutexesHeld counts the mutexes a task holds: on it        *)
(* depends when an inherited priority is given back.                       *)
HolderAndCounts ==
  /\ \A m \in Mutexes : Free(m) <=> (xMutexHolder[m] = NoTask)
  /\ \A m \in Recursive : Free(m) <=> (uxRecursiveCallCount[m] = 0)
  /\ \A t \in Tasks : uxMutexesHeld[t] = Cardinality(Held(t))

(* Whatever was inherited, and whoever timed out meanwhile, a task that     *)
(* holds no mutex is back at its own priority.                             *)
InheritanceEnds ==
  \A t \in Tasks : Held(t) = {} => uxPriority[t] = uxBasePriority[t]

(* With one mutex, the holder runs at no less than the priority of any     *)
(* task that waits, also after another waiter has timed out and withdrawn  *)
(* what it lent; and it keeps an inherited priority only as long as a task *)
(* of that priority waits, or has timed out and is yet to withdraw.        *)
InheritsExactly ==
  \A m \in Mutexes : ~Free(m) =>
    /\ \A t \in Waiting(m) : uxPriority[xMutexHolder[m]] >= uxBasePriority[t]
    /\ \E t \in {xMutexHolder[m]} \cup Waiting(m) \cup Withdrawing(m) :
         uxPriority[xMutexHolder[m]] = uxBasePriority[t]

(* With one mutex, through every change of priority, each task that does   *)
(* not wait is in the ready list of its priority and in no other, and the  *)
(* bit of a priority is set exactly when its list is not empty.            *)
ReadyExactly ==
  /\ ready.top = {p \in Priorities : ready.lists[p] # {}}
  /\ \A p \in Priorities :
       ready.lists[p] = {t \in Tasks : /\ uxPriority[t] = p
                                       /\ pc[t] # "delayed"
                                       /\ \A m \in Mutexes : t \notin Waiting(m)}

IsReady(t) == \E p \in Priorities : t \in ready.lists[p]

(* Priority inversion is bounded: while a task waits for a mutex whose     *)
(* holder could run, no task of a priority below its own runs but the      *)
(* holder with what it inherited.                                          *)
NoInversion ==
  \A m \in Mutexes : \A t \in Waiting(m) :
    /\ pxCurrentTCB # NoTask
    /\ ~Free(m)
    /\ IsReady(xMutexHolder[m])
    => uxPriority[pxCurrentTCB] >= uxBasePriority[t]

(* With one mutex, a task is kept from running by one of lower priority     *)
(* only beside a task that has timed out on the mutex (see HighestRuns).   *)
OutrankedAfterTimeoutOnly ==
  \A t \in Tasks : /\ IsReady(t)
                   /\ pxCurrentTCB # NoTask
                   /\ uxPriority[t] > uxPriority[pxCurrentTCB]
    => \E m \in Mutexes : \E u \in Withdrawing(m) :
         IsReady(u) /\ uxPriority[u] >= uxPriority[t]

(* The running task is of the highest priority that is ready (a comment in *)
(* xTaskPriorityDisinherit promises a switch when the last mutex is given, *)
(* whether a task is waiting on it or not).  Violated: when a task waits,  *)
(* the switch depends on the priority of that task alone.                  *)
HighestRuns ==
  \A t \in Tasks : IsReady(t) /\ pxCurrentTCB # NoTask
      => uxPriority[t] <= uxPriority[pxCurrentTCB]

(* The assertion of xQueueSemaphoreTake: a call that fails because no time *)
(* is left has not lent its priority.  Violated by a task that times out,  *)
(* finds the mutex free and has it taken away.                             *)
NoInheritanceAtZero ==
  \A t \in Tasks : At(t, "head") /\ ~Free(Wanted(t)) /\ call[t].ticks = "zero"
                  => ~xInheritanceOccurred[t]

(* The assertion of taskSELECT_HIGHEST_PRIORITY_TASK: the list of the      *)
(* highest priority whose bit is set is not empty.  Violated with two      *)
(* mutexes: a withdrawal resets the wrong bit (see MovedDown).             *)
TopListNotEmpty == \A p \in Priorities : Highest(p, ready) => ready.lists[p] # {}

(* "The event list is sorted in priority order, so the first in the list   *)
(* can be removed as it is known to be the highest priority" (a comment in *)
(* xTaskRemoveFromEventList).  Violated with two mutexes: the priority of  *)
(* a task changes while it waits, and its place does not.                  *)
HeadIsHighest ==
  \A m \in Mutexes : \A t \in Waiting(m) :
    uxPriority[Head(xTasksWaitingToReceive[m])] >= uxPriority[t]
=============================================================================
