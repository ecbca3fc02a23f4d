---------------------------- MODULE TimerService ----------------------------
(***************************************************************************)
(* Software timers, freeRTOS/FreeRTOS_Source/timers.c: the timer service   *)
(* task, its command queue and its two lists of active timers, on a tick   *)
(* counter that wraps.                                                     *)
(*                                                                         *)
(* Commands come from tasks and interrupts between any two steps of the    *)
(* service task, and so do ticks.  A step of the service task is what it   *)
(* does between two moments at which a tick or a command could matter to   *)
(* it: the time it samples, the list operations that follow and the        *)
(* command it may send to itself.                                          *)
(***************************************************************************)
EXTENDS Integers, Sequences, FiniteSets

CONSTANTS
  Timers,
  NoTimer,
  Dynamic,             \* the timers that xTimerCreate allocated
  Reloading,           \* the timers created with uxAutoReload
  FirstPeriod,         \* of each timer, when it is created
  NewPeriods,          \* what xTimerChangePeriod may ask for
  TimerCalls,          \* of each timer, what is called for it once it exists
  TimerTickRange,      \* the tick counter wraps here: 2^32 in the code
  TimerQueueLength,    \* configTIMER_QUEUE_LENGTH
  MaxLate              \* bound: how far the service task falls behind

TimerTicks == 0 .. TimerTickRange - 1

(* A period that comes within MaxLate of the range of the counter is not   *)
(* used: the service task could sleep through a whole turn of it.          *)
PeriodsInUse == 1 .. TimerTickRange - 1 - MaxLate

ASSUME TimersAssumption ==
  /\ NoTimer \notin Timers
  /\ Dynamic \subseteq Timers /\ Reloading \subseteq Timers
  /\ TimerTickRange \in Nat \ {0, 1}
  /\ TimerQueueLength \in Nat \ {0}
  /\ MaxLate \in Nat \ {0}
  /\ MaxLate + 1 < TimerTickRange
  /\ FirstPeriod \in [Timers -> PeriodsInUse]
  /\ NewPeriods \subseteq PeriodsInUse
  /\ TimerCalls \in [Timers -> SUBSET {"start", "stop", "changePeriod", "delete", "reloadMode"}]

VARIABLES
  created,             \* the timers that exist
  activeBit,           \* tmrSTATUS_IS_ACTIVE
  reloadBit,           \* tmrSTATUS_IS_AUTORELOAD
  xTimerPeriodInTicks,
  xTimerListItem,      \* its value, the time at which the timer expires
  pxCurrentTimerList,
  pxOverflowTimerList,
  xTimerQueue,
  timerNow,            \* xTickCount
  xLastTime,
  daemon,              \* where the service task is in its loop
  toWait,              \* the ticks it may stay blocked, -1 for no limit
  pxCommand,           \* the command it has received
  (* History, which no step reads: *)
  armed,               \* the timers that run, by the commands processed
  due,                 \* the ticks until such a timer expires
  behind,              \* the ticks since the service task could have sampled the time
  early                \* a callback has been called before its time

timerBits  == <<created, activeBit, reloadBit, xTimerPeriodInTicks>>
timerLists == <<xTimerListItem, pxCurrentTimerList, pxOverflowTimerList>>
timerTask  == <<xLastTime, daemon, toWait, pxCommand>>
timerGhost == <<armed, due, behind, early>>
timerVars  == <<timerBits, timerLists, xTimerQueue, timerNow, timerTask, timerGhost>>

NoCommand == [id |-> "none", pxTimer |-> NoTimer, value |-> 0, age |-> 0]

(* What is queued; age is history: the ticks since the value was read, or  *)
(* since the time it stands for.                                           *)
Command ==
  [id      : {"start", "stop", "changePeriod", "delete", "pended"},
   pxTimer : Timers \cup {NoTimer},
   value   : TimerTicks,
   age     : 0 .. MaxLate]

TimerInit ==
  /\ created = {} /\ activeBit = {} /\ reloadBit = {}
  /\ xTimerPeriodInTicks = FirstPeriod
  /\ xTimerListItem = [t \in Timers |-> 0]
  /\ pxCurrentTimerList = <<>> /\ pxOverflowTimerList = <<>>
  /\ xTimerQueue = <<>>
  /\ timerNow = 0
  /\ xLastTime = 0
  /\ daemon = "notStarted"
  /\ toWait = 0
  /\ pxCommand = NoCommand
  /\ armed = {}
  /\ due = [t \in Timers |-> 0]
  /\ behind = 0
  /\ early = FALSE

(***************************************************************************)
(* Calls of tasks and interrupts.                                          *)
(***************************************************************************)
(* xTimerCreate and xTimerCreateStatic, prvInitialiseNewTimer.             *)
CreateTimer(t) ==
  /\ t \notin created
  /\ created' = created \cup {t}
  /\ reloadBit' = IF t \in Reloading THEN reloadBit \cup {t} ELSE reloadBit
  /\ xTimerPeriodInTicks' = [xTimerPeriodInTicks EXCEPT ![t] = FirstPeriod[t]]
  /\ UNCHANGED <<activeBit, timerLists, xTimerQueue, timerNow, timerTask, timerGhost>>

QueueHasRoom == Len(xTimerQueue) < TimerQueueLength

(* A caller that deletes a timer does not use it again.                    *)
InUse(t) ==
  /\ t \in created
  /\ \A i \in 1 .. Len(xTimerQueue) : xTimerQueue[i].id = "delete" => xTimerQueue[i].pxTimer # t
  /\ pxCommand.id = "delete" => pxCommand.pxTimer # t

(* xTimerGenericCommand: a full queue refuses the command, and nothing     *)
(* changes.  The start and reset commands carry the tick count.            *)
GenericCommand(c) ==
  /\ QueueHasRoom
  /\ xTimerQueue' = Append(xTimerQueue, c)
  /\ UNCHANGED <<timerBits, timerLists, timerNow, timerTask, timerGhost>>

StartTimer(t) ==
  InUse(t) /\ GenericCommand([id |-> "start", pxTimer |-> t, value |-> timerNow, age |-> 0])

StopTimer(t) ==
  InUse(t) /\ GenericCommand([id |-> "stop", pxTimer |-> t, value |-> 0, age |-> 0])

ChangePeriod(t, n) ==
  InUse(t) /\ GenericCommand([id |-> "changePeriod", pxTimer |-> t, value |-> n, age |-> 0])

DeleteTimer(t) ==
  InUse(t) /\ GenericCommand([id |-> "delete", pxTimer |-> t, value |-> 0, age |-> 0])

(* xTimerPendFunctionCall and xTimerPendFunctionCallFromISR.               *)
PendFunctionCall ==
  GenericCommand([id |-> "pended", pxTimer |-> NoTimer, value |-> 0, age |-> 0])

(* vTimerSetReloadMode.                                                    *)
SetReloadMode(t) ==
  /\ InUse(t)
  /\ reloadBit' \in {reloadBit \cup {t}, reloadBit \ {t}}
  /\ UNCHANGED <<created, activeBit, xTimerPeriodInTicks, timerLists, xTimerQueue, timerNow,
                 timerTask, timerGhost>>

TimerIsActive(t) == t \in activeBit

(***************************************************************************)
(* The lists.                                                              *)
(***************************************************************************)
(* vListInsert: after those that expire at the same time.                  *)
InsertInOrder(list, t, value) ==
  LET before == {i \in 1 .. Len(list) : value[list[i]] <= value[t]}
      n      == IF before = {} THEN 0 ELSE CHOOSE i \in before : \A j \in before : j <= i
  IN  SubSeq(list, 1, n) \o <<t>> \o SubSeq(list, n + 1, Len(list))

(* uxListRemove: an item is in a list once, or not at all.                 *)
Without(list, t) ==
  LET at == {i \in 1 .. Len(list) : list[i] = t} IN
  IF at = {} THEN list
  ELSE LET i == CHOOSE i \in at : TRUE IN SubSeq(list, 1, i - 1) \o SubSeq(list, i + 1, Len(list))

Modulo(n) == n % TimerTickRange

(* A wrong variant, for contrast. *)
ExpiredNoWrap(t, period, value, now, cmd) ==
  value <= now /\ Modulo(now - cmd) >= period

(* prvInsertTimerInActiveList: what it decides, at time now about a        *)
(* command of time cmd.                                                    *)
Expired(t, period, value, now, cmd) ==
  IF value <= now THEN Modulo(now - cmd) >= period ELSE now < cmd /\ value >= cmd

(* A wrong variant, for contrast. *)
InsertInOneList(t, value, now, current, overflow) ==
  LET values == [xTimerListItem EXCEPT ![t] = value] IN
    /\ xTimerListItem' = values
    /\ pxCurrentTimerList' = InsertInOrder(current, t, values)
    /\ pxOverflowTimerList' = overflow

(* ... and does when the timer has not expired yet; current and overflow   *)
(* are the lists without t.                                                *)
InsertInActiveList(t, value, now, current, overflow) ==
  LET values == [xTimerListItem EXCEPT ![t] = value] IN
    /\ xTimerListItem' = values
    /\ IF value <= now
       THEN /\ pxOverflowTimerList' = InsertInOrder(overflow, t, values)
            /\ pxCurrentTimerList' = current
       ELSE /\ pxCurrentTimerList' = InsertInOrder(current, t, values)
            /\ pxOverflowTimerList' = overflow

KeepOut(t, value, current, overflow) ==
  /\ xTimerListItem' = [xTimerListItem EXCEPT ![t] = value]
  /\ pxCurrentTimerList' = current
  /\ pxOverflowTimerList' = overflow

(* The service task sends itself tmrCOMMAND_START_DONT_TRACE, without      *)
(* waiting, and asserts that there was room.  queue is what is queued.     *)
SendsItself(t, value, age, queue, then) ==
  IF Len(queue) < TimerQueueLength
  THEN /\ xTimerQueue' = Append(queue, [id |-> "start", pxTimer |-> t, value |-> value, age |-> age])
       /\ daemon' = then
  ELSE xTimerQueue' = queue /\ daemon' = "assertFailed"

(* The callback is called, and the timer reloads or is done.               *)
CallsBack(t, reloads, period) ==
  /\ early' = (early \/ due[t] > 0)
  /\ due' = [due EXCEPT ![t] = IF reloads THEN @ + period ELSE 0]
  /\ armed' = IF reloads THEN armed ELSE armed \ {t}

(***************************************************************************)
(* The service task.                                                       *)
(***************************************************************************)
(* xTimerCreateTimerTask, when the scheduler starts.                       *)
StartService ==
  /\ daemon = "notStarted"
  /\ daemon' = "look"
  /\ UNCHANGED <<timerBits, timerLists, xTimerQueue, timerNow, xLastTime, toWait, pxCommand,
                 timerGhost>>

(* prvSampleTimeNow.                                                       *)
Wraps == timerNow < xLastTime

Samples == xLastTime' = timerNow /\ behind' = 0

(* prvGetNextExpireTime and prvProcessTimerOrBlockTask.                    *)
HeadExpired ==
  pxCurrentTimerList # <<>> /\ xTimerListItem[Head(pxCurrentTimerList)] <= timerNow

FindsWrap ==
  /\ daemon = "look"
  /\ Wraps
  /\ daemon' = "switch"
  /\ Samples
  /\ UNCHANGED <<timerBits, timerLists, xTimerQueue, timerNow, toWait, pxCommand,
                 armed, due, early>>

(* prvProcessExpiredTimer.                                                 *)
ProcessExpiredTimer ==
  LET t       == Head(pxCurrentTimerList)
      rest    == Tail(pxCurrentTimerList)
      expiry  == xTimerListItem[t]
      period  == xTimerPeriodInTicks[t]
      next    == Modulo(expiry + period)
      reloads == t \in reloadBit
  IN  /\ daemon = "look" /\ ~Wraps /\ HeadExpired
      /\ Samples
      /\ CallsBack(t, reloads, period)
      /\ IF ~reloads
         THEN /\ activeBit' = activeBit \ {t}
              /\ pxCurrentTimerList' = rest
              /\ daemon' = "commands"
              /\ UNCHANGED <<xTimerListItem, pxOverflowTimerList, xTimerQueue>>
         ELSE /\ UNCHANGED activeBit
              /\ IF Expired(t, period, next, timerNow, expiry)
                 THEN /\ KeepOut(t, next, rest, pxOverflowTimerList)
                      /\ SendsItself(t, expiry, -due[t], xTimerQueue, "commands")
                 ELSE /\ InsertInActiveList(t, next, timerNow, rest, pxOverflowTimerList)
                      /\ daemon' = "commands"
                      /\ UNCHANGED xTimerQueue
      /\ UNCHANGED <<created, reloadBit, xTimerPeriodInTicks, timerNow, toWait, pxCommand>>

(* How long the task may block: until the counter wraps when only the      *)
(* overflow list has timers.                                               *)
TicksToWait ==
  IF pxCurrentTimerList # <<>> THEN xTimerListItem[Head(pxCurrentTimerList)] - timerNow
  ELSE IF pxOverflowTimerList # <<>> THEN Modulo(-timerNow)
  ELSE -1

(* vQueueWaitForMessageRestricted.                                         *)
BlockForCommand ==
  /\ daemon = "look" /\ ~Wraps /\ ~HeadExpired
  /\ Samples
  /\ IF xTimerQueue = <<>> THEN daemon' = "blocked" /\ toWait' = TicksToWait
                           ELSE daemon' = "commands" /\ UNCHANGED toWait
  /\ UNCHANGED <<timerBits, timerLists, xTimerQueue, timerNow, pxCommand, armed, due, early>>

Unblock ==
  /\ daemon = "blocked"
  /\ xTimerQueue # <<>> \/ toWait = 0
  /\ daemon' = "commands"
  /\ toWait' = 0
  /\ UNCHANGED <<timerBits, timerLists, xTimerQueue, timerNow, xLastTime, pxCommand, timerGhost>>

(* prvSwitchTimerLists, one timer of the list that is retired.             *)
SwitchOne ==
  LET t       == Head(pxCurrentTimerList)
      rest    == Tail(pxCurrentTimerList)
      expiry  == xTimerListItem[t]
      reload  == Modulo(expiry + xTimerPeriodInTicks[t])
      reloads == t \in reloadBit
  IN  /\ daemon \in {"switch", "switchForCommand"}
      /\ pxCurrentTimerList # <<>>
      /\ CallsBack(t, reloads, xTimerPeriodInTicks[t])
      /\ IF reloads /\ reload > expiry
         THEN /\ xTimerListItem' = [xTimerListItem EXCEPT ![t] = reload]
              /\ pxCurrentTimerList' = InsertInOrder(rest, t, xTimerListItem')
              /\ UNCHANGED <<xTimerQueue, daemon>>
         ELSE /\ pxCurrentTimerList' = rest
              /\ UNCHANGED xTimerListItem
              /\ IF reloads THEN SendsItself(t, expiry, -due[t], xTimerQueue, daemon)
                            ELSE UNCHANGED <<xTimerQueue, daemon>>
      /\ UNCHANGED <<timerBits, pxOverflowTimerList, timerNow, xLastTime, toWait, pxCommand, behind>>

(* ... and the swap; the command that sampled the time comes next.         *)
SwitchLists ==
  /\ daemon \in {"switch", "switchForCommand"}
  /\ pxCurrentTimerList = <<>>
  /\ pxCurrentTimerList' = pxOverflowTimerList
  /\ pxOverflowTimerList' = <<>>
  /\ daemon' = IF daemon = "switch" THEN "commands" ELSE "apply"
  /\ UNCHANGED <<timerBits, xTimerListItem, xTimerQueue, timerNow, xLastTime, toWait, pxCommand,
                 timerGhost>>

(***************************************************************************)
(* prvProcessReceivedCommands.                                             *)
(***************************************************************************)
(* A timer starts at time cmd, lag ticks ago; the lists are without it.    *)
Starts(c, cmd, lag, period, now, current, overflow, queue) ==
  LET t     == c.pxTimer
      value == Modulo(cmd + period)
  IN  IF Expired(t, period, value, now, cmd) /\ c.id = "start"
      THEN /\ KeepOut(t, value, current, overflow)
           /\ early' = (early \/ lag < period)
           /\ IF t \in reloadBit
              THEN /\ SendsItself(t, value, lag - period, queue, "commands")
                   /\ armed' = armed \cup {t}
                   /\ due' = [due EXCEPT ![t] = period + period - lag]
              ELSE /\ xTimerQueue' = queue
                   /\ daemon' = "commands"
                   /\ armed' = armed \ {t}
                   /\ due' = [due EXCEPT ![t] = 0]
      ELSE /\ InsertInActiveList(t, value, now, current, overflow)
           /\ armed' = armed \cup {t}
           /\ due' = [due EXCEPT ![t] = period - lag]
           /\ xTimerQueue' = queue
           /\ daemon' = "commands"
           /\ UNCHANGED early

(* Effect of command c on its timer, with xTimeNow = now, lag ticks old.   *)
Apply(c, now, lag, current, overflow, queue) ==
  LET t == c.pxTimer IN
    \/ /\ c.id = "start"
       /\ activeBit' = activeBit \cup {t}
       /\ Starts(c, c.value, c.age, xTimerPeriodInTicks[t], now, current, overflow, queue)
       /\ UNCHANGED <<created, reloadBit, xTimerPeriodInTicks>>
    \/ /\ c.id = "changePeriod"
       /\ activeBit' = activeBit \cup {t}
       /\ xTimerPeriodInTicks' = [xTimerPeriodInTicks EXCEPT ![t] = c.value]
       /\ Starts(c, now, lag, c.value, now, current, overflow, queue)
       /\ UNCHANGED <<created, reloadBit>>
    \/ /\ c.id \in {"stop", "delete"}
       /\ pxCurrentTimerList' = current
       /\ pxOverflowTimerList' = overflow
       /\ xTimerQueue' = queue
       /\ armed' = armed \ {t}
       /\ due' = [due EXCEPT ![t] = 0]
       /\ daemon' = "commands"
       /\ activeBit' = activeBit \ {t}
       /\ IF c.id = "delete" /\ t \in Dynamic
          THEN created' = created \ {t} /\ reloadBit' = reloadBit \ {t}
          ELSE UNCHANGED <<created, reloadBit>>
       /\ UNCHANGED <<xTimerPeriodInTicks, xTimerListItem, early>>

(* One command is received, and its timer taken out of its list.           *)
ReceiveCommand ==
  LET c        == Head(xTimerQueue)
      queue    == Tail(xTimerQueue)
      current  == Without(pxCurrentTimerList, c.pxTimer)
      overflow == Without(pxOverflowTimerList, c.pxTimer)
  IN  /\ daemon = "commands"
      /\ xTimerQueue # <<>>
      /\ IF c.id = "pended"
         THEN /\ xTimerQueue' = queue
              /\ UNCHANGED <<timerBits, timerLists, timerTask, timerGhost>>
         ELSE /\ Samples
              /\ IF Wraps
                 THEN /\ daemon' = "switchForCommand"
                      /\ pxCommand' = [c EXCEPT !.age = IF c.id = "changePeriod" THEN 0 ELSE @]
                      /\ pxCurrentTimerList' = current
                      /\ pxOverflowTimerList' = overflow
                      /\ xTimerQueue' = queue
                      /\ armed' = armed \ {c.pxTimer}
                      /\ UNCHANGED <<timerBits, xTimerListItem, due, early>>
                 ELSE /\ Apply(c, timerNow, 0, current, overflow, queue)
                      /\ UNCHANGED pxCommand
              /\ UNCHANGED toWait
      /\ UNCHANGED timerNow

(* The command that found the counter wrapped, once the lists are          *)
(* switched; xLastTime is the time it sampled.                             *)
ApplyCommand ==
  /\ daemon = "apply"
  /\ Apply(pxCommand, xLastTime, pxCommand.age, pxCurrentTimerList, pxOverflowTimerList, xTimerQueue)
  /\ pxCommand' = NoCommand
  /\ UNCHANGED <<timerNow, xLastTime, toWait, behind>>

NoMoreCommands ==
  /\ daemon = "commands" /\ xTimerQueue = <<>>
  /\ daemon' = "look"
  /\ UNCHANGED <<timerBits, timerLists, xTimerQueue, timerNow, xLastTime, toWait, pxCommand,
                 timerGhost>>

ServiceStep ==
  \/ FindsWrap \/ ProcessExpiredTimer \/ BlockForCommand \/ Unblock
  \/ SwitchOne \/ SwitchLists
  \/ ReceiveCommand \/ ApplyCommand \/ NoMoreCommands

(***************************************************************************)
(* A tick.  The service task has the highest priority: it is never more    *)
(* than MaxLate ticks late, nor a command that old.                        *)
(***************************************************************************)
Older(c) == IF c.id = "none" \/ c.id = "pended" THEN c ELSE [c EXCEPT !.age = @ + 1]

Ready == daemon # "blocked" \/ xTimerQueue # <<>> \/ toWait = 0

TimerTick ==
  /\ daemon \notin {"notStarted", "assertFailed"}
  /\ Ready => behind < MaxLate
  /\ behind' = IF Ready THEN behind + 1 ELSE 0
  /\ \A t \in armed : -due[t] < MaxLate
  /\ \A i \in 1 .. Len(xTimerQueue) : xTimerQueue[i].age < MaxLate
  /\ pxCommand.age < MaxLate
  /\ timerNow' = Modulo(timerNow + 1)
  /\ toWait' = IF daemon = "blocked" /\ toWait > 0 THEN toWait - 1 ELSE toWait
  /\ due' = [t \in Timers |-> IF t \in armed THEN due[t] - 1 ELSE due[t]]
  /\ xTimerQueue' = [i \in 1 .. Len(xTimerQueue) |-> Older(xTimerQueue[i])]
  /\ pxCommand' = Older(pxCommand)
  /\ UNCHANGED <<timerBits, timerLists, xLastTime, daemon, armed, early>>

TimerCall ==
  /\ daemon # "assertFailed"
  /\ \/ PendFunctionCall
     \/ \E t \in Timers :
          \/ CreateTimer(t)
          \/ "start" \in TimerCalls[t] /\ StartTimer(t)
          \/ "stop" \in TimerCalls[t] /\ StopTimer(t)
          \/ "delete" \in TimerCalls[t] /\ DeleteTimer(t)
          \/ "reloadMode" \in TimerCalls[t] /\ SetReloadMode(t)
          \/ "changePeriod" \in TimerCalls[t] /\ \E n \in NewPeriods : ChangePeriod(t, n)

TimerNext == StartService \/ ServiceStep \/ TimerTick \/ TimerCall

TimerSpec == TimerInit /\ [][TimerNext]_timerVars /\ WF_timerVars(ServiceStep)
(***************************************************************************)
(* Properties.                                                             *)
(***************************************************************************)
TimerTypeOK ==
  /\ created \subseteq Timers /\ reloadBit \subseteq created
  /\ activeBit \subseteq Timers /\ armed \subseteq Timers
  /\ xTimerPeriodInTicks \in [Timers -> TimerTicks \ {0}]
  /\ xTimerListItem \in [Timers -> TimerTicks]
  /\ pxCurrentTimerList \in Seq(Timers) /\ pxOverflowTimerList \in Seq(Timers)
  /\ xTimerQueue \in Seq(Command) /\ Len(xTimerQueue) <= TimerQueueLength
  /\ timerNow \in TimerTicks /\ xLastTime \in TimerTicks
  /\ daemon \in {"notStarted", "look", "blocked", "commands", "switch", "switchForCommand",
                 "apply", "assertFailed"}
  /\ toWait \in -1 .. TimerTickRange
  /\ pxCommand \in Command \cup {NoCommand}
  /\ due \in [Timers -> Int]
  /\ behind \in 0 .. MaxLate
  /\ early \in BOOLEAN

Listed == {pxCurrentTimerList[i] : i \in 1 .. Len(pxCurrentTimerList)}
            \cup {pxOverflowTimerList[i] : i \in 1 .. Len(pxOverflowTimerList)}

(* A running timer out of the lists was late by a period: the service task *)
(* has sent itself the command that reloads it.                            *)
Reload(t) == \E i \in 1 .. Len(xTimerQueue) : xTimerQueue[i].id = "start" /\ xTimerQueue[i].pxTimer = t

(* No timer is lost and none expires early, whatever commands, ticks and   *)
(* wraps of the counter come between the steps of the service task: what   *)
(* runs is in one list, once, at the time it expires, or about to be put   *)
(* back; what does not run is in none; and a timer that was deleted is in  *)
(* no list and no command (timers.c, prvInsertTimerInActiveList and        *)
(* prvSwitchTimerLists).                                                   *)
TimersListedExactly ==
  /\ ~early
  /\ Listed \subseteq armed
  /\ Len(pxCurrentTimerList) + Len(pxOverflowTimerList) = Cardinality(Listed)
  /\ \A t \in Listed : xTimerListItem[t] = Modulo(timerNow + due[t])
  /\ \A t \in armed \ Listed : Reload(t) \/ daemon = "assertFailed"
  /\ armed \subseteq created
  /\ \A i \in 1 .. Len(xTimerQueue) : xTimerQueue[i].pxTimer \in created \cup {NoTimer}

(* The service task blocks only when every expired timer has been called,  *)
(* and no longer than until the next one, also when that is beyond the     *)
(* wrap of the counter (prvProcessTimerOrBlockTask).                       *)
BlocksUntilNextExpiry ==
  [][daemon # "blocked" /\ daemon' = "blocked" =>
       \A t \in armed : 0 < toWait' /\ toWait' <= due[t]]_timerVars

(* "A timer will be dormant if ... it is an expired one-shot timer that    *)
(* has not been restarted" (timers.h, xTimerIsTimerActive).  Does not      *)
(* hold: the bit stays when the timer expires as the lists are switched,   *)
(* or as a late start is processed.                                        *)
ExpiredIsDormant == daemon = "blocked" => \A t \in created : TimerIsActive(t) => t \in armed
=============================================================================
