----------------------------- MODULE EventGroup -----------------------------
(***************************************************************************)
(* An event group, freeRTOS/FreeRTOS_Source/event_groups.c, with the       *)
(* unordered event lists of tasks.c it blocks its tasks on and the calls   *)
(* that interrupts defer to the timer service task (see TimerService).     *)
(*                                                                         *)
(* Bits are sets.  What a task does with the scheduler suspended is one    *)
(* step, as interrupts never touch a group.  A task whose time is up is    *)
(* taken off the list by the tick, and looks at the group when it runs.    *)
(***************************************************************************)
EXTENDS Integers, Sequences, FiniteSets

CONSTANTS
  EventTasks,
  Bits,            \* the event bits: 24 of them in the code
  EventCalls,      \* of each task, the calls it may make
  FromISR,         \* what interrupts may ask the timer service task to do
  DeferredLimit,   \* the room in the timer command queue
  Participants     \* the tasks that meet, each with the bit it sets

ASSUME EventsAssumption ==
  /\ IsFiniteSet(Bits)
  /\ EventCalls \in [EventTasks -> SUBSET [op : {"sync", "wait", "set", "clear", "delete"},
                                           set : SUBSET Bits, want : SUBSET Bits,
                                           clear : BOOLEAN, all : BOOLEAN,
                                           block : {"no", "limit", "forever"}]]
  /\ FromISR \subseteq [op : {"set", "clear"}, bits : SUBSET Bits]
  /\ DeferredLimit \in Nat
  /\ Participants \subseteq EventTasks

VARIABLES
  groupExists,
  uxEventBits,
  xTasksWaitingForBits,
  eventCall,       \* the call a task is in
  eventPc,         \* where it is in the call
  itemValue,       \* the bits its event list item was given when it was unblocked
  deferred,        \* the calls in the timer command queue
  uxReturn,        \* what the last call returned
  (* History, which no step reads: *)
  arrived,         \* the times a task came to the meeting, modulo 4
  passed           \* ... and left it with every bit set

eventVars == <<groupExists, uxEventBits, xTasksWaitingForBits, eventCall, eventPc, itemValue,
               deferred, uxReturn, arrived, passed>>

NoEventCall == [op |-> "none", set |-> {}, want |-> {}, clear |-> FALSE, all |-> FALSE,
                block |-> "no"]

(* xEventGroupCreate and xEventGroupCreateStatic.                          *)
EventInit ==
  /\ groupExists = TRUE
  /\ uxEventBits = {}
  /\ xTasksWaitingForBits = {}
  /\ eventCall = [t \in EventTasks |-> NoEventCall]
  /\ eventPc = [t \in EventTasks |-> "run"]
  /\ itemValue = [t \in EventTasks |-> {}]
  /\ deferred = <<>>
  /\ uxReturn = [t \in EventTasks |-> {}]
  /\ arrived = [t \in EventTasks |-> 0]
  /\ passed = [t \in EventTasks |-> 0]

(* A wrong variant, for contrast. *)
MetIfAny(bits, c) == c.want \cap bits # {}

(***************************************************************************)
(* Waiting tasks.                                                          *)
(***************************************************************************)
(* prvTestWaitCondition, and the test xEventGroupSetBits makes.            *)
Met(bits, c) == IF c.all THEN c.want \subseteq bits ELSE c.want \cap bits # {}

(* A wrong variant, for contrast. *)
SetMatchesNew(bits) == {t \in xTasksWaitingForBits : Met(bits \ uxEventBits, eventCall[t])}

(* xEventGroupSetBits: every waiting task whose condition is met is given  *)
(* the bits as they were set, before any is cleared (the values go through *)
(* vTaskRemoveFromUnorderedEventList).                                     *)
SetMatches(bits) == {t \in xTasksWaitingForBits : Met(bits, eventCall[t])}

ClearedBy(released) == UNION {eventCall[t].want : t \in {u \in released : eventCall[u].clear}}

BitsAfterSet(bits) == bits \ ClearedBy(SetMatches(bits))

(* A task that waits to meet has met the others when it is released.       *)
Passes(S) ==
  passed' = [t \in EventTasks |-> IF t \in S /\ eventCall[t].op = "sync" /\ t \in Participants
                                  THEN (passed[t] + 1) % 4 ELSE passed[t]]

Released(S, bits) ==
  /\ xTasksWaitingForBits' = xTasksWaitingForBits \ S
  /\ itemValue' = [t \in EventTasks |-> IF t \in S THEN bits ELSE itemValue[t]]

MovesTo(t, released, label) ==
  eventPc' = [u \in EventTasks |-> IF u \in released THEN "released"
                                   ELSE IF u = t THEN label ELSE eventPc[u]]

(***************************************************************************)
(* Calls.                                                                  *)
(***************************************************************************)
SetBits(t, c) ==
  LET bits == uxEventBits \cup c.set
      S    == SetMatches(bits)
  IN  /\ uxEventBits' = BitsAfterSet(bits)
      /\ Released(S, bits)
      /\ Passes(S)
      /\ MovesTo(t, S, "run")
      /\ uxReturn' = [uxReturn EXCEPT ![t] = uxEventBits']
      /\ UNCHANGED <<groupExists, eventCall, deferred, arrived>>

ClearBits(t, c) ==
  /\ uxReturn' = [uxReturn EXCEPT ![t] = uxEventBits]
  /\ uxEventBits' = uxEventBits \ c.set
  /\ UNCHANGED <<groupExists, xTasksWaitingForBits, eventCall, eventPc, itemValue, deferred,
                 arrived, passed>>

(* vTaskPlaceOnUnorderedEventList.                                         *)
BlocksOn(t, c) ==
  /\ eventCall' = [eventCall EXCEPT ![t] = c]
  /\ xTasksWaitingForBits' = xTasksWaitingForBits \cup {t}
  /\ UNCHANGED <<itemValue, uxReturn>>

WaitBits(t, c) ==
  /\ \/ /\ Met(uxEventBits, c)
        /\ uxReturn' = [uxReturn EXCEPT ![t] = uxEventBits]
        /\ uxEventBits' = IF c.clear THEN uxEventBits \ c.want ELSE uxEventBits
        /\ UNCHANGED <<xTasksWaitingForBits, eventCall, eventPc, itemValue>>
     \/ /\ ~Met(uxEventBits, c) /\ c.block = "no"
        /\ uxReturn' = [uxReturn EXCEPT ![t] = uxEventBits]
        /\ UNCHANGED <<uxEventBits, xTasksWaitingForBits, eventCall, eventPc, itemValue>>
     \/ /\ ~Met(uxEventBits, c) /\ c.block # "no"
        /\ BlocksOn(t, c)
        /\ eventPc' = [eventPc EXCEPT ![t] = "waiting"]
        /\ UNCHANGED uxEventBits
  /\ UNCHANGED <<groupExists, deferred, arrived, passed>>

(* xEventGroupSync sets its bits, which may release others and clear what  *)
(* they waited for, and tests the bits as they were before that.           *)
Sync(t, c) ==
  LET bits == uxEventBits \cup c.set
      S    == SetMatches(bits)
      left == BitsAfterSet(bits)
      meet == c.want \subseteq bits
  IN  /\ arrived' = [arrived EXCEPT ![t] = (@ + 1) % 4]
      /\ itemValue' = [u \in EventTasks |-> IF u \in S THEN bits ELSE itemValue[u]]
      /\ \/ /\ meet
            /\ uxEventBits' = left \ c.want
            /\ uxReturn' = [uxReturn EXCEPT ![t] = bits]
            /\ MovesTo(t, S, "run")
            /\ xTasksWaitingForBits' = xTasksWaitingForBits \ S
            /\ UNCHANGED eventCall
         \/ /\ ~meet /\ c.block # "no"
            /\ uxEventBits' = left
            /\ MovesTo(t, S, "waiting")
            /\ xTasksWaitingForBits' = (xTasksWaitingForBits \ S) \cup {t}
            /\ eventCall' = [eventCall EXCEPT ![t] = [c EXCEPT !.clear = TRUE, !.all = TRUE]]
            /\ UNCHANGED uxReturn
         \/ /\ ~meet /\ c.block = "no"
            /\ uxEventBits' = left
            /\ uxReturn' = [uxReturn EXCEPT ![t] = left]
            /\ MovesTo(t, S, "run")
            /\ xTasksWaitingForBits' = xTasksWaitingForBits \ S
            /\ UNCHANGED eventCall
      /\ passed' = [u \in EventTasks |->
                      IF \/ u = t /\ meet
                         \/ u \in S /\ eventCall[u].op = "sync"
                      THEN (passed[u] + 1) % 4 ELSE passed[u]]
      /\ UNCHANGED <<groupExists, deferred>>

(* vEventGroupDelete: the waiting tasks are released with no bit set.      *)
DeleteGroup(t) ==
  /\ groupExists' = FALSE
  /\ Released(xTasksWaitingForBits, {})
  /\ MovesTo(t, xTasksWaitingForBits, "run")
  /\ UNCHANGED <<uxEventBits, eventCall, deferred, uxReturn, arrived, passed>>

EventCall(t) ==
  /\ groupExists /\ eventPc[t] = "run"
  /\ \E c \in EventCalls[t] :
       \/ c.op = "set" /\ SetBits(t, c)
       \/ c.op = "clear" /\ ClearBits(t, c)
       \/ c.op = "wait" /\ WaitBits(t, c)
       \/ c.op = "sync" /\ Sync(t, c)
       \/ c.op = "delete" /\ DeleteGroup(t)

(* The tick takes a task off the list when its time is up.                 *)
EventTimeout(t) ==
  /\ eventPc[t] = "waiting" /\ eventCall[t].block = "limit"
  /\ xTasksWaitingForBits' = xTasksWaitingForBits \ {t}
  /\ eventPc' = [eventPc EXCEPT ![t] = "timedOut"]
  /\ UNCHANGED <<groupExists, uxEventBits, eventCall, itemValue, deferred,
                 uxReturn, arrived, passed>>

Leaves(t, bits) ==
  /\ eventPc' = [eventPc EXCEPT ![t] = "run"]
  /\ eventCall' = [eventCall EXCEPT ![t] = NoEventCall]
  /\ uxReturn' = [uxReturn EXCEPT ![t] = bits]
  /\ itemValue' = [itemValue EXCEPT ![t] = {}]

(* The rest of a call that blocked: uxTaskResetEventItemValue tells        *)
(* whether the bits released the task.                                     *)
LeaveReleased(t) ==
  /\ eventPc[t] = "released"
  /\ Leaves(t, itemValue[t])
  /\ UNCHANGED <<groupExists, uxEventBits, xTasksWaitingForBits, deferred, arrived, passed>>

(* It timed out: the bits may have come since.  A group that was deleted   *)
(* is read all the same, with whatever its memory holds.                   *)
LeaveTimedOut(t) ==
  /\ eventPc[t] = "timedOut"
  /\ \E bits \in IF groupExists THEN {uxEventBits} ELSE SUBSET Bits :
       /\ Leaves(t, bits)
       /\ uxEventBits' = IF groupExists /\ Met(bits, eventCall[t]) /\ eventCall[t].clear
                         THEN bits \ eventCall[t].want ELSE uxEventBits
       /\ passed' = IF eventCall[t].op = "sync" /\ Met(bits, eventCall[t]) /\ t \in Participants
                    THEN [passed EXCEPT ![t] = (@ + 1) % 4] ELSE passed
  /\ UNCHANGED <<groupExists, xTasksWaitingForBits, deferred, arrived>>

(* xEventGroupSetBitsFromISR and xEventGroupClearBitsFromISR.              *)
DeferFromISR(c) ==
  /\ Len(deferred) < DeferredLimit
  /\ deferred' = Append(deferred, c)
  /\ UNCHANGED <<groupExists, uxEventBits, xTasksWaitingForBits, eventCall, eventPc, itemValue,
                 uxReturn, arrived, passed>>

(* The timer service task: vEventGroupSetBitsCallback, ...ClearBits...     *)
RunDeferred ==
  LET c    == Head(deferred)
      bits == uxEventBits \cup c.bits
      S    == SetMatches(bits)
  IN  /\ deferred # <<>> /\ groupExists
      /\ deferred' = Tail(deferred)
      /\ IF c.op = "set"
         THEN /\ uxEventBits' = BitsAfterSet(bits)
              /\ Released(S, bits)
              /\ Passes(S)
              /\ eventPc' = [t \in EventTasks |-> IF t \in S THEN "released" ELSE eventPc[t]]
         ELSE /\ uxEventBits' = uxEventBits \ c.bits
              /\ UNCHANGED <<xTasksWaitingForBits, itemValue, passed, eventPc>>
      /\ UNCHANGED <<groupExists, eventCall, uxReturn, arrived>>

EventNext ==
  \/ \E t \in EventTasks : EventCall(t) \/ EventTimeout(t) \/ LeaveReleased(t) \/ LeaveTimedOut(t)
  \/ \E c \in FromISR : DeferFromISR(c)
  \/ RunDeferred

EventSpec ==
  /\ EventInit /\ [][EventNext]_eventVars
  /\ WF_eventVars(RunDeferred)
  /\ \A t \in EventTasks : WF_eventVars(LeaveReleased(t) \/ LeaveTimedOut(t))

(***************************************************************************)
(* Properties.                                                             *)
(***************************************************************************)
EventTypeOK ==
  /\ groupExists \in BOOLEAN
  /\ uxEventBits \subseteq Bits
  /\ xTasksWaitingForBits \subseteq EventTasks
  /\ eventPc \in [EventTasks -> {"run", "waiting", "released", "timedOut"}]
  /\ itemValue \in [EventTasks -> SUBSET Bits]
  /\ uxReturn \in [EventTasks -> SUBSET Bits]
  /\ Len(deferred) <= DeferredLimit

(* No task stays on the list of a group whose bits already are what it     *)
(* waits for, and none is on the list of a deleted group, whoever set the  *)
(* bits and whichever waiters that released had them cleared               *)
(* (xEventGroupSetBits, vEventGroupDelete).                                *)
NobodyForgotten ==
  /\ \A t \in xTasksWaitingForBits : groupExists /\ ~Met(uxEventBits, eventCall[t])
  /\ xTasksWaitingForBits = {t \in EventTasks : eventPc[t] = "waiting"}

(* No task leaves xEventGroupSync before all have come to it for that      *)
(* round, and none is overtaken by a round.                                *)
MeetingHeld ==
  \A t, u \in Participants : (arrived[u] + 4 - passed[t]) % 4 # 3

(* What a call that blocked returns met its condition as long as the task  *)
(* did not time out, and a task that timed out returns without the bits    *)
(* only if they are not there at that moment.                              *)
AnswersHold ==
  [][\A t \in EventTasks :
       eventPc[t] \in {"released", "timedOut"} /\ eventPc'[t] = "run" /\ groupExists =>
         IF eventPc[t] = "released" THEN Met(uxReturn'[t], eventCall[t])
         ELSE Met(uxReturn'[t], eventCall[t]) \/ ~Met(uxEventBits, eventCall[t])]_eventVars
=============================================================================
