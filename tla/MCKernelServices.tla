-------------------------- MODULE MCKernelServices --------------------------
(***************************************************************************)
(* Instances of TimerService, EventGroup, StreamBuffer, Heap4 and          *)
(* KernelMutex for TLC.                                                    *)
(* They share nothing, and are checked side by side: a behaviour runs one  *)
(* of them, and leaves the others in their initial states.                 *)
(***************************************************************************)
EXTENDS TimerService, EventGroup, StreamBuffer, Heap4, MCKernelMutex, TLC

CONSTANTS a, b, t1, t2, t3

VARIABLE part

(* Timer a reloads; b was allocated and can be deleted.  A timer that      *)
(* reloads is neither stopped nor deleted here: see the README.            *)
MCFirstPeriod == a :> 1 @@ b :> 2

MCTimerCalls == a :> {"start", "reloadMode"} @@ b :> {"stop", "delete", "changePeriod"}

(* Bound: timer a alone is switched between the modes.                     *)
ModeKept == reloadBit' = Reloading \cap created'

Alone == created' \subseteq {a}

(* For the run that shows what becomes of the active bit. *)
MCOneShots == a :> {"start"} @@ b :> {"start", "stop"}

EC(op, set, want, clear, all, block) ==
  [op |-> op, set |-> set, want |-> want, clear |-> clear, all |-> all, block |-> block]

(* Two tasks meet, one of which also sets a bit;   the third waits for  *)
(* the bits of the meeting and for another, with and without clearing.     *)
MCEventCalls ==
  t1 :> {EC("sync", {1}, {1, 2}, FALSE, FALSE, "forever"),
         EC("set", {3}, {}, FALSE, FALSE, "no")}
  @@ t2 :> {EC("sync", {2}, {1, 2}, FALSE, FALSE, "forever")}
  @@ t3 :> {EC("wait", {}, {2, 3}, FALSE, FALSE, "limit"),
            EC("wait", {}, {1, 3}, TRUE, TRUE, "limit"),
            EC("clear", {3}, {}, FALSE, FALSE, "no"),
            EC("delete", {}, {}, FALSE, FALSE, "no")}

MCFromISR == {[op |-> "set", bits |-> {3}], [op |-> "clear", bits |-> {3}]}

Init ==
  /\ part \in {"timers", "modes", "events", "stream", "heap", "mutexes"}
  /\ TimerInit /\ EventInit /\ StreamInit /\ HeapInit /\ MutexInit
  /\ part # "stream" => ~isMessageBuffer /\ xTriggerLevelBytes = 1

Next ==
  /\ \/ part = "timers" /\ TimerNext /\ ModeKept
        /\ UNCHANGED <<eventVars, streamVars, heapVars, mutexVars>>
     \/ part = "modes" /\ TimerNext /\ Alone
        /\ UNCHANGED <<eventVars, streamVars, heapVars, mutexVars>>
     \/ part = "events" /\ EventNext
        /\ UNCHANGED <<timerVars, streamVars, heapVars, mutexVars>>
     \/ part = "stream" /\ StreamNext
        /\ UNCHANGED <<timerVars, eventVars, heapVars, mutexVars>>
     \/ part = "heap" /\ HeapNext
        /\ UNCHANGED <<timerVars, eventVars, streamVars, mutexVars>>
     \/ part = "mutexes" /\ MutexNext
        /\ UNCHANGED <<timerVars, eventVars, streamVars, heapVars>>
  /\ UNCHANGED part

TimersOnly == Init /\ part = "timers"

(* For the run that shows what becomes of a message that is put back.      *)
MessagesOnly == Init /\ part = "stream" /\ isMessageBuffer

(* The types of the variables of the five. *)
ServicesTypeOK == TimerTypeOK /\ EventTypeOK /\ StreamTypeOK /\ HeapTypeOK /\ TypeOK
=============================================================================
