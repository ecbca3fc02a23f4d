------------------------------- MODULE IpTask -------------------------------
(***************************************************************************)
(* The IP task, freeRTOS/FreeRTOS_UDP_Source/FreeRTOS_IP.c: its queue of   *)
(* events, the ARP and the TCP timer it keeps itself, and the interface    *)
(* that is initialised again until there is a link.  Other tasks and the   *)
(* driver send events at any time; the tick comes at any time.             *)
(***************************************************************************)
EXTENDS Integers, Sequences

CONSTANTS
  IpQueueLength,       \* ipconfigEVENT_QUEUE_LENGTH
  MaxSleep,            \* ipconfigMAX_IP_TASK_SLEEP_TIME
  ArpPeriod, TcpPeriod \* ipARP_TIMER_PERIOD_MS, ipTCP_TIMER_PERIOD_MS

ASSUME IpAssumption ==
  /\ IpQueueLength \in Nat \ {0}
  /\ ArpPeriod \in Nat \ {0} /\ TcpPeriod \in 1 .. ArpPeriod
  /\ MaxSleep \in Nat /\ MaxSleep >= TcpPeriod

VARIABLES
  ipEvents,            \* xNetworkEventQueue, by the types of the events
  network,             \* xNetworkUp, xNetworkDownEventPending, xIPTaskInitialised
  xARPTimer, xTCPTimer,
  xProcessedTCPMessage,
  ipTask,              \* where the task is, the event it handles, what it has read, how long it
                       \* sleeps, and how old the TCP timer's time was when it fell asleep
  asker                \* a task that wants the TCP sockets looked at: where it is in
                       \* xSendEventStructToIPTask, and whether they were not looked at since

ipVars == <<ipEvents, network, xARPTimer, xTCPTimer, xProcessedTCPMessage, ipTask, asker>>

(* A timer: ulRemainingTime is what was left at the last look at it, and   *)
(* elapsed the ticks since then (the tick count less that in xTimeOut),    *)
(* counted up to ulRemainingTime, with which alone they are compared.      *)
Stopped == [bActive |-> FALSE, bExpired |-> FALSE, ulRemainingTime |-> 0, elapsed |-> 0]

(* prvIPTimerStart. *)
TimerStarted(time) == [bActive |-> TRUE, bExpired |-> time = 0, ulRemainingTime |-> time, elapsed |-> 0]

TimeLeft(timer) == timer.ulRemainingTime - timer.elapsed

(* prvIPTimerCheck with xTaskCheckForTimeOut: what is left is brought up   *)
(* to date here, and nowhere else.                                         *)
TimerDue(timer) == timer.bActive /\ (timer.bExpired \/ TimeLeft(timer) = 0)

Checked(timer, reload) ==
  IF TimerDue(timer) THEN TimerStarted(reload)
  ELSE IF timer.bActive THEN [timer EXCEPT !.ulRemainingTime = TimeLeft(timer), !.elapsed = 0]
  ELSE timer

(* FreeRTOS_IPInit. *)
IpInit ==
  /\ ipEvents = <<>>
  /\ network = [up |-> FALSE, downPending |-> FALSE, ready |-> FALSE]
  /\ xARPTimer = Stopped /\ xTCPTimer = Stopped
  /\ xProcessedTCPMessage = FALSE
  /\ ipTask = [at |-> "start", event |-> "none", willSleep |-> FALSE, sleep |-> 0, late |-> 0]
  /\ asker = [at |-> "idle", waits |-> FALSE]

(* xSendEventStructToIPTask without waiting: the queue after it.           *)
QueueHasRoom == Len(ipEvents) < IpQueueLength

Sent(event) == IF QueueHasRoom THEN Append(ipEvents, event) ELSE ipEvents

IpAt(to) == ipTask' = [ipTask EXCEPT !.at = to]

(* After an event; what is not read any more is forgotten. *)
Handled == ipTask' = [ipTask EXCEPT !.at = "pending", !.event = "none"]

(* A wrong variant, for contrast: a full queue is not noticed. *)
NetworkDownOnce ==
  /\ ipEvents' = Sent("down")
  /\ network' = [network EXCEPT !.downPending = FALSE]

(* FreeRTOS_NetworkDown. *)
NetworkDown ==
  /\ ipEvents' = Sent("down")
  /\ network' = [network EXCEPT !.downPending = ~QueueHasRoom]

(* The first steps of prvIPTask. *)
StartIpTask ==
  /\ ipTask.at = "start"
  /\ ipEvents' = Append(ipEvents, "down")
  /\ network' = [network EXCEPT !.ready = TRUE]
  /\ xTCPTimer' = TimerStarted(TcpPeriod)
  /\ IpAt("arp")
  /\ UNCHANGED <<xARPTimer, xProcessedTCPMessage, asker>>

(***************************************************************************)
(* prvCheckNetworkTimers.                                                  *)
(***************************************************************************)
CheckARPTimer ==
  /\ ipTask.at = "arp"
  /\ xARPTimer' = Checked(xARPTimer, ArpPeriod)
  /\ ipEvents' = IF TimerDue(xARPTimer) THEN Sent("arp") ELSE ipEvents
  /\ IpAt("queue")
  /\ UNCHANGED <<network, xTCPTimer, xProcessedTCPMessage, asker>>

LookAtQueue ==
  /\ ipTask.at = "queue"
  /\ ipTask' = [ipTask EXCEPT !.at = "tcp", !.willSleep = ipEvents = <<>>]
  /\ UNCHANGED <<ipEvents, network, xARPTimer, xTCPTimer, xProcessedTCPMessage, asker>>

CheckTCPTimer ==
  /\ ipTask.at = "tcp"
  /\ xTCPTimer' = Checked(xTCPTimer, TcpPeriod)
  /\ IpAt(IF TimerDue(xTCPTimer) \/ (xProcessedTCPMessage /\ ipTask.willSleep) THEN "sockets" ELSE "sleep")
  /\ UNCHANGED <<ipEvents, network, xARPTimer, xProcessedTCPMessage, asker>>

(* xTCPTimerCheck looks at all sockets; the user of one with events is     *)
(* woken if the task is about to sleep, and else the timer expires at once.*)
CheckSockets ==
  /\ ipTask.at = "sockets"
  /\ asker' = [asker EXCEPT !.waits = FALSE]
  /\ IpAt("restart")
  /\ UNCHANGED <<ipEvents, network, xARPTimer, xTCPTimer, xProcessedTCPMessage>>

RestartTCPTimer ==
  /\ ipTask.at = "restart"
  /\ \E next \in (IF ipTask.willSleep THEN 1 ELSE 0) .. TcpPeriod : xTCPTimer' = TimerStarted(next)
  /\ xProcessedTCPMessage' = FALSE
  /\ IpAt("sleep")
  /\ UNCHANGED <<ipEvents, network, xARPTimer, asker>>

(* prvCalculateSleepTime: the timers are read as they were last looked at, *)
(* and the ARP timer is taken into account with the time it is reloaded    *)
(* with, not with what is left of it.                                      *)
Shorter(m, n) == IF m < n THEN m ELSE n

(* A wrong variant, for contrast. *)
SleepForARP ==
  IF xARPTimer.bActive /\ xARPTimer.ulRemainingTime < MaxSleep THEN ArpPeriod ELSE MaxSleep

SleepTime ==
  LET arp == IF xARPTimer.bActive /\ xARPTimer.ulRemainingTime < MaxSleep THEN ArpPeriod ELSE MaxSleep
  IN  Shorter(arp, xTCPTimer.ulRemainingTime)

CalculateSleepTime ==
  /\ ipTask.at = "sleep"
  /\ ipTask' = [ipTask EXCEPT !.at = "receive", !.sleep = SleepTime, !.willSleep = FALSE]
  /\ UNCHANGED <<ipEvents, network, xARPTimer, xTCPTimer, xProcessedTCPMessage, asker>>

(* The call of xQueueReceive, any time later. *)
GoToSleep ==
  /\ ipTask.at = "receive"
  /\ ipTask' = [ipTask EXCEPT !.at = "blocked", !.late = xTCPTimer.elapsed]
  /\ UNCHANGED <<ipEvents, network, xARPTimer, xTCPTimer, xProcessedTCPMessage, asker>>

(***************************************************************************)
(* Events.                                                                 *)
(***************************************************************************)
TakeEvent ==
  /\ ipTask.at = "blocked" /\ ipEvents # <<>>
  /\ ipTask' = [ipTask EXCEPT !.at = "handle", !.event = Head(ipEvents), !.sleep = 0, !.late = 0]
  /\ ipEvents' = Tail(ipEvents)
  /\ UNCHANGED <<network, xARPTimer, xTCPTimer, xProcessedTCPMessage, asker>>

NoEvent ==
  /\ ipTask.at = "blocked" /\ ipEvents = <<>> /\ ipTask.sleep = 0
  /\ ipTask' = [ipTask EXCEPT !.at = "handle", !.event = "none", !.late = 0]
  /\ UNCHANGED <<ipEvents, network, xARPTimer, xTCPTimer, xProcessedTCPMessage, asker>>

Handling(event) == ipTask.at = "handle" /\ ipTask.event = event

(* A frame (which may be a TCP segment), a packet to send, the binding or  *)
(* closing of a socket, a select, the ageing of the ARP cache.             *)
HandleOther ==
  /\ Handling("rx") \/ Handling("other") \/ Handling("arp") \/ Handling("none")
  /\ xProcessedTCPMessage' \in {xProcessedTCPMessage, xProcessedTCPMessage \/ ipTask.event = "rx"}
  /\ Handled
  /\ UNCHANGED <<ipEvents, network, xARPTimer, xTCPTimer, asker>>

HandleTCPTimer ==
  /\ Handling("tcp")
  /\ xTCPTimer' = [xTCPTimer EXCEPT !.bExpired = TRUE]
  /\ Handled
  /\ UNCHANGED <<ipEvents, network, xARPTimer, xProcessedTCPMessage, asker>>

(* prvProcessNetworkDownEvent clears the ARP cache and initialises the     *)
(* interface, which waits for the link.                                    *)
HandleNetworkDown ==
  /\ Handling("down")
  /\ network' = [network EXCEPT !.up = FALSE]
  /\ xARPTimer' = [xARPTimer EXCEPT !.bActive = FALSE]
  /\ ipTask' = [ipTask EXCEPT !.at = "initialise", !.event = "none"]
  /\ UNCHANGED <<ipEvents, xTCPTimer, xProcessedTCPMessage, asker>>

(* vIPNetworkUpCalls. *)
InterfaceIsUp ==
  /\ ipTask.at = "initialise"
  /\ network' = [network EXCEPT !.up = TRUE]
  /\ xARPTimer' = TimerStarted(ArpPeriod)
  /\ Handled
  /\ UNCHANGED <<ipEvents, xTCPTimer, xProcessedTCPMessage, asker>>

InterfaceFails ==
  /\ ipTask.at = "initialise"
  /\ NetworkDown
  /\ Handled
  /\ UNCHANGED <<xARPTimer, xTCPTimer, xProcessedTCPMessage, asker>>

(* An event that found the queue full is posted again after every event.   *)
PostAgain ==
  /\ ipTask.at = "pending"
  /\ IF network.downPending THEN NetworkDown ELSE UNCHANGED <<ipEvents, network>>
  /\ IpAt("arp")
  /\ UNCHANGED <<xARPTimer, xTCPTimer, xProcessedTCPMessage, asker>>

(***************************************************************************)
(* Other tasks.                                                            *)
(***************************************************************************)
(* The driver passes a frame, a task sends a packet or asks for a socket   *)
(* to be bound, closed or selected on; nothing goes to a task that is not  *)
(* ready, and what finds the queue full fails in the caller's hands.       *)
SendEvent ==
  /\ network.ready /\ QueueHasRoom
  /\ \E event \in {"rx", "other"} : ipEvents' = Append(ipEvents, event)
  /\ UNCHANGED <<network, xARPTimer, xTCPTimer, xProcessedTCPMessage, ipTask, asker>>

(* xSendEventToIPTask( eTCPTimerEvent ): data was written or read.  The    *)
(* event is sent only if nothing else is in the queue.                     *)
AskForCheck ==
  /\ asker.at = "idle" /\ network.ready
  /\ xTCPTimer' = [xTCPTimer EXCEPT !.bExpired = TRUE]
  /\ asker' = [at |-> "look", waits |-> TRUE]
  /\ UNCHANGED <<ipEvents, network, xARPTimer, xProcessedTCPMessage, ipTask>>

SendIfQueueEmpty ==
  /\ asker.at = "look"
  /\ asker' = [asker EXCEPT !.at = IF ipEvents = <<>> THEN "send" ELSE "idle"]
  /\ UNCHANGED <<ipEvents, network, xARPTimer, xTCPTimer, xProcessedTCPMessage, ipTask>>

SendTCPTimerEvent ==
  /\ asker.at = "send"
  /\ ipEvents' = Sent("tcp")
  /\ asker' = [asker EXCEPT !.at = "idle"]
  /\ UNCHANGED <<network, xARPTimer, xTCPTimer, xProcessedTCPMessage, ipTask>>

(* A tick: nothing is brought up to date but the time for which the task   *)
(* is blocked.                                                             *)
Ticked(timer) ==
  IF timer.bActive THEN [timer EXCEPT !.elapsed = Shorter(@ + 1, timer.ulRemainingTime)] ELSE timer

IpTick ==
  /\ xARPTimer' = Ticked(xARPTimer)
  /\ xTCPTimer' = Ticked(xTCPTimer)
  /\ ipTask' = [ipTask EXCEPT !.sleep = IF ipTask.at = "blocked" /\ @ > 0 THEN @ - 1 ELSE @]
  /\ <<xARPTimer, xTCPTimer, ipTask>>' # <<xARPTimer, xTCPTimer, ipTask>>
  /\ UNCHANGED <<ipEvents, network, xProcessedTCPMessage, asker>>

IpTaskStep ==
  \/ StartIpTask \/ CheckARPTimer \/ LookAtQueue \/ CheckTCPTimer \/ CheckSockets \/ RestartTCPTimer
  \/ CalculateSleepTime \/ GoToSleep \/ TakeEvent \/ NoEvent \/ HandleOther \/ HandleTCPTimer
  \/ HandleNetworkDown \/ InterfaceIsUp \/ InterfaceFails \/ PostAgain

IpNext ==
  \/ IpTaskStep
  \/ SendEvent \/ AskForCheck \/ SendIfQueueEmpty \/ SendTCPTimerEvent
  \/ IpTick

(* The IP task runs and time passes, the interface finds a link in the end *)
(* when it is initialised again and again, and a task that asks goes on.   *)
IpSpec ==
  /\ IpInit /\ [][IpNext]_ipVars
  /\ WF_ipVars(IpTaskStep) /\ WF_ipVars(IpTick) /\ SF_ipVars(InterfaceIsUp)
  /\ WF_ipVars(SendIfQueueEmpty \/ SendTCPTimerEvent)

(***************************************************************************)
(* Properties.                                                             *)
(***************************************************************************)
IpTypeOK ==
  /\ ipEvents \in Seq({"down", "arp", "tcp", "rx", "other"}) /\ Len(ipEvents) <= IpQueueLength
  /\ network \in [up : BOOLEAN, downPending : BOOLEAN, ready : BOOLEAN]
  /\ xARPTimer \in [bActive : BOOLEAN, bExpired : BOOLEAN,
                    ulRemainingTime : 0 .. ArpPeriod, elapsed : 0 .. ArpPeriod]
  /\ xTCPTimer \in [bActive : BOOLEAN, bExpired : BOOLEAN,
                    ulRemainingTime : 0 .. TcpPeriod, elapsed : 0 .. TcpPeriod]
  /\ xProcessedTCPMessage \in BOOLEAN

(* While the network is down and the task does not initialise it, the      *)
(* event that will make it do so is in the queue or noted as pending, also *)
(* when others fill the queue (FreeRTOS_NetworkDown).  The task, which     *)
(* reads what is left of the TCP timer as it was at its last look, sleeps  *)
(* past the end of the timer by no more than the ticks that came between   *)
(* that look and the call that blocks it, however long it was kept from    *)
(* running there (prvCalculateSleepTime, xQueueReceive).                   *)
IpTaskAwakeInTime ==
  /\ network.ready /\ ~network.up /\ ipTask.at # "initialise" /\ ~Handling("down")
       => network.downPending \/ \E i \in DOMAIN ipEvents : ipEvents[i] = "down"
  /\ ipTask.at = "blocked" => ipTask.sleep <= TimeLeft(xTCPTimer) + ipTask.late

(* A request to look at the TCP sockets, whose event may be dropped and    *)
(* whose flag may be overwritten, is served; and the network comes up,     *)
(* unless others fill the queue again before every moment at which the     *)
(* task posts its own event (xSendEventStructToIPTask,                     *)
(* prvCheckNetworkTimers, prvProcessNetworkDownEvent).                     *)
RequestsServed ==
  /\ asker.waits ~> ~asker.waits
  /\ []<><<PostAgain /\ QueueHasRoom>>_ipVars => <>[](network.up)

(* There is no point in sending the event if the task is awake already: it *)
(* looks at the sockets before it sleeps.  It does not hold: the restart   *)
(* of the timer clears the mark (xSendEventStructToIPTask).                *)
AskedBeforeSleep ==
  ipTask.at = "blocked" /\ ipEvents = <<>> /\ asker.at = "idle" => ~asker.waits
=============================================================================
