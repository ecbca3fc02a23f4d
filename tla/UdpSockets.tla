----------------------------- MODULE UdpSockets -----------------------------
(***************************************************************************)
(* UDP sockets, freeRTOS/FreeRTOS_UDP_Source/FreeRTOS_Sockets.c and        *)
(* FreeRTOS_UDP_IP.c, and the task that receives with them,                *)
(* freeRTOS/freeRTOSIP_user.c.  A call of the API is a sequence of steps,  *)
(* between which the IP task, whose priority is higher, handles events;    *)
(* what it does for one event no user sees half done.                      *)
(*                                                                         *)
(* Every socket has a user of its own, which makes one call at a time.     *)
(***************************************************************************)
EXTENDS Integers, Sequences, FiniteSets, FiniteSetsExt

CONSTANTS
  UdpSocks,
  ZeroCopyReader,    \* the sockets that are used the way prvUDPRXTask does
  Selectors,         \* the sockets whose user calls FreeRTOS_select; each has a set of its own
  Ports,             \* that users ask for, or find by themselves
  UdpBuffers,        \* the number of network buffers
  UdpQueueLength,    \* ipconfigEVENT_QUEUE_LENGTH
  PayloadLengths,
  MaxDatagrams       \* bound: that arrive

ASSUME UdpAssumption ==
  /\ IsFiniteSet(UdpSocks)
  /\ ZeroCopyReader \subseteq UdpSocks /\ Selectors \subseteq UdpSocks \ ZeroCopyReader
  /\ 0 \notin Ports
  /\ {UdpBuffers, UdpQueueLength} \subseteq Nat \ {0} /\ PayloadLengths \subseteq Nat

VARIABLES
  sockets,
  selectGroup,       \* the event bits of each socket set
  udpCalls,          \* where the user of each socket is
  udpEvents,         \* what waits for the IP task
  udpFree,           \* the number of free network buffers
  arrived,           \* history, which no step reads: the datagrams that were queued for
  delivered          \* a socket, and those that its user received

udpVars == <<sockets, selectGroup, udpCalls, udpEvents, udpFree, arrived, delivered>>

NewSocket(state) ==
  [state |-> state, port |-> 0, usLocalPort |-> 0, waiting |-> <<>>, events |-> {},
   interested |-> FALSE, inSet |-> FALSE]

Idle == [at |-> "idle", limited |-> FALSE, expired |-> FALSE, len |-> 0, holds |-> FALSE, next |-> "none"]

UdpInit ==
  /\ sockets = [s \in UdpSocks |-> NewSocket("none")]
  /\ selectGroup = [s \in Selectors |-> {}]
  /\ udpCalls = [s \in UdpSocks |-> Idle]
  /\ udpEvents = <<>>
  /\ udpFree = UdpBuffers
  /\ arrived = [s \in UdpSocks |-> <<>>] /\ delivered = [s \in UdpSocks |-> <<>>]

IsBound(s) == sockets[s].state = "bound"
BoundTo(port) == {s \in UdpSocks : IsBound(s) /\ sockets[s].port = port}

UserAt(s, at) == udpCalls[s].at = at
UserGoes(s, at) == udpCalls' = [udpCalls EXCEPT ![s].at = at]
Returns(s) == udpCalls' = [udpCalls EXCEPT ![s] = [Idle EXCEPT !.holds = udpCalls[s].holds]]

EventRoom == Len(udpEvents) < UdpQueueLength
Posts(event) == EventRoom /\ udpEvents' = Append(udpEvents, event)

(***************************************************************************)
(* FreeRTOS_socket, FreeRTOS_bind and FreeRTOS_closesocket.                *)
(***************************************************************************)
CreateSocket(s) ==
  /\ UserAt(s, "idle") /\ sockets[s].state = "none"
  /\ sockets' = [sockets EXCEPT ![s] = NewSocket("created")]
  /\ UNCHANGED <<selectGroup, udpCalls, udpEvents, udpFree, arrived, delivered>>

(* A socket that was not bound is bound to any port when data is sent.     *)
BindTo(s, port, then) ==
  /\ sockets' = [sockets EXCEPT ![s].usLocalPort = port]
  /\ udpCalls' = [udpCalls EXCEPT ![s].at = "postBind", ![s].next = then]

Bind(s) ==
  /\ UserAt(s, "idle") /\ sockets[s].state = "created"
  /\ \E port \in Ports \cup {0} : BindTo(s, port, "none")
  /\ UNCHANGED <<selectGroup, udpEvents, udpFree, arrived, delivered>>

PostBind(s) ==
  /\ UserAt(s, "postBind")
  /\ Posts([type |-> "bind", socket |-> s])
  /\ UserGoes(s, "waitBound")
  /\ UNCHANGED <<sockets, selectGroup, udpFree, arrived, delivered>>

(* A failed binding ends the call that asked for it. *)
BindReturns(s) ==
  /\ UserAt(s, "waitBound") /\ "bound" \in sockets[s].events
  /\ sockets' = [sockets EXCEPT ![s].events = @ \ {"bound"}]
  /\ IF IsBound(s) /\ udpCalls[s].next = "send" THEN UserGoes(s, "buffer") ELSE Returns(s)
  /\ UNCHANGED <<selectGroup, udpEvents, udpFree, arrived, delivered>>

Close(s) ==
  /\ UserAt(s, "idle") /\ sockets[s].state \in {"created", "bound"} /\ s \notin ZeroCopyReader
  /\ Posts([type |-> "close", socket |-> s])
  /\ sockets' = [sockets EXCEPT ![s].inSet = FALSE, ![s].interested = FALSE]
  /\ UserGoes(s, "closed")
  /\ UNCHANGED <<selectGroup, udpFree, arrived, delivered>>

(* The user calls FreeRTOS_socket again after it. *)
OpenAgain(s) ==
  /\ UserAt(s, "closed") /\ sockets[s].state = "none"
  /\ Returns(s)
  /\ UNCHANGED <<sockets, selectGroup, udpEvents, udpFree, arrived, delivered>>

(***************************************************************************)
(* FreeRTOS_sendto.                                                        *)
(***************************************************************************)
SendTo(s) ==
  /\ UserAt(s, "idle") /\ s \notin ZeroCopyReader
  /\ IF IsBound(s) THEN UserGoes(s, "buffer") /\ UNCHANGED sockets
                   ELSE sockets[s].state = "created" /\ BindTo(s, 0, "send")
  /\ UNCHANGED <<selectGroup, udpEvents, udpFree, arrived, delivered>>

(* pxGetNetworkBufferWithDescriptor waits for a while, and then fails. *)
BufferForSend(s) ==
  /\ UserAt(s, "buffer")
  /\ IF udpFree > 0 THEN udpFree' = udpFree - 1 /\ UserGoes(s, "postData")
                    ELSE UNCHANGED udpFree /\ Returns(s)
  /\ UNCHANGED <<sockets, selectGroup, udpEvents, arrived, delivered>>

(* A wrong variant, for contrast. *)
PostDataAndForget(s) ==
  /\ UserAt(s, "postData")
  /\ \/ Posts([type |-> "tx", socket |-> s])
     \/ ~EventRoom /\ UNCHANGED udpEvents
  /\ Returns(s)
  /\ UNCHANGED <<sockets, selectGroup, udpFree, arrived, delivered>>

PostData(s) ==
  /\ UserAt(s, "postData")
  /\ \/ Posts([type |-> "tx", socket |-> s]) /\ UNCHANGED udpFree
     \/ ~EventRoom /\ UNCHANGED udpEvents /\ udpFree' = udpFree + 1
  /\ Returns(s)
  /\ UNCHANGED <<sockets, selectGroup, arrived, delivered>>

(***************************************************************************)
(* FreeRTOS_recvfrom.                                                      *)
(***************************************************************************)
ReceiveFrom(s) ==
  /\ UserAt(s, "idle") /\ IsBound(s)
  /\ s \in ZeroCopyReader => ~udpCalls[s].holds
  /\ \E limited \in (IF s \in ZeroCopyReader THEN {FALSE} ELSE BOOLEAN) :
       udpCalls' = [udpCalls EXCEPT ![s].limited = limited,
                                    ![s].at = IF sockets[s].waiting # <<>> THEN "take" ELSE "wait"]
  /\ UNCHANGED <<sockets, selectGroup, udpEvents, udpFree, arrived, delivered>>

(* Woken by a datagram, or by one that was taken without waiting for it.   *)
WaitForData(s) ==
  /\ UserAt(s, "wait") /\ "receive" \in sockets[s].events
  /\ sockets' = [sockets EXCEPT ![s].events = @ \ {"receive"}]
  /\ UserGoes(s, "count")
  /\ UNCHANGED <<selectGroup, udpEvents, udpFree, arrived, delivered>>

WaitExpires(s) ==
  /\ UserAt(s, "wait") /\ udpCalls[s].limited
  /\ udpCalls' = [udpCalls EXCEPT ![s].at = "count", ![s].expired = TRUE]
  /\ UNCHANGED <<sockets, selectGroup, udpEvents, udpFree, arrived, delivered>>

CountData(s) ==
  /\ UserAt(s, "count")
  /\ IF sockets[s].waiting # <<>> THEN UserGoes(s, "take")
     ELSE IF udpCalls[s].expired THEN Returns(s) ELSE UserGoes(s, "wait")
  /\ UNCHANGED <<sockets, selectGroup, udpEvents, udpFree, arrived, delivered>>

TakeDatagram(s) ==
  /\ UserAt(s, "take")
  /\ sockets' = [sockets EXCEPT ![s].waiting = Tail(@)]
  /\ delivered' = [delivered EXCEPT ![s] = Append(@, Head(sockets[s].waiting).n)]
  /\ udpCalls' = [udpCalls EXCEPT ![s].at = "copy", ![s].len = Head(sockets[s].waiting).len]
  /\ UNCHANGED <<selectGroup, udpEvents, udpFree, arrived>>

(* Without FREERTOS_ZERO_COPY the data is copied and the buffer released.  *)
(* With it the buffer is the user's, and prvUDPRXTask, which releases it   *)
(* with FreeRTOS_ReleaseUDPPayloadBuffer, goes on if the length is not     *)
(* positive.                                                               *)
Receive(s) ==
  /\ UserAt(s, "copy")
  /\ IF s \in ZeroCopyReader /\ udpCalls[s].len > 0
     THEN udpCalls' = [udpCalls EXCEPT ![s] = [Idle EXCEPT !.holds = TRUE]] /\ UNCHANGED udpFree
     ELSE /\ Returns(s)
          /\ udpFree' = IF s \in ZeroCopyReader THEN udpFree ELSE udpFree + 1
  /\ UNCHANGED <<sockets, selectGroup, udpEvents, arrived, delivered>>

ReleaseUDPPayloadBuffer(s) ==
  /\ UserAt(s, "idle") /\ udpCalls[s].holds
  /\ udpCalls' = [udpCalls EXCEPT ![s].holds = FALSE]
  /\ udpFree' = udpFree + 1
  /\ UNCHANGED <<sockets, selectGroup, udpEvents, arrived, delivered>>

(***************************************************************************)
(* FreeRTOS_FD_SET, FreeRTOS_FD_CLR and FreeRTOS_select, for reading.      *)
(***************************************************************************)
FdSet(s) ==
  /\ UserAt(s, "idle") /\ s \in Selectors /\ sockets[s].state \in {"created", "bound"}
  /\ sockets' = [sockets EXCEPT ![s].interested = TRUE]
  /\ udpCalls' = [udpCalls EXCEPT ![s].at = "joinSet", ![s].next = "none"]
  /\ UNCHANGED <<selectGroup, udpEvents, udpFree, arrived, delivered>>

JoinSet(s) ==
  /\ UserAt(s, "joinSet")
  /\ sockets' = [sockets EXCEPT ![s].inSet = TRUE]
  /\ UserGoes(s, "find")
  /\ UNCHANGED <<selectGroup, udpEvents, udpFree, arrived, delivered>>

FdClear(s) ==
  /\ UserAt(s, "idle") /\ s \in Selectors /\ sockets[s].inSet
  /\ sockets' = [sockets EXCEPT ![s].interested = FALSE, ![s].inSet = FALSE]
  /\ UNCHANGED <<selectGroup, udpCalls, udpEvents, udpFree, arrived, delivered>>

(* prvFindSelectedSocket: the IP task is asked to look.                    *)
AskIpTask(s) ==
  /\ UserAt(s, "find")
  /\ selectGroup' = [selectGroup EXCEPT ![s] = @ \ {"callIp"}]
  /\ UserGoes(s, "postFind")
  /\ UNCHANGED <<sockets, udpEvents, udpFree, arrived, delivered>>

PostFind(s) ==
  /\ UserAt(s, "postFind")
  /\ Posts([type |-> "select", socket |-> s])
  /\ UserGoes(s, "found")
  /\ UNCHANGED <<sockets, selectGroup, udpFree, arrived, delivered>>

IpTaskLooked(s) ==
  /\ UserAt(s, "found") /\ "callIp" \in selectGroup[s]
  /\ selectGroup' = [selectGroup EXCEPT ![s] = @ \ {"callIp"}]
  /\ IF udpCalls[s].next = "select" THEN UserGoes(s, "selected") ELSE Returns(s)
  /\ UNCHANGED <<sockets, udpEvents, udpFree, arrived, delivered>>

Select(s) ==
  /\ UserAt(s, "idle") /\ s \in Selectors /\ sockets[s].inSet
  /\ \E limited \in BOOLEAN :
       udpCalls' = [udpCalls EXCEPT ![s].at = "select", ![s].limited = limited, ![s].next = "select"]
  /\ UNCHANGED <<sockets, selectGroup, udpEvents, udpFree, arrived, delivered>>

SelectWakes(s) ==
  /\ UserAt(s, "select")
  /\ \/ "read" \in selectGroup[s] /\ UserGoes(s, "find")
     \/ udpCalls[s].limited /\ udpCalls' = [udpCalls EXCEPT ![s].at = "find", ![s].expired = TRUE]
  /\ UNCHANGED <<sockets, selectGroup, udpEvents, udpFree, arrived, delivered>>

SelectReturns(s) ==
  /\ UserAt(s, "selected")
  /\ IF selectGroup[s] # {} \/ udpCalls[s].expired THEN Returns(s) ELSE UserGoes(s, "select")
  /\ UNCHANGED <<sockets, selectGroup, udpEvents, udpFree, arrived, delivered>>

(***************************************************************************)
(* The network, and the IP task.                                           *)
(***************************************************************************)
NumbersUsed == {0} \cup (UNION {{arrived[s][i] : i \in DOMAIN arrived[s]} : s \in UdpSocks})
                   \cup {udpEvents[i].n : i \in {j \in DOMAIN udpEvents : udpEvents[j].type = "rx"}}

NextNumber == 1 + Max(NumbersUsed)

DatagramArrives ==
  /\ udpFree > 0 /\ NextNumber <= MaxDatagrams
  /\ \E port \in Ports, len \in PayloadLengths :
       Posts([type |-> "rx", port |-> port, len |-> len, n |-> NextNumber])
  /\ udpFree' = udpFree - 1
  /\ UNCHANGED <<sockets, selectGroup, udpCalls, arrived, delivered>>

TakesEvent(type) ==
  /\ udpEvents # <<>> /\ Head(udpEvents).type = type
  /\ udpEvents' = Tail(udpEvents)

(* xProcessReceivedUDPPacket; without a socket the buffer is released.     *)
IpReceives ==
  /\ TakesEvent("rx")
  /\ LET e == Head(udpEvents)
         to == BoundTo(e.port)
     IN  IF to = {}
         THEN udpFree' = udpFree + 1 /\ UNCHANGED <<sockets, selectGroup, arrived>>
         ELSE LET s == CHOOSE x \in to : TRUE
              IN  /\ sockets' = [sockets EXCEPT
                                  ![s].waiting = Append(@, [n |-> e.n, len |-> e.len]),
                                  ![s].events = @ \cup {"receive"}]
                  /\ selectGroup' =
                       IF sockets[s].inSet /\ sockets[s].interested
                       THEN [selectGroup EXCEPT ![s] = @ \cup {"read"}]
                       ELSE selectGroup
                  /\ arrived' = [arrived EXCEPT ![s] = Append(@, e.n)]
                  /\ UNCHANGED udpFree
  /\ UNCHANGED <<udpCalls, delivered>>

(* prvGetPrivatePortNumber tries random numbers, and fails if all of them  *)
(* are in use.                                                             *)
PrivatePorts == {p \in Ports : BoundTo(p) = {}} \cup (IF \E p \in Ports : BoundTo(p) # {} THEN {0} ELSE {})

(* A wrong variant, for contrast. *)
IpBindsAnyhow ==
  /\ TakesEvent("bind")
  /\ LET s == Head(udpEvents).socket
     IN  \E port \in (IF sockets[s].usLocalPort = 0 THEN Ports ELSE {sockets[s].usLocalPort}) :
           sockets' = [sockets EXCEPT ![s].usLocalPort = port, ![s].port = port, ![s].state = "bound",
                                      ![s].events = @ \cup {"bound"}]
  /\ UNCHANGED <<selectGroup, udpCalls, udpFree, arrived, delivered>>

(* vSocketBind, and vSocketWakeUpUser. *)
IpBinds ==
  /\ TakesEvent("bind")
  /\ LET s == Head(udpEvents).socket
     IN  \E port \in (IF sockets[s].usLocalPort = 0 THEN PrivatePorts ELSE {sockets[s].usLocalPort}) :
           sockets' =
             IF port = 0 \/ BoundTo(port) # {}
             THEN [sockets EXCEPT ![s].usLocalPort = 0, ![s].events = @ \cup {"bound"}]
             ELSE [sockets EXCEPT ![s].usLocalPort = port, ![s].port = port, ![s].state = "bound",
                                  ![s].events = @ \cup {"bound"}]
  /\ UNCHANGED <<selectGroup, udpCalls, udpFree, arrived, delivered>>

(* vSocketClose. *)
IpCloses ==
  /\ TakesEvent("close")
  /\ LET s == Head(udpEvents).socket
     IN  /\ udpFree' = udpFree + Len(sockets[s].waiting)
         /\ sockets' = [sockets EXCEPT ![s] = NewSocket("none")]
         /\ delivered' = [delivered EXCEPT ![s] = arrived[s]]
  /\ UNCHANGED <<selectGroup, udpCalls, arrived>>

(* vProcessGeneratedUDPPacket: the packet, or the question for the address *)
(* it goes to, is sent and the buffer released.                            *)
IpSends ==
  /\ TakesEvent("tx")
  /\ udpFree' = udpFree + 1
  /\ UNCHANGED <<sockets, selectGroup, udpCalls, arrived, delivered>>

(* vSocketSelect. *)
Readable(s) == IsBound(s) /\ sockets[s].inSet /\ sockets[s].interested /\ sockets[s].waiting # <<>>

IpSelects ==
  /\ TakesEvent("select")
  /\ LET s == Head(udpEvents).socket
     IN  selectGroup' = [selectGroup EXCEPT ![s] = {"callIp"} \cup IF Readable(s) THEN {"read"} ELSE {}]
  /\ UNCHANGED <<sockets, udpCalls, udpFree, arrived, delivered>>

UserStep(s) ==
  \/ CreateSocket(s) \/ Bind(s) \/ PostBind(s) \/ BindReturns(s) \/ Close(s) \/ OpenAgain(s)
  \/ SendTo(s) \/ BufferForSend(s) \/ PostData(s)
  \/ ReceiveFrom(s) \/ WaitForData(s) \/ WaitExpires(s) \/ CountData(s) \/ TakeDatagram(s)
  \/ Receive(s) \/ ReleaseUDPPayloadBuffer(s)
  \/ FdSet(s) \/ JoinSet(s) \/ FdClear(s) \/ AskIpTask(s) \/ PostFind(s) \/ IpTaskLooked(s)
  \/ Select(s) \/ SelectWakes(s) \/ SelectReturns(s)

UdpNext ==
  \/ \E s \in UdpSocks : UserStep(s)
  \/ DatagramArrives
  \/ IpReceives \/ IpBinds \/ IpCloses \/ IpSends \/ IpSelects

UdpSpec == UdpInit /\ [][UdpNext]_udpVars

(***************************************************************************)
(* Properties.                                                             *)
(***************************************************************************)
UdpTypeOK ==
  /\ \A s \in UdpSocks : sockets[s].state \in {"none", "created", "bound"} /\ sockets[s].port \in Ports \cup {0}
  /\ udpFree \in 0 .. UdpBuffers

IsPrefix1(p, q) == Len(p) <= Len(q) /\ \A i \in DOMAIN p : p[i] = q[i]

WaitingNumbers(s) == [i \in DOMAIN sockets[s].waiting |-> sockets[s].waiting[i].n]

Buffered(type) == Cardinality({i \in DOMAIN udpEvents : udpEvents[i].type = type})

(* The user of a socket that waits for a datagram, or for the sockets it   *)
(* selected, is not left waiting when one is there, although the bits are  *)
(* set by a task that looks at neither (FreeRTOS_recvfrom,                 *)
(* FreeRTOS_select, xProcessReceivedUDPPacket); what it receives is what   *)
(* was queued for its port, once and in order; and no two sockets have one *)
(* port (vSocketBind).                                                     *)
DatagramsReachTheirUser ==
  \A s \in UdpSocks :
    /\ UserAt(s, "wait") /\ sockets[s].waiting # <<>> => "receive" \in sockets[s].events
    /\ s \in Selectors /\ UserAt(s, "select") /\ Readable(s) => "read" \in selectGroup[s]
    /\ arrived[s] = delivered[s] \o WaitingNumbers(s)
    /\ IsBound(s) => BoundTo(sockets[s].port) = {s}

(* The buffers queued for a socket, and those its user has in hand.        *)
HeldFor(s) ==
  Len(sockets[s].waiting) + (IF UserAt(s, "copy") \/ UserAt(s, "postData") THEN 1 ELSE 0)
                          + (IF udpCalls[s].holds THEN 1 ELSE 0)

(* Every network buffer is free, in an event for the IP task, queued for a *)
(* socket, or in the hands of a user that will release it or pass it on:   *)
(* none is lost and none released twice, also when the queue is full and   *)
(* when a socket is closed (FreeRTOS_sendto, FreeRTOS_recvfrom,            *)
(* vSocketClose).                                                          *)
BuffersAccountedFor ==
  udpFree + Buffered("rx") + Buffered("tx") + SumFunction([s \in UdpSocks |-> HeldFor(s)]) = UdpBuffers
=============================================================================
