--------------------------- MODULE TcpConnection ---------------------------
(***************************************************************************)
(* The life of the TCP sockets of a host: a listening socket, the sockets  *)
(* that the IP task makes for its clients, a socket that connects to       *)
(* another host, and the tasks that use them.  Of FreeRTOS_TCP_IP.c and    *)
(* FreeRTOS_Sockets.c in freeRTOS/FreeRTOS_UDP_Source; the windows are in  *)
(* TcpWindow, of which a packet brings the answers along.                  *)
(*                                                                         *)
(* The other hosts send any packet at any time.  The IP task handles one   *)
(* packet, event or socket without being interrupted by the users of the   *)
(* sockets, whose priority is lower; it interrupts them between any two    *)
(* accesses to a socket.                                                   *)
(***************************************************************************)
EXTENDS Integers, Sequences, FiniteSets

CONSTANTS
  Listener, Client,  \* two sockets, on different ports,
  Children,          \* and those that FreeRTOS_socket can make for the clients of the listener
  Remotes,           \* addresses and ports of other hosts
  Acceptor, Caller,  \* the tasks that use the listener and the client
  DataUsers,         \* those of them that also send and receive, and shut connections down
  Backlog,           \* usBacklog
  EventQueueLength,  \* ipconfigEVENT_QUEUE_LENGTH
  SynCount,          \* how often a SYN is sent, 3
  KeepAliveCount,    \* and a probe, 3
  Packets,           \* the packets that arrive for the port of the listener and of the client
  Reconnects,        \* whether the client calls connect on a socket it used before
  ListenerCloses     \* whether the acceptor closes the listener

ASSUME ConnectionAssumption ==
  /\ Listener # Client /\ Listener \notin Children /\ Client \notin Children /\ IsFiniteSet(Children)
  /\ "none" \notin {Listener, Client} \cup Children \cup Remotes /\ Acceptor # Caller
  /\ {Backlog, EventQueueLength, SynCount} \subseteq Nat \ {0} /\ KeepAliveCount \in Nat
  /\ Reconnects \in BOOLEAN /\ ListenerCloses \in BOOLEAN
  /\ DataUsers \subseteq {Acceptor, Caller}
  /\ \A port \in {Listener, Client} :
       Packets[port] \subseteq [flags : SUBSET {"SYN", "ACK", "FIN", "RST"}, data : BOOLEAN,
                                fits : BOOLEAN, acksData : BOOLEAN, acksFin : BOOLEAN, complete : BOOLEAN]

VARIABLES
  sockets,
  ipQueue,           \* xNetworkEventQueue, of which the IP task takes the first
  users              \* where each task is, the socket of its call, what it read, the sockets it holds

connectionVars == <<sockets, ipQueue, users>>

Sockets == {Listener, Client} \cup Children
NoSocket == "none"

(***************************************************************************)
(* Sockets.                                                                *)
(***************************************************************************)
(* eTCP_STATE; eFIN_WAIT_2, eCLOSING and eTIME_WAIT are never entered.     *)
AtLeastEstablished == {"ESTABLISHED", "FIN_WAIT_1", "CLOSE_WAIT", "LAST_ACK"}
NowConnected(state) == state \in AtLeastEstablished \ {"CLOSE_WAIT"}
Active(state) == state \notin {"CLOSED", "CLOSE_WAIT"}

(* FreeRTOS_socket: bits are the names of those that are set, timer says   *)
(* whether usTimeout is not zero, aged whether more than 30 seconds passed *)
(* since the last activity, events are xEventBits and group what is set in *)
(* xEventGroup; sent and unsent describe the data in the streams.          *)
NewSocket ==
  [state |-> "CLOSED", remote |-> NoSocket, peer |-> NoSocket, children |-> 0,
   bits |-> {}, timer |-> FALSE, aged |-> FALSE, repeats |-> 0, probes |-> 0,
   events |-> {}, group |-> {}, received |-> FALSE, unsent |-> FALSE, unacked |-> FALSE]

NotASocket == [NewSocket EXCEPT !.state = "FREE"]

Exists(s) == sockets[s].state # "FREE"

Port(s) == IF s = Client THEN Client ELSE Listener

(* The host as the IP task sees and changes it.                            *)
Host == [sock |-> sockets, queue |-> ipQueue]
IsHost(h) == sockets' = h.sock /\ ipQueue' = h.queue

With(h, s, socket) == [h EXCEPT !.sock[s] = socket]

SetBits(h, s, names) == With(h, s, [h.sock[s] EXCEPT !.bits = @ \cup names])
Has(h, s, name) == name \in h.sock[s].bits

(* xSendEventStructToIPTask without waiting: a full queue refuses.         *)
Posted(h, event) == IF Len(h.queue) < EventQueueLength THEN [h EXCEPT !.queue = Append(@, event)] ELSE h

(* vSocketWakeUpUser *)
WakeUpUser(h, s) == With(h, s, [h.sock[s] EXCEPT !.group = @ \cup h.sock[s].events, !.events = {}])

(* prvTCPTouchSocket *)
Touched(socket) == [socket EXCEPT !.aged = FALSE, !.probes = 0]

(* A wrong variant, for contrast: it counts those that were connected.     *)
SetSocketCountIfConnected(h, s) ==
  IF Port(s) = Listener /\ h.sock[Listener].children > 0 /\ h.sock[s].state \in AtLeastEstablished
  THEN [h EXCEPT !.sock[Listener].children = @ - 1]
  ELSE h

(* prvTCPSetSocketCount and vSocketClose *)
SetSocketCount(h, s) ==
  IF Port(s) = Listener /\ h.sock[Listener].state = "LISTEN" /\ h.sock[Listener].children > 0
  THEN [h EXCEPT !.sock[Listener].children = @ - 1]
  ELSE h

Closed(h, s) == With(SetSocketCount(h, s), s, NotASocket)

(***************************************************************************)
(* vTCPStateChange: what happens before the state is assigned.             *)
(***************************************************************************)
(* A socket made for a client is connected: the listener refers to it,     *)
(* unless it refers to another one that was not accepted yet.              *)
HandedOver(h, s) ==
  LET parent == h.sock[s].peer
      told == With(h, parent, [h.sock[parent] EXCEPT
                !.peer = IF @ = NoSocket THEN s ELSE @, !.events = @ \cup {"ACCEPT"}])
  IN  With(told, s, [told.sock[s] EXCEPT !.peer = NoSocket, !.bits = (@ \ {"PassQueued"}) \cup {"PassAccept"}])

BecomesConnected(h, s) ==
  IF Has(h, s, "PassQueued") THEN HandedOver(h, s)
                             ELSE With(h, s, [h.sock[s] EXCEPT !.events = @ \cup {"CONNECT"}])

(* What the comment at this place says, for contrast.                      *)
LosesAttention(h, s, state) ==
  With(h, s, [h.sock[s] EXCEPT !.events = @ \cup {"CLOSED"}, !.timer = @ /\ Active(state)])

(* The state that is looked at is the one that the socket leaves.          *)
LosesConnection(h, s, state) ==
  With(h, s, [h.sock[s] EXCEPT !.events = @ \cup {"CLOSED"}, !.timer = @ /\ Active(h.sock[s].state)])

(* A RST for a socket that nobody owns yet.                                *)
NobodyOwns(h, s) == Has(h, s, "PassQueued") \/ Has(h, s, "PassAccept")

StateChange(h, s, state) ==
  LET before == NowConnected(h.sock[s].state)
      after == NowConnected(state)
      told == CASE ~before /\ after -> BecomesConnected(h, s)
                [] before /\ ~after -> LosesConnection(h, s, state)
                [] before = after /\ state = "CLOSED" /\ NobodyOwns(h, s) -> Posted(h, <<"close", s>>)
                [] OTHER -> h
      entered == With(told, s, Touched([told.sock[s] EXCEPT !.state = state]))
  IN  IF ~before /\ after /\ Has(h, s, "PassQueued") THEN WakeUpUser(entered, h.sock[s].peer) ELSE entered

(***************************************************************************)
(* Sending.                                                                *)
(***************************************************************************)
(* prvTCPPrepareSend; buffer: there is one for the data that wait; idle:   *)
(* the time for the next probe has come.                                   *)
DataSent(h, s) ==
  LET last == Has(h, s, "CloseRequested") /\ ~Has(h, s, "FinSent")
  IN  With(h, s, [h.sock[s] EXCEPT !.unsent = FALSE, !.bits = IF last THEN @ \cup {"FinSent"} ELSE @])

ShutDown(h, s) ==
  IF Has(h, s, "UserShutdown") /\ ~h.sock[s].unacked
  THEN StateChange(With(h, s, [h.sock[s] EXCEPT !.bits = (@ \ {"UserShutdown"}) \cup {"FinSent"}]), s, "FIN_WAIT_1")
  ELSE h

KeptAlive(h, s, idle, silent) ==
  CASE h.sock[s].probes > KeepAliveCount -> StateChange(h, s, "CLOSE_WAIT")
    [] h.sock[s].probes <= KeepAliveCount /\ idle /\ silent /\ h.sock[s].state = "ESTABLISHED" ->
         With(h, s, [h.sock[s] EXCEPT !.probes = @ + 1])
    [] OTHER -> h

PrepareSend(h, s, buffer, idle) ==
  LET waits == h.sock[s].unsent
      sent == IF waits /\ buffer THEN DataSent(h, s) ELSE h
  IN  IF (waits /\ ~buffer) \/ h.sock[s].state # "ESTABLISHED" THEN sent
      ELSE KeptAlive(ShutDown(sent, s), s, idle, ~waits)

(* prvTCPPrepareConnect; known: the ARP cache has the remote address.      *)
PrepareConnect(h, s, known) ==
  IF known THEN SetBits(With(h, s, [h.sock[s] EXCEPT !.repeats = 0]), s, {"ConnPrepared"})
           ELSE With(h, s, [h.sock[s] EXCEPT !.repeats = @ + 1])

(* prvTCPSendPacket *)
TCPSendPacket(h, s, buffer, idle, known) ==
  IF h.sock[s].state # "CONNECT_SYN" THEN PrepareSend(h, s, buffer, idle)
  ELSE IF h.sock[s].repeats >= SynCount THEN StateChange(h, s, "CLOSE_WAIT")
  ELSE LET ready == IF Has(h, s, "ConnPrepared") THEN h ELSE PrepareConnect(h, s, known)
       IN  IF Has(ready, s, "ConnPrepared") THEN [ready EXCEPT !.sock[s].repeats = @ + 1] ELSE ready

(* prvTCPNextTimeout never leaves a zero.                                  *)
NextTimeout(h, s) == [h EXCEPT !.sock[s].timer = TRUE]

(* prvTCPStatusAgeCheck: a socket without an owner is closed at once.      *)
Protected(state) == state \notin {"ESTABLISHED", "CLOSED", "LISTEN", "CLOSE_WAIT"}

StatusAgeCheck(h, s) ==
  IF ~(Protected(h.sock[s].state) /\ h.sock[s].aged) THEN h
  ELSE LET changed == StateChange(h, s, "CLOSE_WAIT")
       IN  IF Has(changed, s, "PassQueued") THEN Closed(changed, s) ELSE changed

(* xTCPSocketCheck; held: an acknowledgement was delayed, and is sent now. *)
SocketCheck(h, s, held, buffer, idle, known) ==
  IF held THEN NextTimeout(h, s)
  ELSE LET sent == IF h.sock[s].state \in AtLeastEstablished \cup {"CONNECT_SYN"}
                   THEN TCPSendPacket(h, s, buffer, idle, known) ELSE h
       IN  StatusAgeCheck(NextTimeout(sent, s), s)

(***************************************************************************)
(* Packets.  fits: its number is the one that is expected (for a RST or    *)
(* FIN), or it acknowledges the SYN; acksData and acksFin: it acknowledges *)
(* all data, and the FIN; complete: no data is missing before its end.     *)
(***************************************************************************)
(* prvTCPHandleFin *)
FinAnswered(h, s, p) ==
  LET acked == Has(h, s, "FinAcked") \/ (Has(h, s, "FinSent") /\ p.acksFin)
      noted == SetBits(h, s, {"FinSent"} \cup (IF acked THEN {"FinAcked"} ELSE {}))
  IN  CASE ~acked -> StateChange(noted, s, "LAST_ACK")
        [] acked /\ Has(h, s, "FinRecv") -> StateChange(noted, s, "CLOSE_WAIT")
        [] OTHER -> noted

(* prvHandleSynReceived *)
Expected(state) == IF state = "CONNECT_SYN" THEN {"SYN", "ACK"} ELSE {"ACK"}

SynReceived(h, s, p) == StateChange(h, s, IF p.flags = Expected(h.sock[s].state) THEN "ESTABLISHED" ELSE "CLOSE_WAIT")

(* prvHandleEstablished *)
AckTaken(h, s, p) ==
  IF "ACK" \in p.flags /\ p.acksData /\ h.sock[s].unacked /\ ~h.sock[s].unsent
  THEN With(h, s, [h.sock[s] EXCEPT !.unacked = FALSE, !.events = @ \cup {"SEND"}])
  ELSE h

MayClose(h, s, p) ==
  /\ Has(h, s, "FinAccepted") \/ "FIN" \in p.flags
  /\ Has(h, s, "FinSent") \/ (p.complete /\ p.fits /\ ~h.sock[s].unacked)

EstablishedHandled(h, s, p, buffer, idle) ==
  LET taken == AckTaken(h, s, p)
  IN  IF MayClose(taken, s, p) THEN FinAnswered(SetBits(taken, s, {"FinAccepted"}), s, p)
                               ELSE PrepareSend(taken, s, buffer, idle)

(* prvStoreRxData, lTCPAddRxdata: the user is told of data.                *)
DataStored(h, s, p) ==
  IF p.data /\ p.complete /\ h.sock[s].state \in AtLeastEstablished \cup {"SYN_RECEIVED"}
  THEN With(h, s, [h.sock[s] EXCEPT !.received = TRUE, !.events = @ \cup {"RECEIVE"}])
  ELSE h

FinNoted(h, s, p) ==
  IF "FIN" \in p.flags /\ ~Has(h, s, "FinRecv")
  THEN SetBits(h, s, {"FinRecv"} \cup (IF Has(h, s, "FinSent") THEN {} ELSE {"FinLast"}))
  ELSE h

(* prvTCPHandleState: a SYN that is repeated is answered again.            *)
StateHandled(h, s, p, buffer, idle) ==
  LET stored == DataStored(h, s, p)
      again == IF stored.sock[s].state = "SYN_RECEIVED" /\ p.flags = {"SYN"}
               THEN StateChange(stored, s, "SYN_FIRST") ELSE stored
      noted == FinNoted(again, s, p)
      state == noted.sock[s].state
  IN  CASE state = "SYN_FIRST" -> StateChange(noted, s, "SYN_RECEIVED")
        [] state \in {"CONNECT_SYN", "SYN_RECEIVED"} -> SynReceived(noted, s, p)
        [] state = "ESTABLISHED" -> EstablishedHandled(noted, s, p, buffer, idle)
        [] state \in {"LAST_ACK", "FIN_WAIT_1"} -> FinAnswered(noted, s, p)
        [] OTHER -> noted

(* prvTCPSocketCopy and prvHandleListen *)
SocketCopied(h, s) ==
  [h EXCEPT !.sock[s] = [NewSocket EXCEPT !.bits = {"PassQueued"}, !.peer = Listener],
            !.sock[Listener].children = @ + 1]

HandleListen(h, s, remote) ==
  LET copied == SocketCopied(h, s)
  IN  StateChange([copied EXCEPT !.sock[s].remote = remote], s, "SYN_FIRST")

(* xProcessReceivedTCPPacket, its second half: options are left out.       *)
Accepted(h, s, p, buffer, idle) ==
  NextTimeout(StateHandled([h EXCEPT !.sock[s] = Touched(@)], s, p, buffer, idle), s)

(* Its first half, for a socket that does not listen.                      *)
Reset(h, s, p) == IF p.fits THEN StateChange(h, s, "CLOSED") ELSE h

Received(h, s, p, buffer, idle) ==
  LET heard == [h EXCEPT !.sock[s].repeats = 0]
  IN  CASE "RST" \in p.flags -> Reset(heard, s, p)
        [] p.flags = {"SYN"} /\ h.sock[s].state \in AtLeastEstablished -> heard
        [] OTHER -> Accepted(heard, s, p, buffer, idle)

(***************************************************************************)
(* The IP task.                                                            *)
(***************************************************************************)
ConnectionInit ==
  /\ sockets = [s \in Sockets |-> IF s \in Children THEN NotASocket ELSE NewSocket]
  /\ ipQueue = <<>>
  /\ \E working \in SUBSET {Acceptor, Caller} :
       users = [t \in {Acceptor, Caller} |-> [at |-> "idle", on |-> NoSocket, read |-> {},
                  holds |-> IF t \notin working THEN {} ELSE IF t = Acceptor THEN {Listener} ELSE {Client}]]

(* pxTCPSocketLookup: a socket of the remote end, or else the listener.    *)
Lookup(port, remote) ==
  LET own == {s \in Sockets : Port(s) = port /\ sockets[s].state \notin {"FREE", "LISTEN"} /\ sockets[s].remote = remote}
  IN  IF own # {} THEN own ELSE {s \in {Listener} : port = Listener /\ sockets[s].state = "LISTEN"}

(* A packet of a client that has no socket yet, when there may be another. *)
ReceiveSyn(remote, p) ==
  /\ Lookup(Listener, remote) = {Listener} /\ p.flags = {"SYN"}
  /\ sockets[Listener].children < Backlog
  /\ \E s \in Children :
       /\ ~Exists(s)
       /\ IsHost(Accepted(HandleListen(Host, s, remote), s, p, FALSE, FALSE))
  /\ UNCHANGED users

(* Whether there is a buffer for the data that wait, whether the time for  *)
(* a probe has come, and whether the ARP cache has the remote address.     *)
BufferChoices(s) == IF sockets[s].unsent THEN BOOLEAN ELSE {TRUE}
Silences(s) == IF sockets[s].state = "ESTABLISHED" THEN BOOLEAN ELSE {FALSE}
ArpAnswers(s) == IF sockets[s].state = "CONNECT_SYN" THEN BOOLEAN ELSE {TRUE}

ReceivePacket(port, remote, p) ==
  /\ \E s \in Lookup(port, remote) :
       /\ sockets[s].state # "LISTEN" /\ Active(sockets[s].state)
       /\ \E h \in {Received(Host, s, p, buffer, idle) : buffer \in BufferChoices(s), idle \in Silences(s)} : IsHost(h)
  /\ UNCHANGED users

(* xTCPTimerCheck: a socket whose time has come is looked at; the user of  *)
(* one with events is woken when the IP task is about to sleep.            *)
Woken(h, s, sleep) == IF sleep /\ h.sock[s].state # "FREE" THEN WakeUpUser(h, s) ELSE h

TimeUp(h, s) == [h EXCEPT !.sock[s].timer = FALSE]

TimerCheck(s, sleep) ==
  /\ Exists(s) /\ sockets[s].timer
  /\ \/ \E h \in {SocketCheck(TimeUp(Host, s), s, held, buffer, idle, known) :
                   held \in Silences(s), buffer \in BufferChoices(s), idle \in Silences(s),
                   known \in ArpAnswers(s)} : IsHost(Woken(h, s, sleep))
     \/ sleep /\ IsHost(WakeUpUser(Host, s))
  /\ UNCHANGED users

(* eSocketCloseEvent *)
HandleClose ==
  /\ ipQueue # <<>> /\ Head(ipQueue)[1] = "close"
  /\ IsHost(Closed([Host EXCEPT !.queue = Tail(@)], Head(ipQueue)[2]))
  /\ UNCHANGED users

(* eTCPAcceptEvent and xTCPCheckNewClient: the first socket that may be    *)
(* accepted, in the order of the list, which is any.                       *)
Acceptable == {s \in Sockets : Port(s) = Listener /\ "PassAccept" \in sockets[s].bits}

CheckNewClient ==
  /\ ipQueue # <<>> /\ Head(ipQueue)[1] = "accept"
  /\ LET taken == [Host EXCEPT !.queue = Tail(@)]
     IN \/ \E s \in Acceptable :
             IsHost(WakeUpUser(With(taken, Listener,
               [sockets[Listener] EXCEPT !.peer = s, !.events = @ \cup {"ACCEPT"}]), Listener))
        \/ Acceptable = {} /\ IsHost(taken)
  /\ UNCHANGED users

(* More than ipconfigTCP_HANG_PROTECTION_TIME without activity.            *)
TimePasses(s) ==
  /\ Protected(sockets[s].state) /\ Exists(s) /\ ~sockets[s].aged
  /\ sockets' = [sockets EXCEPT ![s].aged = TRUE]
  /\ UNCHANGED <<ipQueue, users>>

(***************************************************************************)
(* The users.                                                              *)
(***************************************************************************)
Continue(t, at) == users' = [users EXCEPT ![t].at = at]
Call(t, s, at) == users' = [users EXCEPT ![t].at = at, ![t].on = s]
Idle(t) == users[t].at = "idle"
At(t, at) == users[t].at = at
On(t) == sockets[users[t].on]

(* FreeRTOS_listen *)
Listen(t) ==
  /\ Idle(t) /\ Listener \in users[t].holds /\ sockets[Listener].state \in {"CLOSED", "CLOSE_WAIT"}
  /\ IsHost(StateChange(Host, Listener, "LISTEN"))
  /\ UNCHANGED users

(* FreeRTOS_accept: what it does with the scheduler suspended,             *)
Accept(t) ==
  /\ Idle(t) /\ Listener \in users[t].holds /\ sockets[Listener].state = "LISTEN"
  /\ Call(t, Listener, "accept")
  /\ UNCHANGED <<sockets, ipQueue>>

TakeClient(t) ==
  LET found == sockets[Listener].peer
      passed == {s \in Sockets : s = found /\ "PassAccept" \in sockets[s].bits}
  IN /\ At(t, "accept")
     /\ sockets' = [s \in Sockets |->
          IF s = Listener THEN [sockets[s] EXCEPT !.peer = NoSocket]
          ELSE IF s \in passed THEN [sockets[s] EXCEPT !.bits = @ \ {"PassAccept"}] ELSE sockets[s]]
     /\ IF passed = {} THEN Continue(t, "in accept")
                       ELSE users' = [users EXCEPT ![t].at = "ask", ![t].on = found]
     /\ UNCHANGED ipQueue

(* and the question for another client.                                    *)
AskForNext(t) ==
  /\ At(t, "ask") /\ Len(ipQueue) < EventQueueLength
  /\ ipQueue' = Append(ipQueue, <<"accept", Listener>>)
  /\ users' = [users EXCEPT ![t].at = "idle", ![t].holds = @ \cup {users[t].on}]
  /\ UNCHANGED sockets

(* FreeRTOS_connect and prvTCPConnectStart                                 *)
Connect(t, remote) ==
  /\ Idle(t) /\ Client \in users[t].holds /\ sockets[Client].state \in {"CLOSED", "CLOSE_WAIT"}
  /\ sockets[Client].remote = NoSocket \/ Reconnects
  /\ IsHost(StateChange(With(Host, Client, [sockets[Client] EXCEPT
       !.bits = @ \ {"ConnPrepared"}, !.repeats = 0, !.remote = remote]), Client, "CONNECT_SYN"))
  /\ Call(t, Client, "connect, timer")

(* usTimeout = 1, by connect, send and shutdown.                           *)
SetTimeout(t) ==
  /\ At(t, "connect, timer") \/ At(t, "timer")
  /\ sockets' = [sockets EXCEPT ![users[t].on].timer = TRUE]
  /\ Continue(t, IF At(t, "timer") THEN "idle" ELSE "connect")
  /\ UNCHANGED ipQueue

CheckConnected(t) ==
  /\ At(t, "connect")
  /\ IF NowConnected(On(t).state) THEN Continue(t, "idle") ELSE Continue(t, "in connect")
  /\ UNCHANGED <<sockets, ipQueue>>

(* A task uses a socket that is connected, or was when it got it.          *)
Usable(t, s) ==
  /\ t \in DataUsers /\ Idle(t) /\ s \in users[t].holds /\ s # Listener
  /\ sockets[s].remote # NoSocket /\ sockets[s].state # "CONNECT_SYN"

(* FreeRTOS_recv: the data, and then the state.                            *)
Recv(t, s) ==
  /\ Usable(t, s) /\ Call(t, s, "recv")
  /\ UNCHANGED <<sockets, ipQueue>>

TakeData(t) ==
  /\ At(t, "recv")
  /\ sockets' = [sockets EXCEPT ![users[t].on].received = FALSE]
  /\ Continue(t, IF On(t).received THEN "idle" ELSE "recv, state")
  /\ UNCHANGED ipQueue

CheckState(t) ==
  /\ At(t, "recv, state")
  /\ IF Active(On(t).state) THEN Continue(t, "in recv") ELSE Continue(t, "idle")
  /\ UNCHANGED <<sockets, ipQueue>>

(* FreeRTOS_send and prvTCPSendCheck; last: the option bCloseAfterSend.    *)
Send(t, s) ==
  /\ Usable(t, s) /\ Active(sockets[s].state) /\ "FinSent" \notin sockets[s].bits
  /\ Call(t, s, "send")
  /\ UNCHANGED <<sockets, ipQueue>>

WriteData(t, last) ==
  /\ At(t, "send")
  /\ IF On(t).unacked THEN Continue(t, "in send") /\ UNCHANGED sockets
     ELSE /\ sockets' = [sockets EXCEPT ![users[t].on].unacked = TRUE, ![users[t].on].unsent = TRUE,
                          ![users[t].on].bits = IF last THEN @ \cup {"CloseRequested"} ELSE @]
          /\ Continue(t, "timer")
  /\ UNCHANGED ipQueue

(* FreeRTOS_shutdown: the bits are read, changed and written, as a byte or *)
(* a word; in between the IP task may change those in the other bytes.     *)
Shutdown(t, s) ==
  /\ Usable(t, s) /\ sockets[s].state = "ESTABLISHED"
  /\ users' = [users EXCEPT ![t].at = "shutdown", ![t].on = s, ![t].read = sockets[s].bits]
  /\ UNCHANGED <<sockets, ipQueue>>

StoreShutdown(t) ==
  /\ At(t, "shutdown")
  /\ \E others \in {users[t].read, On(t).bits} :
       sockets' = [sockets EXCEPT ![users[t].on].bits = others \cup {"UserShutdown"}]
  /\ users' = [users EXCEPT ![t].at = "timer", ![t].read = {}]
  /\ UNCHANGED ipQueue

(* FreeRTOS_closesocket; a socket that listens is kept, as a rule.         *)
CloseSocket(t, s) ==
  /\ Idle(t) /\ s \in users[t].holds /\ (s = Listener => ListenerCloses)
  /\ Len(ipQueue) < EventQueueLength
  /\ ipQueue' = Append(ipQueue, <<"close", s>>)
  /\ users' = [users EXCEPT ![t].holds = @ \ {s}, ![t].on = NoSocket]
  /\ UNCHANGED sockets

(* xEventGroupWaitBits, for ever: the block times are portMAX_DELAY.       *)
Awaited(t) ==
  CASE At(t, "in accept") -> {"ACCEPT"}
    [] At(t, "in connect") -> {"CONNECT"}
    [] At(t, "in recv") -> {"RECEIVE", "CLOSED"}
    [] At(t, "in send") -> {"SEND", "CLOSED"}
    [] OTHER -> {}

Again(t) ==
  CASE At(t, "in accept") -> "accept" [] At(t, "in connect") -> "connect"
    [] At(t, "in recv") -> "recv" [] At(t, "in send") -> "send"

WakesUp(t) ==
  /\ Awaited(t) # {} /\ Awaited(t) \cap On(t).group # {}
  /\ sockets' = [sockets EXCEPT ![users[t].on].group = @ \ Awaited(t)]
  /\ Continue(t, Again(t))
  /\ UNCHANGED ipQueue

UserStep(t) ==
  \/ Listen(t) \/ Accept(t) \/ TakeClient(t) \/ AskForNext(t)
  \/ \E remote \in Remotes : Connect(t, remote)
  \/ SetTimeout(t) \/ CheckConnected(t)
  \/ TakeData(t) \/ CheckState(t) \/ StoreShutdown(t)
  \/ \E last \in BOOLEAN : WriteData(t, last)
  \/ \E s \in Sockets : Recv(t, s) \/ Send(t, s) \/ Shutdown(t, s) \/ CloseSocket(t, s)
  \/ WakesUp(t)

ConnectionNext ==
  \/ \E remote \in Remotes :
       \/ \E p \in Packets[Listener] : ReceiveSyn(remote, p)
       \/ \E port \in {Listener, Client} : \E p \in Packets[port] : ReceivePacket(port, remote, p)
  \/ \E s \in Sockets : TimePasses(s) \/ \E sleep \in BOOLEAN : TimerCheck(s, sleep)
  \/ HandleClose \/ CheckNewClient
  \/ \E t \in {Acceptor, Caller} : UserStep(t)

ConnectionSpec == ConnectionInit /\ [][ConnectionNext]_connectionVars

-----------------------------------------------------------------------------
(***************************************************************************)
(* Properties.                                                             *)
(***************************************************************************)
Queued(event) == \E i \in DOMAIN ipQueue : ipQueue[i] = event

(* The listener counts the sockets of its clients, never more than the     *)
(* backlog, whichever of them are refused, reset, closed by the hang       *)
(* protection or by a user; it refers to one that exists and may be        *)
(* accepted; and when there is such a socket, then it refers to one, or    *)
(* will be made to: a question is in the queue or about to be asked.       *)
(* (prvHandleListen, prvTCPSetSocketCount, vTCPStateChange,                *)
(* FreeRTOS_accept, xTCPCheckNewClient)                                    *)
ClientsAccountedFor ==
  LET listener == sockets[Listener]
  IN /\ listener.children = Cardinality({s \in Children : Exists(s)}) /\ listener.children <= Backlog
     /\ listener.peer # NoSocket => listener.peer \in Acceptable
     /\ Acceptable # {} =>
          listener.peer # NoSocket \/ Queued(<<"accept", Listener>>) \/ At(Acceptor, "ask")

(* usTimeout is not zero where the IP task has to look at a socket again:  *)
(* in every state that the hang protection limits, and while there are     *)
(* events that its user was not told of.  A task that sleeps in accept,    *)
(* recv or send while what it waits for is there will be told.             *)
(* (prvTCPNextTimeout, vTCPStateChange, xTCPTimerCheck, vSocketWakeUpUser) *)
Due(t) ==
  \/ At(t, "in accept") /\ sockets[Listener].peer # NoSocket
  \/ At(t, "in connect") /\ NowConnected(On(t).state)
  \/ At(t, "in recv") /\ (On(t).received \/ ~Active(On(t).state))
  \/ At(t, "in send") /\ ~On(t).unacked

AttentionPaid ==
  /\ \A s \in Sockets :
       Exists(s) /\ (Protected(sockets[s].state) \/ sockets[s].events # {}) =>
         sockets[s].timer \/ \E t \in {Acceptor, Caller} : At(t, "connect, timer") /\ users[t].on = s
  /\ \A t \in {Acceptor, Caller} : Due(t) => Awaited(t) \cap (On(t).group \cup On(t).events) # {}

(* A call of connect that sleeps can come to its end: the attempt goes on, *)
(* or the task will be told.  It does not hold: only a connection that is  *)
(* established sets the bit.  (FreeRTOS_connect, vTCPStateChange)          *)
ConnectEnds ==
  \A t \in {Caller} : At(t, "in connect") =>
    On(t).state = "CONNECT_SYN" \/ Awaited(t) \cap (On(t).group \cup On(t).events) # {}

(* A socket that nobody can accept yet may still become connected, or is   *)
(* about to be deleted.  It does not hold: a client that answers the       *)
(* SYN+ACK with something else than an ACK leaves it in CLOSE_WAIT, where  *)
(* the hang protection does not look.  (prvHandleSynReceived,              *)
(* prvTCPStatusAgeCheck)                                                   *)
OrphansTemporary ==
  \A s \in Children : "PassQueued" \in sockets[s].bits =>
    Protected(sockets[s].state) \/ Queued(<<"close", s>>)

(* A connection begins without a FIN of an earlier one.  It does not hold  *)
(* when connect is called again, which clears bConnPrepared only.          *)
(* (prvTCPConnectStart)                                                    *)
BeginsClean == sockets[Client].state = "CONNECT_SYN" => "FinSent" \notin sockets[Client].bits

(* A task does not sleep in send on a socket that is closed.  It does not  *)
(* hold: send does not look at the state after it was woken.               *)
(* (FreeRTOS_send)                                                         *)
SendEnds ==
  \A t \in {Acceptor, Caller} : At(t, "in send") /\ ~Active(On(t).state) =>
    Awaited(t) \cap (On(t).group \cup On(t).events) # {}
=============================================================================
