------------------------------- MODULE MCTcp -------------------------------
(***************************************************************************)
(* Instances of TcpWindow, TcpConnection and NameService for TLC, checked  *)
(* side by side: a behaviour runs one of them and leaves the others in     *)
(* their initial states.                                                   *)
(* The sockets of a server and those of a client meet in the queue of the  *)
(* IP task only, and are checked one after the other as well.              *)
(***************************************************************************)
EXTENDS TcpWindow, TcpConnection, NameService, TLC

CONSTANTS s1, s2, r1, r2, cl, n1, n2, n3, d1, d2

VARIABLE part

Interchangeable == Permutations({s1, s2})

Plain(flags) ==
  [flags |-> flags, data |-> FALSE, fits |-> TRUE, acksData |-> TRUE, acksFin |-> FALSE, complete |-> TRUE]

(* Those that end a connection, refuse it or answer its FIN; a client sends *)
(* the listener a SYN, and the peer of the client sends data, too.         *)
MCPackets ==
  [port \in {Listener, Client} |->
    {Plain({"SYN", "ACK"}), Plain({"ACK", "FIN"}), Plain({"ACK", "RST"}),
     [Plain({"ACK"}) EXCEPT !.acksFin = TRUE]}
    \cup IF port = Listener THEN {Plain({"SYN"})}
                            ELSE {[Plain({"ACK"}) EXCEPT !.data = TRUE, !.acksData = FALSE]}]

(* Bounds: the client connects to one of the other hosts, which sends data *)
(* when it acknowledged those of the client; of the two ways to end the    *)
(* connection its user takes one.                                          *)
ClientBound ==
  /\ sockets'[Client].remote \in {NoSocket, r1}
  /\ ~(sockets'[Client].received /\ sockets'[Client].unacked)
  /\ ~({"UserShutdown", "CloseRequested"} \subseteq sockets'[Client].bits)

(* Complete answers, with a record of another type before the address; one *)
(* that is cut off; and one to another request.                            *)
MCAnswers ==
  [id : {1}, address : {d1, d2}, ttl : {1}, records : {<<"other", "address">>}] \cup
  [id : {1}, address : {d1}, ttl : {1}, records : {<<"cut", "address">>}] \cup
  [id : {2}, address : {d1}, ttl : {1}, records : {<<"address">>}]

(* The task that has a socket, in each part. *)
Working == [window |-> {}, server |-> {Acceptor}, client |-> {Caller}, names |-> {}, racing |-> {}]

Started ==
  /\ WindowInit /\ ConnectionInit /\ NameInit
  /\ {t \in {Acceptor, Caller} : users[t].holds # {}} = Working[part]

Init == part \in {"window", "server", "client", "names"} /\ Started

(* For the run that shows what becomes of names after a race; without it a *)
(* behaviour ends there, since the property says nothing of what follows.  *)
RacingOnly == part = "racing" /\ Started

Next ==
  /\ raced => part # "names"
  /\ \/ part = "window" /\ WindowNext /\ UNCHANGED <<connectionVars, nameVars>>
     \/ part \in {"server", "client"} /\ ConnectionNext /\ ClientBound
        /\ UNCHANGED <<winVars, nameVars>>
     \/ part \in {"names", "racing"} /\ NameNext /\ UNCHANGED <<winVars, connectionVars>>
  /\ UNCHANGED part
=============================================================================
