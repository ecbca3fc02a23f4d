--------------------------- MODULE MCKernelQueue ---------------------------
(***************************************************************************)
(* Instances of KernelQueue for TLC: which task makes which calls.         *)
(***************************************************************************)
EXTENDS KernelQueue, TLC

CONSTANTS a, b, c, x, y

MCTasks == {a, b, c}
MCPriority == [t \in Tasks |-> IF t = a THEN 1 ELSE 2]

Send(i, pos, ticks) == [op |-> "send", item |-> i, pos |-> pos, ticks |-> ticks]
Receive(ticks) == [op |-> "receive", item |-> NoItem, pos |-> "back", ticks |-> ticks]
PeekCall(ticks) == [op |-> "peek", item |-> NoItem, pos |-> "back", ticks |-> ticks]
ResetCall == [op |-> "reset", item |-> NoItem, pos |-> "back", ticks |-> "zero"]
AbortCall == [op |-> "abort", item |-> NoItem, pos |-> "back", ticks |-> "zero"]

(* One sender, to the front, a receiver, and a task that peeks, resets the *)
(* queue and aborts the wait of the others.                                *)
TwoReceivers ==
  (a :> {Send(x, "front", "max")})
  @@ (b :> {Receive("max")})
  @@ (c :> {PeekCall("finite"), ResetCall, AbortCall})

(* A task that sends and receives with limited waits and one that receives *)
(* without limit, for the liveness run.                                    *)
Live ==
  (a :> {Send(x, "back", "finite"), Receive("finite"), Send(y, "front", "zero")})
  @@ (b :> {Receive("max"), Send(x, "back", "max")})

(* A receiver that waits without limit, and a task that sends without      *)
(* waiting, receives without waiting and aborts.                           *)
Aborter ==
  (a :> {Receive("max")})
  @@ (b :> {Send(x, "back", "zero"), Receive("zero"), AbortCall})

(* Two senders and a task that resets the queue.                           *)
Resetter ==
  (a :> {Send(x, "back", "max")})
  @@ (b :> {Send(x, "back", "max")})
  @@ (c :> {ResetCall})

(* A receiver that blocks while interrupts post.                           *)
OneReceiver == (a :> {Receive("max")})

PairOfTasks == {a, b}
OneTask == {a}
=============================================================================
