--------------------------- MODULE FrameChannel ---------------------------
(***************************************************************************)
(* What a ring between two cores is for: frames come out whole, once each, *)
(* in the order in which they went in.                                     *)
(***************************************************************************)
EXTENDS Sequences

CONSTANTS Payloads,   \* what a frame can carry
          Corrupt     \* what no reader ever receives, but for the start

VARIABLES queue,      \* frames written and not yet read
          received    \* the last frame read

Init == queue = <<>> /\ received = Corrupt

Put == /\ \E d \in Payloads : queue' = Append(queue, d)
       /\ UNCHANGED received

Get == /\ queue # <<>>
       /\ received' = Head(queue)
       /\ queue' = Tail(queue)

Spec == Init /\ [][Put \/ Get]_<<queue, received>>
=============================================================================
