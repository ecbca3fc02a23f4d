---------------------------- MODULE MCHubForward ----------------------------
(***************************************************************************)
(* Instances of HubForward for TLC: two rings, scaled down with the tail   *)
(* below which the reader goes back to the start.  In the first ring it    *)
(* goes back at every unit but the one at the start.                       *)
(***************************************************************************)
EXTENDS HubForward

MCBufSize == [k \in Rings |-> 18 + 4 * k]
=============================================================================
