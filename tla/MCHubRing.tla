----------------------------- MODULE MCHubRing -----------------------------
(***************************************************************************)
(* Instances of HubRing for TLC.  The sizes of the header, of the reserve  *)
(* and of the short tail are those of the code; the ring and the longest   *)
(* payload are scaled down.  The frame sizes are multiples of 8: of two    *)
(* sizes in a ring with 44 bytes for them, with room for a closing marker  *)
(* in every tail, and of one size in a ring with 43, where the tail of     *)
(* three bytes has none.  A behaviour is one of one of the two rings.      *)
(***************************************************************************)
EXTENDS HubRing

CONSTANT ShortLengths

VARIABLE ring

Short == INSTANCE HubRing WITH BUF_SIZE <- BUF_SIZE - 1

RingVars == <<vars, ring>>

EvenInit == Init /\ ring = "even"

RingInit == Init /\ ring \in {"even", "short"}

(* Bound: the frames written to the short ring have lengths of their own.  *)
WriteEither == \/ ring = "even" /\ Write /\ UNCHANGED ring
               \/ /\ ring = "short" /\ Short!Write /\ UNCHANGED ring
                  /\ frame' = NoFrame \/ frame'.len \in ShortLengths

ReadEither == \/ ring = "even" /\ Read /\ UNCHANGED ring
              \/ ring = "short" /\ Short!Read /\ UNCHANGED ring

RingNext == WriteEither \/ ReadEither

(* HubRing's FairSpec, of the ring of the behaviour.                       *)
RingSpec == /\ RingInit /\ [][RingNext]_RingVars
            /\ WF_RingVars(ReadEither)
            /\ WF_RingVars(WriteEither /\ writer # "idle")
=============================================================================
