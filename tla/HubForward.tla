---------------------------- MODULE HubForward ----------------------------
(***************************************************************************)
(* The way of a frame to the FPGA (app/queue/hub_queue.c):                 *)
(* lwip_readFromARM takes it from the ring of CPU 0 and puts it into one   *)
(* of the four rings DSP2FPGA1 .. 4, lwip_readFromFPGAPriBuf takes it from *)
(* there, the first ring first, and hands it to TxDMA.  Both run on the    *)
(* same core, one call at a time; HubRing models the ring of CPU 0 itself, *)
(* AxiDma the transfer.                                                    *)
(***************************************************************************)
EXTENDS HubMemory, Sequences, FiniteSets, Functions, TLC

CONSTANTS
  Rings,           \* the rings to the FPGA: 1 .. 4 in the code
  BUF_SIZE,        \* BUF_SIZE[k]: size of ring k with its two positions
  ReadTail         \* the reader goes back to the start below this: 1500

ASSUME RingsAssumption == /\ Rings \in {1 .. n : n \in 1 .. 4}
                          /\ BUF_SIZE \in [Rings -> Nat]
                          /\ ReadTail \in Nat
                          /\ Lengths \subseteq Nat \ {0}
                          /\ \A k \in Rings, l \in Lengths :
                               BUF_SIZE[k] >= Reserve + Header + l

VARIABLES
  FrameData,       \* FrameData[k]: the units in ring k
  WritePosition,
  ReadPosition,
  offered,         \* the frame at the read position of CPU 0's ring
  accepted,        \* history: what was written to ring k and not yet sent
  sent             \* history: how often the unit at a position of ring k was sent since
                   \* its header was written last

vars == <<FrameData, WritePosition, ReadPosition, offered, accepted, sent>>

Init ==
  /\ FrameData = [k \in Rings |-> <<>>]
  /\ WritePosition = [k \in Rings |-> 0]
  /\ ReadPosition = [k \in Rings |-> 0]
  /\ offered = NoFrame
  /\ accepted = [k \in Rings |-> <<>>]
  /\ sent = [k \in Rings |-> <<>>]

(* A frame has come to the head of CPU 0's ring.                           *)
Offer ==
  /\ offered = NoFrame
  /\ offered' \in Frame
  /\ UNCHANGED <<FrameData, WritePosition, ReadPosition, accepted, sent>>

(***************************************************************************)
(* writeData2FPGA_BUF1 .. 4.  At the end of a ring the call only closes    *)
(* the end and goes back to the start: it fails.                           *)
(***************************************************************************)
Room(k) == BUF_SIZE[k] - WritePosition[k] - Reserve

FitsIn(k) == Room(k) >= offered.len + Header

(* Ring k with its end closed; the marker keeps the len that was there.    *)
Closed(k, stale) ==
  IF Room(k) > ShortTail
  THEN PutUnit(FrameData[k], WritePosition[k], Marker,
               [startFlag |-> "VALID", type |-> "INVALID", data |-> Corrupt,
                len |-> IF WritePosition[k] \in DOMAIN FrameData[k]
                        THEN FrameData[k][WritePosition[k]].len ELSE stale])
  ELSE FrameData[k]

Written(k) ==
  PutUnit(FrameData[k], WritePosition[k], Header + offered.len,
          [startFlag |-> "VALID", type |-> "data",
           len |-> offered.len, data |-> offered.data])

(* What is written over what was not sent yet, nobody notices.             *)
Accepted(k) ==
  Append(SelectSeq(accepted[k],
           LAMBDA e : ~Meet(e.pos, e.pos + Header + e.len, WritePosition[k],
                            WritePosition[k] + Header + offered.len)),
         [pos |-> WritePosition[k], len |-> offered.len, data |-> offered.data])

(* What is known of sent units whose header the n bytes from p do not meet.*)
Spared(k, p, n) == Restrict(sent[k], {q \in DOMAIN sent[k] : ~Meet(q, q + Header, p, p + n)})

(* lwip_readFromARM: the first ring with room gets the frame, those tried  *)
(* before it are closed; without one the frame stays where it is.          *)
Forward ==
  /\ offered # NoFrame
  /\ LET tried == {j \in Rings : \A i \in 1 .. j : ~FitsIn(i)}
         k == Cardinality(tried) + 1
     IN  /\ \E stale \in Lengths :
              FrameData' = [j \in Rings |-> IF j \in tried THEN Closed(j, stale)
                                           ELSE IF j = k THEN Written(j)
                                           ELSE FrameData[j]]
         /\ WritePosition' = [j \in Rings |->
              IF j \in tried THEN 0
              ELSE IF j = k THEN WritePosition[j] + offered.len + Header
              ELSE WritePosition[j]]
         /\ accepted' = [j \in Rings |-> IF j = k THEN Accepted(j) ELSE accepted[j]]
         /\ offered' = IF k \in Rings THEN NoFrame ELSE offered
         /\ sent' = [j \in Rings |->
              IF j \in tried /\ Room(j) > ShortTail THEN Spared(j, WritePosition[j], Marker)
              ELSE IF j = k THEN Spared(j, WritePosition[j], Header + offered.len)
              ELSE sent[j]]
  /\ UNCHANGED ReadPosition

(***************************************************************************)
(* lwip_readFromFPGAPriBuf.  The positions are unsigned: beyond the end of *)
(* the ring what is left of it is a huge number.                           *)
(***************************************************************************)
HaveData(k) == ReadPosition[k] # WritePosition[k]

Served(k) == HaveData(k) /\ \A j \in 1 .. k - 1 : ~HaveData(j)

AtEnd(k) == /\ ReadPosition[k] + Reserve <= BUF_SIZE[k]
            /\ BUF_SIZE[k] - ReadPosition[k] - Reserve < ReadTail

ReadFrom(k) == IF AtEnd(k) THEN 0 ELSE ReadPosition[k]

(* The unit at the read position, which need not be one that was written,  *)
(* is passed over or, once sent, left.                                     *)
Leave(k, u) ==
  /\ FrameData' = [FrameData EXCEPT ![k] =
                     PutUnit(@, ReadFrom(k), Flag, [u EXCEPT !.startFlag = "EMPTY"])]
  /\ ReadPosition' = [ReadPosition EXCEPT ![k] = ReadFrom(k) + u.len + Header]

(* The count of the unit at p, which was sent or only passed over, once    *)
(* its flag was cleared.                                                   *)
Counted(k, p, more) ==
  LET count == (IF p \in DOMAIN sent[k] THEN sent[k][p] ELSE 0) + more
      others == Spared(k, p, Flag)
  IN  [sent EXCEPT ![k] = IF count = 0 THEN others ELSE others @@ (p :> count)]

PassOver ==
  \E k \in Rings : \E u \in UnitsAt(FrameData[k], ReadFrom(k)) :
    /\ Served(k)
    /\ u.startFlag # "VALID" \/ u.type = "INVALID"
    /\ Leave(k, u)
    /\ sent' = Counted(k, ReadFrom(k), 0)
    /\ UNCHANGED <<WritePosition, offered, accepted>>

(* A wrong variant, for contrast.                                          *)
TransmitAgain ==
  \E k \in Rings : \E u \in UnitsAt(FrameData[k], ReadFrom(k)) :
    /\ Served(k)
    /\ u.startFlag = "VALID" /\ u.type # "INVALID"
    /\ ReadPosition' = [ReadPosition EXCEPT ![k] = ReadFrom(k) + u.len + Header]
    /\ sent' = Counted(k, ReadFrom(k), 1)
    /\ accepted' = [accepted EXCEPT ![k] = SelectSeq(@, LAMBDA e : e.pos # ReadFrom(k))]
    /\ UNCHANGED <<FrameData, WritePosition, offered>>

Transmit ==
  \E k \in Rings : \E u \in UnitsAt(FrameData[k], ReadFrom(k)) :
    /\ Served(k)
    /\ u.startFlag = "VALID" /\ u.type # "INVALID"
    /\ Leave(k, u)
    /\ sent' = Counted(k, ReadFrom(k), 1)
    /\ accepted' = [accepted EXCEPT ![k] = SelectSeq(@, LAMBDA e : e.pos # ReadFrom(k))]
    /\ UNCHANGED <<WritePosition, offered>>

(* The transfer cannot be started: the frame stays.                        *)
TransmitFails ==
  \E k \in Rings : \E u \in UnitsAt(FrameData[k], ReadFrom(k)) :
    /\ Served(k)
    /\ u.startFlag = "VALID" /\ u.type # "INVALID"
    /\ ReadPosition' = [ReadPosition EXCEPT ![k] = ReadFrom(k)]
    /\ UNCHANGED <<FrameData, WritePosition, offered, accepted, sent>>

Next == Offer \/ Forward \/ PassOver \/ Transmit \/ TransmitFails

Spec == Init /\ [][Next]_vars

(***************************************************************************)
(* Properties.                                                             *)
(***************************************************************************)
(* Types of the variables.                                                 *)
TypeOK ==
  /\ \A k \in Rings : \A p \in DOMAIN FrameData[k] : FrameData[k][p] \in Unit
  /\ WritePosition \in [Rings -> Nat]
  /\ ReadPosition \in [Rings -> Nat]
  /\ offered \in Frame \cup {NoFrame}

(* The frames of a ring end before the positions kept in its last bytes.   *)
PositionsProtected ==
  \A k \in Rings :
    \A p \in DOMAIN FrameData[k] :
      FrameData[k][p].type = "data" =>
        p + Header + FrameData[k][p].len + Reserve <= BUF_SIZE[k]

(* Whatever the reader finds after losing the writer, whichever refused    *)
(* transfers it repeats and however often both go round, it hands a unit   *)
(* to the FPGA once, until something new is written over its header        *)
(* (lwip_readFromFPGAPriBuf).                                              *)
SentOnce ==
  \A k \in Rings : \A p \in DOMAIN sent[k] : sent[k][p] = 1

(* The frames of a ring are sent in the order in which it accepted them    *)
(* (hub_queue.h calls it a queue).                                         *)
SentInOrder ==
  [][\A k \in Rings : \A i \in 2 .. Len(accepted[k]) :
       accepted'[k] # SubSeq(accepted[k], 1, i - 1)
                        \o SubSeq(accepted[k], i + 1, Len(accepted[k]))]_vars

(* The reader stays in the ring (it is reset at the closing marker).       *)
ReaderStaysInRing ==
  \A k \in Rings : ReadPosition[k] + Reserve <= BUF_SIZE[k]
=============================================================================
