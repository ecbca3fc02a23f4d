------------------------------ MODULE HubRing ------------------------------
(***************************************************************************)
(* One of the rings in shared DDR through which the two processors and the *)
(* FPGA exchange frames (app/queue/hub_queue.c): a writer on one core and  *)
(* a reader on the other, with no lock between them.  The rings differ in  *)
(* whether the writer looks for room (writeData2ARM and                    *)
(* writeData2FPGAMPEGReportBUF do, writeData2DSP does not) and in whether  *)
(* the reader marks a frame it took as empty (lwip_readFromARM and         *)
(* lwip_readFromFPGAMPEGReportBUF do, lwip_readFromDSP2ARM does not).      *)
(*                                                                         *)
(* Positions count bytes.  A step is one access to the shared memory, or a *)
(* run of accesses between which the other core sees no difference.        *)
(***************************************************************************)
EXTENDS HubMemory, Sequences

CONSTANTS
  BUF_SIZE,            \* size of the ring with its two positions
  MAX_DATA_UNIT_LEN,   \* longest payload a frame is declared to have
  ChecksSpace,         \* whether the writer looks for room
  ClearsFlag           \* whether the reader marks what it took as empty

ASSUME SizesAssumption ==
  /\ BUF_SIZE \in Nat
  /\ MAX_DATA_UNIT_LEN \in Nat
  /\ Lengths \subseteq 1 .. MAX_DATA_UNIT_LEN
  /\ BUF_SIZE >= Reserve + Header + MAX_DATA_UNIT_LEN

ASSUME KindAssumption == ChecksSpace \in BOOLEAN /\ ClearsFlag \in BOOLEAN

VARIABLES
  FrameData,       \* the units in the ring, by the position they start at
  WritePosition,
  ReadPosition,
  writer,          \* where the writer is in its call
  frame,           \* the frame it writes
  sawEmpty,        \* the positions were equal when it looked for room
  reader,          \* where the reader is in its call
  unread,          \* history: frames made valid and not delivered yet
  received         \* what the reader delivered last

vars == <<FrameData, WritePosition, ReadPosition, writer, frame, sawEmpty,
          reader, unread, received>>

writing == <<WritePosition, writer, frame, sawEmpty>>
reading == <<ReadPosition, reader, received>>

(* QueueInit sets the positions; nothing initialises the memory.           *)
Init ==
  /\ FrameData = <<>>
  /\ WritePosition = 0
  /\ ReadPosition = 0
  /\ writer = "idle"
  /\ frame = NoFrame
  /\ sawEmpty = FALSE
  /\ reader = "idle"
  /\ unread = <<>>
  /\ received = Corrupt

(***************************************************************************)
(* The writer.                                                             *)
(***************************************************************************)
ARESTLIMIT == BUF_SIZE - WritePosition

(* A wrong variant, for contrast.                                          *)
FitsTight(len) == ARESTLIMIT - Reserve >= len

Fits(len) == ARESTLIMIT - Reserve >= len + Header

BeginWrite ==
  /\ writer = "idle"
  /\ \E f \in Frame :
       /\ frame' = f
       /\ writer' = IF ~Fits(f.len) THEN "close"
                    ELSE IF ChecksSpace THEN "compare" ELSE "copy"
  /\ UNCHANGED <<FrameData, WritePosition, sawEmpty, unread, reading>>

(* A wrong variant, for contrast.                                          *)
MarkEndNever ==
  /\ writer = "close"
  /\ writer' = "rewind"
  /\ UNCHANGED <<FrameData, WritePosition, frame, sawEmpty, unread, reading>>

(* Close the end of the ring: the marker keeps the len that was there.     *)
MarkEnd ==
  /\ writer = "close"
  /\ IF ARESTLIMIT - Reserve > ShortTail
     THEN \E u \in UnitsAt(FrameData, WritePosition) :
            FrameData' = PutUnit(FrameData, WritePosition, Marker,
                           [u EXCEPT !.type = "INVALID", !.startFlag = "VALID"])
     ELSE UNCHANGED FrameData
  /\ writer' = "rewind"
  /\ UNCHANGED <<WritePosition, frame, sawEmpty, unread, reading>>

Rewind ==
  /\ writer = "rewind"
  /\ WritePosition' = 0
  /\ writer' = IF ChecksSpace THEN "compare" ELSE "copy"
  /\ UNCHANGED <<FrameData, frame, sawEmpty, unread, reading>>

(* LAST_AREA reads the position of the reader twice.                       *)
ComparePositions ==
  /\ writer = "compare"
  /\ sawEmpty' = (ReadPosition = WritePosition)
  /\ writer' = "space"
  /\ UNCHANGED <<FrameData, WritePosition, frame, unread, reading>>

LAST_AREA == IF sawEmpty THEN BUF_SIZE
             ELSE (BUF_SIZE + ReadPosition - WritePosition) % BUF_SIZE

(* Room for the frame and a unit of the greatest length, or give up.       *)
CheckSpace ==
  /\ writer = "space"
  /\ writer' = IF LAST_AREA < Header + MAX_DATA_UNIT_LEN + frame.len
               THEN "idle" ELSE "copy"
  /\ UNCHANGED <<FrameData, WritePosition, frame, sawEmpty, unread, reading>>

CopyPayload ==
  /\ writer = "copy"
  /\ \E u \in UnitsAt(FrameData, WritePosition) :
       FrameData' = PutUnit(FrameData, WritePosition, Header + frame.len,
                            [u EXCEPT !.data = frame.data])
  /\ writer' = "header"
  /\ UNCHANGED <<WritePosition, frame, sawEmpty, unread, reading>>

WriteTypeAndLen ==
  /\ writer = "header"
  /\ FrameData' = [FrameData EXCEPT ![WritePosition] =
                     [@ EXCEPT !.type = "data", !.len = frame.len]]
  /\ writer' = "flag"
  /\ UNCHANGED <<WritePosition, frame, sawEmpty, unread, reading>>

(* From here on the frame counts as written.                               *)
SetStartFlag ==
  /\ writer = "flag"
  /\ FrameData' = [FrameData EXCEPT ![WritePosition].startFlag = "VALID"]
  /\ unread' = Append(unread, [pos |-> WritePosition, data |-> frame.data])
  /\ writer' = "advance"
  /\ UNCHANGED <<WritePosition, frame, sawEmpty, reading>>

AdvanceWrite ==
  /\ writer = "advance"
  /\ WritePosition' = WritePosition + frame.len + Header
  /\ writer' = "idle"
  /\ frame' = NoFrame
  /\ UNCHANGED <<FrameData, sawEmpty, unread, reading>>

(***************************************************************************)
(* The reader.                                                             *)
(***************************************************************************)
HaveData == ReadPosition # WritePosition

(* A wrong variant, for contrast.                                          *)
BeginReadOffByOne ==
  /\ reader = "idle"
  /\ HaveData
  /\ ReadPosition' = IF BUF_SIZE - ReadPosition - Reserve < ShortTail
                     THEN 0 ELSE ReadPosition
  /\ reader' = "look"
  /\ UNCHANGED <<FrameData, writing, unread, received>>

(* A new call; at a tail too short for a marker the reader goes back to    *)
(* the start, and does not compare the positions again.                    *)
BeginRead ==
  /\ reader = "idle"
  /\ HaveData
  /\ ReadPosition' = IF BUF_SIZE - ReadPosition - Reserve <= ShortTail
                     THEN 0 ELSE ReadPosition
  /\ reader' = "look"
  /\ UNCHANGED <<FrameData, writing, unread, received>>

(* The unit at the read position is not valid, closes the ring, or holds a *)
(* frame, which is copied.                                                 *)
LookAtFlag ==
  /\ reader = "look"
  /\ \E u \in UnitsAt(FrameData, ReadPosition) :
       reader' = IF u.startFlag = "VALID" THEN "type" ELSE "idle"
  /\ UNCHANGED <<FrameData, writing, unread, ReadPosition, received>>

LookAtType ==
  /\ reader = "type"
  /\ \E u \in UnitsAt(FrameData, ReadPosition) :
       reader' = IF u.type = "INVALID" THEN "reopen" ELSE "take"
  /\ UNCHANGED <<FrameData, writing, unread, ReadPosition, received>>

TakePayload ==
  /\ reader = "take"
  /\ \E u \in UnitsAt(FrameData, ReadPosition) : received' = u.data
  /\ unread' = IF unread = <<>> THEN <<>> ELSE Tail(unread)
  /\ reader' = "clear"
  /\ UNCHANGED <<FrameData, writing, ReadPosition>>

(* A wrong variant, for contrast.                                          *)
ReopenAndStay ==
  /\ reader = "reopen"
  /\ FrameData' = Cleared(FrameData, ReadPosition)
  /\ reader' = "idle"
  /\ UNCHANGED <<writing, unread, ReadPosition, received>>

ReopenEnd ==
  /\ reader = "reopen"
  /\ FrameData' = Cleared(FrameData, ReadPosition)
  /\ ReadPosition' = 0
  /\ reader' = "idle"
  /\ UNCHANGED <<writing, unread, received>>

ClearStartFlag ==
  /\ reader = "clear"
  /\ FrameData' = IF ClearsFlag THEN Cleared(FrameData, ReadPosition)
                               ELSE FrameData
  /\ reader' = "advance"
  /\ UNCHANGED <<writing, unread, ReadPosition, received>>

AdvanceRead ==
  /\ reader = "advance"
  /\ \E u \in UnitsAt(FrameData, ReadPosition) : ReadPosition' = ReadPosition + u.len + Header
  /\ reader' = "idle"
  /\ UNCHANGED <<FrameData, writing, unread, received>>

(***************************************************************************)
(* The specification.                                                      *)
(***************************************************************************)
Write == \/ BeginWrite \/ MarkEnd \/ Rewind \/ ComparePositions \/ CheckSpace
         \/ CopyPayload \/ WriteTypeAndLen \/ SetStartFlag \/ AdvanceWrite

Read == \/ BeginRead \/ LookAtFlag \/ LookAtType \/ TakePayload
        \/ ReopenEnd \/ ClearStartFlag \/ AdvanceRead

Next == Write \/ Read

Spec == Init /\ [][Next]_vars

(* The reader polls, and a call once begun is carried out.                 *)
FairSpec == /\ Spec
            /\ WF_vars(Read)
            /\ WF_vars(Write /\ writer # "idle")

(***************************************************************************)
(* Properties.                                                             *)
(***************************************************************************)
(* Types of the variables.                                                 *)
TypeOK ==
  /\ DOMAIN FrameData \subseteq 0 .. BUF_SIZE
  /\ \A p \in DOMAIN FrameData : FrameData[p] \in Unit
  /\ WritePosition \in 0 .. BUF_SIZE - Reserve
  /\ ReadPosition \in 0 .. BUF_SIZE - Reserve
  /\ writer \in {"idle", "close", "rewind", "compare", "space", "copy",
                 "header", "flag", "advance"}
  /\ frame \in Frame \cup {NoFrame}
  /\ sawEmpty \in BOOLEAN
  /\ reader \in {"idle", "look", "type", "take", "reopen", "clear", "advance"}
  /\ received \in Payloads \cup {Corrupt}

(* The last eight bytes of the ring hold the positions: no frame is ever   *)
(* written over them.                                                      *)
PositionsProtected ==
  /\ WritePosition + Reserve <= BUF_SIZE
  /\ writer \in {"compare", "space", "copy", "header", "flag", "advance"} =>
       WritePosition + Header + frame.len + Reserve <= BUF_SIZE

(* A frame that was written stays as it was written until it is read: the  *)
(* writer does not overtake the reader.                                    *)
UnreadIntact ==
  \A i \in 1 .. Len(unread) :
    /\ unread[i].pos \in DOMAIN FrameData
    /\ LET u == FrameData[unread[i].pos] IN
         u.startFlag = "VALID" /\ u.type = "data" /\ u.data = unread[i].data

Channel == INSTANCE FrameChannel WITH
             queue <- [i \in 1 .. Len(unread) |-> unread[i].data]

(* Frames are delivered once each, whole, in the order they were written.  *)
IsFrameChannel == Channel!Spec

(* The reader does not get stuck beside frames it has not delivered.       *)
FramesDelivered == unread # <<>> ~> (reader = "clear" \/ unread = <<>>)
=============================================================================
