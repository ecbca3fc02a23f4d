---------------------------- MODULE StreamBuffer ----------------------------
(***************************************************************************)
(* A stream buffer or a message buffer, freeRTOS/FreeRTOS_Source/          *)
(* stream_buffer.c: one writer and one reader, each a task or an           *)
(* interrupt, that share a ring without a lock and wake each other with    *)
(* task notifications.                                                     *)
(*                                                                         *)
(* A byte is its number in the stream of all bytes written, or, in a       *)
(* message buffer, the length of the message that follows it: the length   *)
(* takes LengthBytes, of which each holds the whole.  The writer and the  *)
(* reader interleave at every point where one can preempt the other.       *)
(***************************************************************************)
EXTENDS Integers

CONSTANTS
  StreamLength,    \* xLength, one more than the bytes it holds
  LengthBytes,     \* sbBYTES_TO_STORE_MESSAGE_LENGTH
  WriteSizes,      \* the lengths that are sent
  ReadSizes,       \* the sizes of the buffers read into from a stream buffer
  MessageSizes,    \* ... and from a message buffer
  AsksLength,      \* is xStreamBufferNextMessageLengthBytes called
  TriggerLevels    \* the levels that are asked for

ASSUME StreamAssumption ==
  /\ LengthBytes \in Nat \ {0}
  /\ StreamLength \in Nat /\ StreamLength > LengthBytes + 1
  /\ WriteSizes \subseteq Nat \ {0} /\ ReadSizes \subseteq Nat \ {0}
  /\ MessageSizes \subseteq Nat \ {0} /\ AsksLength \in BOOLEAN
  /\ TriggerLevels \subseteq Nat

Numbers == 0 .. StreamLength   \* bound: more than can be unread

VARIABLES
  isMessageBuffer,     \* sbFLAGS_IS_MESSAGE_BUFFER
  xHead, xTail,
  pucBuffer,
  xTriggerLevelBytes,
  xTaskWaitingToReceive, xTaskWaitingToSend,   \* is there one
  writerPc, readerPc,
  toWrite,             \* xDataLengthBytes
  xSpace,              \* as the writer has computed it
  toRead,              \* xBufferLengthBytes
  xBytesAvailable,     \* as the reader has computed it
  nextLength,          \* xNextMessageLength
  writerNotified, readerNotified,
  (* History, which no step reads: *)
  written, consumed,   \* the number of the next byte to write and to read
  garbled,             \* the reader has got something else
  levelLowered         \* while the reader slept, to what is in the buffer

ring        == <<isMessageBuffer, xHead, xTail, pucBuffer>>
writerLocal == <<writerPc, toWrite, xSpace>>
readerLocal == <<readerPc, toRead, xBytesAvailable, nextLength>>
wakes       == <<xTaskWaitingToReceive, xTaskWaitingToSend, writerNotified, readerNotified>>
levels      == <<xTriggerLevelBytes, levelLowered>>
streamVars  == <<ring, levels, wakes, writerLocal, readerLocal, written, consumed,
                 garbled>>

(* A level of zero is one.                                                 *)
Level(n) == IF n = 0 THEN 1 ELSE n

(* xStreamBufferGenericCreate, which asserts that the buffer can hold as   *)
(* many bytes as the level says, and prvInitialiseNewStreamBuffer.         *)
StreamInit ==
  /\ isMessageBuffer \in BOOLEAN
  /\ xHead = 0 /\ xTail = 0
  /\ pucBuffer = [i \in 0 .. StreamLength - 1 |-> 0]
  /\ \E n \in TriggerLevels : n < StreamLength /\ xTriggerLevelBytes = Level(n)
  /\ levelLowered = FALSE
  /\ xTaskWaitingToReceive = FALSE /\ xTaskWaitingToSend = FALSE
  /\ writerPc = "idle" /\ readerPc = "idle"
  /\ toWrite = 0 /\ xSpace = 0
  /\ toRead = 0 /\ xBytesAvailable = 0 /\ nextLength = 0
  /\ writerNotified = FALSE /\ readerNotified = FALSE
  /\ written = 0 /\ consumed = 0
  /\ garbled = FALSE

(***************************************************************************)
(* The ring.                                                               *)
(***************************************************************************)
Prefix == IF isMessageBuffer THEN LengthBytes ELSE 0

(* prvBytesInBuffer and xStreamBufferSpacesAvailable.                      *)
BytesInBuffer == (StreamLength + xHead - xTail) % StreamLength

SpacesAvailable == (StreamLength + xTail - xHead - 1) % StreamLength

(* prvWriteBytesToBuffer: bytes 1 .. n, each a value of f, then the head.  *)
WriteBytes(f, n) ==
  /\ pucBuffer' = [i \in 0 .. StreamLength - 1 |->
                     LET k == (StreamLength + i - xHead) % StreamLength
                     IN  IF k < n THEN f[k + 1] ELSE pucBuffer[i]]
  /\ xHead' = (xHead + n) % StreamLength

(* prvReadBytesFromBuffer: the bytes are copied, then the tail moves.      *)
ByteAt(k) == pucBuffer[(xTail + k) % StreamLength]

ReadBytes(n) == xTail' = (xTail + n) % StreamLength

Smaller(m, n) == IF m < n THEN m ELSE n

Number(n) == n % (StreamLength + 1)

(* The bytes that come next in the stream.                                 *)
NextBytes(n) == [k \in 1 .. n |-> Number(written + k - 1)]

Received(n) == \A k \in 0 .. n - 1 : ByteAt(k) = Number(consumed + k)

(***************************************************************************)
(* The writer, xStreamBufferSend.                                          *)
(***************************************************************************)
Required(n) == n + Prefix

(* The space is looked at; without enough, a writer that may wait says so  *)
(* in the same critical section.  It asserts that no other waits.          *)
LooksForSpace(n, waits) ==
  /\ toWrite' = n
  /\ xSpace' = SpacesAvailable
  /\ IF waits /\ SpacesAvailable < Required(n)
     THEN /\ xTaskWaitingToSend' = TRUE
          /\ writerNotified' = FALSE
          /\ writerPc' = "blocked"
     ELSE /\ writerPc' = "write"
          /\ UNCHANGED <<xTaskWaitingToSend, writerNotified>>
  /\ UNCHANGED <<ring, levels, xTaskWaitingToReceive, readerNotified, readerLocal,
                 written, consumed, garbled>>

Send ==
  /\ writerPc = "idle"
  /\ \E n \in WriteSizes, waits \in BOOLEAN : LooksForSpace(n, waits)

(* xTaskNotifyWait returns, notified or not; with time left it looks       *)
(* again, else it goes on with the space it last saw, unless that was      *)
(* none.                                                                   *)
SenderWakes ==
  /\ writerPc = "blocked"
  /\ writerPc' \in IF writerNotified THEN {"again", "timedOut"} ELSE {"timedOut"}
  /\ writerNotified' = FALSE
  /\ UNCHANGED <<ring, levels, xTaskWaitingToReceive, xTaskWaitingToSend,
                 readerNotified, toWrite, xSpace, readerLocal, written, consumed, garbled>>

SenderLooksAgain ==
  /\ writerPc = "again"
  /\ LooksForSpace(toWrite, TRUE)

SenderTimesOut ==
  /\ writerPc = "timedOut"
  /\ xTaskWaitingToSend' = FALSE
  /\ xSpace' = IF xSpace = 0 THEN SpacesAvailable ELSE xSpace
  /\ writerPc' = "write"
  /\ UNCHANGED <<ring, levels, xTaskWaitingToReceive, writerNotified, readerNotified,
                 toWrite, readerLocal, written, consumed, garbled>>

(* A wrong variant, for contrast. *)
FittingNoPrefix(n, s) == IF Prefix = 0 THEN Smaller(n, s) ELSE IF s >= n THEN n ELSE 0

(* prvWriteMessageToBuffer: what is written of n bytes in space s.         *)
Fitting(n, s) ==
  IF s = 0 THEN 0
  ELSE IF Prefix = 0 THEN Smaller(n, s)
  ELSE IF s >= Required(n) THEN n ELSE 0

WriteLength ==
  /\ writerPc = "write" /\ Prefix > 0 /\ Fitting(toWrite, xSpace) > 0
  /\ WriteBytes([k \in 1 .. Prefix |-> toWrite], Prefix)
  /\ writerPc' = "writeData"
  /\ UNCHANGED <<isMessageBuffer, xTail,
                 levels, wakes, toWrite, xSpace, readerLocal, written, consumed,
                 garbled>>

WriteData ==
  LET n == Fitting(toWrite, xSpace) IN
    /\ writerPc = (IF Prefix > 0 THEN "writeData" ELSE "write")
    /\ n > 0
    /\ WriteBytes(NextBytes(n), n)
    /\ written' = Number(written + n)
    /\ writerPc' = "complete"
    /\ UNCHANGED <<isMessageBuffer, xTail,
                 levels, wakes, toWrite, xSpace, readerLocal, consumed, garbled>>

WriterDone == writerPc' = "idle" /\ toWrite' = 0 /\ xSpace' = 0

WritesNothing ==
  /\ writerPc = "write" /\ Fitting(toWrite, xSpace) = 0
  /\ WriterDone
  /\ UNCHANGED <<ring, levels, wakes, readerLocal, written, consumed, garbled>>

(* A wrong variant, for contrast. *)
NotifiesReaderNot == xTaskWaitingToReceive' = FALSE /\ UNCHANGED readerNotified

(* sbSEND_COMPLETED: whoever waits to receive is notified.                 *)
NotifiesReader ==
  /\ readerNotified' = (readerNotified \/ xTaskWaitingToReceive)
  /\ xTaskWaitingToReceive' = FALSE

SendCompletes ==
  /\ writerPc = "complete"
  /\ IF BytesInBuffer >= xTriggerLevelBytes
     THEN NotifiesReader ELSE UNCHANGED <<readerNotified, xTaskWaitingToReceive>>
  /\ WriterDone
  /\ levelLowered' = FALSE
  /\ UNCHANGED <<ring, xTriggerLevelBytes, xTaskWaitingToSend, writerNotified, readerLocal, written,
                 consumed, garbled>>

(* xStreamBufferSendFromISR, when the writer is an interrupt.              *)
SendFromISR(n) ==
  LET m      == Fitting(n, SpacesAvailable)
      prefix == IF m > 0 THEN Prefix ELSE 0
      bytes  == [k \in 1 .. prefix + m |-> IF k <= prefix THEN m ELSE Number(written + k - prefix - 1)]
  IN  /\ writerPc = "idle"
      /\ WriteBytes(bytes, prefix + m)
      /\ written' = Number(written + m)
      /\ IF m > 0 /\ (BytesInBuffer + prefix + m) >= xTriggerLevelBytes
         THEN NotifiesReader ELSE UNCHANGED <<readerNotified, xTaskWaitingToReceive>>
      /\ levelLowered' = (levelLowered /\ m = 0)
      /\ UNCHANGED <<isMessageBuffer, xTail,
                 xTriggerLevelBytes, xTaskWaitingToSend, writerNotified, writerLocal,
                     readerLocal, consumed, garbled>>

(***************************************************************************)
(* The reader, xStreamBufferReceive.                                       *)
(***************************************************************************)
BufferSizes == IF isMessageBuffer THEN MessageSizes ELSE ReadSizes

Receive ==
  /\ readerPc = "idle"
  /\ toRead' \in BufferSizes
  /\ xBytesAvailable' = BytesInBuffer
  /\ \E waits \in BOOLEAN :
       IF waits /\ BytesInBuffer <= Prefix
       THEN /\ xTaskWaitingToReceive' = TRUE
            /\ readerNotified' = FALSE
            /\ readerPc' = "blocked"
       ELSE /\ readerPc' = "read"
            /\ UNCHANGED <<xTaskWaitingToReceive, readerNotified>>
  /\ UNCHANGED <<ring, levels, xTaskWaitingToSend, writerNotified, writerLocal,
                 nextLength, written, consumed, garbled>>

ReceiverWakes ==
  /\ readerPc = "blocked"
  /\ readerPc' = "woken"
  /\ readerNotified' = FALSE
  /\ levelLowered' = FALSE
  /\ UNCHANGED <<ring, xTriggerLevelBytes, xTaskWaitingToReceive, xTaskWaitingToSend,
                 writerNotified, writerLocal, toRead, xBytesAvailable, nextLength, written, consumed,
                 garbled>>

ReceiverLooksAgain ==
  /\ readerPc = "woken"
  /\ xTaskWaitingToReceive' = FALSE
  /\ xBytesAvailable' = BytesInBuffer
  /\ readerPc' = "read"
  /\ UNCHANGED <<ring, levels, xTaskWaitingToSend, writerNotified, readerNotified,
                 writerLocal, toRead, nextLength, written, consumed, garbled>>

ReaderDone == readerPc' = "idle" /\ toRead' = 0 /\ xBytesAvailable' = 0 /\ nextLength' = 0

ReadsNothing ==
  /\ readerPc = "read" /\ xBytesAvailable <= Prefix
  /\ ReaderDone
  /\ UNCHANGED <<ring, levels, wakes, writerLocal, written, consumed, garbled>>

(* prvReadMessageFromBuffer: the length is read, which moves the tail ...  *)
ReadLength ==
  /\ readerPc = "read" /\ Prefix > 0 /\ xBytesAvailable > Prefix
  /\ nextLength' = ByteAt(0)
  /\ ReadBytes(Prefix)
  /\ readerPc' = IF ByteAt(0) > toRead THEN "putBack" ELSE "readData"
  /\ UNCHANGED <<isMessageBuffer, xHead, pucBuffer,
                 levels, wakes, writerLocal, toRead, xBytesAvailable,
                 written, consumed, garbled>>

(* xStreamBufferNextMessageLengthBytes reads the length to tell it.        *)
AskLength ==
  /\ AsksLength /\ isMessageBuffer
  /\ readerPc = "idle" /\ BytesInBuffer > LengthBytes
  /\ ReadBytes(LengthBytes)
  /\ readerPc' = "putBack"
  /\ UNCHANGED <<isMessageBuffer, xHead, pucBuffer,
                 levels, wakes, writerLocal, toRead, xBytesAvailable, nextLength,
                 written, consumed, garbled>>

(* ... and back, when the message does not fit or was only asked about.    *)
PutBack ==
  /\ readerPc = "putBack"
  /\ xTail' = (xTail + StreamLength - Prefix) % StreamLength
  /\ ReaderDone
  /\ UNCHANGED <<isMessageBuffer, xHead, pucBuffer,
                 levels, wakes, writerLocal, written, consumed, garbled>>

ReadData ==
  LET n == Smaller(IF Prefix > 0 THEN nextLength ELSE toRead, xBytesAvailable - Prefix) IN
    /\ readerPc = (IF Prefix > 0 THEN "readData" ELSE "read")
    /\ xBytesAvailable > Prefix
    /\ garbled' = (garbled \/ ~Received(n))
    /\ ReadBytes(n)
    /\ consumed' = Number(consumed + n)
    /\ readerPc' = "complete"
    /\ UNCHANGED <<isMessageBuffer, xHead, pucBuffer,
                 levels, wakes, writerLocal, toRead,
                   xBytesAvailable, nextLength, written>>

(* sbRECEIVE_COMPLETED.                                                    *)
NotifiesWriter ==
  /\ writerNotified' = (writerNotified \/ xTaskWaitingToSend)
  /\ xTaskWaitingToSend' = FALSE

ReceiveCompletes ==
  /\ readerPc = "complete"
  /\ NotifiesWriter
  /\ ReaderDone
  /\ UNCHANGED <<ring, levels, xTaskWaitingToReceive, readerNotified, writerLocal,
                 written, consumed, garbled>>

(* xStreamBufferReceiveFromISR, when the reader is an interrupt.           *)
ReceiveFromISR(size) ==
  LET length == IF Prefix > 0 THEN ByteAt(0) ELSE size
      n      == Smaller(length, BytesInBuffer - Prefix)
  IN  /\ readerPc = "idle"
      /\ BytesInBuffer > Prefix /\ length <= size
      /\ garbled' = (garbled \/ \E k \in 0 .. n - 1 : ByteAt(Prefix + k) # Number(consumed + k))
      /\ ReadBytes(Prefix + n)
      /\ consumed' = Number(consumed + n)
      /\ NotifiesWriter
      /\ UNCHANGED <<isMessageBuffer, xHead, pucBuffer,
                 levels, xTaskWaitingToReceive, readerNotified,
                     writerLocal, readerLocal, written>>

(***************************************************************************)
(* Others.                                                                 *)
(***************************************************************************)
(* xStreamBufferReset, refused while a task waits; nobody may be reading   *)
(* or writing either, which its callers see to.                            *)
Reset ==
  /\ ~xTaskWaitingToReceive /\ ~xTaskWaitingToSend
  /\ writerPc = "idle" /\ readerPc = "idle"
  /\ xHead' = 0 /\ xTail' = 0
  /\ written' = 0 /\ consumed' = 0
  /\ pucBuffer' = [i \in 0 .. StreamLength - 1 |-> 0]
  /\ UNCHANGED <<isMessageBuffer, levels, wakes, writerLocal, readerLocal, garbled>>

(* xStreamBufferSetTriggerLevel, by any task at any time; it wakes no one, *)
(* not even a reader for whom the buffer has now reached the level.  It    *)
(* takes StreamLength too, one more than the buffer can hold.              *)
SetTriggerLevel(n) ==
  /\ n <= StreamLength
  /\ xTriggerLevelBytes' = Level(n)
  /\ levelLowered' = \/ levelLowered
                     \/ /\ readerPc = "blocked"
                        /\ BytesInBuffer < xTriggerLevelBytes /\ BytesInBuffer >= Level(n)
  /\ UNCHANGED <<ring, wakes, writerLocal, readerLocal, written, consumed, garbled>>

(* xStreamBufferSendCompletedFromISR and ...ReceiveCompletedFromISR.       *)
CompletedFromISR ==
  /\ \/ /\ xTaskWaitingToReceive /\ NotifiesReader
        /\ UNCHANGED <<writerNotified, xTaskWaitingToSend>>
     \/ /\ xTaskWaitingToSend /\ NotifiesWriter
        /\ UNCHANGED <<readerNotified, xTaskWaitingToReceive>>
  /\ UNCHANGED <<ring, levels, writerLocal, readerLocal, written, consumed, garbled>>

StreamNext ==
  \/ Send \/ SenderWakes \/ SenderLooksAgain \/ SenderTimesOut
  \/ WriteLength \/ WriteData \/ WritesNothing \/ SendCompletes
  \/ \E n \in WriteSizes : SendFromISR(n)
  \/ Receive \/ ReceiverWakes \/ ReceiverLooksAgain \/ ReadsNothing
  \/ ReadLength \/ AskLength \/ PutBack \/ ReadData \/ ReceiveCompletes
  \/ \E size \in BufferSizes : ReceiveFromISR(size)
  \/ Reset \/ CompletedFromISR
  \/ \E n \in TriggerLevels : SetTriggerLevel(n)

StreamSpec == StreamInit /\ [][StreamNext]_streamVars

(***************************************************************************)
(* Properties.                                                             *)
(***************************************************************************)
StreamTypeOK ==
  /\ isMessageBuffer \in BOOLEAN
  /\ xHead \in 0 .. StreamLength - 1 /\ xTail \in 0 .. StreamLength - 1
  /\ pucBuffer \in [0 .. StreamLength - 1 -> Nat]
  /\ xTriggerLevelBytes \in 1 .. StreamLength /\ levelLowered \in BOOLEAN
  /\ xTaskWaitingToReceive \in BOOLEAN /\ xTaskWaitingToSend \in BOOLEAN
  /\ writerNotified \in BOOLEAN /\ readerNotified \in BOOLEAN
  /\ writerPc \in {"idle", "blocked", "again", "timedOut", "write", "writeData", "complete"}
  /\ readerPc \in {"idle", "blocked", "woken", "read", "readData", "putBack", "complete"}
  /\ xSpace \in 0 .. StreamLength - 1 /\ xBytesAvailable \in 0 .. StreamLength - 1
  /\ written \in Numbers /\ consumed \in Numbers

(* What is read is what was written, every byte once and in order, with    *)
(* no lock between the writer and the reader: the space and the bytes each *)
(* has seen are still there when it uses them (xStreamBufferSend,          *)
(* xStreamBufferReceive).                                                  *)
StreamInOrder ==
  /\ ~garbled
  /\ Prefix = 0 => BytesInBuffer = (written + StreamLength + 1 - consumed) % (StreamLength + 1)
  /\ writerPc \in {"write", "writeData"} /\ Fitting(toWrite, xSpace) > 0 =>
       SpacesAvailable >= Fitting(toWrite, xSpace) + (IF writerPc = "write" THEN Prefix ELSE 0)

(* A message that does not fit is left in the message buffer, whatever the *)
(* writer does meanwhile (message_buffer.h:470).  It does not hold: the    *)
(* space of the length is free until it is put back, and the writer may    *)
(* have used it (prvReadMessageFromBuffer).                                *)
MessageLeftInBuffer == [][PutBack => BytesInBuffer' = BytesInBuffer + LengthBytes]_streamVars

(* A reader does not sleep on a buffer that has reached its trigger level, *)
(* nor a writer on one with room for what it writes, unless the other side *)
(* is about to wake it: the wake-up is not lost between the look at the    *)
(* buffer and the wait for the notification (sbSEND_COMPLETED,             *)
(* sbRECEIVE_COMPLETED).  A reader may sleep on if it was not a write that *)
(* reached the level, but the level that was set lower, since the last     *)
(* write was completed (xStreamBufferSetTriggerLevel).                     *)
NoWakeUpLost ==
  /\ readerPc = "blocked" /\ ~readerNotified /\ BytesInBuffer > Prefix
     /\ BytesInBuffer >= xTriggerLevelBytes
     => writerPc \in {"writeData", "complete"} \/ levelLowered
  /\ writerPc = "blocked" /\ ~writerNotified /\ SpacesAvailable >= Required(toWrite) =>
       readerPc \in {"complete", "readData", "putBack"}

(* Who sleeps on a buffer that has reached its level is about to be woken, *)
(* whoever sets the level.  It does not hold: xStreamBufferSetTriggerLevel *)
(* wakes no one.                                                           *)
WokenAtItsLevel ==
  readerPc = "blocked" /\ ~readerNotified /\ BytesInBuffer > Prefix /\ BytesInBuffer >= xTriggerLevelBytes
    => writerPc \in {"writeData", "complete"}
=============================================================================
