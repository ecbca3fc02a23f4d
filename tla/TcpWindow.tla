----------------------------- MODULE TcpWindow -----------------------------
(***************************************************************************)
(* One direction of a TCP connection between two ends that run this code:  *)
(* the windows of freeRTOS/FreeRTOS_UDP_Source/FreeRTOS_TCP_WIN.c, the     *)
(* streams of FreeRTOS_Stream_Buffer.c, and what FreeRTOS_TCP_IP.c and     *)
(* FreeRTOS_Sockets.c do with them while the connection is established.    *)
(* The network loses, repeats and reorders packets.                        *)
(*                                                                         *)
(* The IP task of an end handles one packet, or one call of                *)
(* xTCPSocketCheck, without being interrupted by the users, whose priority *)
(* is lower.  A byte is the number of its place in the stream.             *)
(***************************************************************************)
EXTENDS Integers, Sequences, FiniteSets, Functions

CONSTANTS
  SeqMod,            \* 2^32
  FirstSequence,     \* of the first byte
  MSS,
  TxLength,          \* LENGTH of the stream of the sender
  RxLength,          \* LENGTH of the stream of the receiver
  TxWindow,          \* ulTxWindowLength, at first
  RxWindow,          \* ulRxWindowLength
  LittleSpace,       \* uxLittleSpace and
  EnoughSpace,       \* uxEnoughSpace of the receiver
  SegmentCount,      \* ipconfigTCP_WIN_SEG_COUNT, for each end
  RepeatCount,       \* SEND_REPEATED_COUNT
  DuplicateAcks,     \* DUPLICATE_ACKS_BEFORE_FAST_RETRANSMIT
  LargeWindowCount,  \* MAX_TRANSMIT_COUNT_USING_LARGE_WINDOW
  MaxBytes,          \* bound: that the user writes
  MaxTransmits,      \* bound: on the counters of a segment
  MaxInFlight,       \* bound: packets on their way to the receiver
  MaxAcks            \* bound: and back

ASSUME WindowAssumption ==
  /\ {MSS, TxLength, RxLength, TxWindow, RxWindow, SegmentCount, RepeatCount} \subseteq Nat \ {0}
  /\ {SeqMod, MaxBytes, MaxTransmits, LittleSpace, EnoughSpace} \subseteq Nat
  /\ SeqMod > 2 * (MaxBytes + RxLength + MSS) /\ FirstSequence \in 0 .. SeqMod - 1
  /\ LittleSpace < EnoughSpace /\ EnoughSpace < RxLength

None == -1

VARIABLES
  snd,               \* the window of the sender, xTCPWindow
  txStream,          \* and its stream: positions and contents
  rcv,               \* the window of the receiver, with the bits of its socket
  rxStream,
  sends,             \* how many more packets the IP task of the sender may send now
  written,           \* the number of bytes that the user of the sender wrote,
  consumed,          \* and that the user of the receiver read
  segmentsOut,       \* the packets in the network
  acksOut

winVars == <<snd, txStream, rcv, rxStream, sends, written, consumed, segmentsOut, acksOut>>

Plus(a, b) == (a + b) % SeqMod
Minus(a, b) == (a - b) % SeqMod
Negative(d) == d >= SeqMod \div 2   \* a uint32_t read as an int32_t
SequenceLessThanOrEqual(a, b) == ~Negative(Minus(b, a))
SequenceLessThan(a, b) == ~Negative(Minus(b, a + 1))

Smaller(a, b) == IF a < b THEN a ELSE b

(***************************************************************************)
(* Streams: circular buffers of which one place stays unused.              *)
(***************************************************************************)
Around(stream, position) == position % stream.length
Distance(stream, lower, upper) == (upper - lower) % stream.length
FreeBetween(stream, lower, upper) == (upper - lower - 1) % stream.length

GetSpace(stream) == FreeBetween(stream, stream.head, stream.tail)
FrontSpace(stream) == FreeBetween(stream, stream.front, stream.tail)
GetSize(stream) == Distance(stream, stream.tail, stream.head)
MidSpace(stream) == Distance(stream, stream.mid, stream.head)

(* In the order of the bytes after the tail. *)
LessThenEqual(stream, left, right) ==
  IF (left < stream.tail) # (right < stream.tail) THEN right < stream.tail ELSE left <= right

NewStream(length) ==
  [length |-> length, tail |-> 0, mid |-> 0, head |-> 0, front |-> 0, bytes |-> [i \in 0 .. length - 1 |-> 0]]

ReachFront(stream, next) ==
  IF LessThenEqual(stream, stream.front, next) THEN [stream EXCEPT !.front = next] ELSE stream

(* Data that was stored before, with an offset, is added without a source. *)
StreamAdd(stream, offset, data, count) ==
  LET room == IF GetSpace(stream) > offset THEN GetSpace(stream) - offset ELSE 0
      fits == Smaller(room, count)
      start == Around(stream, stream.head + offset)
      copied == [stream EXCEPT !.bytes =
                   [i \in DOMAIN @ |-> LET k == Distance(stream, start, i) + 1
                                       IN IF k <= fits /\ k <= Len(data) THEN data[k] ELSE @[i]]]
      next == Around(stream, start + fits)
  IN IF fits = 0 THEN stream
     ELSE IF offset = 0 THEN ReachFront([copied EXCEPT !.head = next], next)
     ELSE ReachFront(copied, start)

StreamTake(stream, count) ==
  [stream EXCEPT !.tail = Around(stream, @ + Smaller(GetSize(stream), count))]

MoveMid(stream, count) == [stream EXCEPT !.mid = Around(stream, @ + Smaller(MidSpace(stream), count))]

StreamPeek(stream, position, count) == [i \in 1 .. count |-> stream.bytes[Around(stream, position + i - 1)]]

(***************************************************************************)
(* The window of the sender.  A segment is known by its sequence number;   *)
(* xTxSegments holds all of them in that order, and xTxQueue, xWaitQueue   *)
(* and xPriorityQueue those that are to be sent, were sent, and are to be  *)
(* sent again.                                                             *)
(***************************************************************************)
NewSender ==
  [current |-> FirstSequence, highest |-> FirstSequence, next |-> FirstSequence,
   segments |-> <<>>, tx |-> <<>>, wait |-> <<>>, priority |-> <<>>,
   pxHeadSegment |-> None, window |-> TxWindow, peer |-> 0]

(* SelectSeq, as a function that can be reasoned about.                    *)
Those(queue, numbers) ==
  LET kept[i \in 0 .. Len(queue)] ==
        IF i = 0 THEN <<>>
        ELSE IF queue[i] \in numbers THEN Append(kept[i - 1], queue[i]) ELSE kept[i - 1]
  IN kept[Len(queue)]

Without(queue, numbers) == Those(queue, {queue[i] : i \in 1 .. Len(queue)} \ numbers)

Dequeued(w, numbers) ==
  [w EXCEPT !.tx = Without(@, numbers), !.wait = Without(@, numbers), !.priority = Without(@, numbers)]

End(w, n) == Plus(n, w.segments[n].length)

(* lTCPWindowTxAdd: the last segment, while it was not sent, grows; the    *)
(* rest of the bytes gets new segments.                                    *)
GrowsBy(w, count) ==
  LET h == w.pxHeadSegment
  IN IF h # None /\ ~w.segments[h].outstanding THEN Smaller(count, MSS - w.segments[h].length) ELSE 0

Grown(w, more) ==
  LET h == w.pxHeadSegment
  IN IF more = 0 THEN w
     ELSE [w EXCEPT !.segments[h].length = @ + more, !.next = Plus(@, more),
                    !.pxHeadSegment = IF w.segments[h].length + more = MSS THEN None ELSE @]

WithNewSegments(w, count, position, stream) ==
  LET wanted == (count + MSS - 1) \div MSS
      made == Smaller(wanted, SegmentCount - Cardinality(DOMAIN w.segments))
      number(i) == Plus(w.next, (i - 1) * MSS)
      length(i) == Smaller(MSS, count - (i - 1) * MSS)
      new == [n \in {number(i) : i \in 1 .. made} |->
                LET i == Minus(n, w.next) \div MSS + 1
                IN [length |-> length(i), position |-> Around(stream, position + (i - 1) * MSS),
                    outstanding |-> FALSE, acked |-> FALSE, transmits |-> 0, duplicates |-> 0]]
  IN IF made <= 0 THEN w
     ELSE [w EXCEPT !.segments = [n \in DOMAIN w.segments \cup DOMAIN new |->
                                    IF n \in DOMAIN new THEN new[n] ELSE w.segments[n]],
                    !.tx = @ \o [i \in 1 .. made |-> number(i)],
                    !.next = Plus(number(made), length(made)),
                    !.pxHeadSegment = IF length(made) < MSS THEN number(made) ELSE None]

TxAdd(w, stream) ==
  LET count == MidSpace(stream)
      more == GrowsBy(w, count)
  IN WithNewSegments(Grown(w, more), count - more, Around(stream, stream.mid + more), stream)

(* prvTCPAddTxData *)
AddTxData(w, stream) == MoveMid(stream, Minus(TxAdd(w, stream).next, w.next))

(* The comparison of two sequence numbers takes no wrap into account.      *)
TxHasSpace(w) ==
  LET outstanding == IF w.highest >= w.current THEN w.highest - w.current ELSE 0
      length == w.segments[Head(w.tx)].length
  IN /\ w.peer - Smaller(w.peer, outstanding) >= length
     /\ outstanding # 0 => w.window >= outstanding + length

(* ulTCPWindowTxGet: which segment is sent, if any; "expired" says that    *)
(* the first of xWaitQueue waited long enough.                             *)
TxChoice(w, expired) ==
  IF w.priority # <<>> THEN Head(w.priority)
  ELSE IF expired /\ w.wait # <<>> THEN Head(w.wait)
  ELSE IF w.tx # <<>> /\ TxHasSpace(w) THEN Head(w.tx)
  ELSE None

TxGet(w, expired) ==
  LET n == TxChoice(w, expired)
      s == w.segments[n]
      again == w.priority = <<>> /\ s.outstanding
      transmits == Smaller(s.transmits + 1, MaxTransmits)
      sent == [s EXCEPT !.outstanding = TRUE, !.transmits = transmits, !.duplicates = IF again THEN 0 ELSE @]
      q == Dequeued(w, {n})
  IN [q EXCEPT !.wait = Append(@, n), !.segments[n] = sent,
               !.pxHeadSegment = IF @ = n THEN None ELSE @,
               !.highest = IF s.outstanding THEN @ ELSE End(w, n),
               !.window = IF transmits = LargeWindowCount THEN Smaller(@, 2 * MSS) ELSE @]

(* prvTCPWindowTxCheckAck walks along the segments from the one that       *)
(* starts at "first"; one that is not acknowledged as a whole ends it.     *)
Covered(w, first, last) ==
  IF first \notin DOMAIN w.segments THEN {}
  ELSE {n \in DOMAIN w.segments :
          /\ SequenceLessThanOrEqual(first, n) /\ SequenceLessThan(n, last)
          /\ w.segments[n].acked \/ SequenceLessThanOrEqual(End(w, n), last)}

(* A wrong variant, for contrast: a reported range counts as acknowledged. *)
CheckAckAnywhere(w, first, last) ==
  LET covered == Covered(w, first, last)
      q == Dequeued(w, covered)
  IN [q EXCEPT !.segments = [n \in DOMAIN @ \ covered |-> @[n]],
               !.current = Plus(@, SumFunction([n \in covered |-> w.segments[n].length]))]

CheckAck(w, first, last) ==
  LET covered == Covered(w, first, last)
      q == Dequeued(w, covered)
  IN IF first = w.current
     THEN [q EXCEPT !.segments = [n \in DOMAIN w.segments \ covered |-> w.segments[n]],
                    !.current = Plus(@, SumFunction([n \in covered |-> w.segments[n].length]))]
     ELSE [q EXCEPT !.segments = [n \in DOMAIN w.segments |-> [w.segments[n] EXCEPT !.acked = @ \/ n \in covered]]]

(* prvTCPWindowFastRetransmit *)
FastRetransmit(w, first) ==
  LET passed(n) == /\ \E i \in 1 .. Len(w.wait) : w.wait[i] = n
                   /\ ~w.segments[n].acked /\ SequenceLessThan(n, first)
      third(n) == passed(n) /\ w.segments[n].duplicates = DuplicateAcks - 1
      again == {n \in DOMAIN w.segments : third(n)}
      counted == [n \in DOMAIN w.segments |->
                    [w.segments[n] EXCEPT
                       !.duplicates = IF passed(n) THEN Smaller(@ + 1, MaxTransmits) ELSE @,
                       !.transmits = IF third(n) THEN 0 ELSE @]]
  IN [w EXCEPT !.segments = counted, !.wait = Without(@, again),
               !.priority = @ \o Those(w.wait, again)]

TxAck(w, number) ==
  IF SequenceLessThanOrEqual(number, w.current) THEN w ELSE CheckAck(w, w.current, number)

TxSack(w, sack) ==
  IF sack = <<>> THEN w ELSE FastRetransmit(CheckAck(w, sack[1], sack[2]), sack[1])

(***************************************************************************)
(* The window of the receiver: lTCPWindowRxCheck.  xRxSegments holds what  *)
(* was stored before its turn.  Its results: the offset at which the data  *)
(* goes into the stream, if anywhere, how many bytes that were there       *)
(* become readable after it, and the range to report (SACK).               *)
(***************************************************************************)
NewReceiver ==
  [current |-> FirstSequence, segments |-> {}, bLowWater |-> FALSE, bWinChange |-> FALSE,
   ackMessage |-> FALSE, ulHighestRxAllowed |-> Plus(FirstSequence, RxWindow)]

RxEnd(s) == Plus(s.number, s.length)

(* Where the stored segments lead that begin where another ends.           *)
RxSteps(segments, from) ==
  LET step[k \in 0 .. Cardinality(segments)] ==
        IF k = 0 THEN from
        ELSE IF \E s \in segments : s.number = step[k - 1]
             THEN RxEnd(CHOOSE s \in segments : s.number = step[k - 1])
             ELSE step[k - 1]
  IN [visited |-> {step[k] : k \in 0 .. Cardinality(segments)}, last |-> step[Cardinality(segments)]]

(* xTCPWindowRxConfirm finds those that begin within the packet.           *)
RxConfirmed(segments, number, length) ==
  {s \in segments : SequenceLessThanOrEqual(number, s.number)
                     /\ SequenceLessThan(s.number, Plus(number, length))}

Refused(r) == [window |-> r, offset |-> None, more |-> 0, sack |-> <<>>]

(* A wrong variant, for contrast: what was stored before is not added.     *)
RxInOrderAlone(r, number, length) ==
  LET left == r.segments \ RxConfirmed(r.segments, number, length)
      steps == RxSteps(left, Plus(number, length))
  IN [window |-> [r EXCEPT !.current = steps.last,
                           !.segments = {s \in left : s.number \notin steps.visited}],
      offset |-> 0, more |-> 0, sack |-> <<>>]

RxInOrder(r, number, length) ==
  LET left == r.segments \ RxConfirmed(r.segments, number, length)
      steps == RxSteps(left, Plus(number, length))
  IN [window |-> [r EXCEPT !.current = steps.last,
                           !.segments = {s \in left : s.number \notin steps.visited}],
      offset |-> 0, more |-> Minus(steps.last, Plus(number, length)), sack |-> <<>>]

RxAhead(r, number, length) ==
  LET sack == <<number, RxSteps(r.segments, Plus(number, length)).last>>
      known == \E s \in r.segments : s.number = number
      offset == Minus(number, r.current)
  IN IF known THEN [Refused(r) EXCEPT !.sack = sack]
     ELSE IF Cardinality(r.segments) = SegmentCount THEN Refused(r)
     ELSE [window |-> [r EXCEPT !.segments = @ \cup {[number |-> number, length |-> length]}],
           offset |-> IF Negative(offset) THEN None ELSE offset, more |-> 0, sack |-> sack]

RxCheck(r, number, length, space) ==
  LET distance == Minus(Plus(number, length), r.current)
  IN IF number = r.current
     THEN IF length > space THEN Refused(r) ELSE RxInOrder(r, number, length)
     ELSE IF Plus(number, 1) = r.current \/ distance = 0 \/ Negative(distance) \/ distance > space
     THEN Refused(r)
     ELSE RxAhead(r, number, length)

(* lTCPAddRxdata *)
AddRxData(stream, offset, data, count) == StreamAdd(stream, offset, data, count)

Watermark(r, stream) ==
  IF ~r.bLowWater /\ FrontSpace(stream) <= LittleSpace
  THEN [r EXCEPT !.bLowWater = TRUE, !.bWinChange = TRUE] ELSE r

(* prvStoreRxData *)
StoreRxData(result, data) ==
  LET once == AddRxData(rxStream, result.offset, data, Len(data))
      twice == IF result.more = 0 THEN once ELSE AddRxData(once, 0, <<>>, result.more)
  IN IF result.offset = None THEN [stream |-> rxStream, window |-> result.window]
     ELSE [stream |-> twice,
           window |-> IF result.offset > 0 THEN result.window
                      ELSE Watermark(Watermark(result.window, once), twice)]

(* prvTCPReturnPacket: how much may be sent after what is acknowledged.    *)
Advertised(r, stream) ==
  LET front == FrontSpace(stream)
      space == IF r.bLowWater THEN 0 ELSE Smaller(RxWindow, front)
  IN IF space < MSS /\ front >= MSS THEN MSS ELSE space

Acknowledgement(r, stream, sack) == [ack |-> r.current, window |-> Advertised(r, stream), sack |-> sack]

Answered(r, stream) ==
  [r EXCEPT !.bWinChange = FALSE, !.ackMessage = FALSE,
            !.ulHighestRxAllowed = Plus(r.current, Advertised(r, stream))]

(* prvSendData: whether the acknowledgement may wait for the next check.   *)
MayDelay(r, sack) ==
  LET room == Minus(r.ulHighestRxAllowed, r.current)
  IN sack = <<>> /\ ~Negative(room) /\ room >= 2 * MSS

(***************************************************************************)
(* The two ends and the network.                                           *)
(***************************************************************************)
WindowInit ==
  /\ snd = [NewSender EXCEPT !.peer = Smaller(RxWindow, RxLength - 1)]
  /\ txStream = NewStream(TxLength)
  /\ rcv = NewReceiver /\ rxStream = NewStream(RxLength)
  /\ sends = 0 /\ written = 0 /\ consumed = 0
  /\ segmentsOut = {} /\ acksOut = {}

(* When too many are on their way, one of them is lost.                    *)
Sent(packets, p, most) ==
  {p} \cup IF Cardinality(packets) < most THEN packets ELSE packets \ {CHOOSE q \in packets : TRUE}

(* FreeRTOS_send; the task of the user runs when the IP task does not.     *)
UserWrites ==
  /\ sends = 0
  /\ \E count \in 1 .. Smaller(GetSpace(txStream), MaxBytes - written) :
       /\ txStream' = StreamAdd(txStream, 0, [i \in 1 .. count |-> written + i], count)
       /\ written' = written + count
  /\ UNCHANGED <<snd, rcv, rxStream, sends, consumed, segmentsOut, acksOut>>

(* xTCPSocketCheck of the sender; prvTCPSendRepeated goes on with SendNext. *)
SenderCheck ==
  /\ sends = 0
  /\ snd' = TxAdd(snd, txStream)
  /\ txStream' = AddTxData(snd, txStream)
  /\ sends' = RepeatCount
  /\ UNCHANGED <<rcv, rxStream, written, consumed, segmentsOut, acksOut>>

(* prvTCPPrepareSend *)
SendSegment(expired) ==
  LET n == TxChoice(snd, expired)
  IN /\ sends > 0 /\ n # None
     /\ snd' = TxGet(snd, expired)
     /\ segmentsOut' = Sent(segmentsOut,
          [number |-> n, data |-> StreamPeek(txStream, snd.segments[n].position, snd.segments[n].length)],
          MaxInFlight)
     /\ sends' = sends - 1
     /\ UNCHANGED <<txStream, rcv, rxStream, written, consumed, acksOut>>

NothingToSend ==
  /\ sends > 0 /\ TxChoice(snd, FALSE) = None
  /\ sends' = 0
  /\ UNCHANGED <<snd, txStream, rcv, rxStream, written, consumed, segmentsOut, acksOut>>

(* After a long silence, a probe: it repeats the last number that was used. *)
SendKeepAlive ==
  /\ sends > 0 /\ TxChoice(snd, FALSE) = None
  /\ segmentsOut' = Sent(segmentsOut, [number |-> Minus(snd.highest, 1), data |-> <<>>], MaxInFlight)
  /\ sends' = 0
  /\ UNCHANGED <<snd, txStream, rcv, rxStream, written, consumed, acksOut>>

(* prvCheckOptions, which takes the range that was reported, and           *)
(* prvHandleEstablished.                                                   *)
ReceiveAck(p) ==
  /\ sends = 0
  /\ \E reported \in {TxSack(snd, p.sack)} :
     \E acked \in {[TxAck(reported, p.ack) EXCEPT !.peer = p.window]} :
     \E freed \in {StreamTake(txStream, Minus(acked.current, snd.current))} :
       /\ snd' = TxAdd(acked, freed)
       /\ txStream' = AddTxData(acked, freed)
  /\ sends' = 1
  /\ UNCHANGED <<rcv, rxStream, written, consumed, segmentsOut>>

(* prvTCPHandleState and prvHandleEstablished of the receiver.  A packet   *)
(* that repeats the last byte is a probe, and gets an answer.              *)
Answers(r, stream, sack) ==
  rcv' = Answered(r, stream) /\ acksOut' = Sent(acksOut, Acknowledgement(r, stream, sack), MaxAcks)

ReceiveSegment(p) ==
  /\ \E probed \in {[rcv EXCEPT !.bWinChange = @ \/ Plus(p.number, 1) = rcv.current]} :
       IF p.data = <<>>
       THEN /\ UNCHANGED rxStream
            /\ IF probed.bWinChange THEN Answers(probed, rxStream, <<>>)
                                    ELSE rcv' = probed /\ UNCHANGED acksOut
       ELSE \E result \in {RxCheck(probed, p.number, Len(p.data), GetSpace(rxStream))} :
            \E stored \in {StoreRxData(result, p.data)} :
              /\ rxStream' = stored.stream
              /\ IF MayDelay(stored.window, result.sack)
                 THEN rcv' = [stored.window EXCEPT !.ackMessage = TRUE] /\ UNCHANGED acksOut
                 ELSE Answers(stored.window, stored.stream, result.sack)
  /\ UNCHANGED <<snd, txStream, sends, written, consumed>>

ReceiverCheck ==
  /\ rcv.ackMessage \/ rcv.bWinChange
  /\ Answers(rcv, rxStream, <<>>)
  /\ UNCHANGED <<snd, txStream, rxStream, sends, written, consumed, segmentsOut>>

(* FreeRTOS_recv *)
UserReads ==
  /\ \E count \in 1 .. GetSize(rxStream) :
       LET taken == StreamTake(rxStream, count)
           opened == rcv.bLowWater /\ FrontSpace(taken) >= EnoughSpace
       IN /\ rxStream' = taken
          /\ consumed' = consumed + count
          /\ rcv' = IF opened THEN [rcv EXCEPT !.bLowWater = FALSE, !.bWinChange = TRUE] ELSE rcv
  /\ UNCHANGED <<snd, txStream, sends, written, segmentsOut, acksOut>>

(* A packet that arrives may arrive once more.                             *)
DeliverSegment(p, repeated) ==
  ReceiveSegment(p) /\ segmentsOut' = IF repeated THEN segmentsOut ELSE segmentsOut \ {p}

DeliverAck(p, repeated) ==
  ReceiveAck(p) /\ acksOut' = IF repeated THEN acksOut ELSE acksOut \ {p}

Lose ==
  /\ \/ \E p \in segmentsOut : segmentsOut' = segmentsOut \ {p} /\ UNCHANGED acksOut
     \/ \E p \in acksOut : acksOut' = acksOut \ {p} /\ UNCHANGED segmentsOut
  /\ UNCHANGED <<snd, txStream, rcv, rxStream, sends, written, consumed>>

(* Another program, that sends some of the bytes again in other segments.  *)
SendResegmented ==
  /\ \E from \in 0 .. Minus(snd.highest, snd.current) - 1 :
       \E count \in 1 .. Smaller(MSS, Minus(snd.highest, snd.current) - from) :
         segmentsOut' = Sent(segmentsOut,
           [number |-> Plus(snd.current, from),
            data |-> StreamPeek(txStream, Around(txStream, txStream.tail + from), count)],
           MaxInFlight)
  /\ UNCHANGED <<snd, txStream, rcv, rxStream, sends, written, consumed, acksOut>>

WindowNext ==
  \/ UserWrites \/ UserReads
  \/ SenderCheck \/ NothingToSend \/ SendKeepAlive \/ ReceiverCheck
  \/ \E expired \in BOOLEAN : SendSegment(expired)
  \/ \E p \in segmentsOut, repeated \in BOOLEAN : DeliverSegment(p, repeated)
  \/ \E p \in acksOut, repeated \in BOOLEAN : DeliverAck(p, repeated)
  \/ Lose

WindowNextResegmented == WindowNext \/ SendResegmented

-----------------------------------------------------------------------------
(***************************************************************************)
(* Properties.                                                             *)
(***************************************************************************)
Place(number) == Minus(number, FirstSequence)   \* the number of bytes before it

Bytes(from, count) == [i \in 1 .. count |-> from + i]

(* What the user of the receiver may read is the stream from the first     *)
(* byte that was not read, without gap, repetition or change; and what was *)
(* stored ahead of its turn is at its place.  (lTCPWindowRxCheck,          *)
(* lTCPAddRxdata, uxStreamBufferAdd)                                       *)
ReceivedInOrder ==
  /\ consumed + GetSize(rxStream) = Place(rcv.current)
  /\ StreamPeek(rxStream, rxStream.tail, GetSize(rxStream)) = Bytes(consumed, GetSize(rxStream))
  /\ \A s \in rcv.segments :
       StreamPeek(rxStream, rxStream.head + Minus(s.number, rcv.current), s.length) = Bytes(Place(s.number), s.length)

(* The sender forgets a byte only after the receiver has it in order, and  *)
(* every other byte that it took over from the user is in one segment,     *)
(* which refers to its place in the stream; a segment is in one queue,     *)
(* until it was reported as received, and then in none.  (lTCPWindowTxAdd, *)
(* ulTCPWindowTxGet, prvTCPWindowTxCheckAck, prvTCPWindowFastRetransmit)   *)
Occurrences(queue, n) == Cardinality({i \in 1 .. Len(queue) : queue[i] = n})

EveryByteTracked ==
  /\ Place(snd.current) <= Place(rcv.current)
  /\ written - GetSize(txStream) = Place(snd.current)
  /\ \A b \in Place(snd.current) .. Place(snd.next) - 1 :
       Cardinality({n \in DOMAIN snd.segments : Place(n) <= b /\ b < Place(n) + snd.segments[n].length}) = 1
  /\ \A n \in DOMAIN snd.segments :
       LET s == snd.segments[n]
       IN /\ StreamPeek(txStream, s.position, s.length) = Bytes(Place(n), s.length)
          /\ Occurrences(snd.tx \o snd.wait \o snd.priority, n) = IF s.acked THEN 0 ELSE 1

(* Every segment that waits for those before it lies ahead of the data     *)
(* that arrived, so that xTCPWindowRxEmpty becomes true again, without     *)
(* which no FIN is accepted.  It does not hold with WindowNextResegmented. *)
(* (lTCPWindowRxCheck)                                                     *)
NoSegmentLeftBehind == \A s \in rcv.segments : ~Negative(Minus(s.number, rcv.current))

(* Never more is sent than the last window that the receiver reported      *)
(* allows, unless it is sent again.  It does not hold when the numbers     *)
(* wrap between the two that are compared.  (prvTCPWindowTxHasSpace)       *)
SentWithinWindow ==
  [][snd'.highest # snd.highest => Minus(snd'.highest, snd.current) <= snd.peer]_winVars

(* When nothing that was sent waits for an answer, the receiver expects    *)
(* the number after the highest that was used, which is what the probe     *)
(* repeats: otherwise it would not answer, and once the report of a window *)
(* that opens again is lost, nobody would speak any more.                  *)
(* (prvTCPPrepareSend, prvTCPReturnPacket, prvTCPHandleState)              *)
ProbeIsAnswered == snd.wait = <<>> /\ snd.priority = <<>> => rcv.current = snd.highest
=============================================================================
