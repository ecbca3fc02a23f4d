----------------------------- MODULE EmacDriver -----------------------------
(***************************************************************************)
(* The Ethernet driver, portable/NetworkInterface/Zynq: two rings of       *)
(* buffer descriptors shared with the DMA of the MAC, the interrupt        *)
(* handlers that note events, the EMAC task that handles them, and the IP  *)
(* task as far as it takes frames from the driver and gives it others.     *)
(* Interrupts come between any two steps; the IP task, whose priority is   *)
(* lower, runs while the EMAC task waits.                                  *)
(*                                                                         *)
(* Buffers are counted here; NetworkBuffers tells them apart.              *)
(***************************************************************************)
EXTENDS Integers, Sequences, FiniteSets, Functions

CONSTANTS
  TxDescs, RxDescs,      \* ipconfigNIC_N_TX_DESC, ipconfigNIC_N_RX_DESC
  NetBuffers,            \* ipconfigNUM_NETWORK_BUFFER_DESCRIPTORS
  EventQueueLength,
  FrameNumbers           \* bound: frames are numbered modulo this

ASSUME EmacAssumption ==
  /\ TxDescs \in Nat /\ TxDescs > 1
  /\ RxDescs \in Nat \ {0} /\ NetBuffers \in Nat /\ NetBuffers >= RxDescs
  /\ EventQueueLength \in Nat \ {0} /\ FrameNumbers \in Nat /\ FrameNumbers > TxDescs

VARIABLES
  tx,          \* txSegments, txHead, txTail, xTXDescriptorSemaphore, and the DMA's position
  rx,          \* rxSegments, rxHead and the DMA's position
  isr_events, notified,
  linkUp,      \* ulPHYLinkStatus
  emac,        \* where the EMAC task is, the events it read, the frames it collected (ethMsg)
  ip,          \* where the IP task is, the frames it still has
  freeBuffers,
  queued       \* chains of frames in the event queue of the IP task, by their lengths

emacVars == <<tx, rx, isr_events, notified, linkUp, emac, ip, freeBuffers, queued>>

TxNext(d) == (d + 1) % TxDescs
RxNext(d) == (d + 1) % RxDescs

(* init_dma and clean_dma_txdescs: every receive descriptor has a buffer   *)
(* of the pool, every transmit descriptor a copy buffer of its own.        *)
EmacInit ==
  /\ tx = [used |-> [d \in 0 .. TxDescs - 1 |-> TRUE], frame |-> [d \in 0 .. TxDescs - 1 |-> 0],
           head |-> 0, tail |-> 0, sem |-> TxDescs, dma |-> 0, next |-> 0]
  /\ rx = [new |-> [d \in 0 .. RxDescs - 1 |-> FALSE], len |-> [d \in 0 .. RxDescs - 1 |-> 0],
           head |-> 0, dma |-> 0]
  /\ isr_events = {} /\ notified = FALSE
  /\ linkUp \in BOOLEAN
  /\ emac = [at |-> "wait", read |-> {}, ethMsg |-> 0]
  /\ ip = [at |-> "idle", chain |-> 0]
  /\ freeBuffers = NetBuffers - RxDescs
  /\ queued = <<>>

(***************************************************************************)
(* The MAC and the interrupt handlers.                                     *)
(***************************************************************************)
(* A frame arrives; without a free descriptor the MAC drops it.            *)
(* emacps_recv_handler. *)
FrameReceived ==
  /\ linkUp /\ ~rx.new[rx.dma]
  /\ rx' = [rx EXCEPT !.new[rx.dma] = TRUE, !.len[rx.dma] = 1, !.dma = RxNext(@)]
  /\ isr_events' = isr_events \cup {"rx"} /\ notified' = TRUE
  /\ UNCHANGED <<tx, linkUp, emac, ip, freeBuffers, queued>>

(* The MAC sends the next descriptor it owns.  emacps_send_handler. *)
FrameSent ==
  /\ ~tx.used[tx.dma]
  /\ tx' = [tx EXCEPT !.used[tx.dma] = TRUE, !.dma = TxNext(@)]
  /\ isr_events' = isr_events \cup {"tx"} /\ notified' = TRUE
  /\ UNCHANGED <<rx, linkUp, emac, ip, freeBuffers, queued>>

(***************************************************************************)
(* The EMAC task, prvEMACHandlerTask.                                      *)
(***************************************************************************)
Go(to) == emac' = [emac EXCEPT !.at = to]

(* The wait ends with a notification or after 100 ms; it is skipped when   *)
(* an event is noted.                                                      *)
EmacWakes ==
  /\ emac.at = "wait"
  /\ notified' = (notified /\ isr_events # {})
  /\ Go("rxTest")
  /\ UNCHANGED <<tx, rx, isr_events, linkUp, ip, freeBuffers, queued>>

(* isr_events &= ~event: the word is read here and written in the next     *)
(* step.  An interrupt between the two sets a bit that is lost.            *)
TestEvent(e, at, clear, skip) ==
  /\ emac.at = at
  /\ emac' = [emac EXCEPT !.at = IF e \in isr_events THEN clear ELSE skip, !.read = isr_events]
  /\ UNCHANGED <<tx, rx, isr_events, notified, linkUp, ip, freeBuffers, queued>>

ClearEvent(e, at, to) ==
  /\ emac.at = at
  /\ isr_events' = emac.read \ {e}
  /\ emac' = [emac EXCEPT !.at = to, !.read = {}]
  /\ UNCHANGED <<tx, rx, notified, linkUp, ip, freeBuffers, queued>>

(* A wrong variant, for contrast: no replacement, but the frame goes on. *)
TakeFrameAnyway ==
  /\ emac.at = "rx" /\ rx.new[rx.head]
  /\ freeBuffers' = IF freeBuffers > 0 THEN freeBuffers - 1 ELSE freeBuffers
  /\ emac' = [emac EXCEPT !.at = "rxFlags", !.ethMsg = @ + 1]
  /\ rx' = [rx EXCEPT !.new[rx.head] = FALSE]
  /\ UNCHANGED <<tx, isr_events, notified, linkUp, ip, queued>>

(* emacps_check_rx: one descriptor.  A new buffer takes the place of the   *)
(* received one; without a new one the frame is dropped.                   *)
TakeFrame ==
  /\ emac.at = "rx" /\ rx.new[rx.head]
  /\ freeBuffers' = IF freeBuffers > 0 THEN freeBuffers - 1 ELSE freeBuffers
  /\ emac' = [emac EXCEPT !.at = "rxFlags", !.ethMsg = IF freeBuffers > 0 THEN @ + 1 ELSE @]
  /\ rx' = [rx EXCEPT !.new[rx.head] = FALSE]
  /\ UNCHANGED <<tx, isr_events, notified, linkUp, ip, queued>>

(* The length is reset only now that the MAC may use the descriptor again. *)
ResetFlags ==
  /\ emac.at = "rxFlags"
  /\ rx' = [rx EXCEPT !.len[rx.head] = 0, !.head = RxNext(@)]
  /\ Go("rx")
  /\ UNCHANGED <<tx, isr_events, notified, linkUp, ip, freeBuffers, queued>>

NoMoreFrames ==
  /\ emac.at = "rx" /\ ~rx.new[rx.head]
  /\ Go(IF emac.ethMsg > 0 THEN "pass" ELSE "txTest")
  /\ UNCHANGED <<tx, rx, isr_events, notified, linkUp, ip, freeBuffers, queued>>

(* passEthMessages: the chain goes to the IP task as one event.            *)
PassFrames ==
  /\ emac.at = "pass" /\ Len(queued) < EventQueueLength
  /\ queued' = Append(queued, emac.ethMsg)
  /\ emac' = [emac EXCEPT !.at = "txTest", !.ethMsg = 0]
  /\ UNCHANGED <<tx, rx, isr_events, notified, linkUp, ip, freeBuffers>>

(* The queue stayed full for 1000 ticks. *)
PassTimesOut ==
  /\ emac.at = "pass" /\ Len(queued) = EventQueueLength
  /\ freeBuffers' = freeBuffers + emac.ethMsg
  /\ emac' = [emac EXCEPT !.at = "txTest", !.ethMsg = 0]
  /\ UNCHANGED <<tx, rx, isr_events, notified, linkUp, ip, queued>>

(* A wrong variant, for contrast. *)
ReclaimsHead == tx.sem < TxDescs /\ tx.used[tx.tail]

(* emacps_check_tx: descriptors whose frame was sent are free again.  The  *)
(* one the IP task is filling is still marked used: it is the head.        *)
Reclaims ==
  LET inUse == TxDescs - tx.sem IN
    inUse > 0 /\ tx.used[tx.tail] /\ ~(tx.tail = tx.head /\ inUse # TxDescs)

CheckTx ==
  /\ emac.at = "tx"
  /\ IF Reclaims
     THEN /\ tx' = [tx EXCEPT !.sem = @ + 1, !.tail = TxNext(@)]
          /\ UNCHANGED emac
     ELSE Go("phy") /\ UNCHANGED tx
  /\ UNCHANGED <<rx, isr_events, notified, linkUp, ip, freeBuffers, queued>>

(* The state of the link is looked at now and then. *)
CheckLink ==
  /\ emac.at = "phy"
  /\ linkUp' \in BOOLEAN
  /\ Go("wait")
  /\ UNCHANGED <<tx, rx, isr_events, notified, ip, freeBuffers, queued>>

EmacStep ==
  \/ EmacWakes
  \/ TestEvent("rx", "rxTest", "rxClear", "txTest") \/ ClearEvent("rx", "rxClear", "rx")
  \/ TakeFrame \/ ResetFlags \/ NoMoreFrames \/ PassFrames \/ PassTimesOut
  \/ TestEvent("tx", "txTest", "txClear", "phy") \/ ClearEvent("tx", "txClear", "tx")
  \/ CheckTx \/ CheckLink

(***************************************************************************)
(* The IP task.                                                            *)
(***************************************************************************)
EmacWaits ==
  \/ emac.at = "wait" /\ ~notified /\ isr_events = {}
  \/ emac.at = "pass" /\ Len(queued) = EventQueueLength

IpGoes(to) == ip' = [ip EXCEPT !.at = to]

(* eNetworkRxEvent, prvHandleEthernetPacket. *)
TakeChain ==
  /\ ip.at = "idle" /\ queued # <<>>
  /\ ip' = [at |-> "frames", chain |-> Head(queued)]
  /\ queued' = Tail(queued)
  /\ UNCHANGED <<tx, rx, isr_events, notified, linkUp, emac, freeBuffers>>

(* prvProcessEthernetPacket: the frame of the chain is released, or goes   *)
(* back as a reply.                                                        *)
ReleaseFrame ==
  /\ ip.at = "frames" /\ ip.chain > 0
  /\ freeBuffers' = freeBuffers + 1
  /\ ip' = [at |-> IF ip.chain = 1 THEN "idle" ELSE "frames", chain |-> ip.chain - 1]
  /\ UNCHANGED <<tx, rx, isr_events, notified, linkUp, emac, queued>>

Reply ==
  /\ ip.at = "frames" /\ linkUp
  /\ ip' = [at |-> "take", chain |-> ip.chain - 1]
  /\ UNCHANGED <<tx, rx, isr_events, notified, linkUp, emac, freeBuffers, queued>>

(* eStackTxEvent and eNetworkTxEvent: a packet of a task's own. *)
SendOwn ==
  /\ ip.at = "idle" /\ freeBuffers > 0 /\ linkUp
  /\ freeBuffers' = freeBuffers - 1
  /\ IpGoes("take")
  /\ UNCHANGED <<tx, rx, isr_events, notified, linkUp, emac, queued>>

(* emacps_send_message takes a descriptor, or gives up after 5 seconds.    *)
TakeDescriptor ==
  /\ ip.at = "take" /\ tx.sem > 0
  /\ tx' = [tx EXCEPT !.sem = @ - 1]
  /\ IpGoes("write")
  /\ UNCHANGED <<rx, isr_events, notified, linkUp, emac, freeBuffers, queued>>

AfterSend == [ip EXCEPT !.at = IF ip.chain > 0 THEN "frames" ELSE "idle"]

SendTimesOut ==
  /\ ip.at = "take" /\ tx.sem = 0
  /\ freeBuffers' = freeBuffers + 1
  /\ ip' = AfterSend
  /\ UNCHANGED <<tx, rx, isr_events, notified, linkUp, emac, queued>>

(* The copy, the address and last the flags, which make it the MAC's. *)
WriteDescriptor ==
  /\ ip.at = "write"
  /\ tx' = [tx EXCEPT !.used[tx.head] = FALSE, !.frame[tx.head] = tx.next, !.next = (@ + 1) % FrameNumbers]
  /\ IpGoes("advance")
  /\ UNCHANGED <<rx, isr_events, notified, linkUp, emac, freeBuffers, queued>>

AdvanceHead ==
  /\ ip.at = "advance"
  /\ tx' = [tx EXCEPT !.head = TxNext(@)]
  /\ freeBuffers' = freeBuffers + 1
  /\ ip' = AfterSend
  /\ UNCHANGED <<rx, isr_events, notified, linkUp, emac, queued>>

IpStep ==
  \/ TakeChain \/ ReleaseFrame \/ Reply \/ SendOwn
  \/ TakeDescriptor \/ SendTimesOut \/ WriteDescriptor \/ AdvanceHead

EmacNext ==
  \/ FrameReceived \/ FrameSent
  \/ EmacStep
  \/ EmacWaits /\ IpStep

EmacSpec == EmacInit /\ [][EmacNext]_emacVars

(***************************************************************************)
(* Properties.                                                             *)
(***************************************************************************)
(* Descriptors taken and filled, oldest first; the IP task may be about to *)
(* fill one more.                                                          *)
Filling == IF ip.at = "write" THEN 1 ELSE 0

Taken == TxDescs - tx.sem - Filling

TxAt(i) == (tx.tail + i) % TxDescs

(* Descriptors are handed between the two tasks and the MAC without a      *)
(* lock: the filled ones are those from txTail to txHead, their frames     *)
(* follow each other without a gap or a repetition, the MAC sends them in  *)
(* that order and is at the first that is not sent, and none is taken back *)
(* before it is sent or while it is being filled.  Every buffer is in the  *)
(* pool, in a receive descriptor, in a chain or with the IP task, also     *)
(* when there is no buffer, no descriptor or no room in the queue          *)
(* (emacps_check_tx, emacps_send_message, emacps_check_rx,                 *)
(* passEthMessages).                                                       *)
DescriptorsInStep ==
  LET advance == IF ip.at = "advance" THEN 1 ELSE 0
      sent == {i \in 0 .. Taken - 1 : tx.used[TxAt(i)]}
  IN  /\ Taken \in 0 .. TxDescs
      /\ tx.head = (tx.tail + Taken - advance) % TxDescs
      /\ \A i \in 0 .. Taken - 1 :
           tx.frame[TxAt(i)] = (tx.next + FrameNumbers - Taken + i) % FrameNumbers
      /\ sent = 0 .. Cardinality(sent) - 1
      /\ tx.dma = TxAt(Cardinality(sent))
      /\ \A i \in Taken .. TxDescs - 1 : tx.used[TxAt(i)]
      /\ freeBuffers + RxDescs + emac.ethMsg + SumFunction(queued) + ip.chain
           + (IF ip.at \in {"take", "write", "advance"} THEN 1 ELSE 0) = NetBuffers

(* The interrupts only set a bit, and the task does the necessary work: a  *)
(* frame that was sent is known to the EMAC task until its descriptor is   *)
(* reclaimed (emacps_send_handler).                                        *)
SentFramesNoticed ==
  Taken > 0 /\ tx.used[tx.tail] /\ emac.at \notin {"txClear", "tx"} => "tx" \in isr_events

(* A received frame has the length the MAC gave it.  It does not hold: its *)
(* address is handed back before its flags are cleared (emacps_check_rx).  *)
LengthsKept == [][emac.ethMsg' > emac.ethMsg => rx.len[rx.head] > 0]_emacVars
=============================================================================
