---------------------------- MODULE NetChecksum ----------------------------
(***************************************************************************)
(* Internet checksums, freeRTOS/FreeRTOS_UDP_Source/FreeRTOS_IP.c, on a    *)
(* little-endian processor, against the one's complement sum they stand    *)
(* for.  A byte has ByteBase values instead of 256, and halfwords and      *)
(* words are two and four of them, so that carries occur in short packets. *)
(***************************************************************************)
EXTENDS Integers, Sequences

CONSTANTS
  ByteBase,
  Quads, Tails,     \* four bytes, and single bytes, that data is made of
  MaxQuads,         \* bound: on the data
  SumSeeds,         \* ulSum, of the pseudo header
  EchoRequest       \* ipICMP_ECHO_REQUEST; ipICMP_ECHO_REPLY is 0

Byte == 0 .. ByteBase - 1
HalfBase == ByteBase * ByteBase
WordBase == HalfBase * HalfBase

(* A byte has an even number of values, and what is summed leaves three    *)
(* foldings nothing to carry: 256, and packets of less than 64 Kbytes.     *)
ASSUME ChecksumAssumption ==
  /\ ByteBase \in Nat \ {0} /\ ByteBase % 2 = 0 /\ MaxQuads \in Nat
  /\ 10 * HalfBase + MaxQuads <= WordBase
  /\ Quads \subseteq [1 .. 4 -> Byte] /\ Tails \subseteq Byte
  /\ SumSeeds \subseteq 0 .. HalfBase - 1 /\ EchoRequest \in Byte

VARIABLES
  packet,   \* the bytes
  start,    \* the address of the first one, modulo 4
  seed

sumVars == <<packet, start, seed>>

(* FreeRTOS_htons and FreeRTOS_ntohs. *)
Swapped(h) == (h % ByteBase) * ByteBase + h \div ByteBase

(* What the processor loads from d[i] on. *)
HalfAt(d, i) == d[i] + ByteBase * d[i + 1]
WordAt(d, i) == HalfAt(d, i) + HalfBase * HalfAt(d, i + 2)

FoldedOnce(sum) == (sum % HalfBase) + sum \div HalfBase

(***************************************************************************)
(* usGenerateChecksum: one byte if the address is odd, a halfword if it is *)
(* not that of a word then, as many blocks of four words as there are, and *)
(* the rest as halfwords.                                                  *)
(***************************************************************************)
Skew(from, n) == IF from % 2 = 1 /\ n >= 1 THEN 1 ELSE 0

Leading(from, n) ==
  LET odd == Skew(from, n) IN odd + (IF from \in {1, 2} /\ n - odd >= 2 THEN 2 ELSE 0)

(* A wrong variant, for contrast. *)
AddWordOrEqual(acc, w) ==
  LET sum == (acc.sum + w) % WordBase
  IN  [sum |-> sum, carry |-> acc.carry + IF sum <= acc.sum THEN 1 ELSE 0]

(* An addition of 32 bits, and the carry seen from the sum being smaller.  *)
AddWord(acc, w) ==
  LET sum == (acc.sum + w) % WordBase
  IN  [sum |-> sum, carry |-> acc.carry + IF sum < acc.sum THEN 1 ELSE 0]

Summed(d, first, words, sum) ==
  LET acc[k \in 0 .. words] ==
        IF k = 0 THEN [sum |-> sum, carry |-> 0] ELSE AddWord(acc[k - 1], WordAt(d, first + 4 * (k - 1)))
  IN  acc[words]

Added(d, first, halves) ==
  LET sum[k \in 0 .. halves] ==
        IF k = 0 THEN 0 ELSE sum[k - 1] + HalfAt(d, first + 2 * (k - 1))
  IN  sum[halves]

usGenerateChecksum(ulSum, d, from) ==
  LET n == Len(d)
      lead == Leading(from, n)
      sum0 == Swapped(ulSum) + IF lead >= 2 THEN HalfAt(d, lead - 1) ELSE 0
      blocks == 4 * ((n - lead) \div 16)
      acc == Summed(d, lead + 1, blocks, sum0)
      rest == (n - lead) % 16
      done == lead + 4 * blocks
      term == (IF Skew(from, n) = 1 THEN ByteBase * d[1] ELSE 0) + (IF rest % 2 = 1 THEN d[n] ELSE 0)
      sum == FoldedOnce(FoldedOnce(FoldedOnce(acc.sum) + acc.carry + Added(d, done + 1, rest \div 2) + term))
  IN  Swapped(IF from % 2 = 1 THEN Swapped(sum) ELSE sum)

(***************************************************************************)
(* usGenerateProtocolChecksum of a packet: its lengths, its protocol, and  *)
(* the place of the checksum in what is summed.                            *)
(***************************************************************************)
InvalidLength == [code |-> "ipINVALID_LENGTH", sum |-> 0]
Unhandled == [code |-> "ipUNHANDLED_PROTOCOL", sum |-> 0]
CorrectCrc == [code |-> "crc", sum |-> HalfBase - 1]   \* ipCORRECT_CRC

Placed(d, field, value) == [d EXCEPT ![field] = value \div ByteBase, ![field + 1] = value % ByteBase]
Field(d, field) == d[field] * ByteBase + d[field + 1]

Inverted(h) == HalfBase - 1 - h

usGenerateProtocolChecksum(p, outgoing) ==
  LET d == IF outgoing THEN Placed(p.data, p.field, 0) ELSE p.data
      sum == Inverted(usGenerateChecksum(IF p.protocol \in {"ICMP", "IGMP"} THEN 0 ELSE p.pseudo, d, p.from))
  IN  IF ~p.complete THEN InvalidLength
      ELSE IF p.protocol \notin {"UDP", "TCP", "ICMP", "IGMP"} THEN Unhandled
      ELSE IF ~outgoing /\ p.protocol = "UDP" /\ Field(p.data, p.field) = 0 THEN CorrectCrc
      ELSE IF ~p.lengthInRange THEN InvalidLength
      ELSE [code |-> "crc",
            sum |-> IF sum = 0 /\ (~outgoing \/ p.protocol = "UDP") THEN HalfBase - 1 ELSE sum]

(***************************************************************************)
(* prvProcessICMPEchoRequest: the checksum, as it is loaded.               *)
(***************************************************************************)
EchoReplyChecksum(usChecksum) ==
  LET usRequest == EchoRequest * ByteBase
  IN  (usChecksum + IF usChecksum >= Swapped(HalfBase - 1 - usRequest)
                    THEN Swapped(usRequest + 1)
                    ELSE Swapped(usRequest))
      % HalfBase

EchoReplied(d) == Placed([d EXCEPT ![1] = 0], 3, Swapped(EchoReplyChecksum(HalfAt(d, 3))))

(***************************************************************************)
(* The data.                                                               *)
(***************************************************************************)
ChecksumInit ==
  /\ packet = <<>> /\ start \in 0 .. 3 /\ seed \in SumSeeds
  /\ seed = 0 \/ start % 2 = 0

Longer ==
  /\ \/ \E q \in Quads : Len(packet) % 4 = 0 /\ Len(packet) < 4 * MaxQuads /\ packet' = packet \o q
     \/ \E x \in Tails : Len(packet) % 4 < 3 /\ packet' = Append(packet, x)
  /\ UNCHANGED <<start, seed>>

ChecksumNext == Longer

ChecksumSpec == ChecksumInit /\ [][ChecksumNext]_sumVars

(***************************************************************************)
(* Properties.                                                             *)
(***************************************************************************)
BigEndian(d) ==
  LET sum[k \in 0 .. Len(d)] ==
        IF k = 0 THEN 0 ELSE sum[k - 1] + (IF k % 2 = 1 THEN ByteBase ELSE 1) * d[k]
  IN  sum[Len(d)]

OnesSum(s) == IF s = 0 THEN 0 ELSE 1 + ((s - 1) % (HalfBase - 1))

(* A packet whose data is preceded by its checksum.                        *)
Carrying(protocol, checksum) ==
  [protocol |-> protocol, pseudo |-> seed, from |-> start, field |-> 1, complete |-> TRUE,
   lengthInRange |-> TRUE, data |-> Placed(<<0, 0>> \o packet, 1, checksum)]

(* The sum of the halfwords in network order, with the carries added back, *)
(* comes out of the additions of swapped words at any alignment            *)
(* (usGenerateChecksum); a packet that is sent with its checksum is        *)
(* accepted when it is received, and no longer when a byte of it was       *)
(* changed (usGenerateProtocolChecksum).                                   *)
ChecksumsRight ==
  /\ usGenerateChecksum(seed, packet, start) = OnesSum(seed + BigEndian(packet))
  /\ start % 2 = 0 => \A protocol \in {"UDP", "TCP"} :
       LET sent == Carrying(protocol, usGenerateProtocolChecksum(Carrying(protocol, 0), TRUE).sum)
       IN  /\ usGenerateProtocolChecksum(sent, FALSE) = CorrectCrc
           /\ \A i \in DOMAIN packet : 
                LET flipped == [sent EXCEPT !.data[i + 2] = ByteBase - 1 - @]
                IN  usGenerateProtocolChecksum(flipped, FALSE) # CorrectCrc

(* Changing the checksum of an echo request gives the checksum of the      *)
(* reply.  It does not hold: where the sum overflows, htons(0x0801) is     *)
(* added instead of 9 (prvProcessICMPEchoRequest).                         *)
PingRepliesValid ==
  start = 0 =>
    \A id \in Byte \X Byte :
      LET body == <<EchoRequest, 0, 0, 0>> \o id \o packet
          request == Placed(body, 3, Inverted(usGenerateChecksum(0, body, 0)))
      IN  Inverted(usGenerateChecksum(0, EchoReplied(request), 0)) = 0
=============================================================================
