---------------------------- MODULE WindowProofs ----------------------------
(***************************************************************************)
(* Proofs about the stream that TCP carries from one end to the other, in  *)
(* TcpWindow, for every size of the buffers, the window, the segments and  *)
(* the sequence numbers: the receiver reads what the sender wrote, and the *)
(* sender keeps every byte until the receiver has it.                      *)
(*                                                                         *)
(* First the arithmetic: sequence numbers and the places in the stream     *)
(* that they stand for, and circular buffers.  Then what every operation   *)
(* of the two windows keeps of its own end, and at last the invariant that *)
(* relates the two ends and the packets between them.  DatagramProofs has  *)
(* the lemmas about sums.                                                  *)
(***************************************************************************)
EXTENDS TcpWindow, DatagramProofs

(***************************************************************************)
(* The window of TCP.                                                      *)
(*                                                                         *)
(* Numbers, and the places in the stream that they stand for.              *)
(***************************************************************************)
(* What the assumption on the constants says of each of them.              *)
LEMMA WindowNumbers ==
  /\ MSS \in Nat \ {0} /\ TxLength \in Nat \ {0} /\ RxLength \in Nat \ {0} /\ RxWindow \in Nat \ {0} /\ TxWindow \in Nat \ {0}
  /\ SegmentCount \in Nat \ {0}
  /\ SeqMod \in Nat \ {0} /\ MaxBytes \in Nat /\ MaxTransmits \in Nat /\ LittleSpace \in Nat /\ EnoughSpace \in Nat
  /\ FirstSequence \in 0 .. SeqMod - 1 /\ SeqMod > 2 * (MaxBytes + RxLength + MSS)
BY WindowAssumption

Numbers == 0 .. SeqMod - 1

(* The remainder of a division is known when the quotient is guessed.      *)
LEMMA Wrapped ==
  ASSUME NEW m \in Nat \ {0}, NEW x \in Int, NEW k \in Int, NEW r \in 0 .. m - 1, x = r + m * k
  PROVE  x % m = r
<1>1. x % m \in 0 .. m - 1 /\ x = m * (x \div m) + (x % m) /\ (x \div m) \in Int
  OBVIOUS
<1> QED OBVIOUS

(* One correction suffices near the interval of the numbers.               *)
LEMMA WrappedOnce ==
  ASSUME NEW m \in Nat \ {0}, NEW x \in Int, -m <= x, x < 2 * m
  PROVE  x % m = IF x < 0 THEN x + m ELSE IF x < m THEN x ELSE x - m
<1>1. CASE x < 0
  <2>1. x + m \in 0 .. m - 1 /\ x = (x + m) + m * (-1)
    BY <1>1
  <2> QED BY <1>1, <2>1, Wrapped
<1>2. CASE x >= 0 /\ x < m
  <2>1. x \in 0 .. m - 1 /\ x = x + m * 0
    BY <1>2
  <2> QED BY <1>2, <2>1, Wrapped
<1>3. CASE x >= m
  <2>1. x - m \in 0 .. m - 1 /\ x = (x - m) + m * 1
    BY <1>3
  <2> QED BY <1>3, <2>1, Wrapped
<1> QED BY <1>1, <1>2, <1>3

(* Numbers wrap once after the first of them.                              *)
LEMMA PlaceIs ==
  ASSUME NEW n \in Numbers
  PROVE  /\ Place(n) \in Numbers
         /\ Place(n) = IF FirstSequence <= n THEN n - FirstSequence ELSE n - FirstSequence + SeqMod
<1>1. n \in 0 .. SeqMod - 1 /\ SeqMod \in Nat \ {0} /\ FirstSequence \in 0 .. SeqMod - 1
  BY WindowNumbers DEF Numbers
<1> DEFINE x == n - FirstSequence
<1>2. x \in Int /\ -SeqMod <= x /\ x < 2 * SeqMod
  BY <1>1
<1>3. x % SeqMod = IF x < 0 THEN x + SeqMod ELSE IF x < SeqMod THEN x ELSE x - SeqMod
  <2> HIDE DEF x
  <2> QED BY <1>1, <1>2, WrappedOnce
<1>4. Place(n) = x % SeqMod
  BY DEF Place, Minus
<1> QED BY <1>1, <1>3, <1>4 DEF Numbers

(* Two numbers do not stand for one place.                                 *)
LEMMA PlacesDiffer ==
  ASSUME NEW m \in Numbers, NEW n \in Numbers, Place(m) = Place(n)
  PROVE  m = n
<1>1. m \in 0 .. SeqMod - 1 /\ n \in 0 .. SeqMod - 1 /\ SeqMod \in Nat \ {0} /\ FirstSequence \in 0 .. SeqMod - 1
  BY WindowNumbers DEF Numbers
<1> QED BY <1>1, PlaceIs

(* Plus and Minus give numbers, whatever they are given.                   *)
LEMMA NumbersFromInt ==
  ASSUME NEW a \in Int, NEW b \in Int
  PROVE  Plus(a, b) \in Numbers /\ Minus(a, b) \in Numbers
BY WindowNumbers DEF Plus, Minus, Numbers

(* The number that lies further on by "a", while the places do not wrap.   *)
LEMMA PlacePlus ==
  ASSUME NEW n \in Numbers, NEW k \in Int, Place(n) + k \in Numbers
  PROVE  Plus(n, k) \in Numbers /\ Place(Plus(n, k)) = Place(n) + k
<1>1. n \in 0 .. SeqMod - 1 /\ SeqMod \in Nat \ {0} /\ FirstSequence \in 0 .. SeqMod - 1 /\ Place(n) + k \in 0 .. SeqMod - 1
  BY WindowNumbers DEF Numbers
<1>2. Place(n) = IF FirstSequence <= n THEN n - FirstSequence ELSE n - FirstSequence + SeqMod
  BY PlaceIs
<1> DEFINE x == n + k
<1>3. x \in Int /\ -SeqMod <= x /\ x < 2 * SeqMod
  BY <1>1, <1>2
<1>4. x % SeqMod = IF x < 0 THEN x + SeqMod ELSE IF x < SeqMod THEN x ELSE x - SeqMod
  <2> HIDE DEF x
  <2> QED BY <1>1, <1>3, WrappedOnce
<1>5. Plus(n, k) = x % SeqMod
  BY DEF Plus
<1>6. Plus(n, k) \in Numbers
  BY <1>1, NumbersFromInt
<1>7. Place(Plus(n, k)) = IF FirstSequence <= Plus(n, k) THEN Plus(n, k) - FirstSequence ELSE Plus(n, k) - FirstSequence + SeqMod
  BY <1>6, PlaceIs
<1> HIDE DEF x
<1>8. x = n + k
  BY DEF x
<1> QED BY <1>1, <1>2, <1>4, <1>5, <1>6, <1>7, <1>8

(* A difference of numbers is that of their places, or wraps.              *)
LEMMA MinusPlace ==
  ASSUME NEW m \in Numbers, NEW n \in Numbers
  PROVE  /\ Minus(m, n) \in Numbers
         /\ Minus(m, n) = IF Place(n) <= Place(m) THEN Place(m) - Place(n) ELSE Place(m) - Place(n) + SeqMod
<1>1. n \in 0 .. SeqMod - 1 /\ m \in 0 .. SeqMod - 1 /\ SeqMod \in Nat \ {0} /\ FirstSequence \in 0 .. SeqMod - 1
  BY WindowNumbers DEF Numbers
<1>2. /\ Place(n) = IF FirstSequence <= n THEN n - FirstSequence ELSE n - FirstSequence + SeqMod
      /\ Place(m) = IF FirstSequence <= m THEN m - FirstSequence ELSE m - FirstSequence + SeqMod
  BY PlaceIs
<1> DEFINE x == m - n
<1>3. x \in Int /\ -SeqMod <= x /\ x < 2 * SeqMod
  BY <1>1
<1>4. x % SeqMod = IF x < 0 THEN x + SeqMod ELSE IF x < SeqMod THEN x ELSE x - SeqMod
  <2> HIDE DEF x
  <2> QED BY <1>1, <1>3, WrappedOnce
<1>5. Minus(m, n) = x % SeqMod
  BY DEF Minus
<1> QED BY <1>1, <1>2, <1>4, <1>5 DEF Numbers

(* Numbers of bytes that are near each other compare like their places.    *)
Near == 0 .. MaxBytes + RxLength + MSS - 1

(* Half of the numbers are more than may be in use at a time.              *)
LEMMA HalfIs ==
  /\ SeqMod \div 2 \in Nat /\ MaxBytes + RxLength + MSS <= SeqMod \div 2 /\ SeqMod \div 2 < SeqMod
  /\ 2 * (SeqMod \div 2) <= SeqMod
<1>1. SeqMod \in Nat \ {0} /\ SeqMod > 2 * (MaxBytes + RxLength + MSS) /\ MaxBytes + RxLength + MSS \in Nat
  BY WindowNumbers
<1> QED BY <1>1

(* A difference that is negative as an int32_t tells the order of the      *)
(* places.                                                                 *)
LEMMA NegativeIs ==
  ASSUME NEW m \in Numbers, NEW n \in Numbers, Place(m) \in Near, Place(n) \in Near
  PROVE  Negative(Minus(m, n)) <=> Place(m) < Place(n)
<1>1. PICK h \in Nat : /\ h = SeqMod \div 2 /\ MaxBytes + RxLength + MSS <= h /\ 2 * h <= SeqMod
  BY HalfIs
<1>2. Minus(m, n) = IF Place(n) <= Place(m) THEN Place(m) - Place(n) ELSE Place(m) - Place(n) + SeqMod
  BY MinusPlace
<1>3. Place(m) \in 0 .. MaxBytes + RxLength + MSS - 1 /\ Place(n) \in 0 .. MaxBytes + RxLength + MSS - 1
      /\ MaxBytes + RxLength + MSS \in Nat /\ SeqMod \in Nat
  BY WindowNumbers DEF Near
<1>4. Negative(Minus(m, n)) <=> Minus(m, n) >= h
  BY <1>1 DEF Negative
<1>5. MaxBytes + RxLength + MSS <= h /\ 2 * h <= SeqMod
  BY <1>1
<1>6. CASE Place(n) <= Place(m)
  <2>1. Minus(m, n) = Place(m) - Place(n)
    BY <1>2, <1>6
  <2>2. Place(m) - Place(n) < h
    BY <1>3, <1>5, WindowNumbers
  <2> QED BY <1>3, <1>4, <1>6, <2>1, <2>2
<1>7. CASE Place(m) < Place(n)
  <2>1. Minus(m, n) = Place(m) - Place(n) + SeqMod
    BY <1>2, <1>3, <1>7
  <2>2. Place(m) - Place(n) + SeqMod >= h
    BY <1>3, <1>5, WindowNumbers
  <2> QED BY <1>4, <1>7, <2>1, <2>2
<1> QED BY <1>3, <1>6, <1>7

(* The comparisons of TCP compare places, while they are near each other.  *)
LEMMA Compares ==
  ASSUME NEW m \in Numbers, NEW n \in Numbers, Place(m) \in Near, Place(n) \in Near
  PROVE  /\ SequenceLessThanOrEqual(m, n) <=> Place(m) <= Place(n)
         /\ SequenceLessThan(m, n) <=> Place(m) < Place(n)
<1>1. SequenceLessThanOrEqual(m, n) <=> Place(m) <= Place(n)
  BY NegativeIs DEF SequenceLessThanOrEqual, Near
<1>2. m \in 0 .. SeqMod - 1 /\ n \in 0 .. SeqMod - 1 /\ SeqMod \in Nat \ {0}
  BY WindowNumbers DEF Numbers
<1>3. /\ Minus(n, m) = IF Place(m) <= Place(n) THEN Place(n) - Place(m) ELSE Place(n) - Place(m) + SeqMod
      /\ Minus(n, m) = IF n - m < 0 THEN n - m + SeqMod ELSE n - m
  <2> DEFINE x == n - m
  <2>1. x % SeqMod = IF x < 0 THEN x + SeqMod ELSE IF x < SeqMod THEN x ELSE x - SeqMod
    <3>1. x \in Int /\ -SeqMod <= x /\ x < 2 * SeqMod
      BY <1>2
    <3> HIDE DEF x
    <3> QED BY <1>2, <3>1, WrappedOnce
  <2>2. Minus(n, m) = x % SeqMod
    BY DEF Minus
  <2>3. x % SeqMod = IF n - m < 0 THEN n - m + SeqMod ELSE n - m
    BY <1>2, <2>1
  <2>4. Minus(n, m) = IF Place(m) <= Place(n) THEN Place(n) - Place(m) ELSE Place(n) - Place(m) + SeqMod
    BY MinusPlace
  <2> QED BY <2>2, <2>3, <2>4
<1>4. Minus(n, m + 1) = IF n - (m + 1) < 0 THEN n - (m + 1) + SeqMod ELSE n - (m + 1)
  <2> DEFINE x == n - (m + 1)
  <2>1. x % SeqMod = IF x < 0 THEN x + SeqMod ELSE IF x < SeqMod THEN x ELSE x - SeqMod
    <3>1. x \in Int /\ -SeqMod <= x /\ x < 2 * SeqMod
      BY <1>2
    <3> HIDE DEF x
    <3> QED BY <1>2, <3>1, WrappedOnce
  <2> QED BY <1>2, <2>1 DEF Minus
<1>5. SequenceLessThan(m, n) <=> Place(m) < Place(n)
  BY <1>2, <1>3, <1>4, HalfIs, WindowNumbers, PlaceIs DEF SequenceLessThan, Negative, Near, Numbers
<1> QED BY <1>1, <1>5

(***************************************************************************)
(* Streams.  What comes as number b of all bytes lies at b % length.       *)
(***************************************************************************)
(* Positions in a circular buffer may be reduced before or after adding.   *)
LEMMA RingSum ==
  ASSUME NEW m \in Nat \ {0}, NEW n \in Nat, NEW k \in Int
  PROVE  ((n % m) + k) % m = (n + k) % m
<1> DEFINE a == n \div m
           b == n % m
           c == (n + k) \div m
           d == (n + k) % m
<1>1. a \in Int /\ b \in 0 .. m - 1 /\ n = m * a + b
  OBVIOUS
<1>2. n + k \in Int /\ c \in Int /\ d \in 0 .. m - 1 /\ n + k = m * c + d
  OBVIOUS
<1> HIDE DEF a, b, c, d
<1>3. m * (c - a) = m * c - m * a
  BY <1>1, <1>2
<1>4. b + k = d + m * (c - a) /\ c - a \in Int /\ b + k \in Int
  BY <1>1, <1>2, <1>3
<1>5. (b + k) % m = d
  <2> DEFINE x == b + k
             e == c - a
  <2>1. x \in Int /\ e \in Int /\ d \in 0 .. m - 1 /\ x = d + m * e
    BY <1>2, <1>4
  <2> HIDE DEF x, e
  <2>2. x % m = d
    BY <2>1, Wrapped
  <2> QED BY <2>2 DEF x
<1> QED BY <1>5 DEF b, d

(* How much is in the buffer, from its positions.                          *)
LEMMA RingDistance ==
  ASSUME NEW m \in Nat \ {0}, NEW p \in Nat, NEW q \in Nat, p <= q, q < p + m
  PROVE  ((q % m) - (p % m)) % m = q - p
<1> DEFINE a == p \div m
           b == p % m
           c == q \div m
           d == q % m
<1>1. a \in Int /\ b \in 0 .. m - 1 /\ p = m * a + b
  OBVIOUS
<1>2. c \in Int /\ d \in 0 .. m - 1 /\ q = m * c + d
  OBVIOUS
<1> HIDE DEF a, b, c, d
<1>3. m * (a - c) = m * a - m * c
  BY <1>1, <1>2
<1> DEFINE x == d - b
           e == a - c
           r == q - p
<1>4. x \in Int /\ e \in Int /\ r \in 0 .. m - 1 /\ x = r + m * e
  BY <1>1, <1>2, <1>3
<1> HIDE DEF x, e, r
<1>5. x % m = r
  BY <1>4, Wrapped
<1> QED BY <1>5 DEF x, r, b, d

(* How much is free in it: one place stays unused.                         *)
LEMMA RingFree ==
  ASSUME NEW m \in Nat \ {0}, NEW p \in Nat, NEW q \in Nat, p <= q, q < p + m
  PROVE  ((p % m) - (q % m) - 1) % m = m - 1 - (q - p)
<1> DEFINE a == p \div m
           b == p % m
           c == q \div m
           d == q % m
<1>1. a \in Int /\ b \in 0 .. m - 1 /\ p = m * a + b
  OBVIOUS
<1>2. c \in Int /\ d \in 0 .. m - 1 /\ q = m * c + d
  OBVIOUS
<1> HIDE DEF a, b, c, d
<1>3. m * (c - a - 1) = m * c - m * a - m
  BY <1>1, <1>2
<1> DEFINE x == b - d - 1
           e == c - a - 1
           r == m - 1 - (q - p)
<1>4. x \in Int /\ e \in Int /\ r \in 0 .. m - 1 /\ x = r + m * e
  BY <1>1, <1>2, <1>3
<1> HIDE DEF x, e, r
<1>5. x % m = r
  BY <1>4, Wrapped
<1> QED BY <1>5 DEF x, r, b, d

(* Bytes less than a whole length apart lie at different positions.        *)
LEMMA RingDiffers ==
  ASSUME NEW m \in Nat \ {0}, NEW p \in Nat, NEW q \in Nat, p <= q, q < p + m, p % m = q % m
  PROVE  p = q
<1> DEFINE b == p % m
<1>1. (b - b) % m = q - p
  <2>1. ((q % m) - (p % m)) % m = q - p
    BY RingDistance
  <2> QED BY <2>1
<1>2. b \in Int /\ (b - b) % m = 0
  <2>1. b \in Int
    OBVIOUS
  <2> HIDE DEF b
  <2>2. b - b = 0 /\ 0 % m = 0
    BY <2>1, Wrapped
  <2> QED BY <2>1, <2>2
<1> HIDE DEF b
<1> QED BY <1>1, <1>2

Streams(length) ==
  [length : {length}, tail : 0 .. length - 1, mid : 0 .. length - 1, head : 0 .. length - 1,
   front : 0 .. length - 1, bytes : [0 .. length - 1 -> Nat]]

(* The stream holds the bytes from .. to - 1 at their places.              *)
Holds(stream, from, to) == \A b \in from .. to - 1 : stream.bytes[b % stream.length] = b + 1

(* A stream from which tail bytes were taken, and to which head were added. *)
Filled(stream, length, tail, head) ==
  /\ stream \in Streams(length) /\ tail \in Nat /\ head \in Nat /\ tail <= head /\ head - tail <= length - 1
  /\ stream.tail = tail % length /\ stream.head = head % length

(* uxStreamBufferGetSize and uxStreamBufferGetSpace                        *)
LEMMA FilledSizes ==
  ASSUME NEW length \in Nat \ {0}, NEW stream, NEW tail, NEW head, Filled(stream, length, tail, head)
  PROVE  /\ GetSize(stream) = head - tail
         /\ GetSpace(stream) = length - 1 - (head - tail)
<1>1. tail \in Nat /\ head \in Nat /\ tail <= head /\ head < tail + length /\ stream.length = length
  BY DEF Filled, Streams
<1>2. stream.tail = tail % length /\ stream.head = head % length
  BY DEF Filled
<1>3. GetSize(stream) = ((head % length) - (tail % length)) % length
  BY <1>1, <1>2 DEF GetSize, Distance
<1>4. GetSpace(stream) = ((tail % length) - (head % length) - 1) % length
  BY <1>1, <1>2 DEF GetSpace, FreeBetween
<1> QED BY <1>1, <1>3, <1>4, RingDistance, RingFree

(* A remainder is a position.                                              *)
LEMMA InRing ==
  ASSUME NEW m \in Nat \ {0}, NEW x \in Int
  PROVE  x % m \in 0 .. m - 1
OBVIOUS

(* uxStreamBufferGet, when no more is taken than there is.                 *)
LEMMA TakeDoes ==
  ASSUME NEW length \in Nat \ {0}, NEW stream, NEW tail, NEW head, Filled(stream, length, tail, head),
         NEW count \in 0 .. head - tail
  PROVE  /\ Filled(StreamTake(stream, count), length, tail + count, head)
         /\ StreamTake(stream, count).bytes = stream.bytes
         /\ StreamTake(stream, count).mid = stream.mid
         /\ StreamTake(stream, count).length = length
<1>1. tail \in Nat /\ head \in Nat /\ stream \in Streams(length) /\ stream.length = length
      /\ stream.tail = tail % length /\ stream.head = head % length /\ count \in Int /\ count \in Nat /\ head - tail <= length - 1
  BY DEF Filled, Streams
<1>2. Smaller(GetSize(stream), count) = count
  BY <1>1, FilledSizes DEF Smaller
<1>3. Around(stream, stream.tail + count) = (tail + count) % length
  <2>1. ((tail % length) + count) % length = (tail + count) % length
    BY <1>1, RingSum
  <2> QED BY <1>1, <2>1 DEF Around
<1>4. (tail + count) % length \in 0 .. length - 1
  <2> DEFINE x == tail + count
  <2>1. x \in Int
    BY <1>1
  <2> HIDE DEF x
  <2>2. x % length \in 0 .. length - 1
    BY <2>1, InRing
  <2> QED BY <2>2 DEF x
<1>5. StreamTake(stream, count) = [stream EXCEPT !.tail = (tail + count) % length]
  BY <1>2, <1>3 DEF StreamTake
<1> DEFINE x == (tail + count) % length
           r == StreamTake(stream, count)
<1>6. r = [stream EXCEPT !.tail = x] /\ x \in 0 .. length - 1
  BY <1>4, <1>5
<1> HIDE DEF x, r
<1>7. r \in Streams(length) /\ r.tail = x /\ r.head = stream.head /\ r.bytes = stream.bytes /\ r.mid = stream.mid /\ r.length = length
  BY <1>1, <1>6 DEF Streams
<1>8. tail + count \in Nat /\ tail + count <= head /\ head - (tail + count) <= length - 1
  BY <1>1
<1>9. Filled(r, length, tail + count, head)
  BY <1>1, <1>7, <1>8 DEF Filled, x
<1> QED BY <1>7, <1>9 DEF r

(* Bytes that a stream holds are those that are read from it.              *)
LEMMA PeekDoes ==
  ASSUME NEW length \in Nat \ {0}, NEW stream \in Streams(length), NEW from \in Nat, NEW count \in Nat,
         Holds(stream, from, from + count)
  PROVE  StreamPeek(stream, from % length, count) = Bytes(from, count)
<1>1. ASSUME NEW i \in 1 .. count
      PROVE  stream.bytes[Around(stream, (from % length) + i - 1)] = from + i
  <2>1. ((from % length) + (i - 1)) % length = (from + (i - 1)) % length
    <3> DEFINE k == i - 1
    <3>1. k \in Int
      OBVIOUS
    <3> HIDE DEF k
    <3>2. ((from % length) + k) % length = (from + k) % length
      BY <3>1, RingSum
    <3> QED BY <3>2 DEF k
  <2>2. (from % length) + (i - 1) = (from % length) + i - 1
    BY InRing
  <2>3. Around(stream, (from % length) + i - 1) = (from + (i - 1)) % length
    BY <2>1, <2>2 DEF Around, Streams
  <2>4. from + (i - 1) \in from .. (from + count) - 1
    OBVIOUS
  <2>5. stream.bytes[(from + (i - 1)) % length] = (from + (i - 1)) + 1
    BY <2>4 DEF Holds, Streams
  <2> QED BY <2>3, <2>5
<1> QED BY <1>1 DEF StreamPeek, Bytes

(* vStreamBufferMoveMid and the front leave the rest of the stream alone.  *)
LEMMA ReachKeeps ==
  ASSUME NEW length, NEW stream \in Streams(length), NEW next \in 0 .. length - 1
  PROVE  LET r == ReachFront(stream, next)
         IN /\ r \in Streams(length) /\ r.bytes = stream.bytes
            /\ r.tail = stream.tail /\ r.mid = stream.mid /\ r.head = stream.head
BY DEF ReachFront, Streams

(* What is copied lands at the places behind the head, and nowhere else.   *)
LEMMA RingOnce ==
  ASSUME NEW m \in Nat \ {0}, NEW b \in Nat
  PROVE  (b + m) % m = b % m
<1> DEFINE a == b \div m
           r == b % m
           x == b + m
           e == a + 1
<1>1. a \in Int /\ r \in 0 .. m - 1 /\ b = m * a + r
  OBVIOUS
<1> HIDE DEF a, r
<1>2. m * (a + 1) = m * a + m
  BY <1>1
<1>3. x \in Int /\ e \in Int /\ x = r + m * e
  BY <1>1, <1>2
<1> HIDE DEF x, e
<1>4. x % m = r
  BY <1>1, <1>3, Wrapped
<1> QED BY <1>4 DEF x, r

(* Which byte of the data lands at a position.                             *)
LEMMA CopiedAt ==
  ASSUME NEW m \in Nat \ {0}, NEW first \in Nat, NEW tail \in Nat, NEW count \in Nat,
         first + count <= tail + m - 1, tail <= first, NEW b \in tail .. tail + m - 1
  PROVE  LET k == (((b % m) - (first % m)) % m) + 1
         IN /\ first <= b => k = b - first + 1
            /\ b < first => k > count
<1> b \in Nat
  OBVIOUS
<1>1. CASE first <= b
  <2>1. b < first + m
    OBVIOUS
  <2>2. ((b % m) - (first % m)) % m = b - first
    BY <1>1, <2>1, RingDistance
  <2> QED BY <1>1, <2>2
<1>2. CASE b < first
  <2> DEFINE q == b + m
  <2>1. q \in Nat /\ first <= q /\ q < first + m
    BY <1>2
  <2>2. (b % m) = (q % m)
    <3>1. (b + m) % m = b % m
      BY RingOnce
    <3> QED BY <3>1
  <2>3. ((q % m) - (first % m)) % m = q - first
    <3> HIDE DEF q
    <3> QED BY <2>1, RingDistance
  <2>4. ((b % m) - (first % m)) % m = b + m - first
    <3>1. ((b % m) - (first % m)) % m = q - first
      <4> HIDE DEF q
      <4> QED BY <2>2, <2>3
    <3> QED BY <3>1
  <2> QED BY <1>2, <2>4
<1> QED BY <1>1, <1>2

(* uxStreamBufferAdd: behind the head, or ahead of it by an offset.        *)
LEMMA AddDoes ==
  ASSUME NEW length \in Nat \ {0}, NEW stream, NEW tail, NEW head, Filled(stream, length, tail, head),
         NEW offset \in Nat, NEW count \in Nat \ {0}, NEW data \in Seq(Nat),
         offset + count <= length - 1 - (head - tail)
  PROVE  LET r == StreamAdd(stream, offset, data, count)
         IN /\ Filled(r, length, tail, IF offset = 0 THEN head + count ELSE head)
            /\ r.mid = stream.mid
            /\ \A b \in tail .. tail + length - 1 :
                 r.bytes[b % length] =
                   IF head + offset <= b /\ b < head + offset + count /\ b - (head + offset) < Len(data)
                   THEN data[b - (head + offset) + 1] ELSE stream.bytes[b % length]
<1>1. /\ tail \in Nat /\ head \in Nat /\ tail <= head /\ stream \in Streams(length) /\ stream.length = length
      /\ stream.tail = tail % length /\ stream.head = head % length /\ head - tail <= length - 1
      /\ stream.head \in 0 .. length - 1 /\ stream.bytes \in [0 .. length - 1 -> Nat]
  BY DEF Filled, Streams
<1> DEFINE first == head + offset
           start == first % length
           next == (first + count) % length
           fresh == [i \in 0 .. length - 1 |->
                      LET k == ((i - start) % length) + 1
                      IN IF k <= count /\ k <= Len(data) THEN data[k] ELSE stream.bytes[i]]
           copied == [stream EXCEPT !.bytes = fresh]
           r == StreamAdd(stream, offset, data, count)
<1>2. first \in Nat /\ start \in 0 .. length - 1 /\ next \in 0 .. length - 1 /\ first + count \in Nat
  <2>1. first \in Nat /\ first + count \in Nat
    BY <1>1
  <2> DEFINE last == first + count
  <2>2. last \in Int /\ first \in Int
    BY <2>1
  <2> HIDE DEF first, last
  <2>3. first % length \in 0 .. length - 1 /\ last % length \in 0 .. length - 1
    BY <2>2, InRing
  <2> QED BY <2>1, <2>3 DEF last
<1>3. Around(stream, stream.head + offset) = start /\ Around(stream, start + count) = next
  <2>1. ((head % length) + offset) % length = (head + offset) % length
    <3>1. head \in Nat /\ offset \in Int
      BY <1>1
    <3> QED BY <3>1, RingSum
  <2>2. ((first % length) + count) % length = (first + count) % length
    <3>1. first \in Nat /\ count \in Int
      BY <1>2
    <3> HIDE DEF first
    <3> QED BY <3>1, RingSum
  <2> QED BY <1>1, <2>1, <2>2 DEF Around
<1>4. Smaller(IF GetSpace(stream) > offset THEN GetSpace(stream) - offset ELSE 0, count) = count /\ count # 0
  <2>1. PICK space \in Nat : space = GetSpace(stream) /\ offset + count <= space
    BY <1>1, FilledSizes
  <2>2. space - offset >= count /\ space > offset
    BY <2>1
  <2>3. space - offset = count \/ ~(space - offset < count)
    BY <2>2
  <2> QED BY <2>1, <2>2, <2>3 DEF Smaller
<1>5. fresh \in [0 .. length - 1 -> Nat]
  <2> SUFFICES ASSUME NEW i \in 0 .. length - 1
               PROVE  LET k == ((i - start) % length) + 1
                      IN (IF k <= count /\ k <= Len(data) THEN data[k] ELSE stream.bytes[i]) \in Nat
    OBVIOUS
  <2>1. ((i - start) % length) + 1 \in Nat \ {0}
    <3> DEFINE x == i - start
    <3>1. x \in Int
      BY <1>2
    <3> HIDE DEF x
    <3>2. x % length \in 0 .. length - 1
      BY <3>1, InRing
    <3> QED BY <3>2 DEF x
  <2> DEFINE k == ((i - start) % length) + 1
  <2>2. k \in Nat \ {0} /\ Len(data) \in Nat
    BY <2>1
  <2>3. k <= Len(data) => data[k] \in Nat
    <3> HIDE DEF k
    <3>1. k <= Len(data) => k \in 1 .. Len(data)
      BY <2>2
    <3> QED BY <3>1, ElementOfSeq
  <2>4. stream.bytes[i] \in Nat
    BY <1>1
  <2> HIDE DEF k
  <2>5. (IF k <= count /\ k <= Len(data) THEN data[k] ELSE stream.bytes[i]) \in Nat
    BY <2>3, <2>4
  <2> QED BY <2>5 DEF k
<1>6. [stream EXCEPT !.bytes = [i \in DOMAIN @ |-> LET k == Distance(stream, start, i) + 1
                                 IN IF k <= count /\ k <= Len(data) THEN data[k] ELSE @[i]]] = copied
  <2>1. \A i : Distance(stream, start, i) = (i - start) % length
    BY <1>1 DEF Distance
  <2>2. DOMAIN stream.bytes = 0 .. length - 1
    BY <1>1
  <2> HIDE DEF start
  <2> QED BY <2>1, <2>2
<1>7. r = IF offset = 0 THEN ReachFront([copied EXCEPT !.head = next], next) ELSE ReachFront(copied, start)
  <2> HIDE DEF start, next, copied
  <2> QED BY <1>3, <1>4, <1>6 DEF StreamAdd, first
<1> HIDE DEF fresh, start, next
<1>8. copied \in Streams(length) /\ copied.bytes = fresh /\ copied.tail = stream.tail /\ copied.mid = stream.mid /\ copied.head = stream.head
  BY <1>1, <1>5 DEF Streams
<1>9. LET c == [copied EXCEPT !.head = next]
      IN c \in Streams(length) /\ c.bytes = fresh /\ c.tail = stream.tail /\ c.mid = stream.mid /\ c.head = next
  <2> HIDE DEF copied
  <2> QED BY <1>2, <1>8 DEF Streams
<1>10. /\ r \in Streams(length) /\ r.bytes = fresh /\ r.tail = stream.tail /\ r.mid = stream.mid
       /\ r.head = IF offset = 0 THEN next ELSE stream.head
  <2> DEFINE c == [copied EXCEPT !.head = next]
  <2>1. /\ c \in Streams(length) /\ c.bytes = fresh /\ c.tail = stream.tail /\ c.mid = stream.mid /\ c.head = next
        /\ r = IF offset = 0 THEN ReachFront(c, next) ELSE ReachFront(copied, start)
    BY <1>7, <1>9
  <2> HIDE DEF copied, r, c
  <2>2. LET d == ReachFront(c, next) IN d \in Streams(length) /\ d.bytes = c.bytes /\ d.tail = c.tail /\ d.mid = c.mid /\ d.head = c.head
    BY <1>2, <2>1, ReachKeeps
  <2>3. LET d == ReachFront(copied, start) IN d \in Streams(length) /\ d.bytes = copied.bytes /\ d.tail = copied.tail /\ d.mid = copied.mid /\ d.head = copied.head
    BY <1>2, <1>8, ReachKeeps
  <2>4. CASE offset = 0
    BY <2>1, <2>2, <2>4
  <2>5. CASE offset # 0
    BY <1>8, <2>1, <2>3, <2>5
  <2> QED BY <2>4, <2>5
<1>11. Filled(r, length, tail, IF offset = 0 THEN head + count ELSE head)
  <2> HIDE DEF r
  <2>1. CASE offset = 0
    <3>1. r.head = (head + count) % length
      BY <1>1, <1>10, <2>1 DEF next
    <3> QED BY <1>1, <1>10, <2>1, <3>1 DEF Filled
  <2>2. CASE offset # 0
    BY <1>1, <1>10, <2>2 DEF Filled
  <2> QED BY <2>1, <2>2
<1>12. ASSUME NEW b \in tail .. tail + length - 1
       PROVE  r.bytes[b % length] = IF first <= b /\ b < first + count /\ b - first < Len(data)
                                    THEN data[b - first + 1] ELSE stream.bytes[b % length]
  <2> DEFINE k == (((b % length) - (first % length)) % length) + 1
  <2>1. b % length \in 0 .. length - 1
    <3>1. b \in Int
      BY <1>1
    <3> QED BY <3>1, InRing
  <2>2. r.bytes[b % length] = IF k <= count /\ k <= Len(data) THEN data[k] ELSE stream.bytes[b % length]
    <3> HIDE DEF r
    <3> QED BY <1>10, <2>1 DEF fresh, start
  <2>3. /\ first <= b => k = b - first + 1
        /\ b < first => k > count
    <3>1. first + count <= tail + length - 1 /\ tail <= first /\ count \in Nat
      BY <1>1
    <3>2. first \in Nat /\ tail \in Nat
      BY <1>1, <1>2
    <3> HIDE DEF first
    <3>3. LET n == (((b % length) - (first % length)) % length) + 1
          IN /\ first <= b => n = b - first + 1
             /\ b < first => n > count
      BY <3>1, <3>2, CopiedAt
    <3> QED BY <3>3
  <2> HIDE DEF k, r, first
  <2>4. b \in Int /\ Len(data) \in Nat
    BY <1>1
  <2>5. CASE first <= b
    BY <1>2, <2>2, <2>3, <2>4, <2>5
  <2>6. CASE b < first
    <3>1. k > count /\ k \in Int
      BY <2>3, <2>6, <1>2, <2>1 DEF k
    <3> QED BY <1>2, <2>2, <2>4, <2>6, <3>1
  <2> QED BY <1>2, <2>4, <2>5, <2>6
<1> QED BY <1>10, <1>11, <1>12

(* Induction over the numbers, for one set at a time.                      *)
LEMMA NatFills ==
  ASSUME NEW S, 0 \in S, \A k \in Nat : k \in S => k + 1 \in S
  PROVE  Nat \subseteq S
<1> DEFINE Bad == Nat \ S
<1> SUFFICES ASSUME Bad # {} PROVE FALSE
  OBVIOUS
<1>1. PICK k \in Bad : \A j \in Bad : k <= j
  BY LeastExists
<1>2. k \in Nat /\ k # 0
  OBVIOUS
<1>3. k - 1 \in Nat /\ k - 1 \in S
  BY <1>1, <1>2
<1>4. (k - 1) + 1 \in S /\ (k - 1) + 1 = k
  BY <1>3
<1> QED BY <1>4

(* What Those has kept of the first i of a queue.                          *)
Kept(G, queue, numbers, last) ==
  G = [i \in 0 .. last |-> IF i = 0 THEN <<>>
                           ELSE IF queue[i] \in numbers THEN Append(G[i - 1], queue[i]) ELSE G[i - 1]]

(* The function that Those defines exists, and each of its values is known *)
(* from the one before.                                                    *)
LEMMA KeptExists ==
  ASSUME NEW queue, NEW numbers, NEW last \in Nat
  PROVE  \E G : Kept(G, queue, numbers, last)
<1> DEFINE S == {k \in Nat : \E G : Kept(G, queue, numbers, k)}
<1>1. 0 \in S
  <2>1. Kept([i \in 0 .. 0 |-> <<>>], queue, numbers, 0)
    BY DEF Kept
  <2> QED BY <2>1
<1>2. ASSUME NEW k \in Nat, k \in S PROVE k + 1 \in S
  <2>1. PICK G : Kept(G, queue, numbers, k)
    BY <1>2
  <2> DEFINE H == [i \in 0 .. k + 1 |->
                     IF i <= k THEN G[i] ELSE IF queue[k + 1] \in numbers THEN Append(G[k], queue[k + 1]) ELSE G[k]]
  <2>2. ASSUME NEW i \in 0 .. k + 1
        PROVE  H[i] = IF i = 0 THEN <<>> ELSE IF queue[i] \in numbers THEN Append(H[i - 1], queue[i]) ELSE H[i - 1]
    <3>1. CASE i = 0
      <4>1. G[0] = <<>>
        BY <2>1 DEF Kept
      <4> QED BY <3>1, <4>1
    <3>2. CASE i \in 1 .. k
      <4>1. G[i] = IF queue[i] \in numbers THEN Append(G[i - 1], queue[i]) ELSE G[i - 1]
        <5>1. i \in 0 .. k /\ i # 0
          BY <3>2
        <5> QED BY <2>1, <5>1 DEF Kept
      <4>2. H[i] = G[i] /\ H[i - 1] = G[i - 1] /\ i # 0
        BY <3>2
      <4> HIDE DEF H
      <4> QED BY <4>1, <4>2
    <3>3. CASE i = k + 1
      <4>1. H[i - 1] = G[k] /\ i # 0
        BY <3>3
      <4> QED BY <3>3, <4>1
    <3> QED BY <3>1, <3>2, <3>3
  <2>3. H = [i \in 0 .. k + 1 |-> IF i = 0 THEN <<>>
                                  ELSE IF queue[i] \in numbers THEN Append(H[i - 1], queue[i]) ELSE H[i - 1]]
    BY <2>2
  <2>4. Kept(H, queue, numbers, k + 1)
    <3> HIDE DEF H
    <3> QED BY <2>3 DEF Kept
  <2> QED BY <2>4
<1>3. Nat \subseteq S
  <2> HIDE DEF S
  <2> QED BY <1>1, <1>2, NatFills
<1> QED BY <1>3

(* What Those returns is the last of those values.                         *)
LEMMA ThoseIs ==
  ASSUME NEW queue \in Seq(Numbers), NEW numbers
  PROVE  \E G : Kept(G, queue, numbers, Len(queue)) /\ Those(queue, numbers) = G[Len(queue)]
<1> DEFINE G == CHOOSE G : Kept(G, queue, numbers, Len(queue))
<1>1. Those(queue, numbers) = G[Len(queue)]
  BY DEF Those, Kept
<1>2. Kept(G, queue, numbers, Len(queue))
  BY KeptExists
<1> QED BY <1>1, <1>2

(* How often n is in the queue q.                                          *)
Nowhere(q, n) == \A i \in 1 .. Len(q) : q[i] # n
Once(q, n) == \E i \in 1 .. Len(q) : q[i] = n /\ \A j \in 1 .. Len(q) : q[j] = n => j = i

(* What becomes of a queue of which some are kept, i of which were seen.   *)
KeptSo(k, queue, numbers, i) ==
  /\ k \in Seq(Numbers)
  /\ \A n : n \notin numbers \/ (\A j \in 1 .. i : queue[j] # n) => Nowhere(k, n)
  /\ \A n \in numbers : (\E j \in 1 .. i : queue[j] = n /\ \A l \in 1 .. i : queue[l] = n => l = j) => Once(k, n)

(* A number that goes to the end of a queue.                               *)
LEMMA AppendedOnce ==
  ASSUME NEW q \in Seq(Numbers), NEW m \in Numbers, NEW n
  PROVE  /\ Append(q, m) \in Seq(Numbers)
         /\ Nowhere(Append(q, m), n) <=> Nowhere(q, n) /\ n # m
         /\ Nowhere(q, m) => Once(Append(q, m), m)
         /\ n # m /\ Once(q, n) => Once(Append(q, m), n)
<1> DEFINE a == Append(q, m)
<1>1. a \in Seq(Numbers) /\ Len(a) = Len(q) + 1 /\ Len(q) \in Nat /\ a[Len(q) + 1] = m
      /\ \A i \in 1 .. Len(q) : a[i] = q[i]
  OBVIOUS
<1> HIDE DEF a
<1>2. Nowhere(a, n) <=> Nowhere(q, n) /\ n # m
  BY <1>1 DEF Nowhere
<1>3. Nowhere(q, m) => Once(a, m)
  <2> SUFFICES ASSUME Nowhere(q, m) PROVE Once(a, m)
    OBVIOUS
  <2>1. Len(q) + 1 \in 1 .. Len(a) /\ a[Len(q) + 1] = m
    BY <1>1
  <2>2. \A j \in 1 .. Len(a) : a[j] = m => j = Len(q) + 1
    BY <1>1 DEF Nowhere
  <2> QED BY <2>1, <2>2 DEF Once
<1>4. n # m /\ Once(q, n) => Once(a, n)
  <2> SUFFICES ASSUME n # m, Once(q, n) PROVE Once(a, n)
    OBVIOUS
  <2>1. PICK i \in 1 .. Len(q) : q[i] = n /\ \A j \in 1 .. Len(q) : q[j] = n => j = i
    BY DEF Once
  <2>2. i \in 1 .. Len(a) /\ a[i] = n
    BY <1>1, <2>1
  <2>3. \A j \in 1 .. Len(a) : a[j] = n => j = i
    BY <1>1, <2>1
  <2> QED BY <2>2, <2>3 DEF Once
<1> QED BY <1>1, <1>2, <1>3, <1>4 DEF a

(* Of those that are kept, each is in the queue as often as before.        *)
LEMMA ThoseKeeps ==
  ASSUME NEW queue \in Seq(Numbers), NEW numbers
  PROVE  /\ Those(queue, numbers) \in Seq(Numbers)
         /\ \A n : n \notin numbers \/ Nowhere(queue, n) => Nowhere(Those(queue, numbers), n)
         /\ \A n \in numbers : Once(queue, n) => Once(Those(queue, numbers), n)
<1>1. PICK G : Kept(G, queue, numbers, Len(queue)) /\ Those(queue, numbers) = G[Len(queue)]
  BY ThoseIs
<1> DEFINE S == {i \in Nat : i <= Len(queue) => KeptSo(G[i], queue, numbers, i)}
<1>2. 0 \in S
  <2>1. G[0] = <<>>
    BY <1>1 DEF Kept
  <2>2. KeptSo(<<>>, queue, numbers, 0)
    BY DEF KeptSo, Nowhere
  <2> QED BY <2>1, <2>2
<1>3. ASSUME NEW k \in Nat, k \in S PROVE k + 1 \in S
  <2> SUFFICES ASSUME k + 1 <= Len(queue) PROVE KeptSo(G[k + 1], queue, numbers, k + 1)
    OBVIOUS
  <2>1. KeptSo(G[k], queue, numbers, k)
    BY <1>3
  <2> HIDE DEF S
  <2> DEFINE m == queue[k + 1]
  <2>2. m \in Numbers /\ \A j \in 1 .. k : queue[j] \in Numbers
    BY ElementOfSeq
  <2>3. G[k + 1] = IF m \in numbers THEN Append(G[k], m) ELSE G[k]
    <3>1. k + 1 \in 0 .. Len(queue) /\ (k + 1) - 1 = k /\ k + 1 # 0
      OBVIOUS
    <3> QED BY <1>1, <3>1 DEF Kept
  <2> HIDE DEF m
  <2>4. m = queue[k + 1]
    BY DEF m
  <2>5. CASE m \in numbers
    <3> DEFINE a == Append(G[k], m)
    <3>1. G[k] \in Seq(Numbers)
      BY <2>1 DEF KeptSo
    <3>2. \A n : /\ a \in Seq(Numbers)
                 /\ Nowhere(a, n) <=> Nowhere(G[k], n) /\ n # m
                 /\ Nowhere(G[k], m) => Once(a, m)
                 /\ n # m /\ Once(G[k], n) => Once(a, n)
      BY <2>2, <3>1, AppendedOnce
    <3> HIDE DEF a
    <3>3. a \in Seq(Numbers)
      BY <3>2
    <3>4. ASSUME NEW n, n \notin numbers \/ (\A j \in 1 .. k + 1 : queue[j] # n) PROVE Nowhere(a, n)
      <4>1. n # m /\ (n \notin numbers \/ \A j \in 1 .. k : queue[j] # n)
        BY <2>4, <2>5, <3>4
      <4>2. Nowhere(G[k], n)
        BY <2>1, <4>1 DEF KeptSo
      <4> QED BY <3>2, <4>1, <4>2
    <3>5. ASSUME NEW n \in numbers, NEW j \in 1 .. k + 1, queue[j] = n, \A l \in 1 .. k + 1 : queue[l] = n => l = j PROVE Once(a, n)
      <4>1. CASE j = k + 1
        <5>1. n = m /\ \A l \in 1 .. k : queue[l] # n
          BY <2>4, <3>5, <4>1
        <5>2. Nowhere(G[k], n)
          BY <2>1, <5>1 DEF KeptSo
        <5> QED BY <3>2, <5>1, <5>2
      <4>2. CASE j \in 1 .. k
        <5>1. n # m /\ \A l \in 1 .. k : queue[l] = n => l = j
          BY <2>4, <3>5, <4>2
        <5>2. Once(G[k], n)
          BY <2>1, <3>5, <4>2, <5>1 DEF KeptSo
        <5> QED BY <3>2, <5>1, <5>2
      <4> QED BY <4>1, <4>2
    <3>6. KeptSo(a, queue, numbers, k + 1)
      BY <3>3, <3>4, <3>5 DEF KeptSo
    <3> QED BY <2>3, <2>5, <3>6 DEF a
  <2>6. CASE m \notin numbers
    <3>1. G[k + 1] = G[k]
      BY <2>3, <2>6
    <3>2. ASSUME NEW n, n \notin numbers \/ (\A j \in 1 .. k + 1 : queue[j] # n) PROVE Nowhere(G[k], n)
      <4>1. n \notin numbers \/ \A j \in 1 .. k : queue[j] # n
        BY <3>2
      <4> QED BY <2>1, <4>1 DEF KeptSo
    <3>3. ASSUME NEW n \in numbers, NEW j \in 1 .. k + 1, queue[j] = n, \A l \in 1 .. k + 1 : queue[l] = n => l = j PROVE Once(G[k], n)
      <4>1. j \in 1 .. k /\ \A l \in 1 .. k : queue[l] = n => l = j
        BY <2>4, <2>6, <3>3
      <4> QED BY <2>1, <3>3, <4>1 DEF KeptSo
    <3>4. KeptSo(G[k], queue, numbers, k + 1)
      BY <2>1, <3>2, <3>3 DEF KeptSo
    <3> QED BY <3>1, <3>4
  <2> QED BY <2>5, <2>6
<1>4. Nat \subseteq S
  <2> HIDE DEF S
  <2> QED BY <1>2, <1>3, NatFills
<1>5. KeptSo(G[Len(queue)], queue, numbers, Len(queue))
  <2>1. Len(queue) \in S
    BY <1>4
  <2> QED BY <2>1
<1>6. Those(queue, numbers) \in Seq(Numbers)
  BY <1>1, <1>5 DEF KeptSo
<1>7. ASSUME NEW n, n \notin numbers \/ Nowhere(queue, n) PROVE Nowhere(Those(queue, numbers), n)
  <2>1. n \notin numbers \/ \A j \in 1 .. Len(queue) : queue[j] # n
    BY <1>7 DEF Nowhere
  <2> QED BY <1>1, <1>5, <2>1 DEF KeptSo
<1>8. ASSUME NEW n \in numbers, Once(queue, n) PROVE Once(Those(queue, numbers), n)
  <2>1. \E j \in 1 .. Len(queue) : queue[j] = n /\ \A l \in 1 .. Len(queue) : queue[l] = n => l = j
    BY <1>8 DEF Once
  <2> QED BY <1>1, <1>5, <2>1 DEF KeptSo
<1> QED BY <1>6, <1>7, <1>8

(* The same of those that are taken out: they are nowhere.                 *)
LEMMA WithoutKeeps ==
  ASSUME NEW queue \in Seq(Numbers), NEW numbers
  PROVE  /\ Without(queue, numbers) \in Seq(Numbers)
         /\ \A n : n \in numbers \/ Nowhere(queue, n) => Nowhere(Without(queue, numbers), n)
         /\ \A n : n \notin numbers /\ Once(queue, n) => Once(Without(queue, numbers), n)
<1> DEFINE others == {queue[i] : i \in 1 .. Len(queue)} \ numbers
<1>1. Without(queue, numbers) = Those(queue, others)
  BY DEF Without
<1>2. ASSUME NEW n, n \notin numbers, Once(queue, n) PROVE n \in others
  BY <1>2 DEF Once
<1>3. ASSUME NEW n, n \in numbers \/ Nowhere(queue, n) PROVE n \notin others
  BY <1>3 DEF Nowhere
<1> HIDE DEF others
<1> QED BY <1>1, <1>2, <1>3, ThoseKeeps

(* One queue behind the other.                                             *)
LEMMA JoinedOnce ==
  ASSUME NEW p \in Seq(Numbers), NEW q \in Seq(Numbers), NEW n
  PROVE  /\ p \o q \in Seq(Numbers)
         /\ Nowhere(p \o q, n) <=> Nowhere(p, n) /\ Nowhere(q, n)
         /\ Nowhere(p, n) /\ Once(q, n) => Once(p \o q, n)
         /\ Once(p, n) /\ Nowhere(q, n) => Once(p \o q, n)
<1> DEFINE a == p \o q
<1>1. /\ a \in Seq(Numbers) /\ Len(p) \in Nat /\ Len(q) \in Nat /\ Len(a) = Len(p) + Len(q)
      /\ \A i \in 1 .. Len(a) : a[i] = IF i <= Len(p) THEN p[i] ELSE q[i - Len(p)]
  OBVIOUS
<1> HIDE DEF a
<1>2. \A i \in 1 .. Len(p) : i \in 1 .. Len(a) /\ a[i] = p[i]
  BY <1>1
<1>3. \A i \in 1 .. Len(q) : Len(p) + i \in 1 .. Len(a) /\ a[Len(p) + i] = q[i]
  <2> SUFFICES ASSUME NEW i \in 1 .. Len(q) PROVE Len(p) + i \in 1 .. Len(a) /\ a[Len(p) + i] = q[i]
    OBVIOUS
  <2>1. Len(p) + i \in 1 .. Len(a) /\ ~(Len(p) + i <= Len(p)) /\ (Len(p) + i) - Len(p) = i
    BY <1>1
  <2> QED BY <1>1, <2>1
<1>4. \A i \in 1 .. Len(a) : i \in 1 .. Len(p) \/ (i - Len(p) \in 1 .. Len(q) /\ a[i] = q[i - Len(p)])
  BY <1>1
<1>5. Nowhere(a, n) <=> Nowhere(p, n) /\ Nowhere(q, n)
  BY <1>2, <1>3, <1>4 DEF Nowhere
<1>6. ASSUME Nowhere(p, n), Once(q, n) PROVE Once(a, n)
  <2>1. PICK i \in 1 .. Len(q) : q[i] = n /\ \A j \in 1 .. Len(q) : q[j] = n => j = i
    BY <1>6 DEF Once
  <2>2. Len(p) + i \in 1 .. Len(a) /\ a[Len(p) + i] = n
    BY <1>3, <2>1
  <2>3. ASSUME NEW j \in 1 .. Len(a), a[j] = n PROVE j = Len(p) + i
    <3>1. j \notin 1 .. Len(p)
      BY <1>2, <1>6, <2>3 DEF Nowhere
    <3>2. j - Len(p) \in 1 .. Len(q) /\ q[j - Len(p)] = n
      BY <1>4, <2>3, <3>1
    <3>3. j - Len(p) = i
      BY <2>1, <3>2
    <3> QED BY <1>1, <3>3
  <2> QED BY <2>2, <2>3 DEF Once
<1>7. ASSUME Once(p, n), Nowhere(q, n) PROVE Once(a, n)
  <2>1. PICK i \in 1 .. Len(p) : p[i] = n /\ \A j \in 1 .. Len(p) : p[j] = n => j = i
    BY <1>7 DEF Once
  <2>2. i \in 1 .. Len(a) /\ a[i] = n
    BY <1>2, <2>1
  <2>3. ASSUME NEW j \in 1 .. Len(a), a[j] = n PROVE j = i
    <3>1. j \in 1 .. Len(p)
      BY <1>4, <1>7, <2>3 DEF Nowhere
    <3> QED BY <1>2, <2>1, <2>3, <3>1
  <2> QED BY <2>2, <2>3 DEF Once
<1> QED BY <1>1, <1>5, <1>6, <1>7 DEF a

(***************************************************************************)
(* The window of the sender.                                               *)
(***************************************************************************)
(* The types of the window of the sender.                                  *)
Segments == [length : 1 .. MSS, position : 0 .. TxLength - 1, outstanding : BOOLEAN, acked : BOOLEAN,
             transmits : Nat, duplicates : Nat]

SegmentMaps == UNION {[S -> Segments] : S \in SUBSET Numbers}

Windows ==
  [current : Numbers, highest : Numbers, next : Numbers, segments : SegmentMaps, tx : Seq(Numbers), wait : Seq(Numbers),
   priority : Seq(Numbers), pxHeadSegment : Numbers \cup {None}, window : Int, peer : Int]

(* A segment is in one of the three queues, once, or in none.              *)
QueuedOnce(w, n) ==
  \/ Once(w.tx, n) /\ Nowhere(w.wait, n) /\ Nowhere(w.priority, n)
  \/ Nowhere(w.tx, n) /\ Once(w.wait, n) /\ Nowhere(w.priority, n)
  \/ Nowhere(w.tx, n) /\ Nowhere(w.wait, n) /\ Once(w.priority, n)

QueuedNever(w, n) == Nowhere(w.tx, n) /\ Nowhere(w.wait, n) /\ Nowhere(w.priority, n)

(* A segment is in one queue, until it was acknowledged.                   *)
Unreported(w, n) == n \in DOMAIN w.segments /\ ~w.segments[n].acked

QueuesOK(w) == \A n \in Numbers : IF Unreported(w, n) THEN QueuedOnce(w, n) ELSE QueuedNever(w, n)

Ends(w, n) == Place(n) + w.segments[n].length

(* The segments partition what was taken over and is not yet acknowledged; *)
(* the last one may grow.                                                  *)
SegmentsOK(w) ==
  /\ Place(w.current) <= Place(w.next) /\ Place(w.next) <= MaxBytes
  /\ \A n \in DOMAIN w.segments :
       Place(w.current) <= Place(n) /\ Ends(w, n) <= Place(w.next) /\ w.segments[n].position = Place(n) % TxLength
  /\ \A m, n \in DOMAIN w.segments : m # n => Ends(w, m) <= Place(n) \/ Ends(w, n) <= Place(m)
  /\ \A b \in Place(w.current) .. Place(w.next) - 1 : \E n \in DOMAIN w.segments : Place(n) <= b /\ b < Ends(w, n)
  /\ w.pxHeadSegment # None =>
       /\ w.pxHeadSegment \in DOMAIN w.segments /\ Ends(w, w.pxHeadSegment) = Place(w.next)
       /\ ~w.segments[w.pxHeadSegment].outstanding /\ w.segments[w.pxHeadSegment].length < MSS

(* The window of the sender is in order.                                   *)
WindowOK(w) == w \in Windows /\ QueuesOK(w) /\ SegmentsOK(w)

(* Tiles are the ranges <<from, to>> that were sent, and marks their ends  *)
(* and those that were reported: neither of them cuts a segment.           *)
Apart(t, x) == x <= t[1] \/ t[2] <= x

Matches(w, tiles, marks) ==
  /\ \A n \in DOMAIN w.segments :
       /\ \A x \in marks : x <= Place(n) \/ Ends(w, n) <= x
       /\ \A t \in tiles : Apart(t, Place(n)) /\ Apart(t, Ends(w, n))
  /\ \A x \in marks : x <= Place(w.next) /\ (w.pxHeadSegment # None => x <= Place(w.pxHeadSegment))

(* A map of segments is a function on some of the numbers.                 *)
LEMMA SegmentMap ==
  ASSUME NEW f
  PROVE  f \in SegmentMaps <=> \E S \in SUBSET Numbers : f \in [S -> Segments]
BY DEF SegmentMaps

(* What the type of a window says of its parts.                            *)
LEMMA WindowTypes ==
  ASSUME NEW w, w \in Windows
  PROVE  /\ w.current \in Numbers /\ w.highest \in Numbers /\ w.next \in Numbers /\ w.tx \in Seq(Numbers) /\ w.wait \in Seq(Numbers)
         /\ w.priority \in Seq(Numbers) /\ w.pxHeadSegment \in Numbers \cup {None} /\ w.window \in Int /\ w.peer \in Int
         /\ DOMAIN w.segments \in SUBSET Numbers /\ w.segments \in [DOMAIN w.segments -> Segments]
         /\ IsFiniteSet(DOMAIN w.segments) /\ None \notin Numbers
         /\ Place(w.current) \in Nat /\ Place(w.next) \in Nat
         /\ \A n \in DOMAIN w.segments : /\ n \in Numbers /\ Place(n) \in Nat /\ w.segments[n].length \in 1 .. MSS
                                         /\ Ends(w, n) \in Nat /\ Place(n) < Ends(w, n)
<1>1. w.current \in Numbers /\ w.highest \in Numbers /\ w.next \in Numbers /\ w.tx \in Seq(Numbers) /\ w.wait \in Seq(Numbers)
      /\ w.priority \in Seq(Numbers) /\ w.pxHeadSegment \in Numbers \cup {None} /\ w.window \in Int /\ w.peer \in Int /\ w.segments \in SegmentMaps
  BY DEF Windows
<1>2. PICK S \in SUBSET Numbers : w.segments \in [S -> Segments]
  BY <1>1, SegmentMap
<1>3. DOMAIN w.segments = S
  BY <1>2
<1>4. IsFiniteSet(S)
  <2>1. IsFiniteSet(0 .. SeqMod - 1)
    BY WindowNumbers, FS_Interval
  <2> QED BY <1>2, <2>1, FS_Subset DEF Numbers
<1>5. \A n \in Numbers : Place(n) \in Nat
  BY PlaceIs, WindowNumbers DEF Numbers
<1>6. ASSUME NEW n \in S
      PROVE  n \in Numbers /\ Place(n) \in Nat /\ w.segments[n].length \in 1 .. MSS /\ Ends(w, n) \in Nat /\ Place(n) < Ends(w, n)
  <2>1. w.segments[n] \in Segments
    BY <1>2
  <2>2. w.segments[n].length \in 1 .. MSS
    BY <2>1 DEF Segments
  <2> QED BY <1>5, <2>2, WindowNumbers DEF Ends
<1>7. None \notin Numbers
  BY WindowNumbers DEF None, Numbers
<1> QED BY <1>1, <1>2, <1>3, <1>4, <1>5, <1>6, <1>7

(* Taking numbers out of the three queues disturbs no other.               *)
LEMMA DequeuedKeeps ==
  ASSUME NEW w \in Windows, NEW numbers
  PROVE  LET q == Dequeued(w, numbers)
         IN /\ q \in Windows /\ q.current = w.current /\ q.next = w.next /\ q.segments = w.segments /\ q.highest = w.highest
            /\ q.pxHeadSegment = w.pxHeadSegment /\ q.window = w.window /\ q.peer = w.peer
            /\ \A n : /\ n \in numbers \/ QueuedNever(w, n) => QueuedNever(q, n)
                      /\ n \notin numbers /\ QueuedOnce(w, n) => QueuedOnce(q, n)
<1> DEFINE q == Dequeued(w, numbers)
           x == Without(w.tx, numbers)
           y == Without(w.wait, numbers)
           z == Without(w.priority, numbers)
<1>1. w.tx \in Seq(Numbers) /\ w.wait \in Seq(Numbers) /\ w.priority \in Seq(Numbers)
  BY DEF Windows
<1>2. x \in Seq(Numbers) /\ y \in Seq(Numbers) /\ z \in Seq(Numbers)
  BY <1>1, WithoutKeeps
<1>3. q = [w EXCEPT !.tx = x, !.wait = y, !.priority = z]
  BY DEF Dequeued
<1>4. ASSUME NEW n, n \in numbers \/ QueuedNever(w, n)
      PROVE  Nowhere(x, n) /\ Nowhere(y, n) /\ Nowhere(z, n)
  BY <1>1, <1>4, WithoutKeeps DEF QueuedNever
<1>5. ASSUME NEW n, n \notin numbers
      PROVE  /\ Nowhere(w.tx, n) => Nowhere(x, n)
             /\ Nowhere(w.wait, n) => Nowhere(y, n)
             /\ Nowhere(w.priority, n) => Nowhere(z, n)
             /\ Once(w.tx, n) => Once(x, n)
             /\ Once(w.wait, n) => Once(y, n)
             /\ Once(w.priority, n) => Once(z, n)
  BY <1>1, <1>5, WithoutKeeps
<1> HIDE DEF q, x, y, z
<1>6. /\ q \in Windows /\ q.current = w.current /\ q.next = w.next /\ q.segments = w.segments /\ q.highest = w.highest
      /\ q.pxHeadSegment = w.pxHeadSegment /\ q.window = w.window /\ q.peer = w.peer
      /\ q.tx = x /\ q.wait = y /\ q.priority = z
  BY <1>2, <1>3 DEF Windows
<1>7. \A n : /\ n \in numbers \/ QueuedNever(w, n) => QueuedNever(q, n)
             /\ n \notin numbers /\ QueuedOnce(w, n) => QueuedOnce(q, n)
  BY <1>4, <1>5, <1>6 DEF QueuedNever, QueuedOnce
<1> QED BY <1>6, <1>7 DEF q

(* It cannot be in a queue once and never.                                 *)
LEMMA QueuedApart ==
  ASSUME NEW w, NEW n
  PROVE  ~(QueuedOnce(w, n) /\ QueuedNever(w, n))
BY DEF QueuedOnce, QueuedNever, Once, Nowhere

(* lTCPWindowTxAdd: the last segment grows.                                *)
LEMMA GrownKeeps ==
  ASSUME NEW w, WindowOK(w), NEW tiles, NEW marks \in SUBSET Nat, Matches(w, tiles, marks), \A t \in tiles : t[2] \in marks /\ t[1] \in marks,
         NEW count \in Nat, Place(w.next) + count <= MaxBytes
  PROVE  LET more == GrowsBy(w, count)
             g == Grown(w, more)
         IN /\ more \in 0 .. count /\ WindowOK(g) /\ Matches(g, tiles, marks)
            /\ g.current = w.current /\ Place(g.next) = Place(w.next) + more
            /\ DOMAIN g.segments = DOMAIN w.segments
<1> DEFINE h == w.pxHeadSegment
           more == GrowsBy(w, count)
           g == Grown(w, more)
<1>1. w \in Windows /\ QueuesOK(w) /\ SegmentsOK(w)
  BY DEF WindowOK
<1>2. CASE more = 0
  <2>1. g = w /\ Place(w.next) \in Nat
    BY <1>1, <1>2, WindowTypes DEF Grown
  <2> HIDE DEF g, more
  <2>2. more \in 0 .. count /\ WindowOK(g) /\ Matches(g, tiles, marks)
        /\ g.current = w.current /\ Place(g.next) = Place(w.next) + more /\ DOMAIN g.segments = DOMAIN w.segments
    BY <1>2, <2>1
  <2> QED BY <2>2 DEF g, more
<1>3. CASE more # 0
  <2>1. h # None /\ ~w.segments[h].outstanding /\ more = Smaller(count, MSS - w.segments[h].length)
    BY <1>3 DEF GrowsBy
  <2>2. h \in DOMAIN w.segments /\ Ends(w, h) = Place(w.next) /\ w.segments[h].length < MSS /\ w.segments[h].length \in 1 .. MSS
        /\ h \in Numbers /\ Place(h) \in Nat /\ w.segments[h] \in Segments
    BY <1>1, <2>1, WindowTypes DEF SegmentsOK
  <2>3. more \in 1 .. count /\ w.segments[h].length + more \in 1 .. MSS
    <3> HIDE DEF more, h
    <3> QED BY <1>3, <2>1, <2>2, WindowNumbers DEF Smaller
  <2> DEFINE length == w.segments[h].length + more
             segments == [w.segments EXCEPT ![h].length = length]
             next == Plus(w.next, more)
             head == IF length = MSS THEN None ELSE h
  <2>4. g = [w EXCEPT !.segments = segments, !.next = next, !.pxHeadSegment = head]
    <3> HIDE DEF more
    <3> QED BY <1>3, <1>1, <2>2 DEF Grown, Windows
  <2> HIDE DEF g, more
  <2>5. /\ DOMAIN segments = DOMAIN w.segments /\ segments \in [DOMAIN w.segments -> Segments]
        /\ \A n \in DOMAIN w.segments :
             /\ segments[n].length = IF n = h THEN length ELSE w.segments[n].length
             /\ segments[n].position = w.segments[n].position /\ segments[n].acked = w.segments[n].acked
             /\ segments[n].outstanding = w.segments[n].outstanding
    BY <1>1, <2>2, <2>3, WindowTypes DEF Segments
  <2>6. next \in Numbers /\ Place(next) = Place(w.next) + more
    <3>1. w.next \in Numbers /\ Place(w.next) \in Nat
      BY <1>1, WindowTypes
    <3>2. Place(w.next) + more \in Numbers /\ more \in Int
      BY <2>3, <3>1, WindowNumbers DEF Numbers
    <3> QED BY <3>1, <3>2, PlacePlus
  <2>7. segments \in SegmentMaps /\ head \in Numbers \cup {None}
    <3>1. segments \in SegmentMaps
      <4> HIDE DEF segments
      <4> QED BY <1>1, <2>5, WindowTypes, SegmentMap
    <3> QED BY <2>2, <3>1
  <2> HIDE DEF segments, next, head, length
  <2>8. /\ g \in Windows /\ g.current = w.current /\ g.next = next /\ g.segments = segments /\ g.pxHeadSegment = head
        /\ g.tx = w.tx /\ g.wait = w.wait /\ g.priority = w.priority
    BY <1>1, <2>4, <2>6, <2>7 DEF Windows
  <2>9. QueuesOK(g)
    BY <1>1, <2>5, <2>8 DEF QueuesOK, QueuedOnce, QueuedNever, Unreported
  <2>10. \A n \in DOMAIN w.segments : Ends(g, n) = IF n = h THEN Place(w.next) + more ELSE Ends(w, n)
    <3>1. Place(h) + length = Place(w.next) + more
      BY <1>1, <2>2, <2>3, WindowTypes DEF length, Ends
    <3> QED BY <2>5, <2>8, <3>1 DEF Ends
  <2>11. /\ Place(w.current) \in Nat /\ Place(w.next) \in Nat /\ MaxBytes \in Nat /\ more \in Nat /\ more > 0
         /\ \A n \in DOMAIN w.segments : Place(n) \in Nat /\ Ends(w, n) \in Nat /\ Place(n) < Ends(w, n)
    BY <1>1, <2>3, WindowTypes, WindowNumbers
  <2>12. \A n \in DOMAIN w.segments : n # h => Ends(w, n) <= Place(h)
    BY <1>1, <2>2, <2>11 DEF SegmentsOK
  <2>13. SegmentsOK(g)
    <3>1. Place(g.current) <= Place(g.next) /\ Place(g.next) <= MaxBytes
      BY <1>1, <2>3, <2>6, <2>8, <2>11 DEF SegmentsOK
    <3>2. \A n \in DOMAIN g.segments :
            Place(g.current) <= Place(n) /\ Ends(g, n) <= Place(g.next) /\ g.segments[n].position = Place(n) % TxLength
      BY <1>1, <2>5, <2>6, <2>8, <2>10, <2>11 DEF SegmentsOK
    <3>3. \A m, n \in DOMAIN g.segments : m # n => Ends(g, m) <= Place(n) \/ Ends(g, n) <= Place(m)
      BY <1>1, <2>5, <2>8, <2>10, <2>11, <2>12 DEF SegmentsOK
    <3>4. \A b \in Place(g.current) .. Place(g.next) - 1 : \E n \in DOMAIN g.segments : Place(n) <= b /\ b < Ends(g, n)
      <4> SUFFICES ASSUME NEW b \in Place(g.current) .. Place(g.next) - 1
                   PROVE  \E n \in DOMAIN g.segments : Place(n) <= b /\ b < Ends(g, n)
        OBVIOUS
      <4>1. CASE b < Place(w.next)
        <5>1. b \in Place(w.current) .. Place(w.next) - 1
          BY <2>8, <2>11, <4>1
        <5>2. PICK n \in DOMAIN w.segments : Place(n) <= b /\ b < Ends(w, n)
          BY <1>1, <5>1 DEF SegmentsOK
        <5>3. b < Ends(g, n)
          BY <2>10, <2>11, <4>1, <5>2
        <5> QED BY <2>5, <2>8, <5>2, <5>3
      <4>2. CASE Place(w.next) <= b
        <5>1. Place(h) <= b /\ b < Ends(g, h)
          BY <2>2, <2>6, <2>8, <2>10, <2>11, <4>2
        <5> QED BY <2>2, <2>5, <2>8, <5>1
      <4> QED BY <2>11, <4>1, <4>2
    <3>5. g.pxHeadSegment # None =>
            /\ g.pxHeadSegment \in DOMAIN g.segments /\ Ends(g, g.pxHeadSegment) = Place(g.next)
            /\ ~g.segments[g.pxHeadSegment].outstanding /\ g.segments[g.pxHeadSegment].length < MSS
      <4> SUFFICES ASSUME head # None
                   PROVE  /\ h \in DOMAIN g.segments /\ Ends(g, h) = Place(g.next)
                          /\ ~g.segments[h].outstanding /\ g.segments[h].length < MSS /\ head = h
        BY <2>8
      <4>1. length # MSS /\ head = h
        BY DEF head
      <4> QED BY <2>1, <2>2, <2>3, <2>5, <2>6, <2>8, <2>10, <4>1, WindowNumbers DEF length
    <3> QED BY <3>1, <3>2, <3>3, <3>4, <3>5 DEF SegmentsOK
  <2>14. \A x \in marks : x \in Nat /\ x <= Place(h)
    BY <2>1 DEF Matches
  <2>15. Matches(g, tiles, marks)
    <3>1. ASSUME NEW n \in DOMAIN g.segments, NEW x \in marks PROVE x <= Place(n) \/ Ends(g, n) <= x
      BY <2>5, <2>8, <2>10, <2>14, <3>1 DEF Matches
    <3>2. ASSUME NEW n \in DOMAIN g.segments, NEW t \in tiles PROVE Apart(t, Place(n)) /\ Apart(t, Ends(g, n))
      <4>1. Apart(t, Place(n)) /\ Apart(t, Ends(w, n)) /\ t[2] \in marks
        BY <2>5, <2>8, <3>2 DEF Matches
      <4>2. CASE n # h
        BY <2>5, <2>8, <2>10, <4>1, <4>2
      <4>3. CASE n = h
        <5>1. t[2] <= Place(h) /\ t[2] \in Nat
          BY <2>14, <4>1
        <5> QED BY <2>2, <2>10, <2>11, <4>1, <4>3, <5>1 DEF Apart
      <4> QED BY <4>2, <4>3
    <3>3. \A x \in marks : x <= Place(g.next) /\ (g.pxHeadSegment # None => x <= Place(g.pxHeadSegment))
      <4>1. head # None => head = h
        BY DEF head
      <4>2. Place(h) <= Place(g.next)
        BY <2>2, <2>6, <2>8, <2>11
      <4> QED BY <2>2, <2>6, <2>8, <2>11, <2>14, <4>1, <4>2
    <3> QED BY <3>1, <3>2, <3>3 DEF Matches
  <2>16. more \in 0 .. count
    BY <2>3
  <2> QED BY <2>5, <2>6, <2>8, <2>9, <2>13, <2>15, <2>16 DEF WindowOK, g, more
<1> QED BY <1>2, <1>3

(* How many segments of at most MSS bytes hold so many bytes.              *)
LEMMA Multiples ==
  ASSUME NEW m \in Nat \ {0}
  PROVE  /\ \A i, j \in Nat : i < j => i * m + m <= j * m
         /\ \A i \in Nat : i * m \in Nat /\ (i + 1) * m = i * m + m /\ (i * m) \div m = i
         /\ \A b \in Nat : (b \div m) \in Nat /\ (b \div m) * m <= b /\ b < (b \div m) * m + m
<1>1. ASSUME NEW i \in Nat, NEW j \in Nat, i < j PROVE i * m + m <= j * m
  <2>1. (i + 1) * m <= j * m
    BY <1>1
  <2> QED BY <2>1
<1>2. \A b \in Nat : (b \div m) \in Nat /\ (b \div m) * m <= b /\ b < (b \div m) * m + m
  OBVIOUS
<1>3. ASSUME NEW i \in Nat PROVE i * m \in Nat /\ (i + 1) * m = i * m + m /\ (i * m) \div m = i
  <2>1. i * m \in Nat /\ (i + 1) * m = i * m + m
    OBVIOUS
  <2> DEFINE b == i * m
             j == b \div m
  <2>2. j \in Nat /\ j * m <= b /\ b < j * m + m
    BY <1>2, <2>1
  <2>3. ~(i < j)
    <3>1. i < j => b + m <= j * m
      <4> HIDE DEF j
      <4> QED BY <1>1, <2>2
    <3> HIDE DEF j, b
    <3>2. b \in Nat /\ j * m \in Nat
      BY <2>1, <2>2 DEF b
    <3> QED BY <2>2, <3>1, <3>2
  <2>4. ~(j < i)
    <3>1. j < i => j * m + m <= b
      <4> HIDE DEF j
      <4> QED BY <1>1, <2>2
    <3> HIDE DEF j, b
    <3>2. b \in Nat /\ j * m \in Nat
      BY <2>1, <2>2 DEF b
    <3> QED BY <2>2, <3>1, <3>2
  <2> HIDE DEF j
  <2>5. j = i
    BY <2>2, <2>3, <2>4
  <2> QED BY <2>1, <2>5 DEF j
<1> QED BY <1>1, <1>2, <1>3

(* A window with further segments behind those it had: the places and      *)
(* lengths of the new ones.                                                *)
LEMMA NewPlaces ==
  ASSUME NEW start \in Nat, NEW count \in Nat, start + count <= MaxBytes, NEW next \in Numbers, Place(next) = start,
         NEW made \in Nat \ {0}, made <= (count + MSS - 1) \div MSS
  PROVE  LET at(i) == (i - 1) * MSS
             size(i) == Smaller(MSS, count - at(i))
             number(i) == Plus(next, (i - 1) * MSS)
         IN /\ \A i \in 1 .. made :
                 /\ at(i) \in Nat /\ at(i) + size(i) <= count /\ size(i) \in 1 .. MSS
                 /\ number(i) \in Numbers /\ Place(number(i)) = start + at(i)
                 /\ Minus(number(i), next) \div MSS + 1 = i
            /\ \A i, j \in 1 .. made : i < j => at(i) + size(i) <= at(j)
            /\ Plus(number(made), size(made)) \in Numbers
            /\ Place(Plus(number(made), size(made))) = start + at(made) + size(made)
            /\ \A b \in start .. start + at(made) + size(made) - 1 :
                 \E i \in 1 .. made : start + at(i) <= b /\ b < start + at(i) + size(i)
<1> DEFINE at(i) == (i - 1) * MSS
           size(i) == Smaller(MSS, count - at(i))
           number(i) == Plus(next, (i - 1) * MSS)
           wanted == (count + MSS - 1) \div MSS
<1>1. MSS \in Nat \ {0} /\ MaxBytes \in Nat /\ SeqMod \in Nat /\ MaxBytes < SeqMod
  BY WindowNumbers
<1>2. wanted \in Nat /\ wanted * MSS <= count + MSS - 1 /\ wanted * MSS \in Nat
  <2> DEFINE b == count + MSS - 1
  <2>1. b \in Nat
    BY <1>1
  <2> HIDE DEF b
  <2>2. (b \div MSS) \in Nat /\ (b \div MSS) * MSS <= b /\ (b \div MSS) * MSS \in Nat
    BY <1>1, <2>1, Multiples
  <2> QED BY <2>2 DEF b
<1> HIDE DEF wanted
<1>3. ASSUME NEW i \in 1 .. made
      PROVE  at(i) \in Nat /\ at(i) < count /\ at(i) \div MSS = i - 1
  <2> DEFINE k == i - 1
  <2>1. k \in Nat /\ k < wanted
    BY <1>2 DEF wanted
  <2> HIDE DEF k
  <2>2. k * MSS \in Nat /\ k * MSS + MSS <= wanted * MSS /\ (k * MSS) \div MSS = k
    BY <1>1, <1>2, <2>1, Multiples
  <2>3. k * MSS < count
    BY <1>1, <1>2, <2>2
  <2> QED BY <2>2, <2>3 DEF k
<1>4. ASSUME NEW i \in 1 .. made, NEW j \in 1 .. made, i < j PROVE at(i) + MSS <= at(j)
  <2> DEFINE k == i - 1
             l == j - 1
  <2>1. k \in Nat /\ l \in Nat /\ k < l
    BY <1>4
  <2> HIDE DEF k, l
  <2>2. k * MSS + MSS <= l * MSS
    BY <1>1, <2>1, Multiples
  <2> QED BY <2>2 DEF k, l
<1>5. ASSUME NEW i \in 1 .. made, i + 1 \in 1 .. made PROVE at(i + 1) = at(i) + MSS
  <2> DEFINE k == i - 1
  <2>1. k \in Nat /\ k + 1 = (i + 1) - 1
    OBVIOUS
  <2> HIDE DEF k
  <2>2. (k + 1) * MSS = k * MSS + MSS
    BY <1>1, <2>1, Multiples
  <2> QED BY <2>1, <2>2 DEF k
<1> HIDE DEF at
<1>6. ASSUME NEW i \in 1 .. made
      PROVE  size(i) \in 1 .. MSS /\ at(i) + size(i) <= count /\ size(i) \in {MSS, count - at(i)}
  BY <1>1, <1>3 DEF Smaller
<1>7. ASSUME NEW i \in 1 .. made
      PROVE  number(i) \in Numbers /\ Place(number(i)) = start + at(i)
  <2>1. at(i) \in Int /\ start + at(i) \in Numbers
    BY <1>1, <1>3 DEF Numbers
  <2>2. Plus(next, at(i)) \in Numbers /\ Place(Plus(next, at(i))) = start + at(i)
    BY <2>1, PlacePlus
  <2> QED BY <2>2 DEF at
<1> HIDE DEF number, size
<1>8. ASSUME NEW i \in 1 .. made
      PROVE  Minus(number(i), next) \div MSS + 1 = i
  <2>1. Minus(number(i), next) = at(i)
    BY <1>3, <1>7, MinusPlace
  <2> QED BY <1>3, <2>1
<1>9. \A i, j \in 1 .. made : i < j => at(i) + size(i) <= at(j)
  BY <1>1, <1>3, <1>4, <1>6
<1>10. Plus(number(made), size(made)) \in Numbers /\ Place(Plus(number(made), size(made))) = start + at(made) + size(made)
  <2>1. number(made) \in Numbers /\ size(made) \in Int /\ Place(number(made)) + size(made) = start + at(made) + size(made)
    BY <1>3, <1>6, <1>7
  <2>2. start + at(made) + size(made) \in Numbers
    BY <1>1, <1>3, <1>6 DEF Numbers
  <2> QED BY <2>1, <2>2, PlacePlus
<1>11. ASSUME NEW b \in start .. start + at(made) + size(made) - 1
       PROVE  \E i \in 1 .. made : start + at(i) <= b /\ b < start + at(i) + size(i)
  <2> DEFINE S == {i \in Nat : i \in 1 .. made /\ b < start + at(i) + size(i)}
  <2>1. made \in S
    BY <1>3, <1>6
  <2>2. PICK i \in S : \A j \in S : i <= j
    <3> HIDE DEF S
    <3>1. S \in SUBSET Nat
      BY DEF S
    <3> QED BY <2>1, <3>1, LeastExists
  <2>3. start + at(i) <= b
    <3>1. CASE i = 1
      <4>1. at(1) = 0
        BY <1>1 DEF at
      <4> QED BY <3>1, <4>1
    <3>2. CASE i # 1
      <4> DEFINE k == i - 1
      <4>1. k \in 1 .. made /\ k + 1 = i /\ k + 1 \in 1 .. made
        BY <3>2
      <4>2. k \notin S
        BY <2>2, <4>1
      <4> HIDE DEF k
      <4>3. ~(b < start + at(k) + size(k))
        BY <4>1, <4>2
      <4>4. at(i) = at(k) + MSS
        BY <1>5, <4>1
      <4>5. size(k) = MSS
        <5>1. at(i) < count
          BY <1>3
        <5> QED BY <1>1, <1>3, <1>6, <4>1, <4>4, <5>1
      <4> QED BY <1>1, <1>3, <4>1, <4>3, <4>4, <4>5
    <3> QED BY <3>1, <3>2
  <2> QED BY <2>3
<1> QED BY <1>3, <1>6, <1>7, <1>8, <1>9, <1>10, <1>11 DEF at, size, number

(* lTCPWindowTxAdd: the rest gets new segments, as many as there are.      *)
LEMMA NewSegmentsKeep ==
  ASSUME NEW w, WindowOK(w), NEW tiles, NEW marks \in SUBSET Nat, Matches(w, tiles, marks), \A t \in tiles : t[1] \in marks /\ t[2] \in marks,
         NEW count \in Nat, Place(w.next) + count <= MaxBytes,
         NEW stream, stream.length = TxLength, NEW position, position = Place(w.next) % TxLength
  PROVE  LET v == WithNewSegments(w, count, position, stream)
         IN /\ WindowOK(v) /\ Matches(v, tiles, marks) /\ v.current = w.current
            /\ Place(w.next) <= Place(v.next) /\ Place(v.next) <= Place(w.next) + count
<1> DEFINE wanted == (count + MSS - 1) \div MSS
           made == Smaller(wanted, SegmentCount - Cardinality(DOMAIN w.segments))
           number(i) == Plus(w.next, (i - 1) * MSS)
           at(i) == (i - 1) * MSS
           size(i) == Smaller(MSS, count - at(i))
           fresh == {number(i) : i \in 1 .. made}
           new == [n \in fresh |->
                     LET i == Minus(n, w.next) \div MSS + 1
                     IN [length |-> size(i), position |-> Around(stream, position + (i - 1) * MSS),
                         outstanding |-> FALSE, acked |-> FALSE, transmits |-> 0, duplicates |-> 0]]
           v == WithNewSegments(w, count, position, stream)
           start == Place(w.next)
<1>1. w \in Windows /\ QueuesOK(w) /\ SegmentsOK(w)
  BY DEF WindowOK
<1>2. /\ start \in Nat /\ w.next \in Numbers /\ DOMAIN w.segments \in SUBSET Numbers /\ w.segments \in [DOMAIN w.segments -> Segments]
      /\ w.tx \in Seq(Numbers) /\ Place(w.current) \in Nat
      /\ \A n \in DOMAIN w.segments : n \in Numbers /\ Place(n) \in Nat /\ Ends(w, n) \in Nat /\ Place(n) < Ends(w, n)
  BY <1>1, WindowTypes
<1>3. wanted \in Int /\ made \in Int /\ made <= wanted
  <2>1. wanted \in Int
    BY WindowNumbers
  <2>2. Cardinality(DOMAIN w.segments) \in Nat
    BY <1>1, WindowTypes, FS_CardinalityType
  <2> HIDE DEF wanted
  <2> QED BY <2>1, <2>2, WindowNumbers DEF Smaller
<1>4. CASE made <= 0
  <2>1. v = w
    BY <1>4 DEF WithNewSegments
  <2> HIDE DEF v
  <2>2. WindowOK(v) /\ Matches(v, tiles, marks) /\ v.current = w.current /\ start <= Place(v.next) /\ Place(v.next) <= start + count
    BY <1>2, <2>1
  <2> QED BY <2>2 DEF v
<1>5. CASE ~(made <= 0)
  <2> DEFINE segments == [n \in DOMAIN w.segments \cup DOMAIN new |-> IF n \in DOMAIN new THEN new[n] ELSE w.segments[n]]
             queue == w.tx \o [i \in 1 .. made |-> number(i)]
             next == Plus(number(made), size(made))
             head == IF size(made) < MSS THEN number(made) ELSE None
  <2>1. v = [w EXCEPT !.segments = segments, !.tx = queue, !.next = next, !.pxHeadSegment = head]
    <3>1. v = [w EXCEPT !.segments = segments, !.tx = @ \o [i \in 1 .. made |-> number(i)], !.next = next, !.pxHeadSegment = head]
      BY <1>5 DEF WithNewSegments
    <3> HIDE DEF segments, next, head, v, number, made
    <3> QED BY <1>1, <3>1 DEF Windows
  <2>2. /\ \A i \in 1 .. made :
             /\ at(i) \in Nat /\ at(i) + size(i) <= count /\ size(i) \in 1 .. MSS
             /\ number(i) \in Numbers /\ Place(number(i)) = start + at(i)
             /\ Minus(number(i), w.next) \div MSS + 1 = i
        /\ \A i, j \in 1 .. made : i < j => at(i) + size(i) <= at(j)
        /\ Plus(number(made), size(made)) \in Numbers
        /\ Place(Plus(number(made), size(made))) = start + at(made) + size(made)
        /\ \A b \in start .. start + at(made) + size(made) - 1 :
             \E i \in 1 .. made : start + at(i) <= b /\ b < start + at(i) + size(i)
    <3>1. made \in Nat \ {0} /\ made <= (count + MSS - 1) \div MSS
      BY <1>3, <1>5
    <3> HIDE DEF made
    <3> QED BY <1>2, <3>1, NewPlaces
  <2>3. made \in 1 .. made
    BY <1>3, <1>5
  <2> HIDE DEF made, number, at, size, v
  <2>4. ASSUME NEW i \in 1 .. made
        PROVE  /\ number(i) \in fresh /\ new[number(i)] \in Segments
               /\ new[number(i)].length = size(i) /\ new[number(i)].position = (start + at(i)) % TxLength
               /\ new[number(i)].outstanding = FALSE /\ new[number(i)].acked = FALSE
    <3>1. number(i) \in fresh
      OBVIOUS
    <3>2. new[number(i)] = [length |-> size(i), position |-> Around(stream, position + (i - 1) * MSS),
                            outstanding |-> FALSE, acked |-> FALSE, transmits |-> 0, duplicates |-> 0]
      BY <2>2, <3>1
    <3>3. Around(stream, position + at(i)) = (start + at(i)) % TxLength
      <4>1. at(i) \in Int
        BY <2>2
      <4>2. ((start % TxLength) + at(i)) % TxLength = (start + at(i)) % TxLength
        BY <1>2, <4>1, RingSum, WindowNumbers
      <4> QED BY <4>2 DEF Around
    <3>4. (start + at(i)) % TxLength \in 0 .. TxLength - 1
      <4> DEFINE x == start + at(i)
      <4>1. x \in Int
        BY <1>2, <2>2
      <4> HIDE DEF x
      <4>2. x % TxLength \in 0 .. TxLength - 1
        BY <4>1, InRing, WindowNumbers
      <4> QED BY <4>2 DEF x
    <3> DEFINE p == (start + at(i)) % TxLength
               r == new[number(i)]
    <3>5. r = [length |-> size(i), position |-> p, outstanding |-> FALSE, acked |-> FALSE, transmits |-> 0, duplicates |-> 0]
      BY <3>2, <3>3 DEF at
    <3> HIDE DEF r, p, new
    <3>6. r \in Segments /\ r.length = size(i) /\ r.position = p /\ r.outstanding = FALSE /\ r.acked = FALSE
      BY <2>2, <3>4, <3>5 DEF Segments, p
    <3> QED BY <3>1, <3>6 DEF r, p
  <2>5. DOMAIN new = fresh
    OBVIOUS
  <2>6. \A n \in fresh : \E i \in 1 .. made : n = number(i)
    OBVIOUS
  <2>7. \A i, j \in 1 .. made : number(i) = number(j) => i = j
    <3> SUFFICES ASSUME NEW i \in 1 .. made, NEW j \in 1 .. made, number(i) = number(j), i < j PROVE FALSE
      BY <1>3
    <3>1. at(i) = at(j) /\ at(i) + size(i) <= at(j)
      BY <1>2, <2>2
    <3> QED BY <2>2, <3>1
  <2> HIDE DEF fresh, new
  <2>8. \A n \in fresh : n \in Numbers /\ n \notin DOMAIN w.segments
    <3> SUFFICES ASSUME NEW n \in fresh PROVE n \in Numbers /\ n \notin DOMAIN w.segments
      OBVIOUS
    <3>1. PICK i \in 1 .. made : n = number(i)
      BY <2>6
    <3>2. n \in Numbers /\ Place(n) >= start
      BY <1>2, <2>2, <3>1
    <3>3. \A m \in DOMAIN w.segments : Place(m) < start
      BY <1>1, <1>2 DEF SegmentsOK
    <3> QED BY <1>2, <3>2, <3>3
  <2>9. /\ DOMAIN segments = DOMAIN w.segments \cup fresh
        /\ \A n \in DOMAIN w.segments : segments[n] = w.segments[n]
        /\ \A i \in 1 .. made : number(i) \in fresh /\ segments[number(i)] = new[number(i)]
    <3>1. DOMAIN segments = DOMAIN w.segments \cup fresh
      BY <2>5
    <3>2. \A n \in DOMAIN w.segments : segments[n] = w.segments[n]
      BY <2>5, <2>8
    <3>3. \A i \in 1 .. made : number(i) \in fresh /\ segments[number(i)] = new[number(i)]
      BY <2>4, <2>5
    <3> QED BY <3>1, <3>2, <3>3
  <2>10. segments \in [DOMAIN segments -> Segments] /\ segments \in SegmentMaps
    <3>1. \A n \in DOMAIN segments : segments[n] \in Segments
      BY <1>2, <2>4, <2>6, <2>9
    <3>2. segments \in [DOMAIN segments -> Segments]
      BY <3>1
    <3>3. DOMAIN segments \in SUBSET Numbers
      BY <1>2, <2>8, <2>9
    <3> HIDE DEF segments
    <3> QED BY <3>2, <3>3, SegmentMap
  <2> HIDE DEF segments
  <2>11. queue \in Seq(Numbers)
    <3>1. [i \in 1 .. made |-> number(i)] \in Seq(Numbers)
      <4>1. made \in Nat
        BY <1>3, <1>5
      <4> QED BY <2>2, <4>1
    <3> QED BY <1>2, <3>1
  <2>12. head \in Numbers \cup {None} /\ next \in Numbers
    BY <2>2, <2>3
  <2> HIDE DEF queue, head, next
  <2>13. /\ v \in Windows /\ v.current = w.current /\ v.next = next /\ v.segments = segments /\ v.pxHeadSegment = head
         /\ v.tx = queue /\ v.wait = w.wait /\ v.priority = w.priority
    BY <1>1, <2>1, <2>10, <2>11, <2>12 DEF Windows
  <2>14. Place(next) = start + at(made) + size(made) /\ at(made) + size(made) <= count /\ at(made) \in Nat /\ size(made) \in 1 .. MSS
    BY <2>2, <2>3 DEF next
  <2>15. /\ \A n \in DOMAIN w.segments : Ends(v, n) = Ends(w, n) /\ Ends(v, n) <= start
         /\ \A i \in 1 .. made : Ends(v, number(i)) = start + at(i) + size(i)
    BY <1>1, <2>2, <2>4, <2>9, <2>13 DEF Ends, SegmentsOK
  <2>16. QueuesOK(v)
    <3> SUFFICES ASSUME NEW n \in Numbers
                 PROVE  IF Unreported(v, n) THEN QueuedOnce(v, n) ELSE QueuedNever(v, n)
      BY DEF QueuesOK
    <3> DEFINE more == [i \in 1 .. made |-> number(i)]
    <3>1. more \in Seq(Numbers) /\ Len(more) = made /\ \A i \in 1 .. made : more[i] = number(i)
      <4>1. made \in Nat
        BY <1>3, <1>5
      <4> QED BY <2>2, <4>1
    <3>2. queue = w.tx \o more
      BY DEF queue
    <3> HIDE DEF more
    <3>3. /\ Nowhere(queue, n) <=> Nowhere(w.tx, n) /\ Nowhere(more, n)
          /\ Nowhere(w.tx, n) /\ Once(more, n) => Once(queue, n)
          /\ Once(w.tx, n) /\ Nowhere(more, n) => Once(queue, n)
      BY <1>2, <3>1, <3>2, JoinedOnce
    <3>4. CASE n \in fresh
      <4>1. PICK i \in 1 .. made : n = number(i)
        BY <2>6, <3>4
      <4>2. Once(more, n)
        BY <2>7, <3>1, <4>1 DEF Once
      <4>3. QueuedNever(w, n)
        BY <1>1, <2>8, <3>4 DEF QueuesOK, Unreported
      <4>4. Unreported(v, n)
        BY <2>4, <2>9, <2>13, <4>1 DEF Unreported
      <4> QED BY <2>13, <3>3, <4>2, <4>3, <4>4 DEF QueuedNever, QueuedOnce
    <3>5. CASE n \notin fresh
      <4>1. Nowhere(more, n)
        BY <2>9, <3>1, <3>5 DEF Nowhere
      <4>2. Unreported(v, n) <=> Unreported(w, n)
        BY <2>9, <2>13, <3>5 DEF Unreported
      <4> QED BY <1>1, <2>13, <3>3, <4>1, <4>2 DEF QueuesOK, QueuedNever, QueuedOnce
    <3> QED BY <3>4, <3>5
  <2>17. SegmentsOK(v)
    <3>1. Place(v.current) <= Place(v.next) /\ Place(v.next) <= MaxBytes
      BY <1>1, <1>2, <2>13, <2>14, WindowNumbers DEF SegmentsOK
    <3>2. ASSUME NEW n \in DOMAIN v.segments
          PROVE  Place(v.current) <= Place(n) /\ Ends(v, n) <= Place(v.next) /\ v.segments[n].position = Place(n) % TxLength
      <4>1. CASE n \in DOMAIN w.segments
        BY <1>1, <1>2, <2>9, <2>13, <2>14, <2>15, <4>1 DEF SegmentsOK
      <4>2. CASE n \in fresh
        <5>1. PICK i \in 1 .. made : n = number(i)
          BY <2>6, <4>2
        <5>2. at(i) + size(i) <= at(made) + size(made)
          BY <1>3, <2>2, <2>3, <5>1
        <5>3. Place(n) = start + at(i) /\ v.segments[n].position = (start + at(i)) % TxLength
          BY <2>2, <2>4, <2>9, <2>13, <5>1
        <5>4. Place(w.current) <= start
          BY <1>1 DEF SegmentsOK
        <5>5. Place(v.current) <= Place(n)
          BY <1>2, <2>2, <2>13, <5>1, <5>3, <5>4
        <5>6. Ends(v, n) <= Place(v.next)
          BY <1>2, <2>2, <2>13, <2>14, <2>15, <5>1, <5>2
        <5> QED BY <5>3, <5>5, <5>6
      <4> QED BY <2>9, <2>13, <3>2, <4>1, <4>2
    <3>3. ASSUME NEW m \in DOMAIN v.segments, NEW n \in DOMAIN v.segments, m # n
          PROVE  Ends(v, m) <= Place(n) \/ Ends(v, n) <= Place(m)
      <4>1. CASE m \in DOMAIN w.segments /\ n \in DOMAIN w.segments
        BY <1>1, <2>15, <3>3, <4>1 DEF SegmentsOK
      <4>2. \A k \in fresh : Place(k) >= start
        BY <1>2, <2>2, <2>6
      <4>3. CASE m \in fresh /\ n \in fresh
        <5>1. PICK i \in 1 .. made : m = number(i)
          BY <2>6, <4>3
        <5>2. PICK j \in 1 .. made : n = number(j)
          BY <2>6, <4>3
        <5>3. i < j \/ j < i
          BY <1>3, <3>3, <5>1, <5>2
        <5>4. at(i) + size(i) <= at(j) \/ at(j) + size(j) <= at(i)
          BY <2>2, <5>3
        <5> QED BY <1>2, <2>2, <2>15, <5>1, <5>2, <5>4
      <4>4. CASE m \in fresh /\ n \in DOMAIN w.segments
        <5>1. Place(m) \in Nat /\ Ends(v, n) \in Nat
          BY <1>2, <2>2, <2>6, <2>15, <4>4
        <5> QED BY <1>2, <2>15, <4>2, <4>4, <5>1
      <4>5. CASE n \in fresh /\ m \in DOMAIN w.segments
        <5>1. Place(n) \in Nat /\ Ends(v, m) \in Nat
          BY <1>2, <2>2, <2>6, <2>15, <4>5
        <5> QED BY <1>2, <2>15, <4>2, <4>5, <5>1
      <4> QED BY <2>9, <2>13, <3>3, <4>1, <4>3, <4>4, <4>5
    <3>4. ASSUME NEW b \in Place(v.current) .. Place(v.next) - 1
          PROVE  \E n \in DOMAIN v.segments : Place(n) <= b /\ b < Ends(v, n)
      <4>1. CASE b < start
        <5>1. b \in Place(w.current) .. Place(w.next) - 1
          BY <1>2, <2>13, <3>4, <4>1
        <5>2. PICK n \in DOMAIN w.segments : Place(n) <= b /\ b < Ends(w, n)
          BY <1>1, <5>1 DEF SegmentsOK
        <5> QED BY <2>9, <2>13, <2>15, <5>2
      <4>2. CASE start <= b
        <5>1. b \in start .. start + at(made) + size(made) - 1
          BY <1>2, <2>13, <2>14, <3>4, <4>2
        <5>2. PICK i \in 1 .. made : start + at(i) <= b /\ b < start + at(i) + size(i)
          BY <2>2, <5>1
        <5> QED BY <2>2, <2>9, <2>13, <2>15, <5>2
      <4> QED BY <1>2, <2>13, <3>4, <4>1, <4>2
    <3>5. v.pxHeadSegment # None =>
            /\ v.pxHeadSegment \in DOMAIN v.segments /\ Ends(v, v.pxHeadSegment) = Place(v.next)
            /\ ~v.segments[v.pxHeadSegment].outstanding /\ v.segments[v.pxHeadSegment].length < MSS
      <4> SUFFICES ASSUME head # None
                   PROVE  /\ head \in DOMAIN segments /\ Ends(v, head) = Place(next)
                          /\ ~segments[head].outstanding /\ segments[head].length < MSS
        BY <2>13
      <4>1. head = number(made) /\ size(made) < MSS
        BY DEF head
      <4> QED BY <2>3, <2>4, <2>9, <2>14, <2>15, <4>1
    <3> QED BY <3>1, <3>2, <3>3, <3>4, <3>5 DEF SegmentsOK
  <2>18. \A x \in marks : x \in Nat /\ x <= start
    BY DEF Matches
  <2>19. Matches(v, tiles, marks)
    <3>1. ASSUME NEW n \in fresh PROVE Place(n) \in Nat /\ start <= Place(n) /\ Place(n) < Ends(v, n) /\ Ends(v, n) \in Nat
      <4>1. PICK i \in 1 .. made : n = number(i)
        BY <2>6, <3>1
      <4> QED BY <1>2, <2>2, <2>15, <4>1
    <3>2. ASSUME NEW n \in DOMAIN v.segments, NEW x \in marks PROVE x <= Place(n) \/ Ends(v, n) <= x
      <4>1. CASE n \in DOMAIN w.segments
        BY <2>15, <3>2, <4>1 DEF Matches
      <4>2. CASE n \in fresh
        BY <1>2, <2>18, <3>1, <3>2, <4>2
      <4> QED BY <2>9, <2>13, <3>2, <4>1, <4>2
    <3>3. ASSUME NEW n \in DOMAIN v.segments, NEW t \in tiles PROVE Apart(t, Place(n)) /\ Apart(t, Ends(v, n))
      <4>1. CASE n \in DOMAIN w.segments
        BY <2>15, <3>3, <4>1 DEF Matches
      <4>2. CASE n \in fresh
        <5>1. t[2] \in Nat /\ t[2] <= start
          BY <2>18, <3>3
        <5> QED BY <1>2, <3>1, <4>2, <5>1 DEF Apart
      <4> QED BY <2>9, <2>13, <3>3, <4>1, <4>2
    <3>4. \A x \in marks : x <= Place(v.next) /\ (v.pxHeadSegment # None => x <= Place(v.pxHeadSegment))
      <4>1. head # None => head \in fresh
        BY <2>3, <2>9 DEF head
      <4> QED BY <1>2, <2>13, <2>14, <2>18, <3>1, <4>1
    <3> QED BY <3>2, <3>3, <3>4 DEF Matches
  <2>20. start <= Place(v.next) /\ Place(v.next) <= start + count
    BY <1>2, <2>13, <2>14
  <2> QED BY <2>13, <2>16, <2>17, <2>19, <2>20 DEF WindowOK, v
<1> QED BY <1>4, <1>5

(* prvTCPAddTxData: the window and the stream of the sender stay in step.  *)
LEMMA TxAddKeeps ==
  ASSUME NEW w, WindowOK(w), NEW tiles, NEW marks \in SUBSET Nat, Matches(w, tiles, marks), \A t \in tiles : t[1] \in marks /\ t[2] \in marks,
         NEW stream, NEW tail, NEW head, Filled(stream, TxLength, tail, head), head <= MaxBytes,
         tail <= Place(w.next), Place(w.next) <= head, stream.mid = Place(w.next) % TxLength
  PROVE  LET v == TxAdd(w, stream)
             s == AddTxData(w, stream)
         IN /\ WindowOK(v) /\ Matches(v, tiles, marks) /\ v.current = w.current
            /\ Place(v.next) <= head
            /\ Filled(s, TxLength, tail, head) /\ s.bytes = stream.bytes /\ s.mid = Place(v.next) % TxLength /\ s.length = TxLength
<1> DEFINE count == MidSpace(stream)
           more == GrowsBy(w, count)
           g == Grown(w, more)
           position == Around(stream, stream.mid + more)
           v == TxAdd(w, stream)
           s == AddTxData(w, stream)
           start == Place(w.next)
<1>1. /\ start \in Nat /\ w.next \in Numbers /\ tail \in Nat /\ head \in Nat /\ TxLength \in Nat \ {0} /\ head - tail <= TxLength - 1
      /\ stream \in Streams(TxLength) /\ stream.length = TxLength /\ stream.head = head % TxLength /\ MaxBytes \in Nat
  BY WindowTypes, WindowNumbers DEF WindowOK, Filled, Streams
<1>2. count = head - start /\ count \in Nat /\ start + count <= MaxBytes
  <2>1. start <= head /\ head < start + TxLength
    BY <1>1
  <2>2. ((head % TxLength) - (start % TxLength)) % TxLength = head - start
    <3> HIDE DEF start
    <3> QED BY <1>1, <2>1, RingDistance
  <2>3. count = head - start
    BY <1>1, <2>2 DEF MidSpace, Distance
  <2> HIDE DEF count
  <2> QED BY <1>1, <2>1, <2>3
<1> HIDE DEF count
<1>3. more \in 0 .. count /\ WindowOK(g) /\ Matches(g, tiles, marks) /\ g.current = w.current /\ Place(g.next) = start + more
  BY <1>2, GrownKeeps
<1> HIDE DEF more, g
<1>4. position = (start + more) % TxLength
  <2>1. more \in Int
    BY <1>3
  <2>2. ((start % TxLength) + more) % TxLength = (start + more) % TxLength
    BY <1>1, <2>1, RingSum
  <2> QED BY <1>1, <2>2 DEF Around
<1>5. /\ WindowOK(v) /\ Matches(v, tiles, marks) /\ v.current = g.current
      /\ Place(g.next) <= Place(v.next) /\ Place(v.next) <= Place(g.next) + (count - more)
  <2> DEFINE c == count - more
  <2>1. c \in Nat /\ Place(g.next) + c <= MaxBytes /\ position = Place(g.next) % TxLength
    <3>1. start + more = Place(g.next)
      BY <1>3
    <3>2. (start + more) % TxLength = Place(g.next) % TxLength
      BY <3>1
    <3>3. c \in Nat /\ Place(g.next) + c <= MaxBytes
      BY <1>1, <1>2, <1>3
    <3> HIDE DEF c, position
    <3> QED BY <1>4, <3>2, <3>3
  <2>2. v = WithNewSegments(g, c, position, stream)
    BY DEF TxAdd, count, more, g
  <2> HIDE DEF c, position, v
  <2>3. /\ WindowOK(v) /\ Matches(v, tiles, marks) /\ v.current = g.current
        /\ Place(g.next) <= Place(v.next) /\ Place(v.next) <= Place(g.next) + c
    BY <1>1, <1>3, <2>1, <2>2, NewSegmentsKeep
  <2> QED BY <2>3 DEF c
<1> HIDE DEF v, position
<1>6. Place(v.next) \in Nat /\ v.next \in Numbers /\ start <= Place(v.next) /\ Place(v.next) <= head
  <2>1. Place(v.next) \in Nat /\ v.next \in Numbers
    BY <1>5, WindowTypes DEF WindowOK
  <2> QED BY <1>1, <1>2, <1>3, <1>5, <2>1
<1> DEFINE d == Minus(v.next, w.next)
           mid == Place(v.next) % TxLength
<1>7. d = Place(v.next) - start
  BY <1>1, <1>6, MinusPlace
<1>8. Smaller(MidSpace(stream), d) = d
  <2>1. count \in Nat /\ d \in Nat /\ d <= count
    BY <1>1, <1>2, <1>6, <1>7
  <2> HIDE DEF d
  <2> QED BY <2>1 DEF Smaller, count
<1>9. Around(stream, stream.mid + d) = mid
  <2>1. d \in Int /\ start + d = Place(v.next)
    BY <1>1, <1>6, <1>7
  <2> HIDE DEF d
  <2>2. ((start % TxLength) + d) % TxLength = (start + d) % TxLength
    BY <1>1, <2>1, RingSum
  <2> QED BY <1>1, <2>1, <2>2 DEF Around
<1>10. s = [stream EXCEPT !.mid = mid]
  <2>1. s = MoveMid(stream, d)
    BY DEF AddTxData, v
  <2> HIDE DEF d, mid, s
  <2> QED BY <1>8, <1>9, <2>1 DEF MoveMid
<1>11. mid \in 0 .. TxLength - 1
  <2> DEFINE x == Place(v.next)
  <2>1. x \in Int
    BY <1>6
  <2> HIDE DEF x
  <2>2. x % TxLength \in 0 .. TxLength - 1
    BY <1>1, <2>1, InRing
  <2> QED BY <2>2 DEF x
<1> HIDE DEF mid, s
<1>12. s \in Streams(TxLength) /\ s.tail = stream.tail /\ s.head = stream.head /\ s.bytes = stream.bytes /\ s.mid = mid /\ s.length = TxLength
  BY <1>1, <1>10, <1>11 DEF Streams
<1>13. Filled(s, TxLength, tail, head)
  BY <1>12 DEF Filled
<1> QED BY <1>3, <1>5, <1>6, <1>12, <1>13 DEF s, v, mid

(* ulTCPWindowTxGet                                                        *)
LEMMA ChoiceIs ==
  ASSUME NEW w, WindowOK(w), NEW expired, TxChoice(w, expired) # None
  PROVE  Unreported(w, TxChoice(w, expired)) /\ TxChoice(w, expired) \in Numbers
<1> DEFINE n == TxChoice(w, expired)
<1>1. w \in Windows /\ QueuesOK(w) /\ w.tx \in Seq(Numbers) /\ w.wait \in Seq(Numbers) /\ w.priority \in Seq(Numbers)
  BY WindowTypes DEF WindowOK
<1>2. \E q \in {w.tx, w.wait, w.priority} : q # <<>> /\ n = q[1]
  BY <1>1 DEF TxChoice
<1> HIDE DEF n
<1>3. PICK q \in {w.tx, w.wait, w.priority} : q # <<>> /\ n = q[1]
  BY <1>2
<1>4. n \in Numbers /\ ~Nowhere(q, n)
  <2>1. q \in Seq(Numbers) /\ 1 \in 1 .. Len(q)
    BY <1>1, <1>3
  <2> QED BY <1>3, <2>1 DEF Nowhere
<1>5. ~QueuedNever(w, n)
  BY <1>3, <1>4 DEF QueuedNever
<1>6. Unreported(w, n)
  BY <1>1, <1>4, <1>5 DEF QueuesOK
<1> QED BY <1>4, <1>6 DEF n

(* ulTCPWindowTxGet: it is moved to xWaitQueue, and its ends are marked.   *)
LEMMA TxGetKeeps ==
  ASSUME NEW w, WindowOK(w), NEW tiles, NEW marks \in SUBSET Nat, Matches(w, tiles, marks),
         NEW expired, TxChoice(w, expired) # None
  PROVE  LET n == TxChoice(w, expired)
             v == TxGet(w, expired)
         IN /\ WindowOK(v) /\ v.current = w.current /\ v.next = w.next
            /\ Matches(v, tiles \cup {<<Place(n), Ends(w, n)>>}, marks \cup {Place(n), Ends(w, n)})
<1> DEFINE n == TxChoice(w, expired)
           v == TxGet(w, expired)
           q == Dequeued(w, {n})
           again == w.priority = <<>> /\ w.segments[n].outstanding
           transmits == Smaller(w.segments[n].transmits + 1, MaxTransmits)
           wait == Append(q.wait, n)
           r == [w.segments[n] EXCEPT !.outstanding = TRUE, !.transmits = transmits, !.duplicates = IF again THEN 0 ELSE @]
           segments == [w.segments EXCEPT ![n] = r]
           head == IF w.pxHeadSegment = n THEN None ELSE w.pxHeadSegment
           highest == IF w.segments[n].outstanding THEN w.highest ELSE End(w, n)
           window == IF transmits = LargeWindowCount THEN Smaller(w.window, 2 * MSS) ELSE w.window
<1>1. w \in Windows /\ QueuesOK(w) /\ SegmentsOK(w)
  BY DEF WindowOK
<1>2. Unreported(w, n) /\ n \in Numbers
  BY ChoiceIs
<1>3. /\ q \in Windows /\ q.current = w.current /\ q.next = w.next /\ q.segments = w.segments /\ q.highest = w.highest
      /\ q.pxHeadSegment = w.pxHeadSegment /\ q.window = w.window /\ q.peer = w.peer
      /\ \A m : /\ m \in {n} \/ QueuedNever(w, m) => QueuedNever(q, m)
                /\ m \notin {n} /\ QueuedOnce(w, m) => QueuedOnce(q, m)
  <2> HIDE DEF n
  <2> QED BY <1>1, DequeuedKeeps
<1>4. v = [q EXCEPT !.wait = wait, !.segments = segments, !.pxHeadSegment = head, !.highest = highest, !.window = window]
  <2>1. v = [q EXCEPT !.wait = Append(@, n), !.segments[n] = r, !.pxHeadSegment = IF @ = n THEN None ELSE @,
                      !.highest = IF w.segments[n].outstanding THEN @ ELSE End(w, n),
                      !.window = IF transmits = LargeWindowCount THEN Smaller(@, 2 * MSS) ELSE @]
    BY DEF TxGet
  <2> HIDE DEF n, v, q, r, transmits
  <2> QED BY <1>3, <2>1 DEF Windows
<1> HIDE DEF v, q, n
<1>5. /\ w.segments \in [DOMAIN w.segments -> Segments] /\ DOMAIN w.segments \in SUBSET Numbers /\ q.wait \in Seq(Numbers)
      /\ w.window \in Int /\ w.pxHeadSegment \in Numbers \cup {None} /\ w.highest \in Numbers /\ n \in DOMAIN w.segments
  BY <1>1, <1>2, <1>3, WindowTypes DEF Unreported
<1>6. transmits \in Nat
  <2>1. w.segments[n].transmits \in Nat
    BY <1>5 DEF Segments
  <2> QED BY <2>1, WindowNumbers DEF Smaller
<1> HIDE DEF transmits, again
<1>7. /\ DOMAIN segments = DOMAIN w.segments /\ segments \in [DOMAIN w.segments -> Segments]
      /\ \A m \in DOMAIN w.segments :
           /\ segments[m].length = w.segments[m].length /\ segments[m].position = w.segments[m].position
           /\ segments[m].acked = w.segments[m].acked /\ (m # n => segments[m] = w.segments[m])
  <2>1. w.segments[n] \in Segments
    BY <1>5
  <2>2. r \in Segments /\ r.length = w.segments[n].length /\ r.position = w.segments[n].position /\ r.acked = w.segments[n].acked
    BY <1>6, <2>1 DEF Segments
  <2>3. segments = [w.segments EXCEPT ![n] = r]
    OBVIOUS
  <2> HIDE DEF r, segments
  <2> QED BY <1>5, <2>2, <2>3
<1>8. segments \in SegmentMaps
  <2> HIDE DEF segments
  <2> QED BY <1>5, <1>7, SegmentMap
<1>9. wait \in Seq(Numbers) /\ head \in Numbers \cup {None} /\ highest \in Numbers /\ window \in Int
  <2>1. End(w, n) \in Numbers
    <3>1. w.segments[n].length \in Int
      BY <1>5, WindowNumbers DEF Segments
    <3>2. n \in Int
      BY <1>2, WindowNumbers DEF Numbers
    <3> QED BY <3>1, <3>2, NumbersFromInt DEF End
  <2>2. wait \in Seq(Numbers)
    BY <1>2, <1>5
  <2>3. window \in Int
    BY <1>5, WindowNumbers DEF Smaller
  <2> QED BY <1>5, <2>1, <2>2, <2>3
<1> HIDE DEF segments, wait, head, highest, window
<1>10. /\ v \in Windows /\ v.current = w.current /\ v.next = w.next /\ v.segments = segments /\ v.pxHeadSegment = head
       /\ v.tx = q.tx /\ v.wait = wait /\ v.priority = q.priority
  BY <1>3, <1>4, <1>8, <1>9 DEF Windows
<1>11. \A m \in DOMAIN w.segments : Ends(v, m) = Ends(w, m)
  BY <1>7, <1>10 DEF Ends
<1>12. QueuesOK(v)
  <2> SUFFICES ASSUME NEW m \in Numbers
               PROVE  IF Unreported(v, m) THEN QueuedOnce(v, m) ELSE QueuedNever(v, m)
    BY DEF QueuesOK
  <2>1. Unreported(v, m) <=> Unreported(w, m)
    BY <1>7, <1>10 DEF Unreported
  <2>2. /\ Nowhere(wait, m) <=> Nowhere(q.wait, m) /\ m # n
        /\ Nowhere(q.wait, n) => Once(wait, n)
        /\ m # n /\ Once(q.wait, m) => Once(wait, m)
    BY <1>2, <1>5, AppendedOnce DEF wait
  <2>3. CASE m = n
    <3>1. QueuedNever(q, n)
      BY <1>3
    <3> QED BY <1>2, <1>10, <2>1, <2>2, <2>3, <3>1 DEF QueuedNever, QueuedOnce
  <2>4. CASE m # n
    <3>1. IF Unreported(w, m) THEN QueuedOnce(q, m) ELSE QueuedNever(q, m)
      BY <1>1, <1>3, <2>4 DEF QueuesOK
    <3> QED BY <1>10, <2>1, <2>2, <2>4, <3>1 DEF QueuedNever, QueuedOnce
  <2> QED BY <2>3, <2>4
<1>13. head # None => head = w.pxHeadSegment /\ head # n
  BY DEF head
<1>14. SegmentsOK(v)
  <2>1. \A m \in DOMAIN v.segments :
          Place(v.current) <= Place(m) /\ Ends(v, m) <= Place(v.next) /\ v.segments[m].position = Place(m) % TxLength
    BY <1>1, <1>7, <1>10, <1>11 DEF SegmentsOK
  <2>2. \A m, k \in DOMAIN v.segments : m # k => Ends(v, m) <= Place(k) \/ Ends(v, k) <= Place(m)
    BY <1>1, <1>7, <1>10, <1>11 DEF SegmentsOK
  <2>3. \A b \in Place(v.current) .. Place(v.next) - 1 : \E m \in DOMAIN v.segments : Place(m) <= b /\ b < Ends(v, m)
    BY <1>1, <1>7, <1>10, <1>11 DEF SegmentsOK
  <2>4. v.pxHeadSegment # None =>
          /\ v.pxHeadSegment \in DOMAIN v.segments /\ Ends(v, v.pxHeadSegment) = Place(v.next)
          /\ ~v.segments[v.pxHeadSegment].outstanding /\ v.segments[v.pxHeadSegment].length < MSS
    BY <1>1, <1>7, <1>10, <1>11, <1>13 DEF SegmentsOK
  <2> QED BY <1>1, <1>10, <2>1, <2>2, <2>3, <2>4 DEF SegmentsOK
<1>15. Matches(v, tiles \cup {<<Place(n), Ends(w, n)>>}, marks \cup {Place(n), Ends(w, n)})
  <2>1. /\ \A m \in DOMAIN w.segments : Place(m) \in Nat /\ Ends(w, m) \in Nat /\ Place(m) < Ends(w, m)
        /\ \A m \in DOMAIN w.segments : m # n => Ends(w, m) <= Place(n) \/ Ends(w, n) <= Place(m)
        /\ Ends(w, n) <= Place(w.next) /\ Place(w.next) \in Nat
    BY <1>1, <1>5, WindowTypes DEF SegmentsOK
  <2>2. ASSUME NEW m \in DOMAIN v.segments, NEW x \in marks \cup {Place(n), Ends(w, n)} PROVE x <= Place(m) \/ Ends(v, m) <= x
    <3>1. m \in DOMAIN w.segments /\ Ends(v, m) = Ends(w, m)
      BY <1>7, <1>10, <1>11, <2>2
    <3>2. CASE x \in marks
      BY <3>1, <3>2 DEF Matches
    <3>3. CASE x \in {Place(n), Ends(w, n)}
      BY <1>5, <2>1, <3>1, <3>3
    <3> QED BY <2>2, <3>2, <3>3
  <2>3. ASSUME NEW m \in DOMAIN v.segments, NEW t \in tiles \cup {<<Place(n), Ends(w, n)>>} PROVE Apart(t, Place(m)) /\ Apart(t, Ends(v, m))
    <3>1. m \in DOMAIN w.segments /\ Ends(v, m) = Ends(w, m)
      BY <1>7, <1>10, <1>11, <2>3
    <3>2. CASE t \in tiles
      BY <3>1, <3>2 DEF Matches
    <3>3. CASE t = <<Place(n), Ends(w, n)>>
      BY <1>5, <2>1, <3>1, <3>3 DEF Apart
    <3> QED BY <2>3, <3>2, <3>3
  <2>4. ASSUME NEW x \in marks \cup {Place(n), Ends(w, n)}
        PROVE  x <= Place(v.next) /\ (v.pxHeadSegment # None => x <= Place(v.pxHeadSegment))
    <3>1. CASE x \in marks
      BY <1>10, <1>13, <3>1 DEF Matches
    <3>2. CASE x \in {Place(n), Ends(w, n)}
      <4>1. x <= Place(v.next) /\ x \in Nat
        BY <1>5, <1>10, <2>1, <3>2
      <4>2. ASSUME head # None PROVE x <= Place(head)
        <5>1. head \in DOMAIN w.segments /\ Ends(w, head) = Place(w.next) /\ head # n
          BY <1>1, <1>13, <4>2 DEF SegmentsOK
        <5>2. Ends(w, n) <= Place(head)
          BY <1>5, <2>1, <5>1
        <5> QED BY <1>5, <2>1, <3>2, <5>1, <5>2
      <4> QED BY <1>10, <4>1, <4>2
    <3> QED BY <2>4, <3>1, <3>2
  <2> QED BY <2>2, <2>3, <2>4 DEF Matches
<1> QED BY <1>10, <1>12, <1>14, <1>15 DEF WindowOK, v, n

(* Places and numbers are integers.                                        *)
LEMMA PlaceNat ==
  \A n \in Numbers : Place(n) \in Nat /\ n \in Int
BY PlaceIs, WindowNumbers DEF Numbers

(* A place is a cut when it lies within no segment.                        *)
Cut(w, c) == \A n \in DOMAIN w.segments : c <= Place(n) \/ Ends(w, n) <= c

(* The segments that begin in a range of places.                           *)
Between(w, a, c) == {n \in DOMAIN w.segments : a <= Place(n) /\ Place(n) < c}

(* From the first segment to a cut, the lengths add up to the distance.    *)
LEMMA LengthsAddUp ==
  ASSUME NEW w, WindowOK(w), NEW c \in Nat, Place(w.current) <= c, c <= Place(w.next), Cut(w, c)
  PROVE  SumFunction([n \in Between(w, Place(w.current), c) |-> w.segments[n].length]) = c - Place(w.current)
<1> DEFINE a == Place(w.current)
           B(x) == Between(w, a, x)
           f(x) == [n \in B(x) |-> w.segments[n].length]
           Bad == {x \in Nat : a <= x /\ x <= Place(w.next) /\ Cut(w, x) /\ SumFunction(f(x)) # x - a}
<1>1. /\ a \in Nat /\ Place(w.next) \in Nat /\ SegmentsOK(w) /\ IsFiniteSet(DOMAIN w.segments)
      /\ \A n \in DOMAIN w.segments : Place(n) \in Nat /\ Ends(w, n) \in Nat /\ Place(n) < Ends(w, n) /\ w.segments[n].length \in Nat
  <2>1. \A n \in DOMAIN w.segments : w.segments[n].length \in 1 .. MSS
    BY WindowTypes DEF WindowOK
  <2> QED BY <2>1, WindowTypes, WindowNumbers DEF WindowOK
<1>2. \A x : IsFiniteSet(B(x)) /\ f(x) \in [B(x) -> Int]
  BY <1>1, FS_Subset DEF Between
<1> SUFFICES ASSUME Bad # {} PROVE FALSE
  OBVIOUS
<1>3. PICK x \in Bad : \A y \in Bad : x <= y
  <2> HIDE DEF Bad
  <2>1. Bad \in SUBSET Nat
    BY DEF Bad
  <2> QED BY <2>1, LeastExists
<1>4. x \in Nat /\ a <= x /\ x <= Place(w.next) /\ Cut(w, x) /\ SumFunction(f(x)) # x - a
  BY <1>3
<1>5. x # a
  <2>1. ASSUME x = a PROVE FALSE
    <3>1. B(x) = {}
      BY <1>1, <2>1 DEF Between
    <3>2. SumFunction(f(x)) = 0
      <4> HIDE DEF B
      <4>1. IsFiniteSet(B(x)) /\ f(x) \in [B(x) -> Int]
        BY <1>2
      <4> HIDE DEF f
      <4> QED BY <3>1, <4>1, SumTakesOut
    <3> QED BY <1>1, <1>4, <2>1, <3>2
  <2> QED BY <2>1
<1>6. PICK n \in DOMAIN w.segments : Place(n) <= x - 1 /\ x - 1 < Ends(w, n)
  <2>1. x - 1 \in a .. Place(w.next) - 1
    BY <1>1, <1>4, <1>5
  <2> QED BY <1>1, <2>1 DEF SegmentsOK
<1>7. Ends(w, n) = x /\ n \in B(x)
  <2>1. \A m \in DOMAIN w.segments : a <= Place(m)
    BY <1>1 DEF SegmentsOK
  <2> QED BY <1>1, <1>4, <1>6, <2>1 DEF Cut, Between
<1> DEFINE y == Place(n)
<1>8. y \in Nat /\ a <= y /\ y <= Place(w.next) /\ y < x /\ Cut(w, y)
  <2>1. \A m \in DOMAIN w.segments : m # n => Ends(w, m) <= Place(n) \/ Ends(w, n) <= Place(m)
    BY <1>1 DEF SegmentsOK
  <2> QED BY <1>1, <1>4, <1>6, <1>7, <2>1 DEF Cut, SegmentsOK
<1>9. SumFunction(f(y)) = y - a
  <2>1. y \notin Bad
    BY <1>3, <1>8
  <2> HIDE DEF f, B, y
  <2> QED BY <1>8, <2>1
<1>10. B(y) = B(x) \ {n}
  <2>1. \A m \in DOMAIN w.segments : m # n => Ends(w, m) <= Place(n) \/ Ends(w, n) <= Place(m)
    BY <1>1 DEF SegmentsOK
  <2> QED BY <1>1, <1>4, <1>7, <1>8, <2>1 DEF Between
<1>11. TakenOut(f(x), B(x), n) = f(y)
  <2>1. \A m \in B(x) : f(x)[m] = w.segments[m].length
    OBVIOUS
  <2> HIDE DEF B
  <2> QED BY <1>10, <2>1 DEF TakenOut
<1>12. SumFunction(f(x)) = w.segments[n].length + SumFunction(f(y))
  <2>1. f(x)[n] = w.segments[n].length
    BY <1>7
  <2>2. IsFiniteSet(B(x)) /\ f(x) \in [B(x) -> Int] /\ n \in B(x)
    BY <1>2, <1>7
  <2> HIDE DEF B, y, f
  <2>3. SumFunction(f(x)) = f(x)[n] + SumFunction(TakenOut(f(x), B(x), n))
    BY <2>2, SumTakesOut
  <2> QED BY <1>11, <2>1, <2>3
<1>13. x = y + w.segments[n].length
  BY <1>7 DEF Ends
<1> QED BY <1>1, <1>4, <1>8, <1>9, <1>12, <1>13

(* prvTCPWindowTxCheckAck walks over the segments up to the end of the     *)
(* range, unless it does not find the first of them.                       *)
LEMMA CoveredIs ==
  ASSUME NEW w, WindowOK(w), NEW first \in Numbers, NEW last \in Numbers,
         Place(first) <= Place(last), Place(last) <= Place(w.next), Cut(w, Place(last))
  PROVE  Covered(w, first, last) = IF first \in DOMAIN w.segments THEN Between(w, Place(first), Place(last)) ELSE {}
<1>1. /\ Place(w.next) \in Nat /\ Place(w.next) <= MaxBytes /\ Place(first) \in Nat /\ Place(last) \in Nat
      /\ \A n \in DOMAIN w.segments : Ends(w, n) <= Place(w.next)
      /\ \A n \in DOMAIN w.segments : n \in Numbers /\ Place(n) \in Nat /\ Ends(w, n) \in Nat /\ Place(n) < Ends(w, n) /\ w.segments[n].length \in 1 .. MSS
  BY WindowTypes, PlaceNat DEF WindowOK, SegmentsOK
<1>2. \A x \in Nat : x <= MaxBytes => x \in Near /\ x \in Numbers
  BY WindowNumbers DEF Near, Numbers
<1>3. Place(first) \in Near /\ Place(last) \in Near
  BY <1>1, <1>2, WindowNumbers
<1>4. ASSUME NEW n \in DOMAIN w.segments
      PROVE  /\ SequenceLessThanOrEqual(first, n) <=> Place(first) <= Place(n)
             /\ SequenceLessThan(n, last) <=> Place(n) < Place(last)
             /\ SequenceLessThanOrEqual(End(w, n), last) <=> Ends(w, n) <= Place(last)
  <2>1. n \in Numbers /\ Place(n) \in Near /\ Ends(w, n) \in Near /\ Ends(w, n) \in Numbers
    BY <1>1, <1>2, WindowNumbers
  <2>2. End(w, n) \in Numbers /\ Place(End(w, n)) = Ends(w, n)
    <3>1. w.segments[n].length \in Int
      BY <1>1, WindowNumbers
    <3> QED BY <2>1, <3>1, PlacePlus DEF End, Ends
  <2> QED BY <1>3, <2>1, <2>2, Compares
<1>5. \A n \in DOMAIN w.segments : Place(n) < Place(last) => Ends(w, n) <= Place(last)
  BY <1>1 DEF Cut
<1> QED BY <1>4, <1>5 DEF Covered, Between

(* prvTCPWindowTxCheckAck: what was acknowledged in its turn is forgotten, *)
(* and what was reported ahead of it is no longer sent.                    *)
LEMMA CheckAckKeeps ==
  ASSUME NEW w, WindowOK(w), NEW tiles, NEW marks \in SUBSET Nat, Matches(w, tiles, marks),
         NEW first \in Numbers, NEW last \in Numbers, Place(first) < Place(last), Place(last) \in marks
  PROVE  LET v == CheckAck(w, first, last)
         IN /\ WindowOK(v) /\ Matches(v, tiles, marks) /\ v.next = w.next
            /\ v.current = IF first = w.current THEN last ELSE w.current
            /\ DOMAIN v.segments \subseteq DOMAIN w.segments
<1> DEFINE covered == Covered(w, first, last)
           q == Dequeued(w, covered)
           v == CheckAck(w, first, last)
<1>1. w \in Windows /\ QueuesOK(w) /\ SegmentsOK(w)
  BY DEF WindowOK
<1>2. /\ w.current \in Numbers /\ DOMAIN w.segments \in SUBSET Numbers /\ w.segments \in [DOMAIN w.segments -> Segments]
      /\ Place(w.current) \in Nat /\ Place(w.next) \in Nat /\ Place(first) \in Nat /\ Place(last) \in Nat /\ w.next \in Numbers
      /\ \A n \in DOMAIN w.segments : n \in Numbers /\ Place(n) \in Nat /\ Ends(w, n) \in Nat /\ Place(n) < Ends(w, n)
  BY <1>1, WindowTypes, PlaceNat
<1>3. Cut(w, Place(last)) /\ Place(last) <= Place(w.next) /\ (w.pxHeadSegment # None => Place(last) <= Place(w.pxHeadSegment))
  BY DEF Matches, Cut
<1>4. covered = IF first \in DOMAIN w.segments THEN Between(w, Place(first), Place(last)) ELSE {}
  BY <1>2, <1>3, CoveredIs
<1>5. covered \subseteq DOMAIN w.segments
  BY <1>4 DEF Between
<1> HIDE DEF covered
<1>6. /\ q \in Windows /\ q.current = w.current /\ q.next = w.next /\ q.segments = w.segments /\ q.highest = w.highest
      /\ q.pxHeadSegment = w.pxHeadSegment /\ q.window = w.window /\ q.peer = w.peer
      /\ \A n : /\ n \in covered \/ QueuedNever(w, n) => QueuedNever(q, n)
                /\ n \notin covered /\ QueuedOnce(w, n) => QueuedOnce(q, n)
  BY <1>1, DequeuedKeeps
<1> HIDE DEF q
<1>7. CASE first = w.current
  <2> DEFINE total == SumFunction([n \in covered |-> w.segments[n].length])
             segments == [n \in DOMAIN w.segments \ covered |-> w.segments[n]]
             current == Plus(w.current, total)
  <2>1. v = [q EXCEPT !.segments = segments, !.current = current]
    <3>1. v = [q EXCEPT !.segments = segments, !.current = Plus(@, total)]
      BY <1>7 DEF CheckAck, covered, q
    <3> HIDE DEF v, total, segments
    <3> QED BY <1>6, <3>1 DEF Windows
  <2>2. first \in DOMAIN w.segments
    <3>1. Place(w.current) \in Place(w.current) .. Place(w.next) - 1
      BY <1>2, <1>3, <1>7
    <3>2. PICK n \in DOMAIN w.segments : Place(n) <= Place(w.current) /\ Place(w.current) <= Place(n)
      BY <1>1, <3>1 DEF SegmentsOK
    <3>3. Place(n) = Place(w.current)
      BY <1>2, <3>2
    <3> QED BY <1>2, <1>7, <3>3, PlacesDiffer
  <2>3. covered = Between(w, Place(w.current), Place(last))
    BY <1>4, <1>7, <2>2
  <2>4. total = Place(last) - Place(w.current)
    BY <1>2, <1>3, <1>7, <2>3, LengthsAddUp
  <2>5. current = last
    <3>1. total \in Int /\ Place(w.current) + total = Place(last) /\ Place(last) \in Numbers
      BY <1>2, <2>4, PlaceIs
    <3> HIDE DEF total
    <3>2. current \in Numbers /\ Place(current) = Place(last)
      BY <1>2, <3>1, PlacePlus
    <3> HIDE DEF current
    <3> QED BY <3>2, PlacesDiffer
  <2> HIDE DEF total, current
  <2>6. DOMAIN segments = DOMAIN w.segments \ covered /\ segments \in [DOMAIN w.segments \ covered -> Segments]
        /\ \A n \in DOMAIN segments : segments[n] = w.segments[n]
    BY <1>2
  <2>7. segments \in SegmentMaps
    <3> HIDE DEF segments
    <3>1. DOMAIN w.segments \ covered \in SUBSET Numbers
      BY <1>2
    <3> QED BY <2>6, <3>1, SegmentMap
  <2> HIDE DEF segments, v
  <2>8. /\ v \in Windows /\ v.current = last /\ v.next = w.next /\ v.segments = segments /\ v.pxHeadSegment = w.pxHeadSegment
        /\ v.tx = q.tx /\ v.wait = q.wait /\ v.priority = q.priority
    BY <1>6, <2>1, <2>5, <2>7 DEF Windows
  <2>9. \A n \in DOMAIN w.segments : n \in DOMAIN v.segments <=> Place(last) <= Place(n)
    <3>1. \A n \in DOMAIN w.segments : Place(w.current) <= Place(n)
      BY <1>1 DEF SegmentsOK
    <3> QED BY <1>2, <2>3, <2>6, <2>8, <3>1 DEF Between
  <2>10. \A n \in DOMAIN v.segments : n \in DOMAIN w.segments /\ v.segments[n] = w.segments[n] /\ Ends(v, n) = Ends(w, n)
    BY <2>6, <2>8 DEF Ends
  <2>11. QueuesOK(v)
    <3> SUFFICES ASSUME NEW n \in Numbers
                 PROVE  IF Unreported(v, n) THEN QueuedOnce(v, n) ELSE QueuedNever(v, n)
      BY DEF QueuesOK
    <3>1. IF Unreported(w, n) THEN QueuedOnce(w, n) ELSE QueuedNever(w, n)
      BY <1>1 DEF QueuesOK
    <3>2. Unreported(v, n) <=> Unreported(w, n) /\ n \notin covered
      BY <2>6, <2>8, <2>10 DEF Unreported
    <3>3. IF Unreported(w, n) /\ n \notin covered THEN QueuedOnce(q, n) ELSE QueuedNever(q, n)
      BY <1>6, <3>1
    <3> QED BY <2>8, <3>2, <3>3 DEF QueuedOnce, QueuedNever
  <2>12. SegmentsOK(v)
    <3>1. Place(v.current) <= Place(v.next) /\ Place(v.next) <= MaxBytes
      BY <1>1, <1>3, <2>8 DEF SegmentsOK
    <3>2. \A n \in DOMAIN v.segments :
            Place(v.current) <= Place(n) /\ Ends(v, n) <= Place(v.next) /\ v.segments[n].position = Place(n) % TxLength
      BY <1>1, <2>8, <2>9, <2>10 DEF SegmentsOK
    <3>3. \A m, n \in DOMAIN v.segments : m # n => Ends(v, m) <= Place(n) \/ Ends(v, n) <= Place(m)
      BY <1>1, <2>10 DEF SegmentsOK
    <3>4. ASSUME NEW b \in Place(v.current) .. Place(v.next) - 1
          PROVE  \E n \in DOMAIN v.segments : Place(n) <= b /\ b < Ends(v, n)
      <4>1. b \in Place(w.current) .. Place(w.next) - 1 /\ Place(last) <= b /\ b \in Int
        BY <1>2, <1>7, <2>8
      <4>2. PICK n \in DOMAIN w.segments : Place(n) <= b /\ b < Ends(w, n)
        BY <1>1, <4>1 DEF SegmentsOK
      <4>3. Place(last) <= Place(n)
        BY <1>2, <1>3, <4>1, <4>2 DEF Cut
      <4> QED BY <2>9, <2>10, <4>2, <4>3
    <3>5. v.pxHeadSegment # None =>
            /\ v.pxHeadSegment \in DOMAIN v.segments /\ Ends(v, v.pxHeadSegment) = Place(v.next)
            /\ ~v.segments[v.pxHeadSegment].outstanding /\ v.segments[v.pxHeadSegment].length < MSS
      BY <1>1, <1>3, <2>8, <2>9, <2>10 DEF SegmentsOK
    <3> QED BY <3>1, <3>2, <3>3, <3>4, <3>5 DEF SegmentsOK
  <2>13. Matches(v, tiles, marks)
    BY <2>8, <2>10 DEF Matches
  <2> QED BY <1>7, <2>8, <2>10, <2>11, <2>12, <2>13 DEF WindowOK, v
<1>8. CASE first # w.current
  <2> DEFINE segments == [n \in DOMAIN w.segments |-> [w.segments[n] EXCEPT !.acked = @ \/ n \in covered]]
  <2>1. v = [q EXCEPT !.segments = segments]
    BY <1>8 DEF CheckAck, covered, q
  <2>2. /\ DOMAIN segments = DOMAIN w.segments
        /\ \A n \in DOMAIN w.segments :
             /\ segments[n] \in Segments
             /\ segments[n].length = w.segments[n].length /\ segments[n].position = w.segments[n].position
             /\ segments[n].outstanding = w.segments[n].outstanding
             /\ segments[n].acked <=> w.segments[n].acked \/ n \in covered
    BY <1>2 DEF Segments
  <2>3. segments \in SegmentMaps
    <3>1. segments \in [DOMAIN w.segments -> Segments]
      BY <2>2
    <3> HIDE DEF segments
    <3> QED BY <1>2, <3>1, SegmentMap
  <2> HIDE DEF segments, v
  <2>4. /\ v \in Windows /\ v.current = w.current /\ v.next = w.next /\ v.segments = segments /\ v.pxHeadSegment = w.pxHeadSegment
        /\ v.tx = q.tx /\ v.wait = q.wait /\ v.priority = q.priority
    BY <1>6, <2>1, <2>3 DEF Windows
  <2>5. DOMAIN v.segments = DOMAIN w.segments /\ \A n \in DOMAIN w.segments : Ends(v, n) = Ends(w, n)
    BY <2>2, <2>4 DEF Ends
  <2>6. QueuesOK(v)
    <3> SUFFICES ASSUME NEW n \in Numbers
                 PROVE  IF Unreported(v, n) THEN QueuedOnce(v, n) ELSE QueuedNever(v, n)
      BY DEF QueuesOK
    <3>1. IF Unreported(w, n) THEN QueuedOnce(w, n) ELSE QueuedNever(w, n)
      BY <1>1 DEF QueuesOK
    <3>2. Unreported(v, n) <=> Unreported(w, n) /\ n \notin covered
      BY <2>2, <2>4 DEF Unreported
    <3>3. IF Unreported(w, n) /\ n \notin covered THEN QueuedOnce(q, n) ELSE QueuedNever(q, n)
      BY <1>6, <3>1
    <3> QED BY <2>4, <3>2, <3>3 DEF QueuedOnce, QueuedNever
  <2>7. SegmentsOK(v)
    BY <1>1, <2>2, <2>4, <2>5 DEF SegmentsOK
  <2>8. Matches(v, tiles, marks)
    BY <2>4, <2>5 DEF Matches
  <2> QED BY <1>8, <2>4, <2>5, <2>6, <2>7, <2>8 DEF WindowOK, v
<1> QED BY <1>7, <1>8

(* prvTCPWindowFastRetransmit                                              *)
LEMMA FastRetransmitKeeps ==
  ASSUME NEW w, WindowOK(w), NEW tiles, NEW marks \in SUBSET Nat, Matches(w, tiles, marks), NEW first
  PROVE  LET v == FastRetransmit(w, first)
         IN WindowOK(v) /\ Matches(v, tiles, marks) /\ v.next = w.next /\ v.current = w.current
<1> DEFINE passed(n) == /\ \E i \in 1 .. Len(w.wait) : w.wait[i] = n
                        /\ ~w.segments[n].acked /\ SequenceLessThan(n, first)
           third(n) == passed(n) /\ w.segments[n].duplicates = DuplicateAcks - 1
           again == {n \in DOMAIN w.segments : third(n)}
           duplicates(n) == IF passed(n) THEN Smaller(w.segments[n].duplicates + 1, MaxTransmits) ELSE w.segments[n].duplicates
           transmits(n) == IF third(n) THEN 0 ELSE w.segments[n].transmits
           counted == [n \in DOMAIN w.segments |->
                         [w.segments[n] EXCEPT
                            !.duplicates = IF passed(n) THEN Smaller(@ + 1, MaxTransmits) ELSE @,
                            !.transmits = IF third(n) THEN 0 ELSE @]]
           wait == Without(w.wait, again)
           priority == w.priority \o Those(w.wait, again)
           v == FastRetransmit(w, first)
<1>1. w \in Windows /\ QueuesOK(w) /\ SegmentsOK(w)
  BY DEF WindowOK
<1>2. DOMAIN w.segments \in SUBSET Numbers /\ w.segments \in [DOMAIN w.segments -> Segments]
      /\ w.wait \in Seq(Numbers) /\ w.priority \in Seq(Numbers)
  BY <1>1, WindowTypes
<1>3. v = [w EXCEPT !.segments = counted, !.wait = wait, !.priority = priority]
  <2>1. v = [w EXCEPT !.segments = counted, !.wait = Without(@, again), !.priority = @ \o Those(w.wait, again)]
    BY DEF FastRetransmit
  <2> HIDE DEF v, counted, again
  <2> QED BY <1>1, <2>1 DEF Windows
<1>4. /\ DOMAIN counted = DOMAIN w.segments /\ counted = [n \in DOMAIN counted |-> counted[n]]
      /\ \A n \in DOMAIN w.segments :
           /\ counted[n] \in Segments
           /\ counted[n].length = w.segments[n].length /\ counted[n].position = w.segments[n].position
           /\ counted[n].outstanding = w.segments[n].outstanding /\ counted[n].acked = w.segments[n].acked
  <2> SUFFICES ASSUME NEW n \in DOMAIN w.segments
               PROVE  /\ counted[n] \in Segments
                      /\ counted[n].length = w.segments[n].length /\ counted[n].position = w.segments[n].position
                      /\ counted[n].outstanding = w.segments[n].outstanding /\ counted[n].acked = w.segments[n].acked
    OBVIOUS
  <2>1. w.segments[n] \in Segments
    BY <1>2
  <2>2. duplicates(n) \in Nat /\ transmits(n) \in Nat
    <3>1. w.segments[n].duplicates \in Nat /\ w.segments[n].transmits \in Nat
      BY <2>1 DEF Segments
    <3> HIDE DEF passed, third
    <3> QED BY <3>1, WindowNumbers DEF Smaller
  <2>3. counted[n] = [w.segments[n] EXCEPT !.duplicates = duplicates(n), !.transmits = transmits(n)]
    <3> HIDE DEF passed, third
    <3> QED BY <2>1 DEF Segments
  <2> HIDE DEF counted, duplicates, transmits
  <2> QED BY <2>1, <2>2, <2>3 DEF Segments
<1>5. again \subseteq Numbers /\ \A n \in again : Unreported(w, n) /\ ~Nowhere(w.wait, n)
  BY <1>2 DEF Unreported, Nowhere
<1> HIDE DEF counted, again, v
<1>6. counted \in SegmentMaps
  <2>1. counted \in [DOMAIN w.segments -> Segments]
    BY <1>4
  <2> QED BY <1>2, <2>1, SegmentMap
<1>7. /\ wait \in Seq(Numbers)
      /\ \A n : n \in again \/ Nowhere(w.wait, n) => Nowhere(wait, n)
      /\ \A n : n \notin again /\ Once(w.wait, n) => Once(wait, n)
  BY <1>2, WithoutKeeps
<1>8. /\ Those(w.wait, again) \in Seq(Numbers)
      /\ \A n : n \notin again \/ Nowhere(w.wait, n) => Nowhere(Those(w.wait, again), n)
      /\ \A n \in again : Once(w.wait, n) => Once(Those(w.wait, again), n)
  BY <1>2, ThoseKeeps
<1>9. /\ priority \in Seq(Numbers)
      /\ \A n : /\ Nowhere(w.priority, n) /\ Nowhere(Those(w.wait, again), n) => Nowhere(priority, n)
                /\ Nowhere(w.priority, n) /\ Once(Those(w.wait, again), n) => Once(priority, n)
                /\ Once(w.priority, n) /\ Nowhere(Those(w.wait, again), n) => Once(priority, n)
  <2> DEFINE t == Those(w.wait, again)
  <2>1. t \in Seq(Numbers)
    BY <1>8
  <2> HIDE DEF t
  <2>2. \A n : /\ w.priority \o t \in Seq(Numbers)
               /\ Nowhere(w.priority \o t, n) <=> Nowhere(w.priority, n) /\ Nowhere(t, n)
               /\ Nowhere(w.priority, n) /\ Once(t, n) => Once(w.priority \o t, n)
               /\ Once(w.priority, n) /\ Nowhere(t, n) => Once(w.priority \o t, n)
    BY <1>2, <2>1, JoinedOnce
  <2> QED BY <2>2 DEF t
<1> HIDE DEF wait, priority
<1>10. /\ v \in Windows /\ v.current = w.current /\ v.next = w.next /\ v.segments = counted /\ v.pxHeadSegment = w.pxHeadSegment
       /\ v.tx = w.tx /\ v.wait = wait /\ v.priority = priority
  BY <1>1, <1>3, <1>6, <1>7, <1>9 DEF Windows
<1>11. DOMAIN v.segments = DOMAIN w.segments /\ \A n \in DOMAIN w.segments : Ends(v, n) = Ends(w, n)
  BY <1>4, <1>10 DEF Ends
<1>12. QueuesOK(v)
  <2> SUFFICES ASSUME NEW n \in Numbers
               PROVE  IF Unreported(v, n) THEN QueuedOnce(v, n) ELSE QueuedNever(v, n)
    BY DEF QueuesOK
  <2>1. IF Unreported(w, n) THEN QueuedOnce(w, n) ELSE QueuedNever(w, n)
    BY <1>1 DEF QueuesOK
  <2>2. Unreported(v, n) <=> Unreported(w, n)
    BY <1>4, <1>10 DEF Unreported
  <2>3. CASE n \in again
    <3>1. Unreported(w, n) /\ ~Nowhere(w.wait, n)
      BY <1>5, <2>3
    <3>2. Nowhere(w.tx, n) /\ Once(w.wait, n) /\ Nowhere(w.priority, n)
      BY <2>1, <3>1 DEF QueuedOnce
    <3>3. Nowhere(wait, n) /\ Once(priority, n)
      BY <1>7, <1>8, <1>9, <2>3, <3>2
    <3> QED BY <1>10, <2>2, <3>1, <3>2, <3>3 DEF QueuedOnce
  <2>4. CASE n \notin again
    <3>1. /\ Nowhere(w.wait, n) => Nowhere(wait, n)
          /\ Once(w.wait, n) => Once(wait, n)
          /\ Nowhere(w.priority, n) => Nowhere(priority, n)
          /\ Once(w.priority, n) => Once(priority, n)
      BY <1>7, <1>8, <1>9, <2>4
    <3> QED BY <1>10, <2>1, <2>2, <3>1 DEF QueuedOnce, QueuedNever
  <2> QED BY <2>3, <2>4
<1>13. SegmentsOK(v)
  BY <1>1, <1>4, <1>10, <1>11 DEF SegmentsOK
<1>14. Matches(v, tiles, marks)
  BY <1>10, <1>11 DEF Matches
<1> QED BY <1>10, <1>12, <1>13, <1>14 DEF WindowOK, v

(* ulTCPWindowTxAck: an old acknowledgement is ignored.                    *)
LEMMA TxAckKeeps ==
  ASSUME NEW w, WindowOK(w), NEW tiles, NEW marks \in SUBSET Nat, Matches(w, tiles, marks),
         NEW number \in Numbers, Place(number) \in marks
  PROVE  LET v == TxAck(w, number)
         IN /\ WindowOK(v) /\ Matches(v, tiles, marks) /\ v.next = w.next
            /\ v.current = IF Place(number) <= Place(w.current) THEN w.current ELSE number
<1>1. /\ w.current \in Numbers /\ Place(w.current) \in Near /\ Place(number) \in Near
      /\ Place(w.current) \in Nat /\ Place(number) \in Nat
  <2>1. /\ Place(w.current) <= MaxBytes /\ Place(number) <= MaxBytes /\ w.current \in Numbers
        /\ Place(w.current) \in Nat /\ Place(number) \in Nat
    <3>1. Place(w.current) <= Place(w.next) /\ Place(w.next) <= MaxBytes /\ Place(number) <= Place(w.next)
          /\ w.current \in Numbers /\ Place(w.current) \in Nat /\ Place(number) \in Nat /\ Place(w.next) \in Nat
      BY WindowTypes, PlaceNat DEF WindowOK, SegmentsOK, Matches
    <3> QED BY <3>1, WindowNumbers
  <2> QED BY <2>1, WindowNumbers DEF Near
<1>2. SequenceLessThanOrEqual(number, w.current) <=> Place(number) <= Place(w.current)
  BY <1>1, Compares
<1>3. CASE Place(number) <= Place(w.current)
  BY <1>2, <1>3 DEF TxAck
<1>4. CASE ~(Place(number) <= Place(w.current))
  <2>1. TxAck(w, number) = CheckAck(w, w.current, number)
    BY <1>2, <1>4 DEF TxAck
  <2>2. Place(w.current) < Place(number)
    BY <1>1, <1>4
  <2> DEFINE v == CheckAck(w, w.current, number)
  <2>3. WindowOK(v) /\ Matches(v, tiles, marks) /\ v.next = w.next /\ v.current = number
    BY <1>1, <2>2, CheckAckKeeps
  <2> QED BY <1>4, <2>1, <2>3
<1> QED BY <1>3, <1>4

(* A range that was reported, as it arrives, or none.                      *)
SackOK(sack, marks) ==
  \/ sack = <<>>
  \/ \E first, last \in Numbers : sack = <<first, last>> /\ Place(first) < Place(last) /\ Place(last) \in marks

(* ulTCPWindowTxSack                                                       *)
LEMMA TxSackKeeps ==
  ASSUME NEW w, WindowOK(w), NEW tiles, NEW marks \in SUBSET Nat, Matches(w, tiles, marks),
         NEW sack, SackOK(sack, marks)
  PROVE  LET v == TxSack(w, sack)
         IN /\ WindowOK(v) /\ Matches(v, tiles, marks) /\ v.next = w.next
            /\ v.current = IF sack # <<>> /\ sack[1] = w.current THEN sack[2] ELSE w.current
<1>1. CASE sack = <<>>
  BY <1>1 DEF TxSack
<1>2. CASE sack # <<>>
  <2>1. PICK first \in Numbers, last \in Numbers : sack = <<first, last>> /\ Place(first) < Place(last) /\ Place(last) \in marks
    BY <1>2 DEF SackOK
  <2> DEFINE u == CheckAck(w, first, last)
             v == FastRetransmit(u, first)
  <2>2. WindowOK(u) /\ Matches(u, tiles, marks) /\ u.next = w.next /\ u.current = IF first = w.current THEN last ELSE w.current
    BY <2>1, CheckAckKeeps
  <2> HIDE DEF u
  <2>3. WindowOK(v) /\ Matches(v, tiles, marks) /\ v.next = u.next /\ v.current = u.current
    BY <2>2, FastRetransmitKeeps
  <2> HIDE DEF v
  <2>4. TxSack(w, sack) = v /\ sack[1] = first /\ sack[2] = last
    BY <1>2, <2>1 DEF TxSack, u, v
  <2> QED BY <1>2, <2>2, <2>3, <2>4
<1> QED BY <1>1, <1>2

(***************************************************************************)
(* The window of the receiver.                                             *)
(***************************************************************************)
(* What the receiver stores ahead of its turn, and where it lies.          *)
Ranges == [number : Numbers, length : 1 .. MSS]

To(s) == Place(s.number) + s.length

Tile(s) == <<Place(s.number), To(s)>>

(* One step of RxSteps: to the end of the segment that begins there.       *)
Onward(segments, from) ==
  IF \E s \in segments : s.number = from THEN RxEnd(CHOOSE s \in segments : s.number = from) ELSE from

(* The first steps of RxSteps.                                             *)
Stepped(G, segments, from, last) ==
  G = [k \in 0 .. last |-> IF k = 0 THEN from ELSE Onward(segments, G[k - 1])]

(* The function that RxSteps defines exists.                               *)
LEMMA SteppedExists ==
  ASSUME NEW segments, NEW from, NEW last \in Nat
  PROVE  \E G : Stepped(G, segments, from, last)
<1> DEFINE S == {k \in Nat : \E G : Stepped(G, segments, from, k)}
<1>1. 0 \in S
  <2>1. Stepped([k \in 0 .. 0 |-> from], segments, from, 0)
    BY DEF Stepped
  <2> QED BY <2>1
<1>2. ASSUME NEW k \in Nat, k \in S PROVE k + 1 \in S
  <2>1. PICK G : Stepped(G, segments, from, k)
    BY <1>2
  <2> DEFINE H == [i \in 0 .. k + 1 |-> IF i <= k THEN G[i] ELSE Onward(segments, G[k])]
  <2>2. ASSUME NEW i \in 0 .. k + 1
        PROVE  H[i] = IF i = 0 THEN from ELSE Onward(segments, H[i - 1])
    <3>1. CASE i = 0
      <4>1. G[0] = from
        BY <2>1 DEF Stepped
      <4> QED BY <3>1, <4>1
    <3>2. CASE i \in 1 .. k
      <4>1. G[i] = Onward(segments, G[i - 1])
        <5>1. i \in 0 .. k /\ i # 0
          BY <3>2
        <5> QED BY <2>1, <5>1 DEF Stepped
      <4>2. H[i] = G[i] /\ H[i - 1] = G[i - 1] /\ i # 0
        BY <3>2
      <4> HIDE DEF H
      <4> QED BY <4>1, <4>2
    <3>3. CASE i = k + 1
      <4>1. H[i - 1] = G[k] /\ i # 0
        BY <3>3
      <4> QED BY <3>3, <4>1
    <3> QED BY <3>1, <3>2, <3>3
  <2>3. H = [i \in 0 .. k + 1 |-> IF i = 0 THEN from ELSE Onward(segments, H[i - 1])]
    BY <2>2
  <2>4. Stepped(H, segments, from, k + 1)
    <3> HIDE DEF H
    <3> QED BY <2>3 DEF Stepped
  <2> QED BY <2>4
<1>3. Nat \subseteq S
  <2> HIDE DEF S
  <2> QED BY <1>1, <1>2, NatFills
<1> QED BY <1>3

(* What RxSteps returns, in terms of that function.                        *)
LEMMA StepsAre ==
  ASSUME NEW segments, IsFiniteSet(segments), NEW from
  PROVE  \E G : /\ Stepped(G, segments, from, Cardinality(segments))
                /\ RxSteps(segments, from) = [visited |-> {G[k] : k \in 0 .. Cardinality(segments)}, last |-> G[Cardinality(segments)]]
<1> DEFINE G == CHOOSE G : Stepped(G, segments, from, Cardinality(segments))
<1>1. RxSteps(segments, from) = [visited |-> {G[k] : k \in 0 .. Cardinality(segments)}, last |-> G[Cardinality(segments)]]
  BY DEF RxSteps, Stepped, Onward
<1>2. Stepped(G, segments, from, Cardinality(segments))
  <2>1. Cardinality(segments) \in Nat
    BY FS_CardinalityType
  <2> QED BY <2>1, SteppedExists
<1> QED BY <1>1, <1>2

(* The segments do not overlap, unless they are the same.                  *)
Spread(segments) ==
  /\ segments \subseteq Ranges /\ IsFiniteSet(segments)
  /\ \A s \in segments : To(s) <= MaxBytes
  /\ \A s, t \in segments : Apart(Tile(s), Place(t.number)) /\ Apart(Tile(s), To(t))

(* What is known of each stored segment.                                   *)
LEMMA SpreadTypes ==
  ASSUME NEW segments, Spread(segments)
  PROVE  \A s \in segments : /\ s.number \in Numbers /\ s.length \in 1 .. MSS /\ Place(s.number) \in Nat /\ To(s) \in Nat
                             /\ Place(s.number) < To(s) /\ RxEnd(s) \in Numbers /\ Place(RxEnd(s)) = To(s) /\ s \in Ranges
<1> SUFFICES ASSUME NEW s \in segments
             PROVE  /\ s.number \in Numbers /\ s.length \in 1 .. MSS /\ Place(s.number) \in Nat /\ To(s) \in Nat
                    /\ Place(s.number) < To(s) /\ RxEnd(s) \in Numbers /\ Place(RxEnd(s)) = To(s) /\ s \in Ranges
  OBVIOUS
<1>1. s \in Ranges /\ s.number \in Numbers /\ s.length \in 1 .. MSS /\ s.length \in Int /\ Place(s.number) \in Nat /\ To(s) <= MaxBytes
  BY PlaceNat, WindowNumbers DEF Spread, Ranges
<1>2. To(s) \in Nat /\ Place(s.number) < To(s)
  BY <1>1, WindowNumbers DEF To
<1>3. To(s) \in Numbers
  BY <1>1, <1>2, WindowNumbers DEF Numbers
<1>4. RxEnd(s) \in Numbers /\ Place(RxEnd(s)) = To(s)
  BY <1>1, <1>3, PlacePlus DEF RxEnd, To
<1> QED BY <1>1, <1>2, <1>4

(* A step ends where a stored segment ends, or stays.                      *)
LEMMA OnwardIs ==
  ASSUME NEW segments, Spread(segments), NEW from \in Numbers
  PROVE  \/ /\ Onward(segments, from) = from /\ \A s \in segments : s.number # from
         \/ /\ Onward(segments, from) \in Numbers
            /\ \E s \in segments : s.number = from /\ Place(Onward(segments, from)) = To(s)
            /\ \A s \in segments : s.number = from => Place(Onward(segments, from)) = To(s)
<1>1. CASE \A s \in segments : s.number # from
  BY <1>1 DEF Onward
<1>2. CASE \E s \in segments : s.number = from
  <2>1. PICK s \in segments : s.number = from /\ Onward(segments, from) = RxEnd(s)
    BY <1>2 DEF Onward
  <2>2. Onward(segments, from) \in Numbers /\ Place(Onward(segments, from)) = To(s)
    BY <2>1, SpreadTypes
  <2>3. ASSUME NEW t \in segments, t.number = from PROVE To(t) = To(s)
    <3>1. /\ Place(from) \in Nat /\ To(t) \in Nat /\ To(s) \in Nat /\ Place(from) < To(t) /\ Place(from) < To(s)
          /\ Tile(s) = <<Place(from), To(s)>> /\ Tile(t) = <<Place(from), To(t)>>
      BY <2>1, <2>3, SpreadTypes DEF Tile
    <3>2. Apart(Tile(s), To(t)) /\ Apart(Tile(t), To(s))
      BY <2>1, <2>3 DEF Spread
    <3> QED BY <3>1, <3>2 DEF Apart
  <2> QED BY <2>1, <2>2, <2>3
<1> QED BY <1>1, <1>2

(* What is true after k steps from one number.                             *)
SteppedSo(G, segments, from, k) ==
  /\ G[k] \in Numbers /\ Place(from) <= Place(G[k])
  /\ G[k] = from \/ \E s \in segments : Place(G[k]) = To(s)
  /\ \A b \in Place(from) .. Place(G[k]) - 1 : \E s \in segments : Place(s.number) <= b /\ b < To(s)
  /\ \A x \in Place(from) .. Place(G[k]) :
       (\A s \in segments : Apart(Tile(s), x)) => \E j \in 0 .. k : Place(G[j]) = x
  /\ \A j \in 0 .. k, s \in segments : s.number = G[j] => To(s) <= Place(G[k]) \/ s.number = G[k]
  /\ (\E s \in segments : s.number = G[k]) =>
       Cardinality({s \in segments : Place(s.number) < Place(G[k])}) >= k

(* One more step.                                                          *)
LEMMA StepKeeps ==
  ASSUME NEW segments, Spread(segments), NEW from \in Numbers, NEW last \in Nat, NEW G, Stepped(G, segments, from, last),
         NEW k \in Nat, k + 1 <= last, SteppedSo(G, segments, from, k)
  PROVE  SteppedSo(G, segments, from, k + 1)
<1> DEFINE m == G[k]
           n == G[k + 1]
<1>1. m \in Numbers /\ n = Onward(segments, m) /\ Place(from) \in Nat /\ Place(m) \in Nat /\ Place(from) <= Place(m)
  <2>1. k + 1 \in 0 .. last /\ k + 1 # 0 /\ (k + 1) - 1 = k
    OBVIOUS
  <2>2. n = Onward(segments, G[k])
    BY <2>1 DEF Stepped
  <2> QED BY <2>2, PlaceNat DEF SteppedSo
<1>2. \A j \in 0 .. k + 1 : j \in 0 .. k \/ j = k + 1
  OBVIOUS
<1>3. CASE n = m /\ \A s \in segments : s.number # m
  <2>1. \A j \in 0 .. k : j \in 0 .. k + 1
    OBVIOUS
  <2>2. \A x \in Place(from) .. Place(n) :
          (\A s \in segments : Apart(Tile(s), x)) => \E j \in 0 .. k + 1 : Place(G[j]) = x
    BY <1>3, <2>1 DEF SteppedSo
  <2>3. \A j \in 0 .. k + 1, s \in segments : s.number = G[j] => To(s) <= Place(n) \/ s.number = n
    BY <1>2, <1>3 DEF SteppedSo
  <2>4. /\ n \in Numbers /\ Place(from) <= Place(n)
        /\ n = from \/ \E s \in segments : Place(n) = To(s)
        /\ \A b \in Place(from) .. Place(n) - 1 : \E s \in segments : Place(s.number) <= b /\ b < To(s)
    BY <1>1, <1>3 DEF SteppedSo
  <2> QED BY <1>3, <2>2, <2>3, <2>4 DEF SteppedSo
<1>4. ASSUME n \in Numbers, NEW s \in segments, s.number = m, Place(n) = To(s),
             \A t \in segments : t.number = m => Place(n) = To(t)
      PROVE  SteppedSo(G, segments, from, k + 1)
  <2>1. Place(n) \in Nat /\ Place(m) < Place(n)
    BY <1>4, SpreadTypes
  <2>2. ASSUME NEW b \in Place(from) .. Place(n) - 1 PROVE \E t \in segments : Place(t.number) <= b /\ b < To(t)
    <3>1. CASE b < Place(m)
      <4>1. b \in Place(from) .. Place(m) - 1
        BY <1>1, <2>1, <3>1
      <4> QED BY <4>1 DEF SteppedSo
    <3>2. CASE Place(m) <= b
      BY <1>1, <1>4, <2>1, <3>2
    <3> QED BY <1>1, <2>1, <3>1, <3>2
  <2>3. ASSUME NEW x \in Place(from) .. Place(n), \A t \in segments : Apart(Tile(t), x)
        PROVE  \E j \in 0 .. k + 1 : Place(G[j]) = x
    <3>1. x <= Place(m) \/ Place(n) <= x
      BY <1>4, <2>3 DEF Apart, Tile
    <3>2. CASE x <= Place(m)
      <4>1. x \in Place(from) .. Place(m)
        BY <1>1, <2>1, <3>2
      <4>2. \E j \in 0 .. k : Place(G[j]) = x
        BY <2>3, <4>1 DEF SteppedSo
      <4> QED BY <4>2
    <3>3. CASE Place(n) <= x
      <4>1. Place(G[k + 1]) = x /\ k + 1 \in 0 .. k + 1
        BY <1>1, <2>1, <3>3
      <4> QED BY <4>1
    <3> QED BY <3>1, <3>2, <3>3
  <2>4. ASSUME NEW j \in 0 .. k + 1, NEW t \in segments, t.number = G[j] PROVE To(t) <= Place(n) \/ t.number = n
    <3>1. CASE j = k + 1
      BY <2>4, <3>1
    <3>2. CASE j \in 0 .. k
      <4>1. To(t) <= Place(m) \/ t.number = m
        BY <2>4, <3>2 DEF SteppedSo
      <4>2. To(t) \in Nat
        BY SpreadTypes
      <4> QED BY <1>1, <1>4, <2>1, <4>1, <4>2
    <3> QED BY <1>2, <3>1, <3>2
  <2>5. Cardinality({t \in segments : Place(t.number) < Place(n)}) >= k + 1
    <3> DEFINE A == {t \in segments : Place(t.number) < Place(m)}
               B == {t \in segments : Place(t.number) < Place(n)}
    <3>1. Cardinality(A) >= k
      BY <1>4 DEF SteppedSo
    <3>2. s \notin A /\ A \cup {s} \subseteq B
      BY <1>1, <1>4, <2>1, SpreadTypes
    <3>3. IsFiniteSet(A) /\ IsFiniteSet(B)
      BY FS_Subset DEF Spread
    <3> HIDE DEF A, B
    <3>4. Cardinality(A \cup {s}) = Cardinality(A) + 1 /\ IsFiniteSet(A \cup {s})
      BY <3>2, <3>3, FS_AddElement
    <3>5. Cardinality(A \cup {s}) <= Cardinality(B)
      BY <3>2, <3>3, FS_Subset
    <3>6. Cardinality(A) \in Nat /\ Cardinality(B) \in Nat
      BY <3>3, FS_CardinalityType
    <3>7. Cardinality(B) >= k + 1
      BY <3>1, <3>4, <3>5, <3>6
    <3> QED BY <3>7 DEF B
  <2>6. Place(from) <= Place(n)
    BY <1>1, <2>1
  <2> QED BY <1>4, <2>2, <2>3, <2>4, <2>5, <2>6 DEF SteppedSo
<1>5. \/ n = m /\ \A s \in segments : s.number # m
      \/ /\ n \in Numbers
         /\ \E s \in segments : s.number = m /\ Place(n) = To(s)
         /\ \A s \in segments : s.number = m => Place(n) = To(s)
  <2> HIDE DEF m, n
  <2> QED BY <1>1, OnwardIs
<1> QED BY <1>3, <1>4, <1>5

(* RxSteps goes on to a place that no stored segment begins at, and every  *)
(* byte that it passes is in one of them.                                  *)
LEMMA StepsDo ==
  ASSUME NEW segments, Spread(segments), NEW from \in Numbers
  PROVE  LET steps == RxSteps(segments, from)
             last == steps.last
         IN /\ last \in Numbers /\ Place(from) <= Place(last)
            /\ last = from \/ \E s \in segments : Place(last) = To(s)
            /\ \A b \in Place(from) .. Place(last) - 1 : \E s \in segments : Place(s.number) <= b /\ b < To(s)
            /\ \A n \in Numbers : (\A s \in segments : Apart(Tile(s), Place(n))) /\ Place(from) <= Place(n) /\ Place(n) <= Place(last)
                 => n \in steps.visited
            /\ \A s \in segments : s.number \in steps.visited => To(s) <= Place(last)
<1> DEFINE size == Cardinality(segments)
           steps == RxSteps(segments, from)
<1>1. IsFiniteSet(segments) /\ size \in Nat
  BY FS_CardinalityType DEF Spread
<1>2. PICK G : Stepped(G, segments, from, size) /\ steps = [visited |-> {G[k] : k \in 0 .. size}, last |-> G[size]]
  BY <1>1, StepsAre
<1> HIDE DEF steps, size
<1> DEFINE S == {k \in Nat : k <= size => SteppedSo(G, segments, from, k)}
<1>3. 0 \in S
  <2>1. G[0] = from
    BY <1>1, <1>2 DEF Stepped
  <2>2. Place(from) \in Nat
    BY PlaceNat
  <2>3. Cardinality({s \in segments : Place(s.number) < Place(from)}) >= 0
    <3>1. IsFiniteSet({s \in segments : Place(s.number) < Place(from)})
      BY <1>1, FS_Subset
    <3> QED BY <3>1, FS_CardinalityType
  <2>4. SteppedSo(G, segments, from, 0)
    BY <2>1, <2>2, <2>3 DEF SteppedSo
  <2> QED BY <2>4
<1>4. ASSUME NEW k \in Nat, k \in S PROVE k + 1 \in S
  <2> SUFFICES ASSUME k + 1 <= size PROVE SteppedSo(G, segments, from, k + 1)
    OBVIOUS
  <2>1. SteppedSo(G, segments, from, k)
    BY <1>1, <1>4
  <2> QED BY <1>1, <1>2, <2>1, StepKeeps
<1>5. SteppedSo(G, segments, from, size)
  <2>1. Nat \subseteq S
    <3> HIDE DEF S
    <3> QED BY <1>3, <1>4, NatFills
  <2> QED BY <1>1, <2>1
<1> HIDE DEF S
<1> DEFINE last == G[size]
<1>6. \A s \in segments : s.number # last
  <2> SUFFICES ASSUME NEW s \in segments, s.number = last PROVE FALSE
    OBVIOUS
  <2> DEFINE A == {t \in segments : Place(t.number) < Place(last)}
  <2>1. Cardinality(A) >= size
    BY <1>5 DEF SteppedSo
  <2>2. s \notin A /\ A \cup {s} \subseteq segments
    <3>1. Place(last) \in Nat
      BY SpreadTypes
    <3> QED BY <3>1
  <2> HIDE DEF A
  <2>3. IsFiniteSet(A)
    BY <1>1, <2>2, FS_Subset
  <2>4. Cardinality(A \cup {s}) = Cardinality(A) + 1 /\ Cardinality(A \cup {s}) <= size /\ Cardinality(A) \in Nat
    BY <1>1, <2>2, <2>3, FS_AddElement, FS_Subset, FS_CardinalityType DEF size
  <2> QED BY <1>1, <2>1, <2>4
<1>7. ASSUME NEW n \in Numbers, \A s \in segments : Apart(Tile(s), Place(n)), Place(from) <= Place(n), Place(n) <= Place(last)
      PROVE  n \in steps.visited
  <2>1. Place(n) \in Place(from) .. Place(last)
    BY <1>5, <1>7, PlaceNat DEF SteppedSo
  <2>2. PICK j \in 0 .. size : Place(G[j]) = Place(n)
    BY <1>5, <1>7, <2>1 DEF SteppedSo
  <2>3. G[j] \in Numbers
    <3>1. SteppedSo(G, segments, from, j)
      <4>1. Nat \subseteq {k \in Nat : k <= size => SteppedSo(G, segments, from, k)}
        <5>1. Nat \subseteq S
          BY <1>3, <1>4, NatFills
        <5> QED BY <5>1 DEF S
      <4>2. j \in Nat /\ j <= size
        BY <1>1
      <4> QED BY <4>1, <4>2
    <3> QED BY <3>1 DEF SteppedSo
  <2>4. G[j] = n
    BY <2>2, <2>3, PlacesDiffer
  <2> QED BY <1>2, <2>4
<1>8. ASSUME NEW s \in segments, s.number \in steps.visited PROVE To(s) <= Place(last)
  <2>1. PICK j \in 0 .. size : s.number = G[j]
    BY <1>2, <1>8
  <2>2. To(s) <= Place(last) \/ s.number = last
    BY <1>5, <2>1 DEF SteppedSo
  <2> QED BY <1>6, <2>2
<1>9. /\ last \in Numbers /\ Place(from) <= Place(last)
      /\ last = from \/ \E s \in segments : Place(last) = To(s)
      /\ \A b \in Place(from) .. Place(last) - 1 : \E s \in segments : Place(s.number) <= b /\ b < To(s)
  BY <1>5 DEF SteppedSo
<1>10. steps.last = last
  BY <1>2
<1> HIDE DEF last
<1> QED BY <1>7, <1>8, <1>9, <1>10 DEF steps

(* The type of the window of the receiver.                                 *)
Receivers ==
  [current : Numbers, segments : SUBSET Ranges, bLowWater : BOOLEAN, bWinChange : BOOLEAN, ackMessage : BOOLEAN,
   ulHighestRxAllowed : Int]

(* The user took c bytes from the stream.  It holds every byte up to the   *)
(* one that is expected, and those of the stored segments, which lie ahead *)
(* of it.                                                                  *)
ReceiverOK(r, stream, c) ==
  /\ r \in Receivers /\ Spread(r.segments) /\ Place(r.current) <= MaxBytes
  /\ Filled(stream, RxLength, c, Place(r.current)) /\ Holds(stream, c, Place(r.current))
  /\ \A s \in r.segments :
       Place(r.current) < Place(s.number) /\ To(s) <= c + RxLength - 1 /\ Holds(stream, Place(s.number), To(s))

(* The receiver has the byte b, in its turn or ahead of it.                *)
Arrived(r, b) == b < Place(r.current) \/ \E s \in r.segments : Place(s.number) <= b /\ b < To(s)

(* Bytes numbers the bytes from a place on.                                *)
LEMMA BytesAre ==
  ASSUME NEW from \in Nat, NEW count \in Nat
  PROVE  /\ Bytes(from, count) \in Seq(Nat) /\ Len(Bytes(from, count)) = count
         /\ \A i \in 1 .. count : Bytes(from, count)[i] = from + i
BY DEF Bytes

(* Adding its bytes to a stream, in their turn or ahead of it, keeps those *)
(* that it holds.                                                          *)
LEMMA AddHolds ==
  ASSUME NEW length \in Nat \ {0}, NEW stream, NEW tail, NEW head, Filled(stream, length, tail, head),
         NEW offset \in Nat, NEW count \in Nat \ {0}, NEW data \in Seq(Nat),
         offset + count <= length - 1 - (head - tail),
         data = <<>> \/ data = Bytes(head + offset, count)
  PROVE  LET r == StreamAdd(stream, offset, data, count)
         IN /\ Filled(r, length, tail, IF offset = 0 THEN head + count ELSE head)
            /\ \A from, to \in Nat : tail <= from /\ to <= tail + length /\ Holds(stream, from, to) => Holds(r, from, to)
            /\ data # <<>> => Holds(r, head + offset, head + offset + count)
<1> DEFINE r == StreamAdd(stream, offset, data, count)
           p == head + offset
<1>1. tail \in Nat /\ head \in Nat /\ tail <= head /\ stream.length = length /\ p \in Nat /\ p + count <= tail + length - 1
  BY DEF Filled, Streams
<1>2. /\ Filled(r, length, tail, IF offset = 0 THEN head + count ELSE head)
      /\ \A b \in tail .. tail + length - 1 :
           r.bytes[b % length] = IF p <= b /\ b < p + count /\ b - p < Len(data) THEN data[b - p + 1] ELSE stream.bytes[b % length]
  <2> HIDE DEF r
  <2>1. LET y == StreamAdd(stream, offset, data, count)
        IN /\ Filled(y, length, tail, IF offset = 0 THEN head + count ELSE head)
           /\ y.mid = stream.mid
           /\ \A b \in tail .. tail + length - 1 :
                y.bytes[b % length] =
                  IF head + offset <= b /\ b < head + offset + count /\ b - (head + offset) < Len(data)
                  THEN data[b - (head + offset) + 1] ELSE stream.bytes[b % length]
    BY AddDoes
  <2> QED BY <2>1 DEF r
<1>3. r.length = length
  BY <1>2 DEF Filled, Streams
<1>4. data = <<>> \/ (Len(data) = count /\ \A i \in 1 .. count : data[i] = p + i)
  <2> HIDE DEF p
  <2>1. Len(Bytes(p, count)) = count /\ \A i \in 1 .. count : Bytes(p, count)[i] = p + i
    BY <1>1, BytesAre
  <2> QED BY <2>1 DEF p
<1> HIDE DEF r, p
<1>5. ASSUME NEW b \in tail .. tail + length - 1
      PROVE  /\ stream.bytes[b % length] = b + 1 => r.bytes[b % length] = b + 1
             /\ data # <<>> /\ p <= b /\ b < p + count => r.bytes[b % length] = b + 1
  <2> DEFINE x == r.bytes[b % length]
             y == stream.bytes[b % length]
  <2>1. x = IF p <= b /\ b < p + count /\ b - p < Len(data) THEN data[b - p + 1] ELSE y
    BY <1>2
  <2> HIDE DEF x, y
  <2>2. CASE data = <<>>
    <3>1. ~(p <= b /\ b - p < Len(data))
      BY <1>1, <2>2
    <3> QED BY <2>1, <2>2, <3>1 DEF x, y
  <2>3. CASE data # <<>>
    <3>1. Len(data) = count /\ \A i \in 1 .. count : data[i] = p + i
      BY <1>4, <2>3
    <3>2. CASE p <= b /\ b < p + count
      <4>1. b - p + 1 \in 1 .. count /\ p + (b - p + 1) = b + 1 /\ b - p < count
        BY <1>1, <3>2
      <4>2. x = b + 1
        BY <2>1, <3>1, <3>2, <4>1
      <4> QED BY <4>2 DEF x
    <3>3. CASE ~(p <= b /\ b < p + count)
      <4>1. x = y
        BY <2>1, <3>3
      <4> QED BY <3>3, <4>1 DEF x, y
    <3> QED BY <3>2, <3>3
  <2> QED BY <2>2, <2>3
<1>6. ASSUME NEW from \in Nat, NEW to \in Nat, tail <= from, to <= tail + length, Holds(stream, from, to) PROVE Holds(r, from, to)
  <2> SUFFICES ASSUME NEW b \in from .. to - 1 PROVE r.bytes[b % length] = b + 1
    BY <1>3 DEF Holds
  <2>1. b \in tail .. tail + length - 1
    BY <1>1, <1>6
  <2>2. stream.bytes[b % length] = b + 1
    BY <1>1, <1>6 DEF Holds
  <2> QED BY <1>5, <2>1, <2>2
<1>7. ASSUME data # <<>> PROVE Holds(r, p, p + count)
  <2> DEFINE to == p + count
  <2> SUFFICES Holds(r, p, to)
    OBVIOUS
  <2> SUFFICES ASSUME NEW b \in p .. to - 1 PROVE r.bytes[b % length] = b + 1
    <3> HIDE DEF to
    <3> QED BY <1>3 DEF Holds
  <2>1. b \in tail .. tail + length - 1 /\ p <= b /\ b < p + count
    BY <1>1 DEF p
  <2> QED BY <1>5, <1>7, <2>1
<1> QED BY <1>2, <1>6, <1>7 DEF r, p

(* The watermark changes bits only.                                        *)
LEMMA WatermarkKeeps ==
  ASSUME NEW r \in Receivers, NEW stream
  PROVE  /\ Watermark(r, stream) \in Receivers
         /\ Watermark(r, stream).current = r.current /\ Watermark(r, stream).segments = r.segments
BY DEF Watermark, Receivers

(* A packet with data arrives: nothing that is sent overlaps with it, or   *)
(* with what was stored, in part.                                          *)
Aligned(r, number, length) ==
  /\ number \in Numbers /\ length \in 1 .. MSS /\ Place(number) + length <= MaxBytes
  /\ Apart(<<Place(number), Place(number) + length>>, Place(r.current))
  /\ \A s \in r.segments :
       /\ Apart(<<Place(number), Place(number) + length>>, Place(s.number))
       /\ Apart(<<Place(number), Place(number) + length>>, To(s))
       /\ Apart(Tile(s), Place(number)) /\ Apart(Tile(s), Place(number) + length)

(* What the handling of a packet shows of the two windows.                 *)
Advances(r, v, number, length) ==
  /\ Place(r.current) <= Place(v.current)
  /\ Place(v.current) \in {Place(r.current), Place(number) + length} \cup {To(s) : s \in r.segments}
  /\ \A b \in Nat : Arrived(r, b) => Arrived(v, b)
  /\ v.segments \subseteq r.segments \cup {[number |-> number, length |-> length]}

(* A range that is reported was received.                                  *)
Reports(r, v, number, length, sack) ==
  \/ sack = <<>>
  \/ \E last \in Numbers :
       /\ sack = <<number, last>> /\ Place(number) < Place(last)
       /\ Place(last) \in {Place(number) + length} \cup {To(s) : s \in r.segments}
       /\ \A b \in Place(number) .. Place(last) - 1 : Arrived(v, b)

(* What is known of a packet with data.                                    *)
LEMMA AlignedTypes ==
  ASSUME NEW r, NEW stream, NEW c, ReceiverOK(r, stream, c), NEW number, NEW length, Aligned(r, number, length)
  PROVE  /\ r.current \in Numbers /\ Place(r.current) \in Nat /\ Place(number) \in Nat /\ c \in Nat /\ c <= Place(r.current)
         /\ length \in Nat \ {0} /\ MaxBytes \in Nat /\ RxLength \in Nat \ {0} /\ number \in Numbers
         /\ Plus(number, length) \in Numbers /\ Place(Plus(number, length)) = Place(number) + length
         /\ \A s \in r.segments : /\ s.number \in Numbers /\ s.length \in 1 .. MSS /\ Place(s.number) \in Nat /\ To(s) \in Nat
                                  /\ Place(s.number) < To(s) /\ s \in Ranges
<1>1. /\ r.current \in Numbers /\ Place(r.current) \in Nat /\ Place(number) \in Nat /\ c \in Nat /\ c <= Place(r.current)
      /\ length \in Nat \ {0} /\ MaxBytes \in Nat /\ RxLength \in Nat \ {0} /\ number \in Numbers
  BY PlaceNat, WindowNumbers DEF ReceiverOK, Receivers, Aligned, Filled
<1>2. Place(number) + length \in Numbers
  BY <1>1, WindowNumbers DEF Aligned, Numbers
<1>3. Plus(number, length) \in Numbers /\ Place(Plus(number, length)) = Place(number) + length
  BY <1>1, <1>2, PlacePlus
<1>4. Spread(r.segments)
  BY DEF ReceiverOK
<1> QED BY <1>1, <1>3, <1>4, SpreadTypes

(* lTCPWindowRxCheck, prvStoreRxData: a packet that was expected, with the *)
(* stored ones that follow it.                                             *)
LEMMA InOrderKeeps ==
  ASSUME NEW c, ReceiverOK(rcv, rxStream, c), NEW r \in Receivers, r.current = rcv.current, r.segments = rcv.segments,
         NEW number, NEW data, Aligned(r, number, Len(data)), number = r.current,
         data = Bytes(Place(number), Len(data)), Len(data) <= GetSpace(rxStream)
  PROVE  LET outcome == RxInOrder(r, number, Len(data))
             stored == StoreRxData(outcome, data)
         IN /\ ReceiverOK(stored.window, stored.stream, c)
            /\ Advances(r, stored.window, number, Len(data)) /\ outcome.sack = <<>>
<1> DEFINE length == Len(data)
           from == Plus(number, length)
           steps == RxSteps(r.segments, from)
           last == steps.last
           left == {s \in r.segments : s.number \notin steps.visited}
           more == Minus(last, from)
           window == [r EXCEPT !.current = last, !.segments = left]
           outcome == RxInOrder(r, number, length)
           once == StreamAdd(rxStream, 0, data, length)
           twice == IF more = 0 THEN once ELSE StreamAdd(once, 0, <<>>, more)
           at == Place(number)
<1>1. ReceiverOK(r, rxStream, c)
  BY DEF ReceiverOK
<1>2. /\ r.current \in Numbers /\ at \in Nat /\ c \in Nat /\ c <= at
      /\ length \in Nat \ {0} /\ MaxBytes \in Nat /\ RxLength \in Nat \ {0} /\ number \in Numbers
      /\ from \in Numbers /\ Place(from) = at + length /\ at + length <= MaxBytes
      /\ \A s \in r.segments : /\ s.number \in Numbers /\ s.length \in 1 .. MSS /\ Place(s.number) \in Nat /\ To(s) \in Nat
                               /\ Place(s.number) < To(s) /\ s \in Ranges
  <2>1. at + length <= MaxBytes
    BY DEF Aligned
  <2> QED BY <1>1, <2>1, AlignedTypes
<1>3. ASSUME NEW s \in r.segments PROVE at + length <= Place(s.number)
  <2>1. Apart(<<at, at + length>>, Place(s.number)) /\ at < Place(s.number)
    BY <1>1, <1>3 DEF Aligned, ReceiverOK
  <2> QED BY <1>2, <2>1 DEF Apart
<1>4. RxConfirmed(r.segments, number, length) = {}
  <2> SUFFICES ASSUME NEW s \in r.segments PROVE ~SequenceLessThan(s.number, from)
    BY DEF RxConfirmed
  <2>1. To(s) <= MaxBytes
    BY <1>1 DEF ReceiverOK, Spread
  <2>2. Place(s.number) \in Near /\ Place(from) \in Near
    BY <1>2, <2>1, WindowNumbers DEF Near
  <2>3. ~(Place(s.number) < Place(from))
    BY <1>2, <1>3
  <2> QED BY <1>2, <2>2, <2>3, Compares
<1>5. outcome = [window |-> window, offset |-> 0, more |-> more, sack |-> <<>>]
  <2>1. r.segments \ {} = r.segments
    OBVIOUS
  <2> QED BY <1>4, <2>1 DEF RxInOrder
<1>6. /\ last \in Numbers /\ Place(from) <= Place(last)
      /\ last = from \/ \E s \in r.segments : Place(last) = To(s)
      /\ \A b \in Place(from) .. Place(last) - 1 : \E s \in r.segments : Place(s.number) <= b /\ b < To(s)
      /\ \A n \in Numbers : (\A s \in r.segments : Apart(Tile(s), Place(n))) /\ Place(from) <= Place(n) /\ Place(n) <= Place(last)
           => n \in steps.visited
      /\ \A s \in r.segments : s.number \in steps.visited => To(s) <= Place(last)
  <2>1. Spread(r.segments)
    BY <1>1 DEF ReceiverOK
  <2> QED BY <1>2, <2>1, StepsDo
<1> HIDE DEF outcome, from, last, steps
<1>7. Place(last) \in Nat /\ more = Place(last) - (at + length) /\ more \in Nat
  <2>1. more = Place(last) - Place(from)
    BY <1>2, <1>6, MinusPlace
  <2>2. Place(last) \in Nat
    BY <1>6, PlaceNat
  <2> QED BY <1>2, <1>6, <2>1, <2>2
<1>8. /\ \A s \in r.segments : To(s) <= c + RxLength - 1 /\ To(s) <= MaxBytes
      /\ at + length <= c + RxLength - 1
      /\ GetSpace(rxStream) = RxLength - 1 - (at - c) /\ Filled(rxStream, RxLength, c, at)
  <2>1. Filled(rxStream, RxLength, c, at)
    BY <1>1 DEF ReceiverOK
  <2>2. GetSpace(rxStream) = RxLength - 1 - (at - c)
    BY <1>2, <2>1, FilledSizes
  <2>3. \A s \in r.segments : To(s) <= c + RxLength - 1 /\ To(s) <= MaxBytes
    BY <1>1 DEF ReceiverOK, Spread
  <2> QED BY <1>2, <2>1, <2>2, <2>3
<1>9. Place(last) <= c + RxLength - 1 /\ Place(last) <= MaxBytes
  BY <1>2, <1>6, <1>8
<1>10. /\ Filled(once, RxLength, c, at + length) /\ Holds(once, at, at + length)
       /\ \A f, t \in Nat : c <= f /\ t <= c + RxLength /\ Holds(rxStream, f, t) => Holds(once, f, t)
  <2>1. data \in Seq(Nat) /\ data # <<>>
    <3>1. data = Bytes(at, length)
      OBVIOUS
    <3> HIDE DEF length
    <3>2. Bytes(at, length) \in Seq(Nat) /\ Len(Bytes(at, length)) = length
      BY <1>2, BytesAre
    <3>3. data \in Seq(Nat) /\ Len(data) # 0
      BY <1>2, <3>1, <3>2
    <3> QED BY <3>3
  <2>2. at + 0 = at /\ data = Bytes(at + 0, length)
    BY <1>2
  <2>3. 0 + length <= RxLength - 1 - (at - c)
    BY <1>2, <1>8
  <2> HIDE DEF length, at, once
  <2>4. LET y == StreamAdd(rxStream, 0, data, length)
         IN /\ Filled(y, RxLength, c, IF 0 = 0 THEN at + length ELSE at)
            /\ \A f, t \in Nat : c <= f /\ t <= c + RxLength /\ Holds(rxStream, f, t) => Holds(y, f, t)
            /\ data # <<>> => Holds(y, at + 0, at + 0 + length)
    BY <1>2, <1>8, <2>1, <2>2, <2>3, AddHolds
  <2> QED BY <2>1, <2>2, <2>4 DEF once
<1> HIDE DEF once
<1>11. /\ Filled(twice, RxLength, c, Place(last))
       /\ \A f, t \in Nat : c <= f /\ t <= c + RxLength /\ Holds(once, f, t) => Holds(twice, f, t)
  <2>1. CASE more = 0
    <3>1. Place(last) = at + length /\ twice = once
      BY <1>2, <1>7, <2>1
    <3> QED BY <1>10, <3>1
  <2>2. CASE more # 0
    <3> DEFINE head == at + length
    <3>1. head \in Nat /\ more \in Nat \ {0} /\ 0 + more <= RxLength - 1 - (head - c) /\ head + more = Place(last) /\ <<>> \in Seq(Nat)
      BY <1>2, <1>7, <1>9, <2>2
    <3> HIDE DEF head, more, twice, at, length
    <3>2. LET y == StreamAdd(once, 0, <<>>, more)
          IN /\ Filled(y, RxLength, c, IF 0 = 0 THEN head + more ELSE head)
             /\ \A f, t \in Nat : c <= f /\ t <= c + RxLength /\ Holds(once, f, t) => Holds(y, f, t)
      BY <1>2, <1>10, <3>1, AddHolds DEF head
    <3> QED BY <2>2, <3>1, <3>2 DEF twice
  <2> QED BY <2>1, <2>2
<1> HIDE DEF twice
<1>12. window \in Receivers /\ window.current = last /\ window.segments = left
  BY <1>6 DEF Receivers
<1> HIDE DEF window
<1> DEFINE v == Watermark(Watermark(window, once), twice)
<1>13. v \in Receivers /\ v.current = last /\ v.segments = left
  BY <1>12, WatermarkKeeps
<1> HIDE DEF v
<1>14. StoreRxData(outcome, data) = [stream |-> twice, window |-> v]
  <2>1. outcome.offset = 0 /\ outcome.window = window /\ outcome.more = more /\ 0 # None /\ ~(0 > 0)
    BY <1>5 DEF None
  <2>2. AddRxData(rxStream, 0, data, Len(data)) = once /\ AddRxData(once, 0, <<>>, more) = StreamAdd(once, 0, <<>>, more)
    BY DEF AddRxData, once
  <2> HIDE DEF more
  <2> QED BY <2>1, <2>2 DEF StoreRxData, twice, v
<1>15. \A f, t \in Nat : c <= f /\ t <= c + RxLength /\ Holds(rxStream, f, t) => Holds(twice, f, t)
  BY <1>10, <1>11
<1>16. twice.length = RxLength
  BY <1>11 DEF Filled, Streams
<1>17. Holds(twice, c, Place(last))
  <2> SUFFICES ASSUME NEW b \in c .. Place(last) - 1 PROVE twice.bytes[b % RxLength] = b + 1
    BY <1>16 DEF Holds
  <2>1. b \in Nat
    BY <1>2
  <2>2. CASE b < at
    <3>1. Holds(rxStream, c, at) /\ at <= c + RxLength
      BY <1>1, <1>2, <1>8 DEF ReceiverOK
    <3>2. Holds(twice, c, at)
      BY <1>2, <1>15, <3>1
    <3> QED BY <1>2, <1>16, <2>1, <2>2, <3>2 DEF Holds
  <2>3. CASE at <= b /\ b < at + length
    <3>1. Holds(once, at, at + length) /\ at + length <= c + RxLength
      BY <1>2, <1>8, <1>10
    <3>2. Holds(twice, at, at + length)
      <4>1. at \in Nat /\ at + length \in Nat
        BY <1>2
      <4> QED BY <1>2, <1>11, <3>1, <4>1
    <3> QED BY <1>2, <1>16, <2>1, <2>3, <3>2 DEF Holds
  <2>4. CASE at + length <= b
    <3>1. b \in Place(from) .. Place(last) - 1
      BY <1>2, <2>1, <2>4
    <3>2. PICK s \in r.segments : Place(s.number) <= b /\ b < To(s)
      BY <1>6, <3>1
    <3>3. Holds(rxStream, Place(s.number), To(s)) /\ c <= Place(s.number) /\ To(s) <= c + RxLength
      BY <1>1, <1>2, <1>3, <1>8 DEF ReceiverOK
    <3>4. Holds(twice, Place(s.number), To(s))
      BY <1>2, <1>15, <3>3
    <3> QED BY <1>2, <1>16, <2>1, <3>2, <3>4 DEF Holds
  <2> QED BY <1>2, <2>1, <2>2, <2>3, <2>4
<1>18. ASSUME NEW s \in left
       PROVE  Place(last) < Place(s.number) /\ To(s) <= c + RxLength - 1 /\ Holds(twice, Place(s.number), To(s))
  <2>1. s \in r.segments /\ s.number \notin steps.visited
    OBVIOUS
  <2>2. \A t \in r.segments : Apart(Tile(t), Place(s.number))
    BY <1>1, <2>1 DEF ReceiverOK, Spread
  <2>3. Place(from) <= Place(s.number)
    BY <1>2, <1>3, <2>1
  <2>4. Place(last) < Place(s.number)
    BY <1>2, <1>6, <1>7, <2>1, <2>2, <2>3
  <2>5. Holds(rxStream, Place(s.number), To(s)) /\ c <= Place(s.number) /\ To(s) <= c + RxLength
    BY <1>1, <1>2, <1>3, <1>8, <2>1 DEF ReceiverOK
  <2>6. Holds(twice, Place(s.number), To(s))
    BY <1>2, <1>15, <2>1, <2>5
  <2> QED BY <1>8, <2>1, <2>4, <2>6
<1>19. Spread(left)
  <2>1. left \subseteq r.segments /\ Spread(r.segments)
    BY <1>1 DEF ReceiverOK
  <2> QED BY <2>1, FS_Subset DEF Spread
<1>20. ReceiverOK(v, twice, c)
  <2> HIDE DEF left
  <2> QED BY <1>9, <1>11, <1>13, <1>17, <1>18, <1>19 DEF ReceiverOK
<1>21. Advances(r, v, number, length)
  <2>1. Place(r.current) <= Place(v.current)
    BY <1>2, <1>6, <1>7, <1>13
  <2>2. Place(v.current) \in {Place(r.current), at + length} \cup {To(s) : s \in r.segments}
    BY <1>2, <1>6, <1>13
  <2>3. ASSUME NEW b \in Nat, Arrived(r, b) PROVE Arrived(v, b)
    <3>1. CASE b < Place(r.current)
      BY <1>2, <1>6, <1>7, <1>13, <3>1 DEF Arrived
    <3>2. ASSUME NEW s \in r.segments, Place(s.number) <= b, b < To(s) PROVE Arrived(v, b)
      <4>1. CASE s \in left
        BY <1>13, <3>2, <4>1 DEF Arrived
      <4>2. CASE s \notin left
        <5>1. To(s) <= Place(last)
          BY <1>6, <4>2
        <5> QED BY <1>2, <1>7, <1>13, <3>2, <5>1 DEF Arrived
      <4> QED BY <4>1, <4>2
    <3> QED BY <2>3, <3>1, <3>2 DEF Arrived
  <2> QED BY <1>13, <2>1, <2>2, <2>3 DEF Advances
<1>22. outcome.sack = <<>>
  BY <1>5
<1> QED BY <1>14, <1>20, <1>21, <1>22 DEF outcome

(* A packet that is not accepted.                                          *)
LEMMA RefusedKeeps ==
  ASSUME NEW c, NEW r, ReceiverOK(r, rxStream, c), NEW number, NEW data, NEW length, NEW outcome,
         outcome.offset = None, outcome.window = r
  PROVE  LET stored == StoreRxData(outcome, data)
         IN ReceiverOK(stored.window, stored.stream, c) /\ Advances(r, stored.window, number, length)
<1>1. StoreRxData(outcome, data) = [stream |-> rxStream, window |-> r]
  BY DEF StoreRxData
<1>2. Place(r.current) \in Nat
  BY PlaceNat DEF ReceiverOK, Receivers
<1>3. Advances(r, r, number, length)
  BY <1>2 DEF Advances
<1> QED BY <1>1, <1>3

(* A packet ahead of its turn, which is stored at its offset, was stored   *)
(* before or finds no room.                                                *)
LEMMA AheadKeeps ==
  ASSUME NEW c, ReceiverOK(rcv, rxStream, c), NEW r \in Receivers, r.current = rcv.current, r.segments = rcv.segments,
         NEW number, NEW data, Aligned(r, number, Len(data)), Place(r.current) < Place(number),
         data = Bytes(Place(number), Len(data)), Place(number) + Len(data) - Place(r.current) <= GetSpace(rxStream)
  PROVE  LET outcome == RxAhead(r, number, Len(data))
             stored == StoreRxData(outcome, data)
         IN /\ ReceiverOK(stored.window, stored.stream, c)
            /\ Advances(r, stored.window, number, Len(data))
            /\ Reports(r, stored.window, number, Len(data), outcome.sack)
<1> DEFINE length == Len(data)
           from == Plus(number, length)
           last == RxSteps(r.segments, from).last
           sack == <<number, last>>
           offset == Minus(number, r.current)
           new == [number |-> number, length |-> length]
           outcome == RxAhead(r, number, length)
           stored == StoreRxData(outcome, data)
           at == Place(number)
           here == Place(r.current)
<1>1. ReceiverOK(r, rxStream, c) /\ Spread(r.segments)
  BY DEF ReceiverOK
<1>2. /\ r.current \in Numbers /\ at \in Nat /\ c \in Nat /\ c <= here /\ here \in Nat /\ here < at
      /\ length \in Nat \ {0} /\ MaxBytes \in Nat /\ RxLength \in Nat \ {0} /\ number \in Numbers
      /\ from \in Numbers /\ Place(from) = at + length /\ at + length <= MaxBytes /\ length \in 1 .. MSS
      /\ \A s \in r.segments : /\ s.number \in Numbers /\ s.length \in 1 .. MSS /\ Place(s.number) \in Nat /\ To(s) \in Nat
                               /\ Place(s.number) < To(s) /\ s \in Ranges
  <2>1. at + length <= MaxBytes /\ length \in 1 .. MSS
    BY DEF Aligned
  <2> QED BY <1>1, <2>1, AlignedTypes
<1>3. /\ last \in Numbers /\ Place(from) <= Place(last)
      /\ last = from \/ \E s \in r.segments : Place(last) = To(s)
      /\ \A b \in Place(from) .. Place(last) - 1 : \E s \in r.segments : Place(s.number) <= b /\ b < To(s)
  BY <1>1, <1>2, StepsDo
<1> HIDE DEF from, last
<1>4. Place(last) \in Nat /\ at < Place(last) /\ Place(last) \in {at + length} \cup {To(s) : s \in r.segments}
  <2>1. Place(last) \in Nat
    BY <1>3, PlaceNat
  <2> QED BY <1>2, <1>3, <2>1
<1>5. ASSUME NEW v, \A b \in Nat : Arrived(r, b) => Arrived(v, b), \A b \in at .. at + length - 1 : Arrived(v, b)
      PROVE  Reports(r, v, number, length, sack)
  <2>1. ASSUME NEW b \in at .. Place(last) - 1 PROVE Arrived(v, b)
    <3>1. CASE b < at + length
      <4>1. b \in at .. at + length - 1
        BY <1>2, <3>1
      <4> QED BY <1>5, <4>1
    <3>2. CASE at + length <= b
      <4>1. b \in Place(from) .. Place(last) - 1 /\ b \in Nat
        BY <1>2, <1>4, <3>2
      <4>2. Arrived(r, b)
        BY <1>3, <4>1 DEF Arrived
      <4> QED BY <1>5, <4>1, <4>2
    <3> QED BY <1>2, <1>4, <3>1, <3>2
  <2> HIDE DEF length, at
  <2> QED BY <1>3, <1>4, <2>1 DEF Reports, at
<1>6. CASE \E s \in r.segments : s.number = number
  <2>1. outcome = [Refused(r) EXCEPT !.sack = sack]
    BY <1>6 DEF RxAhead, sack, last, from
  <2> HIDE DEF outcome
  <2>2. outcome.offset = None /\ outcome.window = r /\ outcome.sack = sack
    BY <2>1 DEF Refused
  <2>3. ReceiverOK(stored.window, stored.stream, c) /\ Advances(r, stored.window, number, length)
    <3> HIDE DEF length
    <3> QED BY <1>1, <2>2, RefusedKeeps
  <2>4. PICK s \in r.segments : s.number = number
    BY <1>6
  <2>5. To(s) = at + length
    <3>1. Apart(<<at, at + length>>, To(s)) /\ Apart(Tile(s), at + length) /\ Tile(s) = <<at, To(s)>> /\ at < To(s) /\ To(s) \in Nat
      BY <1>2, <2>4 DEF Aligned, Tile
    <3> HIDE DEF at, length
    <3>2. (To(s) <= at \/ at + length <= To(s)) /\ (at + length <= at \/ To(s) <= at + length)
      BY <3>1 DEF Apart
    <3>3. at \in Nat /\ length \in Nat \ {0}
      BY <1>2
    <3> QED BY <3>1, <3>2, <3>3
  <2>6. \A b \in at .. at + length - 1 : b \in Nat /\ Arrived(r, b)
    BY <1>2, <2>4, <2>5 DEF Arrived
  <2>7. \A b \in Nat : Arrived(r, b) => Arrived(stored.window, b)
    BY <2>3 DEF Advances
  <2> HIDE DEF stored, length, at, sack
  <2>8. Reports(r, stored.window, number, length, sack)
    BY <1>5, <2>6, <2>7
  <2> QED BY <2>2, <2>3, <2>8 DEF stored, outcome, length
<1>7. CASE (\A s \in r.segments : s.number # number) /\ Cardinality(r.segments) = SegmentCount
  <2>1. outcome = Refused(r)
    BY <1>7 DEF RxAhead
  <2> HIDE DEF outcome
  <2>2. outcome.offset = None /\ outcome.window = r /\ outcome.sack = <<>>
    BY <2>1 DEF Refused
  <2>3. ReceiverOK(stored.window, stored.stream, c) /\ Advances(r, stored.window, number, length)
    <3> HIDE DEF length
    <3> QED BY <1>1, <2>2, RefusedKeeps
  <2> QED BY <2>2, <2>3 DEF stored, outcome, length, Reports
<1>8. CASE (\A s \in r.segments : s.number # number) /\ Cardinality(r.segments) # SegmentCount
  <2> DEFINE window == [r EXCEPT !.segments = @ \cup {new}]
             once == StreamAdd(rxStream, offset, data, length)
  <2>1. offset = at - here /\ ~Negative(offset)
    <3>1. at \in Near /\ here \in Near
      BY <1>2, WindowNumbers DEF Near
    <3>2. ~Negative(offset)
      BY <1>2, <3>1, NegativeIs
    <3>3. offset = IF here <= at THEN at - here ELSE at - here + SeqMod
      BY <1>2, MinusPlace
    <3> QED BY <1>2, <3>2, <3>3
  <2>2. outcome = [window |-> window, offset |-> offset, more |-> 0, sack |-> sack]
    <3>1. ~Negative(Minus(number, r.current))
      BY <2>1
    <3> QED BY <1>8, <3>1 DEF RxAhead, sack, last, from
  <2> HIDE DEF offset, outcome
  <2>3. stored = [stream |-> once, window |-> window]
    <3>1. offset > 0 /\ offset # None
      BY <1>2, <2>1 DEF None
    <3>2. outcome.offset = offset /\ outcome.window = window /\ outcome.more = 0
      BY <2>2
    <3> HIDE DEF window
    <3> QED BY <3>1, <3>2 DEF StoreRxData, AddRxData
  <2>4. new \in Ranges /\ Place(new.number) = at /\ To(new) = at + length /\ Tile(new) = <<at, at + length>>
    BY <1>2 DEF Ranges, To, Tile
  <2> HIDE DEF new
  <2>5. window \in Receivers /\ window.current = r.current /\ window.segments = r.segments \cup {new}
    BY <2>4 DEF Receivers
  <2> HIDE DEF window
  <2>6. /\ Filled(rxStream, RxLength, c, here) /\ GetSpace(rxStream) = RxLength - 1 - (here - c)
        /\ \A s \in r.segments : To(s) <= c + RxLength - 1
    <3>1. Filled(rxStream, RxLength, c, here) /\ \A s \in r.segments : To(s) <= c + RxLength - 1
      BY <1>1 DEF ReceiverOK
    <3> QED BY <1>2, <3>1, FilledSizes
  <2>7. /\ Filled(once, RxLength, c, here) /\ Holds(once, at, at + length)
        /\ \A f, t \in Nat : c <= f /\ t <= c + RxLength /\ Holds(rxStream, f, t) => Holds(once, f, t)
    <3>1. data \in Seq(Nat) /\ data # <<>>
      <4>1. data = Bytes(at, length)
        OBVIOUS
      <4> HIDE DEF length
      <4>2. Bytes(at, length) \in Seq(Nat) /\ Len(Bytes(at, length)) = length
        BY <1>2, BytesAre
      <4>3. data \in Seq(Nat) /\ Len(data) # 0
        BY <1>2, <4>1, <4>2
      <4> QED BY <4>3
    <3>2. offset \in Nat /\ offset # 0 /\ here + offset = at /\ data = Bytes(here + offset, length)
          /\ offset + length <= RxLength - 1 - (here - c)
      <4>1. offset \in Nat /\ offset # 0 /\ here + offset = at
        BY <1>2, <2>1
      <4>2. at + length - here <= RxLength - 1 - (here - c)
        BY <2>6
      <4>3. offset + length <= RxLength - 1 - (here - c)
        BY <1>2, <2>1, <4>2
      <4>4. data = Bytes(here + offset, length)
        BY <4>1
      <4> QED BY <4>1, <4>3, <4>4
    <3> HIDE DEF length, at, here, once
    <3>3. LET y == StreamAdd(rxStream, offset, data, length)
          IN /\ Filled(y, RxLength, c, IF offset = 0 THEN here + length ELSE here)
             /\ \A f, t \in Nat : c <= f /\ t <= c + RxLength /\ Holds(rxStream, f, t) => Holds(y, f, t)
             /\ data # <<>> => Holds(y, here + offset, here + offset + length)
      BY <1>2, <2>6, <3>1, <3>2, AddHolds
    <3> QED BY <3>1, <3>2, <3>3 DEF once
  <2> HIDE DEF once
  <2>8. at + length <= c + RxLength - 1
    BY <1>2, <2>6
  <2>9. Spread(window.segments)
    <3>1. IsFiniteSet(r.segments \cup {new})
      BY <1>1, FS_AddElement DEF Spread
    <3>2. \A s \in r.segments \cup {new} : To(s) <= MaxBytes /\ s \in Ranges
      BY <1>1, <1>2, <2>4 DEF Spread
    <3>3. ASSUME NEW s \in r.segments \cup {new}, NEW t \in r.segments \cup {new}
          PROVE  Apart(Tile(s), Place(t.number)) /\ Apart(Tile(s), To(t))
      <4>1. CASE s \in r.segments /\ t \in r.segments
        BY <1>1, <4>1 DEF Spread
      <4>2. CASE s = new /\ t \in r.segments
        BY <2>4, <4>2 DEF Aligned
      <4>3. CASE s \in r.segments /\ t = new
        BY <2>4, <4>3 DEF Aligned
      <4>4. CASE s = new /\ t = new
        BY <1>2, <2>4, <4>4 DEF Apart
      <4> QED BY <3>3, <4>1, <4>2, <4>3, <4>4
    <3> QED BY <2>5, <3>1, <3>2, <3>3 DEF Spread
  <2>10. Holds(once, c, here)
    <3>1. Holds(rxStream, c, here) /\ here <= c + RxLength
      BY <1>1, <1>2, <2>6 DEF ReceiverOK, Filled
    <3> QED BY <1>2, <2>7, <3>1
  <2>11. ASSUME NEW s \in window.segments
         PROVE  here < Place(s.number) /\ To(s) <= c + RxLength - 1 /\ Holds(once, Place(s.number), To(s))
    <3>1. CASE s = new
      BY <1>2, <2>4, <2>7, <2>8, <3>1
    <3>2. CASE s \in r.segments
      <4>1. here < Place(s.number) /\ To(s) <= c + RxLength - 1 /\ Holds(rxStream, Place(s.number), To(s))
        BY <1>1, <3>2 DEF ReceiverOK
      <4>2. Place(s.number) \in Nat /\ To(s) \in Nat /\ c <= Place(s.number) /\ To(s) <= c + RxLength
        BY <1>2, <3>2, <4>1
      <4> QED BY <2>7, <4>1, <4>2
    <3> QED BY <2>5, <2>11, <3>1, <3>2
  <2>12. ReceiverOK(window, once, c)
    <3>1. here <= MaxBytes
      BY <1>2
    <3> QED BY <2>5, <2>7, <2>9, <2>10, <2>11, <3>1 DEF ReceiverOK
  <2>13. \A b \in Nat : Arrived(r, b) => Arrived(window, b)
    BY <2>5 DEF Arrived
  <2>14. \A b \in at .. at + length - 1 : Arrived(window, b)
    BY <1>2, <2>4, <2>5 DEF Arrived
  <2>15. Advances(r, window, number, length)
    <3>1. here <= Place(window.current) /\ Place(window.current) = here
      BY <1>2, <2>5
    <3> QED BY <2>5, <2>13, <3>1 DEF Advances, new
  <2> HIDE DEF sack, length, at
  <2>16. Reports(r, window, number, length, sack)
    BY <1>5, <2>13, <2>14
  <2>17. outcome.sack = sack /\ stored.stream = once /\ stored.window = window
    BY <2>2, <2>3
  <2> HIDE DEF stored
  <2> QED BY <2>12, <2>15, <2>16, <2>17 DEF stored, outcome, length
<1> QED BY <1>6, <1>7, <1>8

(* lTCPWindowRxCheck and prvStoreRxData                                    *)
LEMMA RxCheckKeeps ==
  ASSUME NEW c, ReceiverOK(rcv, rxStream, c), NEW r \in Receivers, r.current = rcv.current, r.segments = rcv.segments,
         NEW number, NEW data, Aligned(r, number, Len(data)), data = Bytes(Place(number), Len(data))
  PROVE  LET outcome == RxCheck(r, number, Len(data), GetSpace(rxStream))
             stored == StoreRxData(outcome, data)
         IN /\ ReceiverOK(stored.window, stored.stream, c)
            /\ Advances(r, stored.window, number, Len(data))
            /\ Reports(r, stored.window, number, Len(data), outcome.sack)
<1> DEFINE length == Len(data)
           space == GetSpace(rxStream)
           distance == Minus(Plus(number, length), r.current)
           outcome == RxCheck(r, number, length, space)
           stored == StoreRxData(outcome, data)
           at == Place(number)
           here == Place(r.current)
<1>1. ReceiverOK(r, rxStream, c)
  BY DEF ReceiverOK
<1>2. /\ r.current \in Numbers /\ at \in Nat /\ here \in Nat /\ length \in Nat \ {0} /\ number \in Numbers
      /\ Plus(number, length) \in Numbers /\ Place(Plus(number, length)) = at + length /\ at + length <= MaxBytes /\ here <= MaxBytes
  <2>1. at + length <= MaxBytes /\ here <= MaxBytes
    BY <1>1 DEF Aligned, ReceiverOK
  <2> QED BY <1>1, <2>1, AlignedTypes
<1>a. space \in Int
  <2>1. Filled(rxStream, RxLength, c, here) /\ RxLength \in Nat \ {0}
    BY <1>1, WindowNumbers DEF ReceiverOK
  <2>2. c \in Nat
    BY <2>1 DEF Filled
  <2>3. space = RxLength - 1 - (here - c)
    BY <1>2, <2>1, <2>2, FilledSizes
  <2> QED BY <1>2, <2>1, <2>2, <2>3
<1>3. CASE outcome = Refused(r)
  <2>1. outcome.offset = None /\ outcome.window = r /\ outcome.sack = <<>>
    BY <1>3 DEF Refused
  <2> HIDE DEF outcome, length
  <2>2. ReceiverOK(stored.window, stored.stream, c) /\ Advances(r, stored.window, number, length)
    BY <1>1, <2>1, RefusedKeeps
  <2>3. Reports(r, stored.window, number, length, outcome.sack)
    BY <2>1 DEF Reports
  <2> QED BY <2>2, <2>3 DEF outcome, length
<1>4. CASE outcome # Refused(r) /\ number = r.current
  <2>1. ~(length > space) /\ outcome = RxInOrder(r, number, length)
    BY <1>4 DEF RxCheck
  <2>2. length <= space
    <3> QED BY <1>2, <1>a, <2>1
  <2> DEFINE w == StoreRxData(RxInOrder(r, number, length), data)
  <2>3. /\ ReceiverOK(w.window, w.stream, c)
        /\ Advances(r, w.window, number, length) /\ RxInOrder(r, number, length).sack = <<>>
    BY <1>4, <2>2, InOrderKeeps
  <2>4. stored = w /\ outcome.sack = <<>>
    BY <2>1, <2>3
  <2> QED BY <2>3, <2>4 DEF Reports
<1>5. CASE outcome # Refused(r) /\ number # r.current
  <2>1. distance # 0 /\ ~Negative(distance) /\ ~(distance > space) /\ outcome = RxAhead(r, number, length)
    BY <1>5 DEF RxCheck
  <2>2. here < at + length /\ distance = at + length - here
    <3>1. at + length \in Near /\ here \in Near
      BY <1>2, WindowNumbers DEF Near
    <3>2. ~(at + length < here)
      BY <1>2, <2>1, <3>1, NegativeIs
    <3>3. distance = at + length - here
      <4> DEFINE p == Place(Plus(number, length))
      <4>1. distance = IF here <= p THEN p - here ELSE p - here + SeqMod
        BY <1>2, MinusPlace
      <4>2. p = at + length /\ p \in Nat
        BY <1>2
      <4> HIDE DEF p, distance
      <4> QED BY <1>2, <3>2, <4>1, <4>2
    <3> QED BY <1>2, <2>1, <3>2, <3>3
  <2>3. here < at
    <3>1. here <= at
      <4>1. here <= at \/ at + length <= here
        BY DEF Aligned, Apart
      <4> QED BY <1>2, <2>2, <4>1
    <3>2. here # at
      BY <1>2, <1>5, PlacesDiffer
    <3> QED BY <1>2, <3>1, <3>2
  <2>4. at + length - here <= space
    <3> QED BY <1>2, <1>a, <2>1, <2>2
  <2> DEFINE w == StoreRxData(RxAhead(r, number, length), data)
  <2>5. /\ ReceiverOK(w.window, w.stream, c)
        /\ Advances(r, w.window, number, length)
        /\ Reports(r, w.window, number, length, RxAhead(r, number, length).sack)
    BY <2>3, <2>4, AheadKeeps
  <2> QED BY <2>1, <2>5
<1> QED BY <1>3, <1>4, <1>5

(***************************************************************************)
(* The inductive invariant of the two ends.                                *)
(***************************************************************************)
(* The ranges of the packets in the network, and those that the receiver   *)
(* stores.                                                                 *)
Flying(out) == {<<Place(p.number), Place(p.number) + Len(p.data)>> : p \in {q \in out : q.data # <<>>}}

Tiles(r, out) == Flying(out) \cup {Tile(s) : s \in r.segments}

Ranged(sack) == \E first, last \in Numbers : sack = <<first, last>> /\ Place(first) < Place(last)

(* The numbers that acknowledgements in the network mention.               *)
Reported(acks) ==
  {Place(a.ack) : a \in acks} \cup UNION {IF a.sack = <<>> THEN {} ELSE {Place(a.sack[1]), Place(a.sack[2])} : a \in acks}

Marks(r, out, acks) ==
  {t[1] : t \in Tiles(r, out)} \cup {t[2] : t \in Tiles(r, out)} \cup {Place(r.current)} \cup Reported(acks)

(* No two of the ranges that were ever sent overlap in part.               *)
Split(tiles, marks) == marks \subseteq Nat /\ \A t \in tiles, x \in marks : Apart(t, x)

(* Neither the segments of the sender nor those ranges are cut by an end   *)
(* of one of them or by a number that was mentioned.                       *)
Sound(w, r, out, acks) == Matches(w, Tiles(r, out), Marks(r, out, acks)) /\ Split(Tiles(r, out), Marks(r, out, acks))

(* The stream of the sender holds what was not acknowledged, and what was  *)
(* taken over from it is in segments.                                      *)
SenderOK(w, stream, count) ==
  /\ WindowOK(w) /\ count \in Nat /\ count <= MaxBytes /\ Place(w.next) <= count
  /\ Filled(stream, TxLength, Place(w.current), count) /\ stream.mid = Place(w.next) % TxLength
  /\ Holds(stream, Place(w.current), count)

(* A packet carries the bytes that its number says, and an acknowledgement *)
(* mentions only bytes that arrived.                                       *)
PacketOK(p) == p.number \in Numbers /\ p.data \in Seq(Nat) /\ Len(p.data) <= MSS /\ p.data = Bytes(Place(p.number), Len(p.data))

AckOK(r, a) ==
  /\ a.ack \in Numbers /\ Place(a.ack) <= Place(r.current) /\ a.window \in Int
  /\ a.sack = <<>> \/ (Ranged(a.sack) /\ \A b \in Place(a.sack[1]) .. Place(a.sack[2]) - 1 : Arrived(r, b))

(* The inductive invariant.                                                *)
WindowInv ==
  /\ SenderOK(snd, txStream, written)
  /\ ReceiverOK(rcv, rxStream, consumed)
  /\ Place(snd.current) <= Place(rcv.current)
  /\ Sound(snd, rcv, segmentsOut, acksOut)
  /\ \A p \in segmentsOut : PacketOK(p)
  /\ \A a \in acksOut : AckOK(rcv, a)

(* The ends of the ranges are marked.                                      *)
LEMMA TilesMarked ==
  ASSUME NEW r, NEW out, NEW acks
  PROVE  \A t \in Tiles(r, out) : t[1] \in Marks(r, out, acks) /\ t[2] \in Marks(r, out, acks)
BY DEF Marks

(* With fewer ranges and marks it stays sound.                             *)
LEMMA SoundLess ==
  ASSUME NEW w, NEW r, NEW out, NEW acks, Sound(w, r, out, acks), NEW q, NEW others, NEW answers,
         Tiles(q, others) \subseteq Tiles(r, out), Place(q.current) \in Marks(r, out, acks),
         Reported(answers) \subseteq Marks(r, out, acks)
  PROVE  Sound(w, q, others, answers)
<1>1. Marks(q, others, answers) \subseteq Marks(r, out, acks)
  BY DEF Marks
<1> QED BY <1>1 DEF Sound, Matches, Split

(* Fewer packets, fewer ranges.                                            *)
LEMMA TilesLess ==
  ASSUME NEW r, NEW out, NEW others, others \subseteq out
  PROVE  Tiles(r, others) \subseteq Tiles(r, out)
BY DEF Tiles, Flying

(* Fewer acknowledgements, fewer marks.                                    *)
LEMMA ReportedLess ==
  ASSUME NEW acks, NEW answers, answers \subseteq acks
  PROVE  Reported(answers) \subseteq Reported(acks)
BY DEF Reported

(* A further acknowledgement, and what it mentions.                        *)
LEMMA ReportedMore ==
  ASSUME NEW acks, NEW answers, NEW a, answers \subseteq acks \cup {a}
  PROVE  Reported(answers) \subseteq Reported(acks) \cup {Place(a.ack)} \cup
           IF a.sack = <<>> THEN {} ELSE {Place(a.sack[1]), Place(a.sack[2])}
BY DEF Reported

(* Sent adds one packet, and may lose another.                             *)
LEMMA SentIs ==
  ASSUME NEW packets, NEW p, NEW most
  PROVE  Sent(packets, p, most) \subseteq packets \cup {p}
BY DEF Sent

(* A stream is read from a position that may exceed its length.            *)
LEMMA AroundPeek ==
  ASSUME NEW length \in Nat \ {0}, NEW stream \in Streams(length), NEW p \in Nat, NEW d \in Nat, NEW count \in Nat
  PROVE  StreamPeek(stream, (p % length) + d, count) = StreamPeek(stream, (p + d) % length, count)
<1>1. ASSUME NEW i \in 1 .. count
      PROVE  Around(stream, (p % length) + d + i - 1) = Around(stream, ((p + d) % length) + i - 1)
  <2> DEFINE k == i - 1
             e == d + k
             q == p + d
  <2>1. k \in Int /\ e \in Int /\ q \in Nat /\ (p % length) \in Int /\ (q % length) \in Int
    <3>1. q \in Nat /\ q \in Int /\ p \in Int /\ k \in Int /\ e \in Int
      OBVIOUS
    <3> HIDE DEF q, k, e
    <3> QED BY <3>1, InRing
  <2>2. (p % length) + d + i - 1 = (p % length) + e /\ (q % length) + i - 1 = (q % length) + k /\ p + e = q + k
    <3> HIDE DEF q
    <3>1. (q % length) + i - 1 = (q % length) + k
      BY <2>1
    <3>2. (p % length) + d + i - 1 = (p % length) + e
      BY <2>1
    <3> QED BY <3>1, <3>2 DEF q
  <2> HIDE DEF e, k, q
  <2>3. ((p % length) + e) % length = (p + e) % length /\ ((q % length) + k) % length = (q + k) % length
    BY <2>1, RingSum
  <2>4. stream.length = length
    BY DEF Streams
  <2>5. ((p % length) + d + i - 1) % length = ((q % length) + i - 1) % length
    BY <2>2, <2>3
  <2> QED BY <2>4, <2>5 DEF Around, q
<1> QED BY <1>1 DEF StreamPeek

(***************************************************************************)
(* What the invariant implies.                                             *)
(***************************************************************************)
LEMMA InvInOrder ==
  ASSUME WindowInv
  PROVE  ReceivedInOrder
<1> DEFINE at == Place(rcv.current)
           size == GetSize(rxStream)
<1>1. /\ Filled(rxStream, RxLength, consumed, at) /\ RxLength \in Nat \ {0} /\ rcv.current \in Numbers
      /\ Holds(rxStream, consumed, at) /\ Spread(rcv.segments)
      /\ \A s \in rcv.segments : at < Place(s.number) /\ Holds(rxStream, Place(s.number), To(s))
  BY WindowNumbers DEF WindowInv, ReceiverOK, Receivers
<1>2. /\ consumed \in Nat /\ at \in Nat /\ consumed <= at /\ rxStream \in Streams(RxLength)
      /\ rxStream.tail = consumed % RxLength /\ rxStream.head = at % RxLength
  BY <1>1 DEF Filled
<1>3. size = at - consumed /\ size \in Nat
  BY <1>1, <1>2, FilledSizes
<1>4. consumed + size = at
  BY <1>2, <1>3
<1>5. StreamPeek(rxStream, rxStream.tail, size) = Bytes(consumed, size)
  <2> HIDE DEF size, at
  <2>1. StreamPeek(rxStream, consumed % RxLength, size) = Bytes(consumed, size)
    BY <1>1, <1>2, <1>3, <1>4, PeekDoes
  <2> QED BY <1>2, <2>1
<1>6. ASSUME NEW s \in rcv.segments
      PROVE  StreamPeek(rxStream, rxStream.head + Minus(s.number, rcv.current), s.length) = Bytes(Place(s.number), s.length)
  <2> DEFINE d == Minus(s.number, rcv.current)
             p == Place(s.number)
  <2>1. s.number \in Numbers /\ p \in Nat /\ at < p /\ s.length \in Nat /\ Holds(rxStream, p, p + s.length)
    <3>1. s.number \in Numbers /\ p \in Nat /\ s.length \in 1 .. MSS
      BY <1>1, SpreadTypes
    <3> QED BY <1>1, <3>1, WindowNumbers DEF To
  <2>2. d = p - at
    <3>1. d = IF at <= p THEN p - at ELSE p - at + SeqMod
      BY <1>1, <2>1, MinusPlace
    <3> QED BY <1>2, <2>1, <3>1
  <2>3. d \in Nat /\ at + d = p
    BY <1>2, <2>1, <2>2
  <2> HIDE DEF d, at, p
  <2>4. StreamPeek(rxStream, (at % RxLength) + d, s.length) = StreamPeek(rxStream, (at + d) % RxLength, s.length)
    <3> DEFINE l == s.length
    <3>1. l \in Nat /\ at \in Nat /\ d \in Nat /\ RxLength \in Nat \ {0} /\ rxStream \in Streams(RxLength)
      BY <1>1, <1>2, <2>1, <2>3
    <3> HIDE DEF l
    <3>2. \A p0, d0, l0 \in Nat :
            StreamPeek(rxStream, (p0 % RxLength) + d0, l0) = StreamPeek(rxStream, (p0 + d0) % RxLength, l0)
      BY <1>1, <1>2, AroundPeek
    <3>3. StreamPeek(rxStream, (at % RxLength) + d, l) = StreamPeek(rxStream, (at + d) % RxLength, l)
      BY <3>1, <3>2
    <3> QED BY <3>3 DEF l
  <2>5. StreamPeek(rxStream, p % RxLength, s.length) = Bytes(p, s.length)
    BY <1>1, <1>2, <2>1, PeekDoes
  <2>6. StreamPeek(rxStream, rxStream.head + d, s.length) = Bytes(p, s.length)
    BY <1>2, <2>3, <2>4, <2>5
  <2> QED BY <2>6 DEF d, p
<1> QED BY <1>4, <1>5, <1>6 DEF ReceivedInOrder

(* Being in a queue once, or nowhere, in terms of Occurrences.             *)
LEMMA Occurs ==
  ASSUME NEW q \in Seq(Numbers), NEW n
  PROVE  /\ Nowhere(q, n) => Occurrences(q, n) = 0
         /\ Once(q, n) => Occurrences(q, n) = 1
<1>1. ASSUME Nowhere(q, n) PROVE Occurrences(q, n) = 0
  <2>1. {i \in 1 .. Len(q) : q[i] = n} = {}
    BY <1>1 DEF Nowhere
  <2> QED BY <2>1, FS_EmptySet DEF Occurrences
<1>2. ASSUME Once(q, n) PROVE Occurrences(q, n) = 1
  <2>1. PICK i \in 1 .. Len(q) : q[i] = n /\ \A j \in 1 .. Len(q) : q[j] = n => j = i
    BY <1>2 DEF Once
  <2>2. {j \in 1 .. Len(q) : q[j] = n} = {i}
    BY <2>1
  <2> QED BY <2>2, FS_Singleton DEF Occurrences
<1> QED BY <1>1, <1>2

(* Every byte of the sender is tracked.                                    *)
LEMMA InvTracked ==
  ASSUME WindowInv
  PROVE  EveryByteTracked
<1> DEFINE from == Place(snd.current)
<1>1. /\ WindowOK(snd) /\ snd \in Windows /\ QueuesOK(snd) /\ SegmentsOK(snd) /\ TxLength \in Nat \ {0}
      /\ Filled(txStream, TxLength, from, written) /\ Holds(txStream, from, written)
      /\ Place(snd.next) <= written /\ Place(snd.current) <= Place(rcv.current)
  BY WindowNumbers DEF WindowInv, SenderOK, WindowOK
<1>2. /\ from \in Nat /\ Place(snd.next) \in Nat /\ written \in Nat /\ txStream \in Streams(TxLength) /\ txStream.length = TxLength
      /\ snd.tx \in Seq(Numbers) /\ snd.wait \in Seq(Numbers) /\ snd.priority \in Seq(Numbers)
      /\ \A n \in DOMAIN snd.segments : /\ n \in Numbers /\ Place(n) \in Nat /\ snd.segments[n].length \in 1 .. MSS
                                        /\ Ends(snd, n) \in Nat /\ Place(n) < Ends(snd, n)
      /\ snd.segments \in [DOMAIN snd.segments -> Segments]
  BY <1>1, WindowTypes DEF Filled, Streams
<1>3. written - GetSize(txStream) = from
  BY <1>1, <1>2, FilledSizes
<1>4. ASSUME NEW b \in from .. Place(snd.next) - 1
      PROVE  Cardinality({n \in DOMAIN snd.segments : Place(n) <= b /\ b < Place(n) + snd.segments[n].length}) = 1
  <2>1. PICK n \in DOMAIN snd.segments : Place(n) <= b /\ b < Ends(snd, n)
    BY <1>1 DEF SegmentsOK
  <2>2. ASSUME NEW m \in DOMAIN snd.segments, Place(m) <= b, b < Ends(snd, m) PROVE m = n
    <3>1. m # n => Ends(snd, m) <= Place(n) \/ Ends(snd, n) <= Place(m)
      BY <1>1 DEF SegmentsOK
    <3> QED BY <1>2, <2>1, <2>2, <3>1
  <2>3. {m \in DOMAIN snd.segments : Place(m) <= b /\ b < Ends(snd, m)} = {n}
    BY <2>1, <2>2
  <2> QED BY <2>3, FS_Singleton DEF Ends
<1>5. ASSUME NEW n \in DOMAIN snd.segments
      PROVE  LET s == snd.segments[n]
             IN /\ StreamPeek(txStream, s.position, s.length) = Bytes(Place(n), s.length)
                /\ Occurrences(snd.tx \o snd.wait \o snd.priority, n) = IF s.acked THEN 0 ELSE 1
  <2> DEFINE s == snd.segments[n]
  <2>1. s.position = Place(n) % TxLength /\ from <= Place(n) /\ Ends(snd, n) <= Place(snd.next)
    BY <1>1 DEF SegmentsOK
  <2>2. s.length \in Nat
    <3>1. s.length \in 1 .. MSS
      BY <1>2
    <3> QED BY <3>1, WindowNumbers
  <2>3. Holds(txStream, Place(n), Place(n) + s.length)
    <3> SUFFICES ASSUME NEW b \in Place(n) .. Ends(snd, n) - 1 PROVE txStream.bytes[b % TxLength] = b + 1
      BY <1>2 DEF Holds, Ends
    <3>1. b \in from .. written - 1
      BY <1>1, <1>2, <2>1
    <3> QED BY <1>1, <1>2, <3>1 DEF Holds
  <2>4. StreamPeek(txStream, s.position, s.length) = Bytes(Place(n), s.length)
    <3> DEFINE p == Place(n)
               l == s.length
    <3>1. p \in Nat /\ l \in Nat /\ Holds(txStream, p, p + l)
      BY <1>2, <2>2, <2>3
    <3> HIDE DEF p, l
    <3>2. StreamPeek(txStream, p % TxLength, l) = Bytes(p, l)
      BY <1>1, <1>2, <3>1, PeekDoes
    <3> QED BY <2>1, <3>2 DEF p, l
  <2>5. Unreported(snd, n) <=> ~s.acked
    BY DEF Unreported
  <2>6. IF Unreported(snd, n) THEN QueuedOnce(snd, n) ELSE QueuedNever(snd, n)
    BY <1>1, <1>2 DEF QueuesOK
  <2> DEFINE two == snd.tx \o snd.wait
             all == two \o snd.priority
  <2>7. /\ two \in Seq(Numbers)
        /\ Nowhere(two, n) <=> Nowhere(snd.tx, n) /\ Nowhere(snd.wait, n)
        /\ Nowhere(snd.tx, n) /\ Once(snd.wait, n) => Once(two, n)
        /\ Once(snd.tx, n) /\ Nowhere(snd.wait, n) => Once(two, n)
    BY <1>2, JoinedOnce
  <2> HIDE DEF two
  <2>8. /\ all \in Seq(Numbers)
        /\ Nowhere(all, n) <=> Nowhere(two, n) /\ Nowhere(snd.priority, n)
        /\ Nowhere(two, n) /\ Once(snd.priority, n) => Once(all, n)
        /\ Once(two, n) /\ Nowhere(snd.priority, n) => Once(all, n)
    BY <1>2, <2>7, JoinedOnce
  <2> HIDE DEF all
  <2>9. CASE s.acked
    <3>1. Nowhere(all, n)
      BY <2>5, <2>6, <2>7, <2>8, <2>9 DEF QueuedNever
    <3> QED BY <2>4, <2>8, <2>9, <3>1, Occurs DEF all, two
  <2>10. CASE ~s.acked
    <3>1. Once(all, n)
      BY <2>5, <2>6, <2>7, <2>8, <2>10 DEF QueuedOnce
    <3> QED BY <2>4, <2>8, <2>10, <3>1, Occurs DEF all, two
  <2> QED BY <2>9, <2>10
<1> QED BY <1>1, <1>3, <1>4, <1>5 DEF EveryByteTracked

(* A new stream is empty.                                                  *)
LEMMA NewIsFilled ==
  ASSUME NEW length \in Nat \ {0}
  PROVE  /\ Filled(NewStream(length), length, 0, 0) /\ NewStream(length).mid = 0 /\ 0 % length = 0
         /\ \A from \in Nat : Holds(NewStream(length), from, from)
<1>1. 0 % length = 0 /\ 0 \in 0 .. length - 1
  BY Wrapped
<1>2. NewStream(length) \in Streams(length)
  BY <1>1 DEF NewStream, Streams
<1>3. NewStream(length).tail = 0 /\ NewStream(length).head = 0 /\ NewStream(length).mid = 0
  BY DEF NewStream
<1>4. \A from \in Nat : Holds(NewStream(length), from, from)
  BY DEF Holds
<1> QED BY <1>1, <1>2, <1>3, <1>4 DEF Filled

(* The invariant holds at first.                                           *)
LEMMA WindowStarts ==
  ASSUME WindowInit
  PROVE  WindowInv
<1>1. FirstSequence \in Numbers /\ Place(FirstSequence) = 0
  <2>1. FirstSequence \in Numbers /\ FirstSequence \in Int
    BY WindowNumbers DEF Numbers
  <2> QED BY <2>1, PlaceIs
<1>2. TxLength \in Nat \ {0} /\ RxLength \in Nat \ {0} /\ MaxBytes \in Nat
  BY WindowNumbers
<1>3. /\ snd.current = FirstSequence /\ snd.highest = FirstSequence /\ snd.next = FirstSequence
      /\ snd.segments = <<>> /\ snd.tx = <<>> /\ snd.wait = <<>> /\ snd.priority = <<>> /\ snd.pxHeadSegment = None
      /\ snd.window = TxWindow /\ snd.peer = Smaller(RxWindow, RxLength - 1)
      /\ snd = [snd EXCEPT !.peer = Smaller(RxWindow, RxLength - 1)]
      /\ DOMAIN snd = {"current", "highest", "next", "segments", "tx", "wait", "priority", "pxHeadSegment", "window", "peer"}
  BY DEF WindowInit, NewSender
<1>4. DOMAIN snd.segments = {} /\ snd.segments \in SegmentMaps
  <2>1. <<>> \in [{} -> Segments] /\ DOMAIN <<>> = {}
    OBVIOUS
  <2>2. {} \in SUBSET Numbers
    OBVIOUS
  <2> QED BY <1>3, <2>1, <2>2, SegmentMap
<1>5. snd \in Windows
  <2>1. TxWindow \in Int /\ Smaller(RxWindow, RxLength - 1) \in Int
    BY WindowNumbers DEF Smaller
  <2>2. snd = [current |-> FirstSequence, highest |-> FirstSequence, next |-> FirstSequence, segments |-> <<>>,
               tx |-> <<>>, wait |-> <<>>, priority |-> <<>>, pxHeadSegment |-> None, window |-> TxWindow,
               peer |-> Smaller(RxWindow, RxLength - 1)]
    BY DEF WindowInit, NewSender
  <2> QED BY <1>1, <1>3, <1>4, <2>1, <2>2 DEF Windows
<1>6. WindowOK(snd)
  <2>1. QueuesOK(snd)
    BY <1>3, <1>4 DEF QueuesOK, QueuedNever, Nowhere, Unreported
  <2>2. SegmentsOK(snd)
    BY <1>1, <1>2, <1>3, <1>4 DEF SegmentsOK
  <2> QED BY <1>5, <2>1, <2>2 DEF WindowOK
<1>7. SenderOK(snd, txStream, written)
  <2>1. txStream = NewStream(TxLength) /\ written = 0
    BY DEF WindowInit
  <2> QED BY <1>1, <1>2, <1>3, <1>6, <2>1, NewIsFilled DEF SenderOK
<1>8. /\ rcv.current = FirstSequence /\ rcv.segments = {} /\ rcv \in Receivers
  <2>1. Plus(FirstSequence, RxWindow) \in Int
    <3>1. FirstSequence \in Int /\ RxWindow \in Int
      BY WindowNumbers
    <3> QED BY <3>1, NumbersFromInt, PlaceNat
  <2> QED BY <1>1, <2>1 DEF WindowInit, NewReceiver, Receivers
<1>9. ReceiverOK(rcv, rxStream, consumed)
  <2>1. rxStream = NewStream(RxLength) /\ consumed = 0
    BY DEF WindowInit
  <2>2. Spread({})
    BY FS_EmptySet DEF Spread
  <2> QED BY <1>1, <1>2, <1>8, <2>1, <2>2, NewIsFilled DEF ReceiverOK
<1>10. segmentsOut = {} /\ acksOut = {}
  BY DEF WindowInit
<1>11. Tiles(rcv, segmentsOut) = {} /\ Marks(rcv, segmentsOut, acksOut) = {0}
  BY <1>1, <1>8, <1>10 DEF Marks, Tiles, Flying, Reported
<1>12. Sound(snd, rcv, segmentsOut, acksOut)
  BY <1>1, <1>3, <1>4, <1>11 DEF Sound, Matches, Split
<1> QED BY <1>1, <1>3, <1>7, <1>8, <1>9, <1>10, <1>12 DEF WindowInv

(* What the invariant says of the types.                                   *)
LEMMA InvTypes ==
  ASSUME WindowInv
  PROVE  /\ TxLength \in Nat \ {0} /\ RxLength \in Nat \ {0} /\ MaxBytes \in Nat
         /\ WindowOK(snd) /\ snd \in Windows /\ snd.current \in Numbers /\ snd.next \in Numbers /\ rcv.current \in Numbers
         /\ Place(snd.current) \in Nat /\ Place(snd.next) \in Nat /\ Place(rcv.current) \in Nat
         /\ Place(snd.current) <= Place(snd.next) /\ Place(snd.next) <= written /\ written <= MaxBytes
         /\ written \in Nat /\ consumed \in Nat /\ consumed <= Place(rcv.current)
         /\ txStream \in Streams(TxLength) /\ rxStream \in Streams(RxLength)
         /\ txStream.length = TxLength /\ rxStream.length = RxLength
         /\ Filled(txStream, TxLength, Place(snd.current), written)
         /\ Filled(rxStream, RxLength, consumed, Place(rcv.current)) /\ rcv \in Receivers
<1>1. SenderOK(snd, txStream, written) /\ ReceiverOK(rcv, rxStream, consumed)
  BY DEF WindowInv
<1>2. snd \in Windows /\ WindowOK(snd) /\ Place(snd.current) <= Place(snd.next) /\ Place(snd.next) <= written /\ written <= MaxBytes
  BY <1>1 DEF SenderOK, WindowOK, SegmentsOK
<1>3. rcv \in Receivers /\ rcv.current \in Numbers
  BY <1>1 DEF ReceiverOK, Receivers
<1>4. Filled(txStream, TxLength, Place(snd.current), written) /\ Filled(rxStream, RxLength, consumed, Place(rcv.current))
  BY <1>1 DEF SenderOK, ReceiverOK
<1>5. /\ txStream \in Streams(TxLength) /\ rxStream \in Streams(RxLength) /\ written \in Nat /\ consumed \in Nat
      /\ consumed <= Place(rcv.current)
  BY <1>4 DEF Filled
<1> QED BY <1>2, <1>3, <1>4, <1>5, WindowTypes, PlaceNat, WindowNumbers DEF Streams

(* FreeRTOS_send                                                           *)
LEMMA WritesKeep ==
  ASSUME WindowInv, UserWrites
  PROVE  WindowInv'
<1> DEFINE from == Place(snd.current)
<1>1. PICK count \in 1 .. Smaller(GetSpace(txStream), MaxBytes - written) :
         /\ txStream' = StreamAdd(txStream, 0, [i \in 1 .. count |-> written + i], count)
         /\ written' = written + count
  BY DEF UserWrites
<1>2. /\ TxLength \in Nat \ {0} /\ from \in Nat /\ written \in Nat /\ Filled(txStream, TxLength, from, written)
      /\ from <= written /\ MaxBytes \in Nat /\ written <= MaxBytes /\ written - from <= TxLength - 1
  BY InvTypes DEF Filled
<1>3. GetSpace(txStream) = TxLength - 1 - (written - from)
  <2> HIDE DEF from
  <2> QED BY <1>2, FilledSizes
<1>4. count \in Nat \ {0} /\ 0 + count <= TxLength - 1 - (written - from) /\ written + count <= MaxBytes
  <2>1. GetSpace(txStream) \in Int /\ MaxBytes - written \in Int
    BY <1>2, <1>3
  <2>2. Smaller(GetSpace(txStream), MaxBytes - written) <= GetSpace(txStream)
        /\ Smaller(GetSpace(txStream), MaxBytes - written) <= MaxBytes - written
        /\ Smaller(GetSpace(txStream), MaxBytes - written) \in Int
    BY <2>1 DEF Smaller
  <2>3. count <= GetSpace(txStream) /\ count <= MaxBytes - written /\ count \in Nat \ {0}
    BY <2>1, <2>2
  <2> QED BY <1>2, <1>3, <2>3
<1>5. [i \in 1 .. count |-> written + i] = Bytes(written + 0, count)
  BY <1>2 DEF Bytes
<1>6. Bytes(written + 0, count) \in Seq(Nat) /\ Bytes(written + 0, count) # <<>>
  <2>1. written + 0 \in Nat
    BY <1>2
  <2>2. Bytes(written + 0, count) \in Seq(Nat) /\ Len(Bytes(written + 0, count)) = count
    BY <1>4, <2>1, BytesAre
  <2> QED BY <1>4, <2>2
<1>7. /\ Filled(txStream', TxLength, from, written + count) /\ Holds(txStream', written, written + count)
      /\ \A f, t \in Nat : from <= f /\ t <= from + TxLength /\ Holds(txStream, f, t) => Holds(txStream', f, t)
      /\ txStream'.mid = txStream.mid /\ txStream'.length = TxLength
  <2> DEFINE data == Bytes(written + 0, count)
             y == StreamAdd(txStream, 0, data, count)
  <2>1. txStream' = y
    BY <1>1, <1>5
  <2> HIDE DEF data, from
  <2>2. /\ Filled(y, TxLength, from, IF 0 = 0 THEN written + count ELSE written)
        /\ \A f, t \in Nat : from <= f /\ t <= from + TxLength /\ Holds(txStream, f, t) => Holds(y, f, t)
        /\ data # <<>> => Holds(y, written + 0, written + 0 + count)
    BY <1>2, <1>4, <1>6, AddHolds DEF data
  <2>3. y.mid = txStream.mid
    BY <1>2, <1>4, <1>6, AddDoes DEF data
  <2> HIDE DEF y
  <2>4. written + 0 = written /\ data # <<>>
    BY <1>2, <1>6 DEF data
  <2> QED BY <2>1, <2>2, <2>3, <2>4 DEF Filled, Streams
<1>8. Holds(txStream', from, written + count)
  <2>1. Holds(txStream', from, written)
    <3>1. Holds(txStream, from, written) /\ written <= from + TxLength
      BY <1>2 DEF WindowInv, SenderOK
    <3> QED BY <1>2, <1>7, <3>1
  <2> DEFINE to == written + count
  <2> SUFFICES Holds(txStream', from, to)
    OBVIOUS
  <2> SUFFICES ASSUME NEW b \in from .. to - 1 PROVE txStream'.bytes[b % TxLength] = b + 1
    <3> HIDE DEF to
    <3> QED BY <1>7 DEF Holds
  <2>2. CASE b < written
    BY <1>2, <1>7, <2>1, <2>2 DEF Holds
  <2>3. CASE written <= b
    BY <1>2, <1>7, <2>3 DEF Holds
  <2> QED BY <1>2, <2>2, <2>3
<1>9. UNCHANGED <<snd, rcv, rxStream, consumed, segmentsOut, acksOut>>
  BY DEF UserWrites
<1>10. SenderOK(snd', txStream', written')
  <2>1. WindowOK(snd) /\ Place(snd.next) <= written /\ Place(snd.next) \in Nat /\ txStream.mid = Place(snd.next) % TxLength
    BY InvTypes DEF WindowInv, SenderOK
  <2> QED BY <1>1, <1>2, <1>4, <1>7, <1>8, <1>9, <2>1 DEF SenderOK
<1> QED BY <1>9, <1>10 DEF WindowInv

(* FreeRTOS_recv                                                           *)
LEMMA ReadsKeep ==
  ASSUME WindowInv, UserReads
  PROVE  WindowInv'
<1> DEFINE at == Place(rcv.current)
<1>1. PICK count \in 1 .. GetSize(rxStream) :
        /\ rxStream' = StreamTake(rxStream, count)
        /\ consumed' = consumed + count
        /\ rcv' \in {rcv, [rcv EXCEPT !.bLowWater = FALSE, !.bWinChange = TRUE]}
  BY DEF UserReads
<1>2. /\ RxLength \in Nat \ {0} /\ Filled(rxStream, RxLength, consumed, at) /\ at \in Nat /\ consumed \in Nat /\ consumed <= at
      /\ rcv \in Receivers /\ rxStream.length = RxLength
  BY InvTypes
<1>3. count \in 0 .. at - consumed /\ count \in Nat
  <2>1. GetSize(rxStream) = at - consumed
    <3> HIDE DEF at
    <3> QED BY <1>2, FilledSizes
  <2> QED BY <1>2, <2>1
<1>4. Filled(rxStream', RxLength, consumed + count, at) /\ rxStream'.bytes = rxStream.bytes /\ rxStream'.length = RxLength
  <2> HIDE DEF at
  <2> QED BY <1>1, <1>2, <1>3, TakeDoes
<1>5. rcv' \in Receivers /\ rcv'.current = rcv.current /\ rcv'.segments = rcv.segments
  BY <1>1, <1>2 DEF Receivers
<1>6. ReceiverOK(rcv', rxStream', consumed')
  <2>1. /\ Spread(rcv.segments) /\ at <= MaxBytes /\ Holds(rxStream, consumed, at)
        /\ \A s \in rcv.segments : at < Place(s.number) /\ To(s) <= consumed + RxLength - 1 /\ Holds(rxStream, Place(s.number), To(s))
    BY DEF WindowInv, ReceiverOK
  <2>2. Holds(rxStream', consumed + count, at)
    <3>1. \A b \in consumed + count .. at - 1 : b \in consumed .. at - 1
      BY <1>2, <1>3
    <3> QED BY <1>2, <1>4, <2>1, <3>1 DEF Holds
  <2>3. ASSUME NEW s \in rcv.segments PROVE To(s) <= consumed + count + RxLength - 1 /\ Holds(rxStream', Place(s.number), To(s))
    <3>1. To(s) \in Nat
      BY <2>1, SpreadTypes
    <3>2. Holds(rxStream', Place(s.number), To(s))
      BY <1>2, <1>4, <2>1 DEF Holds
    <3> QED BY <1>2, <1>3, <2>1, <3>1, <3>2
  <2> QED BY <1>1, <1>4, <1>5, <2>1, <2>2, <2>3 DEF ReceiverOK
<1>7. UNCHANGED <<snd, txStream, written, segmentsOut, acksOut>>
  BY DEF UserReads
<1>8. Sound(snd, rcv', segmentsOut, acksOut) /\ \A a \in acksOut : AckOK(rcv', a)
  BY <1>5 DEF WindowInv, Sound, Tiles, Marks, AckOK, Arrived
<1> QED BY <1>5, <1>6, <1>7, <1>8 DEF WindowInv

(* xTCPSocketCheck of the sender                                           *)
LEMMA SenderChecks ==
  ASSUME WindowInv, SenderCheck
  PROVE  WindowInv'
<1> DEFINE tiles == Tiles(rcv, segmentsOut)
           marks == Marks(rcv, segmentsOut, acksOut)
           from == Place(snd.current)
<1>1. /\ WindowOK(snd) /\ marks \in SUBSET Nat /\ Matches(snd, tiles, marks) /\ \A t \in tiles : t[1] \in marks /\ t[2] \in marks
      /\ Filled(txStream, TxLength, from, written) /\ written <= MaxBytes /\ from <= Place(snd.next) /\ Place(snd.next) <= written
      /\ txStream.mid = Place(snd.next) % TxLength /\ Holds(txStream, from, written) /\ written \in Nat
  BY InvTypes, TilesMarked DEF WindowInv, SenderOK, Sound, Split
<1>2. /\ WindowOK(snd') /\ Matches(snd', tiles, marks) /\ snd'.current = snd.current /\ Place(snd'.next) <= written
      /\ Filled(txStream', TxLength, from, written) /\ txStream'.bytes = txStream.bytes
      /\ txStream'.mid = Place(snd'.next) % TxLength /\ txStream'.length = TxLength
  <2>1. snd' = TxAdd(snd, txStream) /\ txStream' = AddTxData(snd, txStream)
    BY DEF SenderCheck
  <2> HIDE DEF tiles, marks, from
  <2>2. LET v == TxAdd(snd, txStream)
            s == AddTxData(snd, txStream)
        IN /\ WindowOK(v) /\ Matches(v, tiles, marks) /\ v.current = snd.current
           /\ Place(v.next) <= written
           /\ Filled(s, TxLength, from, written) /\ s.bytes = txStream.bytes /\ s.mid = Place(v.next) % TxLength /\ s.length = TxLength
    BY <1>1, TxAddKeeps
  <2> QED BY <2>1, <2>2
<1>3. txStream.length = TxLength
  BY InvTypes
<1>4. SenderOK(snd', txStream', written)
  <2>1. Holds(txStream', from, written)
    BY <1>1, <1>2, <1>3 DEF Holds
  <2> QED BY <1>1, <1>2, <2>1 DEF SenderOK
<1>5. UNCHANGED <<rcv, rxStream, written, consumed, segmentsOut, acksOut>>
  BY DEF SenderCheck
<1>6. Sound(snd', rcv, segmentsOut, acksOut)
  BY <1>2 DEF WindowInv, Sound
<1> QED BY <1>2, <1>4, <1>5, <1>6 DEF WindowInv

(* prvTCPPrepareSend: a segment is sent.                                   *)
LEMMA SendsKeep ==
  ASSUME WindowInv, NEW expired, SendSegment(expired)
  PROVE  WindowInv'
<1> DEFINE n == TxChoice(snd, expired)
           tiles == Tiles(rcv, segmentsOut)
           marks == Marks(rcv, segmentsOut, acksOut)
           from == Place(snd.current)
           tile == <<Place(n), Ends(snd, n)>>
           length == snd.segments[n].length
           packet == [number |-> n, data |-> StreamPeek(txStream, snd.segments[n].position, length)]
<1>1. /\ WindowOK(snd) /\ marks \in SUBSET Nat /\ Matches(snd, tiles, marks) /\ Split(tiles, marks) /\ n # None
      /\ snd' = TxGet(snd, expired) /\ segmentsOut' = Sent(segmentsOut, packet, MaxInFlight)
      /\ UNCHANGED <<txStream, rcv, rxStream, written, consumed, acksOut>>
  BY InvTypes DEF WindowInv, Sound, Split, SendSegment
<1>2. /\ WindowOK(snd') /\ snd'.current = snd.current /\ snd'.next = snd.next
      /\ Matches(snd', tiles \cup {tile}, marks \cup {Place(n), Ends(snd, n)})
  <2> HIDE DEF tiles, marks
  <2> QED BY <1>1, TxGetKeeps
<1>3. Unreported(snd, n) /\ n \in Numbers
  <2> HIDE DEF n
  <2> QED BY <1>1, ChoiceIs DEF n
<1> HIDE DEF n
<1>4. /\ n \in DOMAIN snd.segments /\ Place(n) \in Nat /\ length \in 1 .. MSS /\ Ends(snd, n) \in Nat /\ Place(n) < Ends(snd, n)
      /\ snd.segments[n].position = Place(n) % TxLength /\ from <= Place(n) /\ Ends(snd, n) <= Place(snd.next)
      /\ Ends(snd, n) = Place(n) + length /\ from \in Nat
  BY <1>1, <1>3, WindowTypes DEF WindowOK, SegmentsOK, Unreported, Ends
<1>5. PacketOK(packet) /\ packet.number = n /\ packet.data # <<>> /\ Len(packet.data) = length
  <2>1. Holds(txStream, Place(n), Place(n) + length)
    <3> SUFFICES ASSUME NEW b \in Place(n) .. Ends(snd, n) - 1 PROVE txStream.bytes[b % TxLength] = b + 1
      BY <1>4, InvTypes DEF Holds
    <3>1. b \in from .. written - 1
      BY <1>4, InvTypes
    <3>2. Holds(txStream, from, written)
      BY DEF WindowInv, SenderOK
    <3> QED BY <3>1, <3>2, InvTypes DEF Holds
  <2>2. length \in Nat \ {0} /\ length <= MSS
    BY <1>4, WindowNumbers
  <2> DEFINE p == Place(n)
  <2>3. p \in Nat /\ Holds(txStream, p, p + length) /\ TxLength \in Nat \ {0} /\ txStream \in Streams(TxLength) /\ length \in Nat
    BY <1>4, <2>1, <2>2, InvTypes
  <2> HIDE DEF p, length
  <2>4. StreamPeek(txStream, p % TxLength, length) = Bytes(p, length)
    BY <2>3, PeekDoes
  <2>5. packet.data = Bytes(Place(n), length) /\ packet.number = n
    BY <1>4, <2>4 DEF p
  <2>6. Bytes(p, length) \in Seq(Nat) /\ Len(Bytes(p, length)) = length
    BY <2>3, BytesAre
  <2>7. packet.data \in Seq(Nat) /\ Len(packet.data) = length
    BY <2>5, <2>6 DEF p
  <2> HIDE DEF packet
  <2>8. packet.data # <<>>
    BY <2>2, <2>7
  <2> QED BY <1>3, <2>2, <2>5, <2>7, <2>8 DEF PacketOK
<1> HIDE DEF packet, length
<1>6. \A q \in segmentsOut' : q \in segmentsOut \/ q = packet
  BY <1>1, SentIs
<1>7. /\ Tiles(rcv, segmentsOut') \subseteq tiles \cup {tile}
      /\ Marks(rcv, segmentsOut', acksOut) \subseteq marks \cup {Place(n), Ends(snd, n)}
  <2>1. Tiles(rcv, segmentsOut') \subseteq tiles \cup {tile}
    BY <1>4, <1>5, <1>6 DEF Tiles, Flying
  <2> QED BY <2>1 DEF Marks
<1>8. Sound(snd', rcv, segmentsOut', acksOut)
  <2>1. Matches(snd', Tiles(rcv, segmentsOut'), Marks(rcv, segmentsOut', acksOut))
    BY <1>2, <1>7 DEF Matches
  <2>2. ASSUME NEW t \in tiles \cup {tile}, NEW x \in marks \cup {Place(n), Ends(snd, n)} PROVE Apart(t, x)
    <3>1. CASE t \in tiles /\ x \in marks
      BY <1>1, <3>1 DEF Split
    <3>2. CASE t \in tiles /\ x \in {Place(n), Ends(snd, n)}
      BY <1>1, <1>4, <3>2 DEF Matches
    <3>3. CASE t = tile /\ x \in marks
      BY <1>1, <1>4, <3>3 DEF Matches, Apart
    <3>4. CASE t = tile /\ x \in {Place(n), Ends(snd, n)}
      BY <1>4, <3>4 DEF Apart
    <3> QED BY <2>2, <3>1, <3>2, <3>3, <3>4
  <2>3. marks \cup {Place(n), Ends(snd, n)} \subseteq Nat
    BY <1>1, <1>4
  <2>4. Split(Tiles(rcv, segmentsOut'), Marks(rcv, segmentsOut', acksOut))
    <3> HIDE DEF tiles, marks, tile
    <3> QED BY <1>7, <2>2, <2>3 DEF Split
  <2> QED BY <2>1, <2>4 DEF Sound
<1>9. SenderOK(snd', txStream', written')
  BY <1>1, <1>2 DEF WindowInv, SenderOK
<1>10. \A q \in segmentsOut' : PacketOK(q)
  BY <1>5, <1>6 DEF WindowInv
<1> QED BY <1>1, <1>2, <1>8, <1>9, <1>10 DEF WindowInv

(* Packets that carry no byte, or that vanish.                             *)
LEMMA NetworkKeeps ==
  ASSUME WindowInv, UNCHANGED <<snd, txStream, rcv, rxStream, written, consumed>>,
         NEW p, p.number \in Numbers, p.data = <<>>,
         segmentsOut' \subseteq segmentsOut \cup {p}, acksOut' \subseteq acksOut
  PROVE  WindowInv'
<1>1. \A q \in segmentsOut' : q \in segmentsOut \/ q = p
  OBVIOUS
<1>2. PacketOK(p)
  <2>1. <<>> = Bytes(Place(p.number), 0) /\ <<>> \in Seq(Nat) /\ Len(<<>>) = 0
    BY DEF Bytes
  <2> QED BY <2>1, WindowNumbers DEF PacketOK
<1>3. Tiles(rcv, segmentsOut') \subseteq Tiles(rcv, segmentsOut)
  BY <1>1 DEF Tiles, Flying
<1>4. Place(rcv.current) \in Marks(rcv, segmentsOut, acksOut)
      /\ Reported(acksOut') \subseteq Marks(rcv, segmentsOut, acksOut)
  <2>1. Reported(acksOut') \subseteq Reported(acksOut)
    BY ReportedLess
  <2> QED BY <2>1 DEF Marks
<1>5. Sound(snd, rcv, segmentsOut', acksOut')
  BY <1>3, <1>4, SoundLess DEF WindowInv
<1> QED BY <1>1, <1>2, <1>5 DEF WindowInv

(* prvTCPPrepareSend: a probe is sent.                                     *)
LEMMA KeepAliveKeeps ==
  ASSUME WindowInv, SendKeepAlive
  PROVE  WindowInv'
<1> DEFINE p == [number |-> Minus(snd.highest, 1), data |-> <<>>]
<1>1. p.number \in Numbers
  <2>1. snd.highest \in Int
    BY InvTypes, WindowTypes, PlaceNat
  <2> QED BY <2>1, NumbersFromInt
<1>2. segmentsOut' \subseteq segmentsOut \cup {p} /\ acksOut' \subseteq acksOut
      /\ UNCHANGED <<snd, txStream, rcv, rxStream, written, consumed>>
  BY SentIs DEF SendKeepAlive
<1>3. p.data = <<>>
  OBVIOUS
<1> HIDE DEF p
<1> QED BY <1>1, <1>2, <1>3, NetworkKeeps

(* Nothing is sent, a packet is lost, or nothing happens.                  *)
LEMMA OthersKeep ==
  ASSUME WindowInv, NothingToSend \/ Lose \/ UNCHANGED winVars
  PROVE  WindowInv'
<1> DEFINE p == [number |-> FirstSequence, data |-> <<>>]
<1>1. p.number \in Numbers /\ p.data = <<>>
  BY WindowNumbers DEF Numbers
<1>2. segmentsOut' \subseteq segmentsOut \cup {p} /\ acksOut' \subseteq acksOut
      /\ UNCHANGED <<snd, txStream, rcv, rxStream, written, consumed>>
  <2>1. CASE NothingToSend
    BY <2>1 DEF NothingToSend
  <2>2. CASE Lose
    BY <2>2 DEF Lose
  <2>3. CASE UNCHANGED winVars
    BY <2>3 DEF winVars
  <2> QED BY <2>1, <2>2, <2>3
<1> HIDE DEF p
<1> QED BY <1>1, <1>2, NetworkKeeps

(* The window that prvTCPReturnPacket reports is an integer.               *)
LEMMA AdvertisedIs ==
  ASSUME NEW v, NEW t \in Streams(RxLength)
  PROVE  Advertised(v, t) \in Int
<1>1. RxLength \in Nat \ {0}
  BY WindowNumbers
<1>2. FrontSpace(t) \in Int
  <2> DEFINE x == t.tail - t.front - 1
  <2>1. x \in Int /\ t.length = RxLength
    BY <1>1 DEF Streams
  <2> HIDE DEF x
  <2>2. x % RxLength \in 0 .. RxLength - 1
    BY <1>1, <2>1, InRing
  <2> QED BY <1>1, <2>1, <2>2 DEF FrontSpace, FreeBetween, x
<1> QED BY <1>2, WindowNumbers DEF Advertised, Smaller

(* What the receiver does with a packet, and its answer.                   *)
LEMMA ReceiverMoves ==
  ASSUME WindowInv, NEW v, NEW t, ReceiverOK(v, t, consumed), Place(rcv.current) <= Place(v.current),
         \A b \in Nat : Arrived(rcv, b) => Arrived(v, b),
         Tiles(v, segmentsOut) \subseteq Tiles(rcv, segmentsOut), Place(v.current) \in Marks(rcv, segmentsOut, acksOut),
         NEW sack,
         \/ sack = <<>>
         \/ /\ Ranged(sack) /\ {Place(sack[1]), Place(sack[2])} \subseteq Marks(rcv, segmentsOut, acksOut)
            /\ \A b \in Place(sack[1]) .. Place(sack[2]) - 1 : Arrived(v, b),
         rcv' \in Receivers, rcv'.current = v.current, rcv'.segments = v.segments, rxStream' = t,
         acksOut' \subseteq acksOut \cup {Acknowledgement(v, t, sack)}, segmentsOut' \subseteq segmentsOut,
         UNCHANGED <<snd, txStream, written, consumed>>
  PROVE  WindowInv'
<1> DEFINE a == Acknowledgement(v, t, sack)
           marks == Marks(rcv, segmentsOut, acksOut)
<1>1. a.ack = v.current /\ a.window = Advertised(v, t) /\ a.sack = sack
  BY DEF Acknowledgement
<1>2. v.current \in Numbers /\ Place(v.current) \in Nat /\ Place(rcv.current) \in Nat /\ Place(snd.current) \in Nat
  BY PlaceNat, InvTypes DEF ReceiverOK, Receivers
<1>3. Advertised(v, t) \in Int
  BY AdvertisedIs DEF ReceiverOK, Filled
<1>4. AckOK(v, a)
  BY <1>1, <1>2, <1>3 DEF AckOK
<1> HIDE DEF a
<1>5. ReceiverOK(rcv', rxStream', consumed')
  BY DEF ReceiverOK
<1>6. \A b : Arrived(v, b) <=> Arrived(rcv', b)
  BY DEF Arrived
<1>7. ASSUME NEW x \in acksOut' PROVE AckOK(rcv', x)
  <2>1. CASE x = a
    BY <1>4, <1>6, <2>1 DEF AckOK
  <2>2. CASE x \in acksOut
    <3>1. AckOK(rcv, x)
      BY <2>2 DEF WindowInv
    <3>2. x.ack \in Numbers /\ Place(x.ack) <= Place(rcv'.current) /\ x.window \in Int
      BY <1>2, <3>1, PlaceNat DEF AckOK
    <3>3. ASSUME x.sack # <<>>, NEW b \in Place(x.sack[1]) .. Place(x.sack[2]) - 1 PROVE Arrived(rcv', b)
      <4>1. Ranged(x.sack) /\ Arrived(rcv, b)
        BY <3>1, <3>3 DEF AckOK
      <4>2. b \in Nat
        <5>1. PICK first \in Numbers, last \in Numbers : x.sack = <<first, last>>
          BY <4>1 DEF Ranged
        <5>2. Place(first) \in Nat /\ Place(last) \in Nat /\ x.sack[1] = first /\ x.sack[2] = last
          BY <5>1, PlaceNat
        <5> QED BY <3>3, <5>2
      <4> QED BY <1>6, <4>1, <4>2
    <3> QED BY <3>1, <3>2, <3>3 DEF AckOK
  <2> QED BY <1>7, <2>1, <2>2 DEF a
<1>8. Tiles(rcv', segmentsOut') \subseteq Tiles(rcv, segmentsOut)
  BY DEF Tiles, Flying
<1>9. Reported(acksOut') \subseteq marks
  <2>1. acksOut' \subseteq acksOut \cup {a}
    BY DEF a
  <2>2. Reported(acksOut') \subseteq Reported(acksOut) \cup {Place(a.ack)} \cup
          IF a.sack = <<>> THEN {} ELSE {Place(a.sack[1]), Place(a.sack[2])}
    BY <2>1, ReportedMore
  <2>3. Reported(acksOut) \subseteq marks
    BY DEF Marks
  <2> HIDE DEF marks
  <2>4. {Place(a.ack)} \subseteq marks /\ (a.sack # <<>> => {Place(a.sack[1]), Place(a.sack[2])} \subseteq marks)
    BY <1>1 DEF marks
  <2> QED BY <2>2, <2>3, <2>4
<1>10. Sound(snd, rcv', segmentsOut', acksOut')
  BY <1>8, <1>9, SoundLess DEF WindowInv
<1>11. \A p \in segmentsOut' : PacketOK(p)
  BY DEF WindowInv
<1>12. Place(snd.current) <= Place(rcv'.current)
  BY <1>2 DEF WindowInv
<1> QED BY <1>5, <1>7, <1>10, <1>11, <1>12 DEF WindowInv

(* prvTCPReturnPacket: the answer, and the bits that it clears.            *)
LEMMA AnswersDo ==
  ASSUME NEW v \in Receivers, NEW t \in Streams(RxLength), NEW sack, Answers(v, t, sack)
  PROVE  /\ rcv' \in Receivers /\ rcv'.current = v.current /\ rcv'.segments = v.segments
         /\ acksOut' \subseteq acksOut \cup {Acknowledgement(v, t, sack)}
<1> DEFINE top == Plus(v.current, Advertised(v, t))
<1>1. rcv' = [v EXCEPT !.bWinChange = FALSE, !.ackMessage = FALSE, !.ulHighestRxAllowed = top]
  BY DEF Answers, Answered
<1>2. top \in Int
  <2>1. v.current \in Int /\ Advertised(v, t) \in Int
    BY AdvertisedIs, PlaceNat DEF Receivers
  <2>2. Plus(v.current, Advertised(v, t)) \in Numbers
    BY <2>1, NumbersFromInt
  <2> QED BY <2>2, PlaceNat
<1> HIDE DEF top
<1>3. rcv' \in Receivers /\ rcv'.current = v.current /\ rcv'.segments = v.segments
  BY <1>1, <1>2 DEF Receivers
<1> QED BY <1>3, SentIs DEF Answers

(* xTCPSocketCheck of the receiver                                         *)
LEMMA ChecksKeep ==
  ASSUME WindowInv, ReceiverCheck
  PROVE  WindowInv'
<1>1. ReceiverOK(rcv, rxStream, consumed) /\ rcv \in Receivers /\ rxStream \in Streams(RxLength) /\ Place(rcv.current) \in Nat
  BY InvTypes DEF WindowInv
<1>2. Answers(rcv, rxStream, <<>>) /\ UNCHANGED <<snd, txStream, rxStream, written, consumed, segmentsOut>>
  BY DEF ReceiverCheck
<1>3. /\ rcv' \in Receivers /\ rcv'.current = rcv.current /\ rcv'.segments = rcv.segments
      /\ acksOut' \subseteq acksOut \cup {Acknowledgement(rcv, rxStream, <<>>)}
  BY <1>1, <1>2, AnswersDo
<1>4. Place(rcv.current) \in Marks(rcv, segmentsOut, acksOut)
  BY DEF Marks
<1> QED BY <1>1, <1>2, <1>3, <1>4, ReceiverMoves

(* A packet in the network meets no stored segment in part.                *)
LEMMA PacketAligned ==
  ASSUME WindowInv, NEW p \in segmentsOut, p.data # <<>>, NEW r, r.current = rcv.current, r.segments = rcv.segments
  PROVE  /\ Aligned(r, p.number, Len(p.data))
         /\ <<Place(p.number), Place(p.number) + Len(p.data)>> \in Tiles(rcv, segmentsOut)
<1> DEFINE tiles == Tiles(rcv, segmentsOut)
           marks == Marks(rcv, segmentsOut, acksOut)
           tile == <<Place(p.number), Place(p.number) + Len(p.data)>>
<1>1. PacketOK(p) /\ Split(tiles, marks) /\ Matches(snd, tiles, marks)
  BY DEF WindowInv, Sound
<1>2. p.number \in Numbers /\ p.data \in Seq(Nat) /\ Len(p.data) \in 1 .. MSS
  <2>1. p.number \in Numbers /\ p.data \in Seq(Nat) /\ Len(p.data) <= MSS
    BY <1>1 DEF PacketOK
  <2>2. Len(p.data) \in Nat /\ Len(p.data) # 0
    BY <2>1
  <2> QED BY <2>1, <2>2, WindowNumbers
<1>3. tile \in tiles
  BY DEF Tiles, Flying
<1>4. \A s \in rcv.segments : Tile(s) \in tiles
  BY DEF Tiles
<1> HIDE DEF tiles
<1>5. /\ tile[1] \in marks /\ tile[2] \in marks /\ Place(rcv.current) \in marks
      /\ \A s \in rcv.segments : Place(s.number) \in marks /\ To(s) \in marks
  <2>1. tile[1] \in marks /\ tile[2] \in marks /\ Place(rcv.current) \in marks
    BY <1>3 DEF tiles, Marks
  <2>2. ASSUME NEW s \in rcv.segments PROVE Place(s.number) \in marks /\ To(s) \in marks
    <3>1. Tile(s)[1] \in marks /\ Tile(s)[2] \in marks
      BY <1>4 DEF tiles, Marks
    <3>2. Tile(s)[1] = Place(s.number) /\ Tile(s)[2] = To(s)
      BY DEF Tile
    <3> QED BY <3>1, <3>2
  <2> QED BY <2>1, <2>2
<1> HIDE DEF marks
<1>6. Place(p.number) + Len(p.data) <= MaxBytes
  <2>1. Place(p.number) + Len(p.data) <= Place(snd.next)
    BY <1>1, <1>5 DEF Matches
  <2>2. Place(p.number) \in Nat /\ Len(p.data) \in Nat
    BY <1>2, PlaceNat
  <2> QED BY <2>1, <2>2, InvTypes
<1>7. \A t \in tiles, x \in marks : Apart(t, x)
  BY <1>1 DEF Split
<1>8. Place(p.number) \in marks /\ Place(p.number) + Len(p.data) \in marks
  BY <1>5
<1> QED BY <1>2, <1>3, <1>4, <1>5, <1>6, <1>7, <1>8 DEF Aligned, tiles

(* prvTCPHandleState and prvHandleEstablished of the receiver              *)
LEMMA ReceivesKeep ==
  ASSUME WindowInv, NEW p \in segmentsOut, ReceiveSegment(p), segmentsOut' \subseteq segmentsOut
  PROVE  WindowInv'
<1> DEFINE probed == [rcv EXCEPT !.bWinChange = @ \/ Plus(p.number, 1) = rcv.current]
           marks == Marks(rcv, segmentsOut, acksOut)
<1>1. /\ rcv \in Receivers /\ rxStream \in Streams(RxLength) /\ Place(rcv.current) \in Nat /\ ReceiverOK(rcv, rxStream, consumed)
      /\ UNCHANGED <<snd, txStream, written, consumed>>
  BY InvTypes DEF WindowInv, ReceiveSegment
<1>2. probed \in Receivers /\ probed.current = rcv.current /\ probed.segments = rcv.segments
  <2> DEFINE flag == rcv.bWinChange \/ Plus(p.number, 1) = rcv.current
  <2>1. probed = [rcv EXCEPT !.bWinChange = flag]
    OBVIOUS
  <2>2. flag \in BOOLEAN
    BY <1>1 DEF Receivers
  <2> HIDE DEF flag, probed
  <2> QED BY <1>1, <2>1, <2>2 DEF Receivers
<1>3. ReceiverOK(probed, rxStream, consumed)
  <2> HIDE DEF probed
  <2> QED BY <1>1, <1>2 DEF ReceiverOK
<1>4. \A b \in Nat : Arrived(rcv, b) <=> Arrived(probed, b)
  <2> HIDE DEF probed
  <2> QED BY <1>2 DEF Arrived
<1>5. /\ Tiles(probed, segmentsOut) \subseteq Tiles(rcv, segmentsOut) /\ Place(probed.current) \in marks
      /\ \A s \in rcv.segments : To(s) \in marks
  <2> HIDE DEF probed
  <2>1. Tiles(probed, segmentsOut) \subseteq Tiles(rcv, segmentsOut) /\ Place(probed.current) \in marks
    BY <1>2 DEF Tiles, Marks
  <2>2. ASSUME NEW s \in rcv.segments PROVE To(s) \in marks
    <3>1. Tile(s) \in Tiles(rcv, segmentsOut) /\ Tile(s)[2] = To(s)
      BY DEF Tiles, Tile
    <3> QED BY <3>1, TilesMarked
  <2> QED BY <2>1, <2>2
<1>6. CASE p.data = <<>>
  <2>1. /\ rxStream' = rxStream
        /\ Answers(probed, rxStream, <<>>) \/ (rcv' = probed /\ acksOut' = acksOut)
    BY <1>6 DEF ReceiveSegment
  <2> HIDE DEF probed, marks
  <2>2. /\ rcv' \in Receivers /\ rcv'.current = probed.current /\ rcv'.segments = probed.segments
        /\ acksOut' \subseteq acksOut \cup {Acknowledgement(probed, rxStream, <<>>)}
    BY <1>1, <1>2, <2>1, AnswersDo
  <2>3. Place(rcv.current) <= Place(probed.current)
    BY <1>1, <1>2
  <2> QED BY <1>1, <1>3, <1>4, <1>5, <2>1, <2>2, <2>3, ReceiverMoves DEF marks
<1>7. CASE p.data # <<>>
  <2> DEFINE length == Len(p.data)
             outcome == RxCheck(probed, p.number, length, GetSpace(rxStream))
             stored == StoreRxData(outcome, p.data)
             v == stored.window
             t == stored.stream
  <2>1. /\ rxStream' = t
        /\ \/ rcv' = [v EXCEPT !.ackMessage = TRUE] /\ acksOut' = acksOut
           \/ Answers(v, t, outcome.sack)
    BY <1>7 DEF ReceiveSegment
  <2> HIDE DEF probed
  <2>2. Aligned(probed, p.number, length) /\ <<Place(p.number), Place(p.number) + length>> \in Tiles(rcv, segmentsOut)
    BY <1>2, <1>7, PacketAligned
  <2>3. p.data = Bytes(Place(p.number), Len(p.data))
    BY DEF WindowInv, PacketOK
  <2>4. ReceiverOK(v, t, consumed) /\ Advances(probed, v, p.number, length) /\ Reports(probed, v, p.number, length, outcome.sack)
    BY <1>1, <1>2, <2>2, <2>3, RxCheckKeeps
  <2> DEFINE sack == outcome.sack
  <2> HIDE DEF stored, outcome, length
  <2>5. v \in Receivers /\ t \in Streams(RxLength)
    BY <2>4 DEF ReceiverOK, Filled
  <2>6. Place(p.number) \in marks /\ Place(p.number) + length \in marks
    <3> DEFINE tile == <<Place(p.number), Place(p.number) + length>>
    <3>1. tile[1] \in marks /\ tile[2] \in marks
      BY <2>2, TilesMarked
    <3> QED BY <3>1
  <2>7. /\ Place(rcv.current) <= Place(v.current) /\ Place(v.current) \in marks
        /\ \A b \in Nat : Arrived(rcv, b) => Arrived(v, b)
    BY <1>2, <1>4, <1>5, <2>4, <2>6 DEF Advances
  <2>8. Tiles(v, segmentsOut) \subseteq Tiles(rcv, segmentsOut)
    <3> DEFINE new == [number |-> p.number, length |-> length]
    <3>1. v.segments \subseteq rcv.segments \cup {new}
      BY <1>2, <2>4 DEF Advances
    <3>2. Tile(new) = <<Place(p.number), Place(p.number) + length>>
      BY DEF Tile, To
    <3> HIDE DEF new
    <3>3. \A s \in v.segments : Tile(s) \in Tiles(rcv, segmentsOut)
      BY <2>2, <3>1, <3>2 DEF Tiles
    <3>4. Flying(segmentsOut) \subseteq Tiles(rcv, segmentsOut)
      BY DEF Tiles
    <3>5. \A x \in Tiles(v, segmentsOut) : x \in Flying(segmentsOut) \/ \E s \in v.segments : x = Tile(s)
      BY DEF Tiles
    <3> QED BY <3>3, <3>4, <3>5
  <2>9. \/ sack = <<>>
        \/ /\ Ranged(sack) /\ {Place(sack[1]), Place(sack[2])} \subseteq marks
           /\ \A b \in Place(sack[1]) .. Place(sack[2]) - 1 : Arrived(v, b)
    <3> SUFFICES ASSUME sack # <<>>
                 PROVE  /\ Ranged(sack) /\ {Place(sack[1]), Place(sack[2])} \subseteq marks
                        /\ \A b \in Place(sack[1]) .. Place(sack[2]) - 1 : Arrived(v, b)
      OBVIOUS
    <3>1. PICK last \in Numbers :
            /\ sack = <<p.number, last>> /\ Place(p.number) < Place(last)
            /\ Place(last) \in {Place(p.number) + length} \cup {To(s) : s \in probed.segments}
            /\ \A b \in Place(p.number) .. Place(last) - 1 : Arrived(v, b)
      BY <2>4 DEF Reports
    <3>2. Place(last) \in marks
      BY <1>2, <1>5, <2>6, <3>1
    <3>3. sack[1] = p.number /\ sack[2] = last /\ p.number \in Numbers
      BY <2>2, <3>1 DEF Aligned
    <3> HIDE DEF sack, marks
    <3> QED BY <2>6, <3>1, <3>2, <3>3 DEF Ranged
  <2> HIDE DEF v, t, sack, marks
  <2>10. /\ rcv' \in Receivers /\ rcv'.current = v.current /\ rcv'.segments = v.segments
         /\ acksOut' \subseteq acksOut \cup {Acknowledgement(v, t, sack)}
    <3>1. CASE rcv' = [v EXCEPT !.ackMessage = TRUE] /\ acksOut' = acksOut
      BY <2>5, <3>1 DEF Receivers
    <3>2. CASE Answers(v, t, sack)
      BY <2>5, <3>2, AnswersDo
    <3> QED BY <2>1, <3>1, <3>2 DEF v, t, sack
  <2>11. rxStream' = t
    BY <2>1 DEF t
  <2> QED BY <1>1, <2>4, <2>7, <2>8, <2>9, <2>10, <2>11, ReceiverMoves DEF marks, v, t
<1> QED BY <1>6, <1>7

(* The window of the other end is no part of what is kept.                 *)
LEMMA PeerKeeps ==
  ASSUME NEW w, WindowOK(w), NEW tiles, NEW marks, Matches(w, tiles, marks), NEW peer \in Int
  PROVE  LET v == [w EXCEPT !.peer = peer]
         IN WindowOK(v) /\ Matches(v, tiles, marks) /\ v.current = w.current /\ v.next = w.next
<1> DEFINE v == [w EXCEPT !.peer = peer]
<1>1. w \in Windows /\ QueuesOK(w) /\ SegmentsOK(w)
  BY DEF WindowOK
<1>2. /\ v \in Windows /\ v.current = w.current /\ v.next = w.next /\ v.segments = w.segments /\ v.tx = w.tx
      /\ v.wait = w.wait /\ v.priority = w.priority /\ v.pxHeadSegment = w.pxHeadSegment
  BY <1>1 DEF Windows
<1> HIDE DEF v
<1>3. QueuesOK(v)
  BY <1>1, <1>2 DEF QueuesOK, Unreported, QueuedOnce, QueuedNever
<1>4. SegmentsOK(v)
  BY <1>1, <1>2 DEF SegmentsOK, Ends
<1>5. Matches(v, tiles, marks)
  BY <1>2 DEF Matches, Ends
<1>6. WindowOK(v) /\ Matches(v, tiles, marks) /\ v.current = w.current /\ v.next = w.next
  BY <1>2, <1>3, <1>4, <1>5 DEF WindowOK
<1> QED BY <1>6 DEF v

(* A reported range does not reach over what the receiver waits for.       *)
LEMMA ReportedArrived ==
  ASSUME WindowInv, NEW a \in acksOut, a.sack # <<>>, Place(a.sack[1]) <= Place(rcv.current)
  PROVE  Place(a.sack[2]) <= Place(rcv.current)
<1>1. AckOK(rcv, a) /\ ReceiverOK(rcv, rxStream, consumed) /\ Place(rcv.current) \in Nat
  BY InvTypes DEF WindowInv
<1>2. PICK first \in Numbers, last \in Numbers : a.sack = <<first, last>>
  BY <1>1 DEF AckOK, Ranged
<1>3. a.sack[1] = first /\ a.sack[2] = last /\ Place(first) \in Nat /\ Place(last) \in Nat
  BY <1>2, PlaceNat
<1> DEFINE b == Place(rcv.current)
<1> SUFFICES ASSUME b < Place(last) PROVE FALSE
  BY <1>1, <1>3
<1>4. Arrived(rcv, b)
  <2>1. b \in Place(a.sack[1]) .. Place(a.sack[2]) - 1
    BY <1>1, <1>3
  <2> HIDE DEF b
  <2> QED BY <1>1, <2>1 DEF AckOK
<1>5. ~(b < b)
  BY <1>1
<1>6. PICK s \in rcv.segments : Place(s.number) <= b
  BY <1>4, <1>5 DEF Arrived
<1>7. b < Place(s.number) /\ Place(s.number) \in Nat
  BY <1>1, SpreadTypes DEF ReceiverOK
<1> QED BY <1>1, <1>6, <1>7

(* prvCheckOptions and prvHandleEstablished of the sender                  *)
LEMMA AcksKeep ==
  ASSUME WindowInv, NEW a \in acksOut, ReceiveAck(a), acksOut' \subseteq acksOut
  PROVE  WindowInv'
<1> DEFINE tiles == Tiles(rcv, segmentsOut)
           marks == Marks(rcv, segmentsOut, acksOut)
           from == Place(snd.current)
           reported == TxSack(snd, a.sack)
           heard == TxAck(reported, a.ack)
           acked == [heard EXCEPT !.peer = a.window]
           freed == StreamTake(txStream, Minus(acked.current, snd.current))
<1>1. /\ WindowOK(snd) /\ marks \in SUBSET Nat /\ Matches(snd, tiles, marks) /\ \A t \in tiles : t[1] \in marks /\ t[2] \in marks
      /\ Filled(txStream, TxLength, from, written) /\ written <= MaxBytes /\ from <= Place(snd.next) /\ Place(snd.next) <= written
      /\ txStream.mid = Place(snd.next) % TxLength /\ Holds(txStream, from, written) /\ written \in Nat
      /\ Split(tiles, marks)
  BY InvTypes, TilesMarked DEF WindowInv, SenderOK, Sound, Split
<1>2. /\ snd.current \in Numbers /\ from \in Nat /\ Place(rcv.current) \in Nat /\ from <= Place(rcv.current)
      /\ Place(snd.next) \in Nat /\ TxLength \in Nat \ {0} /\ txStream.length = TxLength /\ snd.next \in Numbers
  BY InvTypes DEF WindowInv
<1>3. AckOK(rcv, a) /\ a.ack \in Numbers /\ Place(a.ack) \in Nat /\ Place(a.ack) <= Place(rcv.current) /\ a.window \in Int
  BY PlaceNat DEF WindowInv, AckOK
<1>4. /\ snd' = TxAdd(acked, freed) /\ txStream' = AddTxData(acked, freed)
      /\ UNCHANGED <<rcv, rxStream, written, consumed, segmentsOut>>
  BY DEF ReceiveAck
<1>5. Place(a.ack) \in marks /\ (a.sack # <<>> => Place(a.sack[2]) \in marks)
  <2>1. Place(a.ack) \in Reported(acksOut)
    BY DEF Reported
  <2>2. a.sack # <<>> => Place(a.sack[2]) \in Reported(acksOut)
    BY DEF Reported
  <2> QED BY <2>1, <2>2 DEF Marks
<1>6. SackOK(a.sack, marks)
  <2>1. CASE a.sack = <<>>
    BY <2>1 DEF SackOK
  <2>2. CASE a.sack # <<>>
    <3>1. PICK first \in Numbers, last \in Numbers : a.sack = <<first, last>> /\ Place(first) < Place(last)
      BY <1>3, <2>2 DEF AckOK, Ranged
    <3>2. a.sack[2] = last
      BY <3>1
    <3> HIDE DEF marks
    <3> QED BY <1>5, <2>2, <3>1, <3>2 DEF SackOK
  <2> QED BY <2>1, <2>2
<1> HIDE DEF tiles, marks
<1>7. /\ WindowOK(reported) /\ Matches(reported, tiles, marks) /\ reported.next = snd.next
      /\ reported.current = IF a.sack # <<>> /\ a.sack[1] = snd.current THEN a.sack[2] ELSE snd.current
  BY <1>1, <1>6, TxSackKeeps
<1>8. from <= Place(reported.current) /\ Place(reported.current) <= Place(rcv.current) /\ Place(reported.current) \in Nat
  <2>1. CASE a.sack # <<>> /\ a.sack[1] = snd.current
    <3>1. PICK first \in Numbers, last \in Numbers : a.sack = <<first, last>> /\ Place(first) < Place(last)
      BY <1>3, <2>1 DEF AckOK, Ranged
    <3>2. a.sack[1] = first /\ a.sack[2] = last /\ Place(first) \in Nat /\ Place(last) \in Nat
      BY <3>1, PlaceNat
    <3>3. Place(a.sack[2]) <= Place(rcv.current)
      BY <1>2, <2>1, ReportedArrived
    <3> QED BY <1>2, <1>7, <2>1, <3>1, <3>2, <3>3
  <2>2. CASE ~(a.sack # <<>> /\ a.sack[1] = snd.current)
    BY <1>2, <1>7, <2>2
  <2> QED BY <2>1, <2>2
<1> HIDE DEF reported
<1>9. /\ WindowOK(heard) /\ Matches(heard, tiles, marks) /\ heard.next = snd.next
      /\ heard.current = IF Place(a.ack) <= Place(reported.current) THEN reported.current ELSE a.ack
  BY <1>1, <1>3, <1>5, <1>7, TxAckKeeps
<1> HIDE DEF heard
<1>10. WindowOK(acked) /\ Matches(acked, tiles, marks) /\ acked.current = heard.current /\ acked.next = snd.next
  BY <1>3, <1>9, PeerKeeps
<1> HIDE DEF acked
<1> DEFINE at == Place(acked.current)
           count == Minus(acked.current, snd.current)
<1>11. from <= at /\ at <= Place(rcv.current) /\ at \in Nat /\ acked.current \in Numbers /\ at <= Place(snd.next)
  <2>1. from <= at /\ at <= Place(rcv.current) /\ at \in Nat
    BY <1>2, <1>3, <1>8, <1>9, <1>10
  <2>2. acked.current \in Numbers /\ Place(acked.current) <= Place(acked.next)
    BY <1>10, WindowTypes DEF WindowOK, SegmentsOK
  <2> QED BY <1>10, <2>1, <2>2
<1>12. count = at - from /\ count \in 0 .. written - from /\ from + count = at
  <2>1. count = IF from <= at THEN at - from ELSE at - from + SeqMod
    BY <1>2, <1>11, MinusPlace
  <2> QED BY <1>1, <1>2, <1>11, <2>1
<1>13. /\ Filled(freed, TxLength, at, written) /\ freed.bytes = txStream.bytes /\ freed.mid = Place(acked.next) % TxLength
       /\ freed.length = TxLength
  <2> HIDE DEF count, at, from
  <2>1. /\ Filled(StreamTake(txStream, count), TxLength, from + count, written)
        /\ StreamTake(txStream, count).bytes = txStream.bytes
        /\ StreamTake(txStream, count).mid = txStream.mid
        /\ StreamTake(txStream, count).length = TxLength
    BY <1>1, <1>2, <1>12, TakeDoes
  <2> QED BY <1>1, <1>10, <1>12, <2>1 DEF count
<1> HIDE DEF freed, count
<1>14. /\ WindowOK(snd') /\ Matches(snd', tiles, marks) /\ snd'.current = acked.current /\ Place(snd'.next) <= written
       /\ Filled(txStream', TxLength, at, written) /\ txStream'.bytes = freed.bytes
       /\ txStream'.mid = Place(snd'.next) % TxLength /\ txStream'.length = TxLength
  <2>1. at <= Place(acked.next) /\ Place(acked.next) <= written
    BY <1>1, <1>10, <1>11
  <2> HIDE DEF at
  <2>2. LET v == TxAdd(acked, freed)
            s == AddTxData(acked, freed)
        IN /\ WindowOK(v) /\ Matches(v, tiles, marks) /\ v.current = acked.current
           /\ Place(v.next) <= written
           /\ Filled(s, TxLength, at, written) /\ s.bytes = freed.bytes /\ s.mid = Place(v.next) % TxLength /\ s.length = TxLength
    BY <1>1, <1>10, <1>13, <2>1, TxAddKeeps
  <2> QED BY <1>4, <2>2
<1>15. SenderOK(snd', txStream', written)
  <2>1. Holds(txStream', at, written)
    <3> SUFFICES ASSUME NEW b \in at .. written - 1 PROVE txStream'.bytes[b % TxLength] = b + 1
      BY <1>14 DEF Holds
    <3>1. b \in from .. written - 1
      BY <1>1, <1>2, <1>11
    <3>2. txStream.bytes[b % TxLength] = b + 1
      BY <1>1, <1>2, <3>1 DEF Holds
    <3> QED BY <1>13, <1>14, <3>2
  <2> QED BY <1>1, <1>14, <2>1 DEF SenderOK
<1>16. Sound(snd', rcv, segmentsOut, acksOut')
  <2>1. Sound(snd', rcv, segmentsOut, acksOut)
    BY <1>1, <1>14 DEF Sound, tiles, marks
  <2>2. /\ Place(rcv.current) \in Marks(rcv, segmentsOut, acksOut)
        /\ Reported(acksOut') \subseteq Marks(rcv, segmentsOut, acksOut)
    <3>1. Reported(acksOut') \subseteq Reported(acksOut)
      BY ReportedLess
    <3> QED BY <3>1 DEF Marks
  <2> QED BY <2>1, <2>2, SoundLess
<1>17. Place(snd'.current) <= Place(rcv.current)
  BY <1>11, <1>14
<1> QED BY <1>4, <1>15, <1>16, <1>17 DEF WindowInv

(* Every step keeps the invariant.                                         *)
LEMMA WindowStep ==
  ASSUME WindowInv, [WindowNext]_winVars
  PROVE  WindowInv'
<1>1. CASE UserWrites
  BY <1>1, WritesKeep
<1>2. CASE UserReads
  BY <1>2, ReadsKeep
<1>3. CASE SenderCheck
  BY <1>3, SenderChecks
<1>4. CASE NothingToSend \/ Lose \/ UNCHANGED winVars
  BY <1>4, OthersKeep
<1>5. CASE SendKeepAlive
  BY <1>5, KeepAliveKeeps
<1>6. CASE ReceiverCheck
  BY <1>6, ChecksKeep
<1>7. ASSUME NEW expired \in BOOLEAN, SendSegment(expired) PROVE WindowInv'
  BY <1>7, SendsKeep
<1>8. ASSUME NEW p \in segmentsOut, NEW repeated \in BOOLEAN, DeliverSegment(p, repeated) PROVE WindowInv'
  <2>1. ReceiveSegment(p) /\ segmentsOut' \subseteq segmentsOut
    BY <1>8 DEF DeliverSegment
  <2> QED BY <2>1, ReceivesKeep
<1>9. ASSUME NEW p \in acksOut, NEW repeated \in BOOLEAN, DeliverAck(p, repeated) PROVE WindowInv'
  <2>1. ReceiveAck(p) /\ acksOut' \subseteq acksOut
    BY <1>9 DEF DeliverAck
  <2> QED BY <2>1, AcksKeep
<1> QED BY <1>1, <1>2, <1>3, <1>4, <1>5, <1>6, <1>7, <1>8, <1>9 DEF WindowNext

(* The user of the receiver reads the bytes that the user of the sender    *)
(* wrote, in order, without gap, repetition or change, however packets     *)
(* were lost, repeated and reordered.                                      *)
(* (lTCPWindowRxCheck, lTCPAddRxdata, uxStreamBufferAdd)                   *)
THEOREM StreamArrivesInOrder == WindowInit /\ [][WindowNext]_winVars => []ReceivedInOrder
<1>1. WindowInit => WindowInv
  BY WindowStarts
<1>2. WindowInv /\ [WindowNext]_winVars => WindowInv'
  BY WindowStep
<1>3. WindowInv => ReceivedInOrder
  BY InvInOrder
<1> QED BY <1>1, <1>2, <1>3, PTL

(* The sender forgets no byte before the receiver has it, and each that it *)
(* took over is in one segment, which is in one queue until it was         *)
(* reported.  (lTCPWindowTxAdd, ulTCPWindowTxGet, prvTCPWindowTxCheckAck,  *)
(* prvTCPWindowFastRetransmit)                                             *)
THEOREM SenderTracksEveryByte == WindowInit /\ [][WindowNext]_winVars => []EveryByteTracked
<1>1. WindowInit => WindowInv
  BY WindowStarts
<1>2. WindowInv /\ [WindowNext]_winVars => WindowInv'
  BY WindowStep
<1>3. WindowInv => EveryByteTracked
  BY InvTracked
<1> QED BY <1>1, <1>2, <1>3, PTL
=============================================================================
