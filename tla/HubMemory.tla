----------------------------- MODULE HubMemory -----------------------------
(***************************************************************************)
(* The memory of a frame ring of app/queue/hub_queue.c, as a function from *)
(* the positions at which units start to the units (MIN_TRANS_UNIT of      *)
(* hub_queue.h).  Positions count bytes.  Writing some bytes destroys the  *)
(* units whose header they hit and corrupts those whose payload they hit;  *)
(* where no unit starts, memory reads as anything.                         *)
(***************************************************************************)
EXTENDS Integers

CONSTANTS
  Lengths,             \* payload lengths of the frames
  Payloads,            \* what a payload can be
  Corrupt              \* a payload overwritten in part

Flag == 2        \* startFlag
Header == 6      \* with type and len
Marker == 4      \* startFlag and type
Reserve == 8     \* the two positions, at the end of the ring
ShortTail == 3   \* no room for a closing marker

ASSUME PayloadsAssumption == Corrupt \notin Payloads

Frame == [len : Lengths, data : Payloads]

NoFrame == [len |-> 0, data |-> Corrupt]

Unit == [startFlag : {"EMPTY", "VALID"}, type : {"INVALID", "data"},
         len : Lengths, data : Payloads \cup {Corrupt}]

UnitsAt(memory, p) ==
  IF p \in DOMAIN memory THEN {memory[p]} ELSE {u \in Unit : u.data = Corrupt}

Meet(a, b, c, d) == a < d /\ c < b      \* a .. b-1 and c .. d-1 overlap

(* The memory once unit u stands at p and the n bytes from p are written.  *)
PutUnit(memory, p, n, u) ==
  [q \in {p} \cup {r \in DOMAIN memory : ~Meet(r, r + Header, p, p + n)}
     |-> IF q = p THEN u
         ELSE IF Meet(q, q + Header + memory[q].len, p, p + n)
              THEN [memory[q] EXCEPT !.data = Corrupt]
              ELSE memory[q]]

(* The unit at p marked as taken.                                          *)
Cleared(memory, p) ==
  IF p \in DOMAIN memory THEN [memory EXCEPT ![p].startFlag = "EMPTY"] ELSE memory
=============================================================================
