------------------------------- MODULE Heap4 --------------------------------
(***************************************************************************)
(* The heap, freeRTOS/FreeRTOS_Source/portable/MemMang/heap_4.c: first fit *)
(* in a list of free blocks kept in the order of their addresses, and      *)
(* merged with its neighbours when a block is freed.                       *)
(*                                                                         *)
(* Every operation runs with the scheduler suspended, except that          *)
(* vPortFree clears the allocated bit before that.  Addresses are offsets  *)
(* from the aligned start of the heap, up to pxEnd.                        *)
(***************************************************************************)
EXTENDS Integers, Sequences, FiniteSets

CONSTANTS
  HeapBytes,        \* from the first block to pxEnd
  Alignment,        \* portBYTE_ALIGNMENT
  StructSize,       \* xHeapStructSize, aligned
  Requests,         \* the sizes asked for
  AllocatedBit      \* xBlockAllocatedBit, the top bit of size_t

ASSUME HeapAssumption ==
  /\ Alignment \in Nat \ {0} /\ StructSize \in Nat \ {0} /\ HeapBytes \in Nat \ {0}
  /\ StructSize % Alignment = 0 /\ HeapBytes % Alignment = 0 /\ HeapBytes >= StructSize
  /\ AllocatedBit > HeapBytes + StructSize + Alignment
  /\ Requests \subseteq 0 .. 2 * AllocatedBit - 1

VARIABLES
  freeList,          \* from xStart to pxEnd: blocks with an address and a size
  allocated,         \* the blocks with the allocated bit
  freeing,           \* the blocks vPortFree has cleared the bit of
  xFreeBytesRemaining,
  xMinimumEverFreeBytesRemaining

heapVars == <<freeList, allocated, freeing, xFreeBytesRemaining, xMinimumEverFreeBytesRemaining>>

Block(a, n) == [addr |-> a, size |-> n]

(* prvHeapInit.                                                            *)
HeapInit ==
  /\ freeList = <<Block(0, HeapBytes)>>
  /\ allocated = {} /\ freeing = {}
  /\ xFreeBytesRemaining = HeapBytes
  /\ xMinimumEverFreeBytesRemaining = HeapBytes

(* The size with the block structure, aligned; nothing is asked for twice  *)
(* the largest size.                                                       *)
WantedSize(n) ==
  IF n = 0 THEN 0
  ELSE ((n + StructSize + Alignment - 1) \div Alignment) * Alignment

Touches(b, c) == b.addr + b.size = c.addr

Joined(b, c) == Block(b.addr, b.size + c.size)

(* A wrong variant, for contrast. *)
InsertBlockBelowOnly(list, b) ==
  LET before == Cardinality({i \in 1 .. Len(list) : list[i].addr < b.addr})
      prev   == SubSeq(list, 1, before)
      next   == SubSeq(list, before + 1, Len(list))
      below  == before > 0 /\ Touches(prev[before], b)
  IN  (IF below THEN SubSeq(prev, 1, before - 1) \o <<Joined(prev[before], b)>>
       ELSE Append(prev, b)) \o next

(* prvInsertBlockIntoFreeList: before is the place it goes behind.         *)
InsertBlock(list, b) ==
  LET before == Cardinality({i \in 1 .. Len(list) : list[i].addr < b.addr})
      prev   == SubSeq(list, 1, before)
      next   == SubSeq(list, before + 1, Len(list))
      below  == before > 0 /\ Touches(prev[before], b)
      b1     == IF below THEN Joined(prev[before], b) ELSE b
      above  == next # <<>> /\ Touches(b1, Head(next))
      b2     == IF above THEN Joined(b1, Head(next)) ELSE b1
  IN  (IF below THEN SubSeq(prev, 1, before - 1) ELSE prev) \o <<b2>>
        \o (IF above THEN Tail(next) ELSE next)

(* The first block that is large enough, if one is.                        *)
FirstFit(want) ==
  {i \in 1 .. Len(freeList) : /\ freeList[i].size >= want
                              /\ \A j \in 1 .. i - 1 : freeList[j].size < want}

WithoutIndex(list, i) == SubSeq(list, 1, i - 1) \o SubSeq(list, i + 1, Len(list))

(* heapMINIMUM_BLOCK_SIZE *)
Splits(rest) == rest > 2 * StructSize

(* pvPortMalloc of a size whose top bit is clear; otherwise, and when      *)
(* nothing fits, it returns NULL and changes nothing.                      *)
Malloc(n) ==
  LET want == WantedSize(n) IN
    /\ n < AllocatedBit
    /\ 0 < want /\ want <= xFreeBytesRemaining
    /\ \E i \in FirstFit(want) :
         LET found == freeList[i]
             rest  == found.size - want
             taken == IF Splits(rest) THEN Block(found.addr, want) ELSE found
             left  == WithoutIndex(freeList, i)
         IN  /\ freeList' = IF Splits(rest)
                            THEN InsertBlock(left, Block(found.addr + want, rest)) ELSE left
             /\ allocated' = allocated \cup {taken}
             /\ xFreeBytesRemaining' = xFreeBytesRemaining - taken.size
             /\ xMinimumEverFreeBytesRemaining' =
                  IF xFreeBytesRemaining' < xMinimumEverFreeBytesRemaining
                  THEN xFreeBytesRemaining' ELSE xMinimumEverFreeBytesRemaining
             /\ UNCHANGED freeing

(* vPortFree, up to vTaskSuspendAll ...                                    *)
ClearAllocatedBit(b) ==
  /\ b \in allocated
  /\ allocated' = allocated \ {b}
  /\ freeing' = freeing \cup {b}
  /\ UNCHANGED <<freeList, xFreeBytesRemaining, xMinimumEverFreeBytesRemaining>>

(* ... and after it.                                                       *)
FreeBlock(b) ==
  /\ b \in freeing
  /\ freeing' = freeing \ {b}
  /\ freeList' = InsertBlock(freeList, b)
  /\ xFreeBytesRemaining' = xFreeBytesRemaining + b.size
  /\ UNCHANGED <<allocated, xMinimumEverFreeBytesRemaining>>

HeapNext ==
  \/ \E n \in Requests : Malloc(n)
  \/ \E b \in allocated : ClearAllocatedBit(b)
  \/ \E b \in freeing : FreeBlock(b)

HeapSpec == HeapInit /\ [][HeapNext]_heapVars

(***************************************************************************)
(* Properties.                                                             *)
(***************************************************************************)
HeapBlock == [addr : Nat, size : Nat]

HeapTypeOK ==
  /\ freeList \in Seq(HeapBlock)
  /\ allocated \subseteq HeapBlock /\ freeing \subseteq HeapBlock
  /\ xFreeBytesRemaining \in 0 .. HeapBytes
  /\ xMinimumEverFreeBytesRemaining \in 0 .. HeapBytes

FreeBlocks == {freeList[i] : i \in 1 .. Len(freeList)}

Blocks == FreeBlocks \cup allocated \cup freeing

(* The bytes of a block, and of a set of blocks.                           *)
Bytes(b) == b.addr .. b.addr + b.size - 1

BytesOf(S) == UNION {Bytes(b) : b \in S}

Apart(b, c) == b.addr + b.size <= c.addr \/ c.addr + c.size <= b.addr

(* Every byte of the heap belongs to one block, free or not, aligned and   *)
(* large enough for its structure; the free blocks are in order, no two of *)
(* them touch, and xFreeBytesRemaining is what they hold: allocations and  *)
(* frees of several tasks in any order neither lose memory nor hand it out *)
(* twice, nor leave it split (pvPortMalloc, prvInsertBlockIntoFreeList).   *)
HeapIsPartitioned ==
  /\ BytesOf(Blocks) = 0 .. HeapBytes - 1
  /\ \A b, c \in Blocks : b = c \/ Apart(b, c)
  /\ \A b \in Blocks : /\ b.addr % Alignment = 0 /\ b.size % Alignment = 0
                       /\ b.size >= StructSize /\ b.addr + b.size <= HeapBytes
  /\ \A i \in 1 .. Len(freeList) - 1 : freeList[i].addr + freeList[i].size < freeList[i + 1].addr
  /\ xFreeBytesRemaining = Cardinality(BytesOf(FreeBlocks))
  /\ xMinimumEverFreeBytesRemaining <= xFreeBytesRemaining
=============================================================================
