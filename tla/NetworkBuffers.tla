--------------------------- MODULE NetworkBuffers ---------------------------
(***************************************************************************)
(* The pool of network buffer descriptors,                                 *)
(* portable/BufferManagement/BufferAllocation_2.c: a list of free          *)
(* descriptors behind a counting semaphore.  The semaphore is taken before *)
(* a descriptor leaves the list and given after it has come back, in       *)
(* separate critical sections, by any number of tasks.                     *)
(***************************************************************************)
EXTENDS Integers, Sequences, FiniteSets

CONSTANTS Buffers, BufferTasks, NoBuffer

ASSUME BuffersAssumption ==
  /\ IsFiniteSet(Buffers) /\ NoBuffer \notin Buffers
  /\ IsFiniteSet(BufferTasks) /\ "pool" \notin BufferTasks

VARIABLES
  xFreeBuffersList,
  uxSemaphoreCount,        \* of xNetworkBufferSemaphore
  uxMinimumFreeNetworkBuffers,
  pool,                    \* what a task does with the pool: where, the descriptor, a count it read
  held                     \* the task that holds a descriptor and may pass it on, or "pool"

poolVars == <<xFreeBuffersList, uxSemaphoreCount, uxMinimumFreeNetworkBuffers, pool, held>>

Outside == [at |-> "outside", buffer |-> NoBuffer, count |-> 0]

(* xNetworkBuffersInitialise. *)
PoolInit ==
  /\ xFreeBuffersList \in {s \in [1 .. Cardinality(Buffers) -> Buffers] :
                             \A i, j \in DOMAIN s : i # j => s[i] # s[j]}
  /\ uxSemaphoreCount = Cardinality(Buffers)
  /\ uxMinimumFreeNetworkBuffers = Cardinality(Buffers)
  /\ pool = [t \in BufferTasks |-> Outside]
  /\ held = [b \in Buffers |-> "pool"]

Holds(t) == {b \in Buffers : held[b] = t}

(* pxGetNetworkBufferWithDescriptor: without a free descriptor the call    *)
(* waits, or fails and changes nothing.                                    *)
TakeSemaphore(t) ==
  /\ pool[t].at = "outside" /\ uxSemaphoreCount > 0
  /\ uxSemaphoreCount' = uxSemaphoreCount - 1
  /\ pool' = [pool EXCEPT ![t].at = "remove"]
  /\ UNCHANGED <<xFreeBuffersList, uxMinimumFreeNetworkBuffers, held>>

(* The head leaves the list.  It is not tested that there is one.          *)
RemoveHead(t) ==
  /\ pool[t].at = "remove"
  /\ IF xFreeBuffersList = <<>>
     THEN pool' = [pool EXCEPT ![t].at = "astray"] /\ UNCHANGED <<xFreeBuffersList, held>>
     ELSE /\ xFreeBuffersList' = Tail(xFreeBuffersList)
          /\ held' = [held EXCEPT ![Head(xFreeBuffersList)] = t]
          /\ pool' = [pool EXCEPT ![t].at = "measure", ![t].buffer = Head(xFreeBuffersList)]
  /\ UNCHANGED <<uxSemaphoreCount, uxMinimumFreeNetworkBuffers>>

(* The statistics are not in the critical section. *)
ReadLength(t) ==
  /\ pool[t].at = "measure"
  /\ pool' = [pool EXCEPT ![t].at = "minimum", ![t].count = Len(xFreeBuffersList)]
  /\ UNCHANGED <<xFreeBuffersList, uxSemaphoreCount, uxMinimumFreeNetworkBuffers, held>>

KeepMinimum(t) ==
  /\ pool[t].at = "minimum"
  /\ uxMinimumFreeNetworkBuffers' =
       IF uxMinimumFreeNetworkBuffers > pool[t].count THEN pool[t].count ELSE uxMinimumFreeNetworkBuffers
  /\ pool' = [pool EXCEPT ![t].at = "allocate"]
  /\ UNCHANGED <<xFreeBuffersList, uxSemaphoreCount, held>>

(* The memory for the frame comes from the heap; without it the descriptor *)
(* goes back.                                                              *)
AllocateMemory(t) ==
  /\ pool[t].at = "allocate"
  /\ \/ pool' = [pool EXCEPT ![t] = Outside]
     \/ pool' = [pool EXCEPT ![t].at = "insert"]
  /\ UNCHANGED <<xFreeBuffersList, uxSemaphoreCount, uxMinimumFreeNetworkBuffers, held>>

(* vReleaseNetworkBufferAndDescriptor frees the memory first. *)
FreeMemory(t) ==
  /\ pool[t].at = "outside"
  /\ \E b \in Holds(t) : pool' = [pool EXCEPT ![t] = [at |-> "insert", buffer |-> b, count |-> 0]]
  /\ UNCHANGED <<xFreeBuffersList, uxSemaphoreCount, uxMinimumFreeNetworkBuffers, held>>

AlreadyFree(b) == \E i \in DOMAIN xFreeBuffersList : xFreeBuffersList[i] = b

(* A wrong variant, for contrast: the semaphore first. *)
InsertAfterGive(t) ==
  /\ pool[t].at = "insert"
  /\ uxSemaphoreCount' = uxSemaphoreCount + 1
  /\ pool' = [pool EXCEPT ![t].at = "late"]
  /\ UNCHANGED <<xFreeBuffersList, uxMinimumFreeNetworkBuffers, held>>

InsertEnd(t) ==
  /\ pool[t].at = "insert"
  /\ IF AlreadyFree(pool[t].buffer)
     THEN pool' = [pool EXCEPT ![t] = Outside] /\ UNCHANGED <<xFreeBuffersList, held>>
     ELSE /\ xFreeBuffersList' = Append(xFreeBuffersList, pool[t].buffer)
          /\ held' = [held EXCEPT ![pool[t].buffer] = "pool"]
          /\ pool' = [pool EXCEPT ![t].at = "give"]
  /\ UNCHANGED <<uxSemaphoreCount, uxMinimumFreeNetworkBuffers>>

GiveSemaphore(t) ==
  /\ pool[t].at = "give"
  /\ uxSemaphoreCount' = uxSemaphoreCount + 1
  /\ pool' = [pool EXCEPT ![t] = Outside]
  /\ UNCHANGED <<xFreeBuffersList, uxMinimumFreeNetworkBuffers, held>>

(* A descriptor goes to another task: from the driver to the IP task with  *)
(* an event, from there to a socket and its reader, and the other way.     *)
PassOn(t) ==
  /\ pool[t].at = "outside"
  /\ \E b \in Holds(t), u \in BufferTasks \ {t} : held' = [held EXCEPT ![b] = u]
  /\ UNCHANGED <<xFreeBuffersList, uxSemaphoreCount, uxMinimumFreeNetworkBuffers, pool>>

PoolNext ==
  \E t \in BufferTasks :
    \/ TakeSemaphore(t) \/ RemoveHead(t) \/ ReadLength(t) \/ KeepMinimum(t)
    \/ AllocateMemory(t) \/ FreeMemory(t) \/ InsertEnd(t) \/ GiveSemaphore(t) \/ PassOn(t)

PoolSpec == PoolInit /\ [][PoolNext]_poolVars

PoolTypeOK ==
  /\ xFreeBuffersList \in Seq(Buffers)
  /\ uxSemaphoreCount \in Nat
  /\ uxMinimumFreeNetworkBuffers \in Nat
  /\ pool \in [BufferTasks -> [at : {"outside", "remove", "measure", "minimum", "allocate", "insert", "give"},
                               buffer : Buffers \cup {NoBuffer}, count : Nat]]
  /\ held \in [Buffers -> BufferTasks \cup {"pool"}]

(* Whoever gets the semaphore finds a free descriptor, although list and   *)
(* semaphore change in separate critical sections: the list holds exactly  *)
(* the descriptors nobody has, each once, and is longer than the semaphore *)
(* counts by one for each task on its way between the two.  No task is     *)
(* given a descriptor while another holds it                               *)
(* (pxGetNetworkBufferWithDescriptor, vReleaseNetworkBufferAndDescriptor). *)
PoolConsistent ==
  /\ \A i, j \in DOMAIN xFreeBuffersList : xFreeBuffersList[i] = xFreeBuffersList[j] => i = j
  /\ \A b \in Buffers : AlreadyFree(b) <=> held[b] = "pool"
  /\ Len(xFreeBuffersList) = uxSemaphoreCount + Cardinality({t \in BufferTasks : pool[t].at \in {"remove", "give"}})
  /\ \A t \in BufferTasks : pool[t].at \in {"measure", "minimum", "allocate", "insert"} => held[pool[t].buffer] = t
=============================================================================
