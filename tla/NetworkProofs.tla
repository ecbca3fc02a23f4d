---------------------------- MODULE NetworkProofs ----------------------------
(***************************************************************************)
(* Proofs about the network stack: the pool of buffers, the ARP cache, the *)
(* IP task, the clients of a listening TCP socket, and checksums.          *)
(***************************************************************************)
EXTENDS NetworkBuffers, ArpCache, IpTask, TcpConnection, NetChecksum, SequenceTheorems, FiniteSetTheorems, TLAPS

(***************************************************************************)
(* The pool of network buffers.                                            *)
(***************************************************************************)

(* The tasks between the semaphore and the list, on either way.            *)
Between == {t \in BufferTasks : pool[t].at \in {"remove", "give"}}

(* A task that has a descriptor in hand has one of the pool's.             *)
InHand == \A t \in BufferTasks :
            pool[t].at \in {"measure", "minimum", "allocate", "insert"} => pool[t].buffer \in Buffers

PoolPlace == {"outside", "remove", "measure", "minimum", "allocate", "insert", "give"}

PoolTask == [at : PoolPlace, buffer : Buffers \cup {NoBuffer}, count : Nat]

LEMMA PoolTaskMoves ==
  ASSUME NEW p \in PoolTask, NEW l \in PoolPlace
  PROVE  /\ [p EXCEPT !.at = l] \in PoolTask
         /\ [p EXCEPT !.at = l].at = l /\ [p EXCEPT !.at = l].buffer = p.buffer
  BY DEF PoolTask

LEMMA PoolTaskCounts ==
  ASSUME NEW p \in PoolTask, NEW l \in PoolPlace, NEW n \in Nat
  PROVE  /\ [p EXCEPT !.at = l, !.count = n] \in PoolTask
         /\ [p EXCEPT !.at = l, !.count = n].at = l
         /\ [p EXCEPT !.at = l, !.count = n].buffer = p.buffer
  BY DEF PoolTask

LEMMA PoolTaskGets ==
  ASSUME NEW p \in PoolTask, NEW l \in PoolPlace, NEW b \in Buffers
  PROVE  /\ [p EXCEPT !.at = l, !.buffer = b] \in PoolTask
         /\ [p EXCEPT !.at = l, !.buffer = b].at = l
         /\ [p EXCEPT !.at = l, !.buffer = b].buffer = b
  BY DEF PoolTask

PoolInv == PoolTypeOK /\ PoolConsistent /\ InHand

LEMMA BetweenFinite ==
  /\ IsFiniteSet(Between) /\ Cardinality(Between) \in Nat
  /\ IsFiniteSet(Between') /\ Cardinality(Between') \in Nat
<1>1. Between \in SUBSET BufferTasks /\ Between' \in SUBSET BufferTasks
  BY DEF Between
<1> QED BY <1>1, BuffersAssumption, FS_Subset, FS_CardinalityType

LEMMA OneMoreBetween ==
  ASSUME NEW t \in BufferTasks, t \notin Between, Between' = Between \cup {t}
  PROVE  Cardinality(Between') = Cardinality(Between) + 1
  BY BetweenFinite, FS_AddElement

LEMMA OneLessBetween ==
  ASSUME NEW t \in BufferTasks, t \in Between, Between' = Between \ {t}
  PROVE  Cardinality(Between') = Cardinality(Between) - 1
  BY BetweenFinite, FS_RemoveElement

LEMMA PoolInitInv == PoolInit => PoolInv
<1> SUFFICES ASSUME PoolInit PROVE PoolInv
  OBVIOUS
<1> DEFINE n == Cardinality(Buffers)
<1>1. n \in Nat
  BY BuffersAssumption, FS_CardinalityType
<1>2. /\ xFreeBuffersList \in [1 .. n -> Buffers]
      /\ \A i, j \in 1 .. n : i # j => xFreeBuffersList[i] # xFreeBuffersList[j]
  BY DEF PoolInit
<1>3. xFreeBuffersList \in Seq(Buffers) /\ Len(xFreeBuffersList) = n
  BY <1>1, <1>2
<1>4. \A b \in Buffers : AlreadyFree(b)
  <2>1. xFreeBuffersList \in Injection(1 .. n, Buffers)
    BY <1>2 DEF Injection, IsInjective
  <2>2. IsFiniteSet(1 .. n) /\ Cardinality(1 .. n) = n
    BY <1>1, FS_Interval
  <2>3. xFreeBuffersList \in Surjection(1 .. n, Buffers)
    BY <2>1, <2>2, BuffersAssumption, FS_Injection
  <2> QED BY <2>3, <1>2 DEF Surjection, AlreadyFree
<1>5. Between = {}
  BY DEF PoolInit, Between, Outside
<1>6. Cardinality(Between) = 0
  BY <1>5, FS_EmptySet
<1>7. PoolTypeOK
  BY <1>1, <1>3 DEF PoolInit, PoolTypeOK, Outside
<1> QED BY <1>1, <1>2, <1>3, <1>4, <1>6, <1>7
        DEF PoolInit, PoolInv, PoolConsistent, InHand, Between, Outside

LEMMA PoolNextInv == PoolInv /\ [PoolNext]_poolVars => PoolInv'
<1> SUFFICES ASSUME PoolInv, [PoolNext]_poolVars PROVE PoolInv'
  OBVIOUS
<1> USE DEF PoolInv
<1> DEFINE f == xFreeBuffersList
<1>t. /\ f \in Seq(Buffers) /\ uxSemaphoreCount \in Nat
      /\ uxMinimumFreeNetworkBuffers \in Nat
      /\ pool \in [BufferTasks -> PoolTask] /\ held \in [Buffers -> BufferTasks \cup {"pool"}]
  BY DEF PoolTypeOK, PoolTask, PoolPlace
<1>f. /\ Len(f) \in Nat /\ DOMAIN f = 1 .. Len(f) /\ \A i \in 1 .. Len(f) : f[i] \in Buffers
      /\ \A i, j \in 1 .. Len(f) : f[i] = f[j] => i = j
      /\ \A b \in Buffers : (\E i \in 1 .. Len(f) : f[i] = b) <=> held[b] = "pool"
  <2>1. Len(f) \in Nat /\ DOMAIN f = 1 .. Len(f) /\ \A i \in 1 .. Len(f) : f[i] \in Buffers
    BY <1>t
  <2>2. \A i, j \in 1 .. Len(f) : f[i] = f[j] => i = j
    BY <2>1 DEF PoolConsistent
  <2>3. \A b \in Buffers : (\E i \in DOMAIN f : f[i] = b) <=> held[b] = "pool"
    BY DEF PoolConsistent, AlreadyFree
  <2> QED BY <2>1, <2>2, <2>3
(* The list facts again, of the next state.                                *)
<1>d. ASSUME PoolTypeOK', InHand', Len(f') = uxSemaphoreCount' + Cardinality(Between'),
             \A i, j \in 1 .. Len(f') : f'[i] = f'[j] => i = j,
             \A b \in Buffers : (\E i \in 1 .. Len(f') : f'[i] = b) <=> held'[b] = "pool",
             \A u \in BufferTasks : pool'[u].at \in {"measure", "minimum", "allocate", "insert"} =>
                held'[pool'[u].buffer] = u
      PROVE  PoolInv'
  <2>1. f' \in Seq(Buffers) /\ DOMAIN f' = 1 .. Len(f')
    BY <1>d DEF PoolTypeOK
  <2> QED BY <1>d, <2>1 DEF PoolConsistent, AlreadyFree, Between
<1>l. Len(f) = uxSemaphoreCount + Cardinality(Between) /\ Cardinality(Between) \in Nat
  BY BetweenFinite DEF PoolConsistent, Between
<1>h. \A t \in BufferTasks : pool[t].at \in {"measure", "minimum", "allocate", "insert"} =>
         held[pool[t].buffer] = t /\ pool[t].buffer \in Buffers
  BY DEF PoolConsistent, InHand
<1>u. Outside \in PoolTask /\ Outside.at = "outside"
  BY DEF Outside, PoolTask, PoolPlace
(* A task that moves, and what that leaves of the typing.                  *)
<1>p. ASSUME NEW t \in BufferTasks, NEW p \in PoolTask, pool' = [pool EXCEPT ![t] = p],
             f' \in Seq(Buffers), uxSemaphoreCount' \in Nat, uxMinimumFreeNetworkBuffers' \in Nat,
             held' \in [Buffers -> BufferTasks \cup {"pool"}],
             p.at \in {"measure", "minimum", "allocate", "insert"} => p.buffer \in Buffers
      PROVE  /\ PoolTypeOK' /\ InHand' /\ pool'[t] = p
             /\ \A u \in BufferTasks \ {t} : pool'[u] = pool[u]
  <2>1. pool' \in [BufferTasks -> PoolTask] /\ pool'[t] = p /\ \A u \in BufferTasks \ {t} : pool'[u] = pool[u]
    BY <1>p, <1>t
  <2>2. PoolTypeOK'
    BY <2>1, <1>p DEF PoolTypeOK, PoolTask, PoolPlace
  <2>3. InHand'
    BY <2>1, <1>p, <1>h DEF InHand
  <2> QED BY <2>1, <2>2, <2>3
(* Where a task is changes, and nothing else that the count depends on.    *)
<1>q. ASSUME UNCHANGED <<xFreeBuffersList, uxSemaphoreCount, held>>, PoolTypeOK', InHand',
             NEW t \in BufferTasks, \A u \in BufferTasks \ {t} : pool'[u] = pool[u],
             pool[t].at \notin {"remove", "give"}, pool'[t].at \notin {"remove", "give"},
             pool'[t].at \in {"measure", "minimum", "allocate", "insert"} => held[pool'[t].buffer] = t
      PROVE  PoolInv'
  <2>1. Between' = Between
    BY <1>q DEF Between
  <2>2. \A u \in BufferTasks : pool'[u].at \in {"measure", "minimum", "allocate", "insert"} =>
           held[pool'[u].buffer] = u
    BY <1>q, <1>h
  <2> QED BY <1>q, <1>l, <1>f, <1>d, <2>1, <2>2
<1>1. ASSUME NEW t \in BufferTasks, TakeSemaphore(t) PROVE PoolInv'
  <2> DEFINE p == [pool[t] EXCEPT !.at = "remove"]
  <2>1. /\ pool[t] \in PoolTask /\ pool[t].at = "outside" /\ pool' = [pool EXCEPT ![t] = p]
        /\ uxSemaphoreCount' \in Nat /\ uxSemaphoreCount' = uxSemaphoreCount - 1
        /\ UNCHANGED <<f, uxMinimumFreeNetworkBuffers, held>>
    BY <1>1, <1>t DEF TakeSemaphore
  <2>2. p \in PoolTask /\ p.at = "remove" /\ p.buffer = pool[t].buffer
    BY <2>1, PoolTaskMoves DEF PoolPlace
  <2> HIDE DEF p
  <2>3. /\ PoolTypeOK' /\ InHand' /\ pool'[t].at = "remove"
        /\ \A u \in BufferTasks \ {t} : pool'[u] = pool[u]
    BY <1>p, <1>t, <2>1, <2>2
  <2>4. t \notin Between /\ Between' = Between \cup {t}
    BY <2>1, <2>3 DEF Between
  <2>5. Cardinality(Between') = Cardinality(Between) + 1
    BY <2>4, OneMoreBetween
  <2>6. Len(f') = uxSemaphoreCount' + Cardinality(Between')
    BY <1>t, <1>l, <2>1, <2>5
  <2>7. \A u \in BufferTasks : pool'[u].at \in {"measure", "minimum", "allocate", "insert"} =>
           held'[pool'[u].buffer] = u
    BY <1>h, <2>1, <2>3
  <2> QED BY <1>d, <1>f, <2>1, <2>3, <2>6, <2>7
<1>2. ASSUME NEW t \in BufferTasks, RemoveHead(t) PROVE PoolInv'
  <2> DEFINE h == f[1]
             p == [pool[t] EXCEPT !.at = "measure", !.buffer = h]
  <2>1. t \in Between /\ Cardinality(Between) > 0
    <3>1. t \in Between
      BY <1>2 DEF RemoveHead, Between
    <3> QED BY <3>1, BetweenFinite, FS_EmptySet
  <2>2. Len(f) > 0 /\ f # <<>> /\ h \in Buffers
    BY <1>t, <1>l, <1>f, <2>1
  <2>3. /\ f' = Tail(f) /\ held' = [held EXCEPT ![h] = t]
        /\ pool' = [pool EXCEPT ![t].at = "measure", ![t].buffer = h]
        /\ UNCHANGED <<uxSemaphoreCount, uxMinimumFreeNetworkBuffers>>
    BY <1>2, <1>t, <2>2 DEF RemoveHead
  <2>4. /\ f' \in Seq(Buffers) /\ Len(f') = Len(f) - 1
        /\ \A i \in 1 .. Len(f) - 1 : f'[i] = f[i + 1]
    BY <1>t, <2>2, <2>3
  <2>5. pool[t] \in PoolTask /\ pool' = [pool EXCEPT ![t] = p] /\ pool[t].at = "remove"
    BY <1>2, <1>t, <2>3 DEF RemoveHead
  <2> HIDE DEF h
  <2>6. p \in PoolTask /\ p.at = "measure" /\ p.buffer = h
    <3>1. "measure" \in PoolPlace
      BY DEF PoolPlace
    <3> QED BY <2>2, <2>5 DEF PoolTask, PoolPlace
  <2> HIDE DEF p
  <2>7. held' \in [Buffers -> BufferTasks \cup {"pool"}] /\ held'[h] = t
        /\ \A b \in Buffers \ {h} : held'[b] = held[b]
    BY <1>t, <2>2, <2>3
  <2>8. /\ PoolTypeOK' /\ InHand' /\ pool'[t] = p
        /\ \A u \in BufferTasks \ {t} : pool'[u] = pool[u]
    <3>1. /\ f' \in Seq(Buffers) /\ uxSemaphoreCount' \in Nat /\ uxMinimumFreeNetworkBuffers' \in Nat
          /\ pool' = [pool EXCEPT ![t] = p] /\ p \in PoolTask /\ p.buffer \in Buffers
      BY <1>t, <2>2, <2>3, <2>4, <2>5, <2>6
    <3>2. held' \in [Buffers -> BufferTasks \cup {"pool"}]
      BY <2>7
    <3>3. p.at \in {"measure", "minimum", "allocate", "insert"} => p.buffer \in Buffers
      BY <3>1
    <3> QED BY <1>p, <3>1, <3>2, <3>3
  <2>9. Between' = Between \ {t}
    BY <2>6, <2>8 DEF Between
  <2>10. Cardinality(Between') = Cardinality(Between) - 1
    BY <2>1, <2>9, OneLessBetween
  <2>11. Len(f') = uxSemaphoreCount' + Cardinality(Between')
    BY <1>t, <1>l, <2>3, <2>4, <2>10
  <2>12. \A i, j \in 1 .. Len(f') : f'[i] = f'[j] => i = j
    BY <1>f, <2>4
  <2>13. \A b \in Buffers : (\E i \in 1 .. Len(f') : f'[i] = b) <=> held'[b] = "pool"
    <3> SUFFICES ASSUME NEW b \in Buffers
                 PROVE  (\E i \in 1 .. Len(f') : f'[i] = b) <=> held'[b] = "pool"
      OBVIOUS
    <3>1. (\E i \in 1 .. Len(f') : f'[i] = b) <=> b # h /\ \E i \in 1 .. Len(f) : f[i] = b
      <4>1. \A i \in 1 .. Len(f') : i + 1 \in 1 .. Len(f) /\ i + 1 # 1 /\ f'[i] = f[i + 1]
        BY <1>f, <2>4
      <4>2. \A i \in 1 .. Len(f) : i # 1 => i - 1 \in 1 .. Len(f') /\ f'[i - 1] = f[i]
        BY <1>f, <2>4
      <4>3. \A i \in 1 .. Len(f) : f[i] = h => i = 1
        BY <1>f, <2>2 DEF h
      <4>4. f[1] = h
        BY DEF h
      <4>5. ASSUME NEW i \in 1 .. Len(f'), f'[i] = b
            PROVE  b # h /\ \E j \in 1 .. Len(f) : f[j] = b
        BY <4>1, <4>3, <4>5
      <4>6. ASSUME NEW i \in 1 .. Len(f), f[i] = b, b # h
            PROVE  \E j \in 1 .. Len(f') : f'[j] = b
        <5>1. i # 1
          BY <4>4, <4>6
        <5> QED BY <4>2, <4>6, <5>1
      <4> QED BY <4>5, <4>6
    <3>2. held'[h] # "pool"
      BY <2>7, BuffersAssumption
    <3> QED BY <1>f, <3>1, <3>2, <2>7
  <2>14. held[h] = "pool"
    BY <1>f, <2>2 DEF h
  <2>15. \A u \in BufferTasks : pool'[u].at \in {"measure", "minimum", "allocate", "insert"} =>
            held'[pool'[u].buffer] = u
    BY <1>h, <2>6, <2>7, <2>8, <2>14, BuffersAssumption
  <2> QED BY <1>d, <2>8, <2>11, <2>12, <2>13, <2>15
<1>3. ASSUME NEW t \in BufferTasks, ReadLength(t) \/ KeepMinimum(t) PROVE PoolInv'
  <2>1. pool[t] \in PoolTask /\ pool[t].count \in Nat
    BY <1>t DEF PoolTask
  <2>2. PICK p \in PoolTask :
           /\ pool' = [pool EXCEPT ![t] = p] /\ p.buffer = pool[t].buffer
           /\ p.at \in {"minimum", "allocate"} /\ pool[t].at \in {"measure", "minimum"}
           /\ uxMinimumFreeNetworkBuffers' \in Nat /\ UNCHANGED <<f, uxSemaphoreCount, held>>
    <3>1. CASE ReadLength(t)
      <4> DEFINE n == Len(f)
                 q == [pool[t] EXCEPT !.at = "minimum", !.count = n]
      <4>1. pool[t].at = "measure" /\ pool' = [pool EXCEPT ![t] = q]
            /\ UNCHANGED <<f, uxSemaphoreCount, uxMinimumFreeNetworkBuffers, held>>
        BY <3>1, <1>t DEF ReadLength
      <4>2. n \in Nat /\ "minimum" \in PoolPlace
        BY <1>f DEF PoolPlace
      <4> HIDE DEF n
      <4>3. q \in PoolTask /\ q.buffer = pool[t].buffer /\ q.at = "minimum"
        BY <2>1, <4>2 DEF PoolTask, PoolPlace
      <4> HIDE DEF q
      <4> QED BY <1>t, <4>1, <4>3
    <3>2. CASE KeepMinimum(t)
      <4> DEFINE q == [pool[t] EXCEPT !.at = "allocate"]
      <4>1. pool[t].at = "minimum" /\ pool' = [pool EXCEPT ![t] = q]
            /\ UNCHANGED <<f, uxSemaphoreCount, held>>
            /\ uxMinimumFreeNetworkBuffers' \in Nat
        BY <3>2, <1>t, <2>1 DEF KeepMinimum
      <4>2. q \in PoolTask /\ q.buffer = pool[t].buffer /\ q.at = "allocate"
        BY <2>1, PoolTaskMoves DEF PoolPlace
      <4> HIDE DEF q
      <4> QED BY <4>1, <4>2
    <3> QED BY <1>3, <3>1, <3>2
  <2>3. PoolTypeOK' /\ InHand' /\ pool'[t] = p /\ \A u \in BufferTasks \ {t} : pool'[u] = pool[u]
    BY <1>p, <1>t, <1>h, <2>2
  <2> QED BY <1>q, <1>h, <2>2, <2>3
<1>5. ASSUME NEW t \in BufferTasks, AllocateMemory(t) PROVE PoolInv'
  <2>1. pool[t] \in PoolTask
    BY <1>t
  <2>2. PICK p \in PoolTask :
           /\ pool' = [pool EXCEPT ![t] = p] /\ pool[t].at = "allocate"
           /\ (p.at = "outside" \/ (p.at = "insert" /\ p.buffer = pool[t].buffer))
           /\ UNCHANGED <<f, uxSemaphoreCount, uxMinimumFreeNetworkBuffers, held>>
    <3> DEFINE q == [pool[t] EXCEPT !.at = "insert"]
    <3>1. /\ pool' = [pool EXCEPT ![t] = Outside] \/ pool' = [pool EXCEPT ![t] = q]
          /\ pool[t].at = "allocate"
          /\ UNCHANGED <<f, uxSemaphoreCount, uxMinimumFreeNetworkBuffers, held>>
      BY <1>5, <1>t DEF AllocateMemory
    <3>2. q \in PoolTask /\ q.buffer = pool[t].buffer /\ q.at = "insert"
      BY <2>1, PoolTaskMoves DEF PoolPlace
    <3> HIDE DEF q
    <3> QED BY <1>u, <3>1, <3>2
  <2>3. PoolTypeOK' /\ InHand' /\ pool'[t] = p /\ \A u \in BufferTasks \ {t} : pool'[u] = pool[u]
    BY <1>p, <1>t, <1>h, <2>2
  <2> QED BY <1>q, <1>h, <2>2, <2>3
<1>6. ASSUME NEW t \in BufferTasks, FreeMemory(t) PROVE PoolInv'
  <2>1. PICK b \in Holds(t) : pool' = [pool EXCEPT ![t] = [at |-> "insert", buffer |-> b, count |-> 0]]
    BY <1>6 DEF FreeMemory
  <2> DEFINE p == [at |-> "insert", buffer |-> b, count |-> 0]
  <2>2. b \in Buffers /\ held[b] = t /\ p \in PoolTask /\ p.at = "insert" /\ p.buffer = b
    BY DEF Holds, PoolTask, PoolPlace
  <2>3. /\ pool[t].at = "outside" /\ pool' = [pool EXCEPT ![t] = p]
        /\ UNCHANGED <<f, uxSemaphoreCount, uxMinimumFreeNetworkBuffers, held>>
    BY <1>6, <2>1 DEF FreeMemory
  <2> HIDE DEF p
  <2>4. PoolTypeOK' /\ InHand' /\ pool'[t] = p /\ \A u \in BufferTasks \ {t} : pool'[u] = pool[u]
    BY <1>p, <1>t, <2>2, <2>3
  <2> QED BY <1>q, <2>2, <2>3, <2>4
<1>7. ASSUME NEW t \in BufferTasks, InsertEnd(t) PROVE PoolInv'
  <2> DEFINE b == pool[t].buffer
             p == [pool[t] EXCEPT !.at = "give"]
  <2>1. b \in Buffers /\ held[b] = t /\ ~AlreadyFree(b) /\ pool[t].at = "insert"
    BY <1>7, <1>h, BuffersAssumption DEF InsertEnd, PoolConsistent
  <2>2. /\ f' = Append(f, b) /\ held' = [held EXCEPT ![b] = "pool"]
        /\ pool' = [pool EXCEPT ![t].at = "give"]
        /\ UNCHANGED <<uxSemaphoreCount, uxMinimumFreeNetworkBuffers>>
    BY <1>7, <2>1 DEF InsertEnd
  <2>3. pool[t] \in PoolTask /\ pool' = [pool EXCEPT ![t] = p]
    BY <1>t, <2>2
  <2>4. p \in PoolTask /\ p.at = "give"
    BY <2>3, PoolTaskMoves DEF PoolPlace
  <2>5. \A i \in 1 .. Len(f) : f[i] # b
    BY <2>1, <1>f DEF AlreadyFree
  <2> HIDE DEF p, b
  <2>6. /\ f' \in Seq(Buffers) /\ Len(f') = Len(f) + 1
        /\ \A i \in 1 .. Len(f) : f'[i] = f[i]
        /\ f'[Len(f) + 1] = b
    BY <1>t, <1>f, <2>1, <2>2
  <2>7. held' \in [Buffers -> BufferTasks \cup {"pool"}] /\ held'[b] = "pool"
        /\ \A c \in Buffers \ {b} : held'[c] = held[c]
    BY <1>t, <2>1, <2>2
  <2>8. /\ PoolTypeOK' /\ InHand' /\ pool'[t] = p
        /\ \A u \in BufferTasks \ {t} : pool'[u] = pool[u]
    BY <1>p, <1>t, <2>2, <2>3, <2>4, <2>6, <2>7
  <2>9. t \notin Between /\ Between' = Between \cup {t}
    BY <2>1, <2>4, <2>8 DEF Between
  <2>10. Cardinality(Between') = Cardinality(Between) + 1
    BY <2>9, OneMoreBetween
  <2>11. Len(f') = uxSemaphoreCount' + Cardinality(Between')
    BY <1>t, <1>l, <2>2, <2>6, <2>10
  <2>12. \A i \in 1 .. Len(f') : i \in 1 .. Len(f) \/ i = Len(f) + 1
    BY <1>f, <2>6
  <2>13. \A i, j \in 1 .. Len(f') : f'[i] = f'[j] => i = j
    BY <1>f, <2>5, <2>6, <2>12
  <2>14. \A c \in Buffers : (\E i \in 1 .. Len(f') : f'[i] = c) <=> held'[c] = "pool"
    <3> SUFFICES ASSUME NEW c \in Buffers
                 PROVE  (\E i \in 1 .. Len(f') : f'[i] = c) <=> held'[c] = "pool"
      OBVIOUS
    <3>1. \A i \in 1 .. Len(f) : i \in 1 .. Len(f')
      BY <1>f, <2>6
    <3>2. Len(f) + 1 \in 1 .. Len(f')
      BY <1>f, <2>6
    <3>3. (\E i \in 1 .. Len(f') : f'[i] = c) <=> c = b \/ \E i \in 1 .. Len(f) : f[i] = c
      BY <3>1, <3>2, <2>6, <2>12
    <3> QED BY <1>f, <3>3, <2>7
  <2>15. \A u \in BufferTasks : pool'[u].at \in {"measure", "minimum", "allocate", "insert"} =>
            held'[pool'[u].buffer] = u
    BY <1>h, <2>1, <2>4, <2>7, <2>8
  <2> QED BY <1>d, <2>8, <2>11, <2>13, <2>14, <2>15
<1>8. ASSUME NEW t \in BufferTasks, GiveSemaphore(t) PROVE PoolInv'
  <2>1. /\ pool[t].at = "give" /\ pool' = [pool EXCEPT ![t] = Outside]
        /\ uxSemaphoreCount' = uxSemaphoreCount + 1 /\ uxSemaphoreCount' \in Nat
        /\ UNCHANGED <<f, uxMinimumFreeNetworkBuffers, held>>
    BY <1>8, <1>t DEF GiveSemaphore
  <2>2. PoolTypeOK' /\ InHand' /\ pool'[t] = Outside /\ \A u \in BufferTasks \ {t} : pool'[u] = pool[u]
    BY <1>p, <1>t, <1>u, <2>1
  <2>3. t \in Between /\ Between' = Between \ {t}
    BY <1>u, <2>1, <2>2 DEF Between
  <2>4. Cardinality(Between') = Cardinality(Between) - 1
    BY <2>3, OneLessBetween
  <2>5. Len(f') = uxSemaphoreCount' + Cardinality(Between')
    BY <1>t, <1>l, <2>1, <2>4
  <2>6. \A u \in BufferTasks : pool'[u].at \in {"measure", "minimum", "allocate", "insert"} =>
            held'[pool'[u].buffer] = u
    BY <1>h, <1>u, <2>1, <2>2
  <2> QED BY <1>d, <1>f, <2>1, <2>2, <2>5, <2>6
<1>9. ASSUME NEW t \in BufferTasks, PassOn(t) PROVE PoolInv'
  <2>1. PICK b \in Holds(t), u \in BufferTasks \ {t} : held' = [held EXCEPT ![b] = u]
    BY <1>9 DEF PassOn
  <2>2. /\ b \in Buffers /\ held[b] = t /\ u # "pool" /\ pool[t].at = "outside"
        /\ UNCHANGED <<f, uxSemaphoreCount, uxMinimumFreeNetworkBuffers, pool>>
    BY <1>9, BuffersAssumption DEF PassOn, Holds
  <2>3. held' \in [Buffers -> BufferTasks \cup {"pool"}] /\ held'[b] = u
        /\ \A c \in Buffers \ {b} : held'[c] = held[c]
    BY <1>t, <2>1, <2>2
  <2>4. PoolTypeOK' /\ InHand'
    BY <2>2, <2>3 DEF PoolTypeOK, InHand
  <2>5. \A c \in Buffers : held'[c] = "pool" <=> held[c] = "pool"
    BY <2>2, <2>3, BuffersAssumption
  <2>6. \A w \in BufferTasks : pool'[w].at \in {"measure", "minimum", "allocate", "insert"} =>
            held'[pool'[w].buffer] = w
    BY <1>h, <2>2, <2>3
  <2>7. Len(f') = uxSemaphoreCount' + Cardinality(Between')
    BY <1>l, <2>2 DEF Between
  <2> QED BY <1>d, <1>f, <2>2, <2>4, <2>5, <2>6, <2>7
<1>10. CASE UNCHANGED poolVars
  BY <1>10 DEF poolVars, PoolTypeOK, PoolConsistent, InHand, AlreadyFree
<1> QED BY <1>1, <1>2, <1>3, <1>5, <1>6, <1>7, <1>8, <1>9, <1>10 DEF PoolNext

(* Whoever gets the semaphore finds a descriptor, nobody gets one that     *)
(* another task has, and none is lost: for every number of descriptors and *)
(* of tasks (pxGetNetworkBufferWithDescriptor,                             *)
(* vReleaseNetworkBufferAndDescriptor).                                    *)
THEOREM PoolIsConsistent == PoolSpec => [](PoolTypeOK /\ PoolConsistent)
<1>1. PoolInv => PoolTypeOK /\ PoolConsistent
  BY DEF PoolInv
<1> QED BY <1>1, PoolInitInv, PoolNextInv, PTL DEF PoolSpec

(***************************************************************************)
(* Every set of natural numbers that is not empty has a least member: the  *)
(* initial segments of its members are ordered by inclusion, which is well *)
(* founded.                                                                *)
(***************************************************************************)
LEMMA LeastExists ==
  ASSUME NEW S \in SUBSET Nat, S # {}
  PROVE  \E x \in S : \A y \in S : x <= y
<1> DEFINE T == {1 .. x : x \in S}
<1>1. T \subseteq FiniteSubsetsOf(Nat) /\ T # {}
  <2>1. \A x \in S : (1 .. x) \in SUBSET Nat /\ IsFiniteSet(1 .. x)
    BY FS_Interval
  <2> QED BY <2>1 DEF FiniteSubsetsOf
<1>2. PICK t \in T : \A u \in T : ~(<<u, t>> \in StrictSubsetOrdering(Nat))
  <2>1. IsWellFoundedOn(StrictSubsetOrdering(Nat), FiniteSubsetsOf(Nat))
    BY FS_StrictSubsetOrderingWellFounded
  <2> HIDE DEF T
  <2> QED BY <1>1, <2>1, WFMin
<1>3. PICK x \in S : t = 1 .. x
  BY <1>2
<1>4. ASSUME NEW y \in S, ~(x <= y) PROVE FALSE
  <2>1. x \in Nat /\ y \in Nat
    OBVIOUS
  <2>2. (1 .. y) \subseteq (1 .. x) /\ x \in 1 .. x /\ x \notin 1 .. y
    BY <1>4, <2>1
  <2>3. <<1 .. y, 1 .. x>> \in StrictSubsetOrdering(Nat)
    BY <2>1, <2>2 DEF StrictSubsetOrdering
  <2> QED BY <1>2, <1>3, <1>4, <2>3
<1> QED BY <1>4

LEMMA GreatestExists ==
  ASSUME NEW n \in Nat, NEW S \in SUBSET (0 .. n), S # {}
  PROVE  \E x \in S : \A y \in S : y <= x
<1> DEFINE T == {n - x : x \in S}
<1>0. \A x \in S : x \in 0 .. n /\ n - x \in Nat
  OBVIOUS
<1>1. T \in SUBSET Nat /\ T # {}
  BY <1>0
<1>2. PICK t \in T : \A u \in T : t <= u
  <2> HIDE DEF T
  <2> QED BY <1>1, LeastExists
<1>3. PICK x \in S : t = n - x
  BY <1>2
<1>4. ASSUME NEW y \in S PROVE y <= x
  BY <1>0, <1>2, <1>3
<1> QED BY <1>4

(***************************************************************************)
(* The ARP cache.                                                          *)
(***************************************************************************)
LEMMA SmallestIsLeast ==
  ASSUME NEW S \in SUBSET Nat, S # {}
  PROVE  Smallest(S) \in S /\ \A y \in S : Smallest(S) <= y
  BY LeastExists DEF Smallest

LEMMA LargestIsGreatest ==
  ASSUME NEW n \in Nat, NEW S \in SUBSET (0 .. n), S # {}
  PROVE  Largest(S) \in S /\ \A y \in S : y <= Largest(S)
  BY GreatestExists DEF Largest

(* An address has one row at most.                                         *)
OneRow ==
  \A x, y \in Rows :
    xARPCache[x].ulIPAddress = xARPCache[y].ulIPAddress /\ xARPCache[x].ulIPAddress \in LocalAddresses
      => x = y

(* And so has a device.                                                    *)
OneDeviceRow ==
  \A x, y \in Rows :
    xARPCache[x].xMACAddress = xARPCache[y].xMACAddress /\ xARPCache[x].xMACAddress \in Macs
      => x = y

(* What a row says of its address, that was heard h and asked for n times; *)
(* a row that has aged out has no address.                                 *)
RowIsFresh(row, h, n) ==
  /\ row.ucAge > 0
  /\ IF row.ucValid
     THEN row.xMACAddress \in Macs /\ h = [mac |-> row.xMACAddress, ago |-> MaxArpAge - row.ucAge]
     ELSE n - 1 = MaxArpRetransmissions - row.ucAge

RowsAreFresh ==
  \A x \in Rows : xARPCache[x].ulIPAddress \in LocalAddresses
      => RowIsFresh(xARPCache[x], heard[xARPCache[x].ulIPAddress], asked[xARPCache[x].ulIPAddress])

ArpInv == ArpTypeOK /\ OneRow /\ OneDeviceRow /\ RowsAreFresh

LEMMA EmptyRowIsRow ==
  EmptyRow \in ArpRow /\ EmptyRow.ulIPAddress \notin LocalAddresses /\ EmptyRow.xMACAddress \notin Macs
<1>1. 0 \in 0 .. MaxArpAge /\ NoAddress \notin LocalAddresses /\ NoMac \notin Macs
  BY ArpAssumption
<1> QED BY <1>1 DEF EmptyRow, ArpRow

LEMMA RowsAreNat == ArpEntries \in Nat \ {0} /\ Rows \subseteq Nat /\ Rows \subseteq 0 .. ArpEntries /\ 1 \in Rows
  BY ArpAssumption DEF Rows

(* The row a refresh uses: the device's own if it has one of another       *)
(* address, the row of the address otherwise.                              *)
LEMMA UsedRow ==
  ASSUME ArpTypeOK, NEW a \in LocalAddresses, NEW m \in Macs \cup {NoMac}
  PROVE  /\ UseEntry(a, m) \in Rows
         /\ IpRows(a) # {} => IpRow(a, m) \in IpRows(a)
         /\ MacRows(a, m) # {} => UseEntry(a, m) \in MacRows(a, m)
         /\ MacRows(a, m) = {} /\ IpRows(a) # {} => UseEntry(a, m) = IpRow(a, m)
<1>1. IpRows(a) \subseteq Rows /\ IpRows(a) \in SUBSET Nat /\ IpRows(a) \in SUBSET (0 .. ArpEntries)
  BY RowsAreNat DEF IpRows
<1>2. ArpEntries \in Nat
  BY RowsAreNat
<1>3. IpRows(a) # {} => IpRow(a, m) \in IpRows(a)
  <2>1. IpRows(a) # {} => Smallest(IpRows(a)) \in IpRows(a)
    BY <1>1, SmallestIsLeast
  <2>2. IpRows(a) # {} => Largest(IpRows(a)) \in IpRows(a)
    BY <1>1, <1>2, LargestIsGreatest
  <2> QED BY <2>1, <2>2 DEF IpRow
<1>4. MacRows(a, m) \subseteq Rows /\ MacRows(a, m) \in SUBSET (0 .. ArpEntries)
  BY RowsAreNat DEF MacRows, DeviceRows
<1>5. MacRows(a, m) # {} => Largest(MacRows(a, m)) \in MacRows(a, m)
  BY <1>2, <1>4, LargestIsGreatest
<1>6. CASE MacRows(a, m) # {} \/ IpRows(a) # {}
  BY <1>1, <1>3, <1>4, <1>5, <1>6 DEF UseEntry
<1>7. CASE MacRows(a, m) = {} /\ IpRows(a) = {}
  <2> DEFINE ages == {xARPCache[x].ucAge : x \in Rows}
             oldest == {x \in Rows : \A y \in Rows : xARPCache[x].ucAge <= xARPCache[y].ucAge}
  <2>1. UseEntry(a, m) = Smallest(oldest)
    BY <1>7 DEF UseEntry, Oldest
  <2>2. \A x \in Rows : xARPCache[x].ucAge \in Nat
    BY DEF ArpTypeOK, ArpRow
  <2>3. PICK age \in ages : \A other \in ages : age <= other
    <3>1. ages \in SUBSET Nat /\ ages # {}
      BY <2>2, RowsAreNat
    <3> HIDE DEF ages
    <3> QED BY <3>1, LeastExists
  <2>4. PICK x \in Rows : age = xARPCache[x].ucAge
    BY <2>3
  <2>5. x \in oldest
    BY <2>3, <2>4
  <2>6. oldest \in SUBSET Nat /\ oldest \subseteq Rows
    BY RowsAreNat
  <2> HIDE DEF oldest
  <2>7. Smallest(oldest) \in oldest
    BY <2>5, <2>6, SmallestIsLeast
  <2> QED BY <1>7, <2>1, <2>6, <2>7
<1> QED BY <1>3, <1>6, <1>7

LEMMA ArpInvInit == ASSUME ArpInit PROVE ArpInv
<1>1. Long \in Nat /\ Long \in 0 .. Long
  BY ArpAssumption DEF Long
<1>2. \A x \in Rows : xARPCache[x] = EmptyRow
  BY DEF ArpInit
<1>3. ArpTypeOK
  BY <1>1, EmptyRowIsRow DEF ArpInit, ArpTypeOK
<1> QED BY <1>2, <1>3, EmptyRowIsRow DEF ArpInv, OneRow, OneDeviceRow, RowsAreFresh

(* A row that gets address a, the row of a before being cleared, leaves    *)
(* one row of a and of its device, and every other row as it was.          *)
LEMMA RowTaken ==
  ASSUME ArpInv, NEW a \in LocalAddresses, NEW use \in Rows,
         ArpTypeOK', xARPCache'[use].ulIPAddress = a,
         \A x \in Rows : xARPCache'[x].ulIPAddress = a => x = use,
         \A x \in Rows : xARPCache'[x].xMACAddress = xARPCache'[use].xMACAddress
                          /\ xARPCache'[x].xMACAddress \in Macs => x = use,
         \A x \in Rows : x # use => xARPCache'[x] \in {xARPCache[x], EmptyRow},
         \A b \in LocalAddresses \ {a} : heard'[b] = heard[b] /\ asked'[b] = asked[b],
         RowIsFresh(xARPCache'[use], heard'[a], asked'[a])
  PROVE  ArpInv'
<1>1. ArpTypeOK'
  OBVIOUS
<1>2. xARPCache'[use].ulIPAddress = a
  OBVIOUS
<1>3. \A x \in Rows \ {use} : xARPCache'[x].ulIPAddress # a
  OBVIOUS
<1>4. \A x \in Rows \ {use} : xARPCache'[x].ulIPAddress \in LocalAddresses => xARPCache'[x] = xARPCache[x]
  BY EmptyRowIsRow
<1>5. OneRow'
  <2> SUFFICES ASSUME NEW x \in Rows, NEW y \in Rows,
                      xARPCache'[x].ulIPAddress = xARPCache'[y].ulIPAddress,
                      xARPCache'[x].ulIPAddress \in LocalAddresses
               PROVE  x = y
    BY DEF OneRow
  <2>1. CASE x = use \/ y = use
    BY <1>2, <1>3, <2>1
  <2>2. CASE x # use /\ y # use
    BY <1>4, <2>2 DEF ArpInv, OneRow
  <2> QED BY <2>1, <2>2
<1>6. RowsAreFresh'
  <2> SUFFICES ASSUME NEW x \in Rows, xARPCache'[x].ulIPAddress \in LocalAddresses
               PROVE  RowIsFresh(xARPCache'[x], heard'[xARPCache'[x].ulIPAddress],
                                 asked'[xARPCache'[x].ulIPAddress])
    BY DEF RowsAreFresh
  <2>1. CASE x = use
    BY <1>2, <2>1
  <2>2. CASE x # use
    <3>1. xARPCache'[x] = xARPCache[x] /\ xARPCache[x].ulIPAddress \in LocalAddresses \ {a}
      BY <1>3, <1>4, <2>2
    <3>2. RowIsFresh(xARPCache[x], heard[xARPCache[x].ulIPAddress], asked[xARPCache[x].ulIPAddress])
      BY <3>1 DEF ArpInv, RowsAreFresh
    <3> QED BY <3>1, <3>2
  <2> QED BY <2>1, <2>2
<1>7. OneDeviceRow'
  <2> SUFFICES ASSUME NEW x \in Rows, NEW y \in Rows,
                      xARPCache'[x].xMACAddress = xARPCache'[y].xMACAddress,
                      xARPCache'[x].xMACAddress \in Macs
               PROVE  x = y
    BY DEF OneDeviceRow
  <2>1. CASE x = use \/ y = use
    BY <2>1
  <2>2. CASE x # use /\ y # use
    <3>1. xARPCache'[x] = xARPCache[x] /\ xARPCache'[y] = xARPCache[y]
      BY <2>2, EmptyRowIsRow
    <3> QED BY <3>1 DEF ArpInv, OneDeviceRow
  <2> QED BY <2>1, <2>2
<1> QED BY <1>1, <1>5, <1>6, <1>7 DEF ArpInv

(* What a received frame does to the history of its address.               *)
LEMMA HeardNow ==
  ASSUME ArpTypeOK, NEW a \in LocalAddresses, NEW m \in Macs, ReceiveFrame(a, m)
  PROVE  /\ heard' \in [LocalAddresses -> [mac : Macs \cup {NoMac}, ago : 0 .. Long]]
         /\ asked' \in [LocalAddresses -> Nat]
         /\ \A b \in LocalAddresses \ {a} : heard'[b] = heard[b] /\ asked'[b] = asked[b]
         /\ heard'[a] = [mac |-> m, ago |-> 0]
<1>1. Long \in Nat
  BY ArpAssumption DEF Long
<1>2. /\ heard' = [heard EXCEPT ![a] = [mac |-> m, ago |-> 0]]
      /\ asked' = [asked EXCEPT ![a] = 0]
  BY DEF ReceiveFrame, Local
<1> QED BY <1>1, <1>2 DEF ArpTypeOK

(* A row of the device, as young as can be, is what the history says.      *)
LEMMA JustHeard ==
  ASSUME NEW row \in ArpRow, NEW m \in Macs, NEW h, NEW n, row.xMACAddress = m,
         row.ucAge = MaxArpAge, row.ucValid = TRUE, h = [mac |-> m, ago |-> 0]
  PROVE  RowIsFresh(row, h, n)
<1>1. MaxArpAge - row.ucAge = 0 /\ row.ucAge > 0
  BY ArpAssumption
<1> QED BY <1>1 DEF RowIsFresh

(* The early return: the row of both is confirmed.                         *)
LEMMA ConfirmKeeps ==
  ASSUME ArpInv, NEW a \in LocalAddresses, NEW m \in Macs, ReceiveFrame(a, m),
         IpRows(a) \cap DeviceRows(m) # {}
  PROVE  ArpInv'
<1> DEFINE both == IpRows(a) \cap DeviceRows(m)
           use == Smallest(both)
           row == [xARPCache[use] EXCEPT !.ucAge = MaxArpAge, !.ucValid = TRUE]
<1>1. ArpTypeOK /\ OneRow /\ OneDeviceRow
  BY DEF ArpInv
<1>2. m # NoMac /\ MaxArpAge \in 0 .. MaxArpAge
  BY ArpAssumption
<1>3. use \in Rows /\ xARPCache[use].ulIPAddress = a /\ xARPCache[use].xMACAddress = m
  <2>1. both \in SUBSET Nat /\ both # {}
    BY RowsAreNat DEF IpRows
  <2> HIDE DEF both
  <2>2. use \in both
    BY <2>1, SmallestIsLeast
  <2> QED BY <2>2 DEF both, IpRows, DeviceRows
<1>4. xARPCache' = [xARPCache EXCEPT ![use] = row]
  BY <1>2 DEF ReceiveFrame, Refreshed, Local, Confirmed
<1>5. xARPCache[use] \in ArpRow /\ row \in ArpRow /\ row.ulIPAddress = a
      /\ row.ucValid = TRUE /\ row.xMACAddress = m /\ row.ucAge = MaxArpAge
  BY <1>1, <1>2, <1>3 DEF ArpTypeOK, ArpRow
<1> HIDE DEF row, use
<1>6. /\ xARPCache' \in [Rows -> ArpRow] /\ xARPCache'[use] = row
      /\ \A x \in Rows : x # use => xARPCache'[x] = xARPCache[x]
  BY <1>1, <1>3, <1>4, <1>5 DEF ArpTypeOK
<1>7. /\ \A x \in Rows : xARPCache'[x].ulIPAddress = a => x = use
      /\ \A x \in Rows : xARPCache'[x].xMACAddress = xARPCache'[use].xMACAddress => x = use
  BY <1>1, <1>3, <1>5, <1>6 DEF OneRow, OneDeviceRow
<1>8. RowIsFresh(xARPCache'[use], heard'[a], asked'[a])
  BY <1>1, <1>5, <1>6, HeardNow, JustHeard
<1>9. ArpTypeOK'
  BY <1>1, <1>6, HeardNow DEF ArpTypeOK
<1>10. \A b \in LocalAddresses \ {a} : heard'[b] = heard[b] /\ asked'[b] = asked[b]
  BY <1>1, HeardNow
<1> QED BY <1>3, <1>5, <1>6, <1>7, <1>8, <1>9, <1>10, RowTaken

LEMMA ReceiveKeeps ==
  ASSUME ArpInv, NEW a \in LocalAddresses, NEW m \in Macs, ReceiveFrame(a, m)
  PROVE  ArpInv'
<1> DEFINE ip == IpRows(a)
           use == UseEntry(a, m)
           row == [[xARPCache[use] EXCEPT !.ulIPAddress = a]
                     EXCEPT !.xMACAddress = m, !.ucAge = MaxArpAge, !.ucValid = TRUE]
           cleared == IF MacRows(a, m) # {} /\ ip # {}
                      THEN [xARPCache EXCEPT ![IpRow(a, m)] = EmptyRow] ELSE xARPCache
<1> SUFFICES ASSUME ip \cap DeviceRows(m) = {} PROVE ArpInv'
  BY ConfirmKeeps
<1>1. ArpTypeOK /\ OneRow /\ OneDeviceRow
  BY DEF ArpInv
<1>2. /\ use \in Rows
      /\ ip # {} => IpRow(a, m) \in ip
      /\ MacRows(a, m) # {} => use \in MacRows(a, m)
      /\ MacRows(a, m) = {} /\ ip # {} => use = IpRow(a, m)
  BY <1>1, UsedRow
<1>3. m # NoMac /\ MaxArpAge \in 0 .. MaxArpAge
  BY ArpAssumption
<1>4. xARPCache' = [cleared EXCEPT ![use] = row]
  BY <1>3 DEF ReceiveFrame, Refreshed, Local
<1>5. xARPCache[use] \in ArpRow /\ row \in ArpRow /\ row.ulIPAddress = a
      /\ row.ucValid = TRUE /\ row.xMACAddress = m /\ row.ucAge = MaxArpAge
  BY <1>1, <1>2, <1>3 DEF ArpTypeOK, ArpRow
<1>6. ip \subseteq Rows /\ \A x \in ip : xARPCache[x].ulIPAddress = a
  BY DEF IpRows
<1>7. /\ cleared \in [Rows -> ArpRow]
      /\ \A x \in Rows : cleared[x] = xARPCache[x] \/ cleared[x] = EmptyRow
  BY <1>1, <1>2, EmptyRowIsRow DEF ArpTypeOK
<1>8. \A x \in Rows : cleared[x].ulIPAddress = a => x = use
  <2> SUFFICES ASSUME NEW x \in Rows, cleared[x].ulIPAddress = a PROVE x = use
    OBVIOUS
  <2>1. cleared[x] = xARPCache[x]
    BY <1>7, EmptyRowIsRow
  <2>2. x \in ip
    BY <2>1 DEF IpRows
  <2>3. x = IpRow(a, m)
    BY <1>1, <1>2, <1>6, <2>2 DEF OneRow
  <2>4. CASE MacRows(a, m) = {}
    BY <1>2, <2>2, <2>3, <2>4
  <2>5. CASE MacRows(a, m) # {}
    <3>1. cleared[x] = EmptyRow
      BY <1>1, <2>2, <2>3, <2>5 DEF ArpTypeOK
    <3> QED BY <3>1, EmptyRowIsRow
  <2> QED BY <2>4, <2>5
<1>9. \A x \in Rows : cleared[x].xMACAddress = m => x = use
  <2> SUFFICES ASSUME NEW x \in Rows, cleared[x].xMACAddress = m PROVE x = use
    OBVIOUS
  <2>1. cleared[x] = xARPCache[x]
    BY <1>7, EmptyRowIsRow
  <2>2. x \in DeviceRows(m) /\ x \in MacRows(a, m)
    BY <1>3, <2>1 DEF DeviceRows, MacRows
  <2>3. use \in DeviceRows(m)
    BY <1>2, <2>2 DEF MacRows
  <2> QED BY <1>1, <2>2, <2>3 DEF OneDeviceRow, DeviceRows
<1>10. /\ heard' \in [LocalAddresses -> [mac : Macs \cup {NoMac}, ago : 0 .. Long]]
       /\ asked' \in [LocalAddresses -> Nat]
       /\ \A b \in LocalAddresses \ {a} : heard'[b] = heard[b] /\ asked'[b] = asked[b]
       /\ heard'[a] = [mac |-> m, ago |-> 0]
  BY <1>1, HeardNow
<1> HIDE DEF row, cleared, use
<1>11. RowIsFresh(row, heard'[a], asked'[a])
  BY <1>5, <1>10, JustHeard
<1>12. /\ xARPCache' \in [Rows -> ArpRow] /\ xARPCache'[use] = row
       /\ \A x \in Rows : xARPCache'[x].ulIPAddress = a => x = use
       /\ \A x \in Rows : xARPCache'[x].xMACAddress = xARPCache'[use].xMACAddress => x = use
       /\ \A x \in Rows : x # use => xARPCache'[x] \in {xARPCache[x], EmptyRow}
  BY <1>2, <1>4, <1>5, <1>7, <1>8, <1>9
<1>13. xARPCache'[use].ulIPAddress = a /\ RowIsFresh(xARPCache'[use], heard'[a], asked'[a])
  BY <1>5, <1>11, <1>12
<1>14. ArpTypeOK'
  BY <1>10, <1>12 DEF ArpTypeOK
<1> QED BY <1>2, <1>10, <1>12, <1>13, <1>14, RowTaken

LEMMA SendKeeps ==
  ASSUME ArpInv, NEW a \in Addresses \cup Broadcasts, SendPacket(a)
  PROVE  ArpInv'
<1> DEFINE h == Hop(a)
           use == UseEntry(h, NoMac)
           row == [[xARPCache[use] EXCEPT !.ulIPAddress = h]
                     EXCEPT !.ucAge = MaxArpRetransmissions, !.ucValid = FALSE]
<1>1. ArpTypeOK /\ OneRow /\ OneDeviceRow
  BY DEF ArpInv
<1>2. IpRows(h) = {}
  BY DEF SendPacket, GetCacheEntry, CacheLookup
<1>3. CASE ~Local(h)
  <2>1. UNCHANGED arpVars
    BY <1>3 DEF SendPacket, Refreshed, arpVars
  <2> QED BY <2>1 DEF arpVars, ArpInv, ArpTypeOK, OneRow, OneDeviceRow, RowsAreFresh
<1>4. CASE Local(h)
  <2>1. h \in LocalAddresses
    BY <1>4 DEF Local
  <2>2. use \in Rows /\ MacRows(h, NoMac) = {}
    BY <1>1, <2>1, UsedRow DEF MacRows
  <2>3. /\ MaxArpRetransmissions \in 0 .. MaxArpAge /\ MaxArpRetransmissions > 0
        /\ MaxArpRetransmissions - MaxArpRetransmissions = 0 /\ 1 - 1 = 0
    BY ArpAssumption
  <2>4. xARPCache[use] \in ArpRow /\ row \in ArpRow /\ row.ulIPAddress = h
        /\ row.ucValid = FALSE /\ row.ucAge = MaxArpRetransmissions
        /\ row.xMACAddress = xARPCache[use].xMACAddress
    BY <1>1, <2>1, <2>2, <2>3 DEF ArpTypeOK, ArpRow
  <2>5. xARPCache' = [xARPCache EXCEPT ![use] = row]
    BY <1>2, <1>4, <2>2 DEF SendPacket, Refreshed
  <2>6. \A x \in Rows : xARPCache[x].ulIPAddress = h => x = use
    BY <1>2 DEF IpRows
  <2>7. heard' = heard /\ asked' = [asked EXCEPT ![h] = 1]
    BY <1>4 DEF SendPacket
  <2> HIDE DEF row, use, h
  <2>8. /\ heard' \in [LocalAddresses -> [mac : Macs \cup {NoMac}, ago : 0 .. Long]]
        /\ asked' \in [LocalAddresses -> Nat]
        /\ \A b \in LocalAddresses \ {h} : heard'[b] = heard[b] /\ asked'[b] = asked[b]
        /\ asked'[h] = 1
        /\ xARPCache \in [Rows -> ArpRow]
    BY <1>1, <2>1, <2>7 DEF ArpTypeOK
  <2>9. RowIsFresh(row, heard'[h], asked'[h])
    BY <2>3, <2>4, <2>8 DEF RowIsFresh
  <2>10. /\ xARPCache' \in [Rows -> ArpRow] /\ xARPCache'[use] = row
         /\ \A x \in Rows : xARPCache'[x].ulIPAddress = h => x = use
         /\ \A x \in Rows : x # use => xARPCache'[x] \in {xARPCache[x], EmptyRow}
         /\ \A x \in Rows : xARPCache'[x].xMACAddress = xARPCache[x].xMACAddress
    BY <2>2, <2>4, <2>5, <2>6, <2>8
  <2>11. xARPCache'[use].ulIPAddress = h /\ RowIsFresh(xARPCache'[use], heard'[h], asked'[h])
    BY <2>4, <2>9, <2>10
  <2>12. ArpTypeOK'
    BY <2>8, <2>10 DEF ArpTypeOK
  <2>13. \A x \in Rows : xARPCache'[x].xMACAddress = xARPCache'[use].xMACAddress
                          /\ xARPCache'[x].xMACAddress \in Macs => x = use
    BY <1>1, <2>2, <2>10 DEF OneDeviceRow
  <2> QED BY <2>1, <2>2, <2>8, <2>10, <2>11, <2>12, <2>13, RowTaken
<1> QED BY <1>3, <1>4

LEMMA AgedRow ==
  ASSUME NEW row \in ArpRow, row.ucAge > 0
  PROVE  /\ Aged(row) \in ArpRow
         /\ Aged(row).ucAge = row.ucAge - 1 /\ Aged(row).ucValid = row.ucValid
         /\ Aged(row).xMACAddress = row.xMACAddress
         /\ Aged(row).ulIPAddress = IF row.ucAge = 1 THEN NoAddress ELSE row.ulIPAddress
<1>1. row.ucAge - 1 \in 0 .. MaxArpAge /\ (row.ucAge - 1 = 0 <=> row.ucAge = 1)
  BY ArpAssumption DEF ArpRow
<1>2. row.ucAge # 0
  BY <1>1
<1> QED BY <1>1, <1>2 DEF ArpRow, Aged

LEMMA AgeKeeps ==
  ASSUME ArpInv, AgeCache
  PROVE  ArpInv'
<1>1. ArpTypeOK /\ OneRow /\ OneDeviceRow /\ RowsAreFresh
  BY DEF ArpInv
<1>2. MaxArpAge \in Nat /\ Long = MaxArpAge + 1 /\ NoAddress \notin LocalAddresses
  BY ArpAssumption DEF Long
<1>3. \A x \in Rows : xARPCache[x] \in ArpRow /\ xARPCache'[x] = Aged(xARPCache[x])
  BY <1>1 DEF ArpTypeOK, AgeCache
<1>4. \A x \in Rows : xARPCache[x].ucAge = 0 => xARPCache'[x] = xARPCache[x]
  BY <1>3 DEF Aged
<1>5. \A x \in Rows : xARPCache[x].ucAge # 0 => xARPCache[x].ucAge > 0 /\ xARPCache[x].ucAge \in 1 .. MaxArpAge
  BY <1>2, <1>3 DEF ArpRow
<1>6. \A x \in Rows : xARPCache'[x] \in ArpRow
  <2> TAKE x \in Rows
  <2>1. CASE xARPCache[x].ucAge = 0
    BY <1>3, <1>4, <2>1
  <2>2. CASE xARPCache[x].ucAge # 0
    BY <1>3, <1>5, <2>2, AgedRow
  <2> QED BY <2>1, <2>2
<1>7. \A a \in LocalAddresses :
        /\ heard[a] \in [mac : Macs \cup {NoMac}, ago : 0 .. Long]
        /\ heard'[a] = [heard[a] EXCEPT !.ago = Older(@)]
        /\ heard'[a] \in [mac : Macs \cup {NoMac}, ago : 0 .. Long]
        /\ asked[a] \in Nat /\ asked'[a] \in Nat
  <2> TAKE a \in LocalAddresses
  <2>1. heard[a] \in [mac : Macs \cup {NoMac}, ago : 0 .. Long] /\ asked[a] \in Nat
    BY <1>1 DEF ArpTypeOK
  <2>2. heard'[a] = [heard[a] EXCEPT !.ago = Older(@)] /\ asked'[a] \in {asked[a], asked[a] + 1}
    BY DEF AgeCache
  <2>3. Older(heard[a].ago) \in 0 .. Long
    BY <1>2, <2>1 DEF Older
  <2> QED BY <2>1, <2>2, <2>3
<1>8. ArpTypeOK'
  <2>1. /\ xARPCache' = [x \in Rows |-> xARPCache'[x]]
        /\ heard' = [a \in LocalAddresses |-> heard'[a]]
        /\ asked' = [a \in LocalAddresses |-> asked'[a]]
    BY DEF AgeCache
  <2> QED BY <1>6, <1>7, <2>1 DEF ArpTypeOK
<1>9. \A x \in Rows : xARPCache'[x].ulIPAddress \in LocalAddresses =>
        /\ xARPCache'[x].ulIPAddress = xARPCache[x].ulIPAddress
        /\ xARPCache[x].ucAge # 0 /\ xARPCache[x].ucAge # 1
  <2> SUFFICES ASSUME NEW x \in Rows, xARPCache'[x].ulIPAddress \in LocalAddresses
               PROVE  /\ xARPCache'[x].ulIPAddress = xARPCache[x].ulIPAddress
                      /\ xARPCache[x].ucAge # 0 /\ xARPCache[x].ucAge # 1
    OBVIOUS
  <2>1. xARPCache[x].ucAge # 0
    <3> SUFFICES ASSUME xARPCache[x].ucAge = 0 PROVE FALSE
      OBVIOUS
    <3>1. xARPCache[x].ulIPAddress \in LocalAddresses
      BY <1>4
    <3>2. xARPCache[x].ucAge > 0
      BY <1>1, <3>1 DEF RowsAreFresh, RowIsFresh
    <3> QED BY <3>2
  <2>2. xARPCache'[x].ulIPAddress = IF xARPCache[x].ucAge = 1 THEN NoAddress ELSE xARPCache[x].ulIPAddress
    BY <1>3, <1>5, <2>1, AgedRow
  <2> QED BY <1>2, <2>1, <2>2
<1>10. OneRow'
  BY <1>1, <1>9 DEF OneRow
<1>11. RowsAreFresh'
  <2> SUFFICES ASSUME NEW x \in Rows, xARPCache'[x].ulIPAddress \in LocalAddresses
               PROVE  RowIsFresh(xARPCache'[x], heard'[xARPCache'[x].ulIPAddress],
                                 asked'[xARPCache'[x].ulIPAddress])
    BY DEF RowsAreFresh
  <2> DEFINE a == xARPCache[x].ulIPAddress
             row == xARPCache[x]
             aged == xARPCache'[x]
  <2>1. a \in LocalAddresses /\ xARPCache'[x].ulIPAddress = a /\ row \in ArpRow
    BY <1>3, <1>9
  <2>2. row.ucAge \in 2 .. MaxArpAge
    BY <1>2, <1>5, <1>9
  <2>3. aged.ucAge = row.ucAge - 1 /\ aged.ucValid = row.ucValid /\ aged.xMACAddress = row.xMACAddress
    BY <1>3, <1>5, <2>2, AgedRow
  <2>4. RowIsFresh(row, heard[a], asked[a])
    BY <1>1, <2>1 DEF RowsAreFresh
  <2>5. CASE row.ucValid
    <3> HIDE DEF a, row, aged
    <3>1. heard[a] = [mac |-> row.xMACAddress, ago |-> MaxArpAge - row.ucAge] /\ row.xMACAddress \in Macs
      BY <2>4, <2>5 DEF RowIsFresh
    <3>2. Older(MaxArpAge - row.ucAge) = MaxArpAge - aged.ucAge
      BY <1>2, <2>2, <2>3 DEF Older
    <3>3. heard'[a] = [mac |-> row.xMACAddress, ago |-> Older(MaxArpAge - row.ucAge)]
      BY <1>7, <2>1, <3>1
    <3>4. RowIsFresh(aged, heard'[a], asked'[a])
      BY <2>2, <2>3, <2>5, <3>1, <3>2, <3>3 DEF RowIsFresh
    <3> QED BY <2>1, <3>4 DEF aged
  <2>6. CASE ~row.ucValid
    <3>1. AsksAgain(row)
      BY <2>2, <2>6 DEF AsksAgain
    <3>2. asked'[a] = asked[a] + 1
      BY <2>1, <2>6, <3>1 DEF AgeCache
    <3> HIDE DEF a, row, aged
    <3>3. asked[a] - 1 = MaxArpRetransmissions - row.ucAge /\ asked[a] \in Nat
      BY <1>7, <2>1, <2>4, <2>6 DEF RowIsFresh
    <3>4. MaxArpRetransmissions \in Nat
      BY ArpAssumption
    <3>5. asked'[a] - 1 = MaxArpRetransmissions - aged.ucAge
      BY <2>2, <2>3, <3>2, <3>3, <3>4
    <3>6. RowIsFresh(aged, heard'[a], asked'[a])
      BY <2>2, <2>3, <2>6, <3>5 DEF RowIsFresh
    <3> QED BY <2>1, <3>6 DEF aged
  <2> QED BY <2>5, <2>6
<1>12. OneDeviceRow'
  <2>1. \A x \in Rows : xARPCache'[x].xMACAddress = xARPCache[x].xMACAddress
    <3> TAKE x \in Rows
    <3>1. CASE xARPCache[x].ucAge = 0
      BY <1>4, <3>1
    <3>2. CASE xARPCache[x].ucAge # 0
      BY <1>3, <1>5, <3>2, AgedRow
    <3> QED BY <3>1, <3>2
  <2> QED BY <1>1, <2>1 DEF OneDeviceRow
<1> QED BY <1>8, <1>10, <1>11, <1>12 DEF ArpInv

LEMMA ArpInvNext == ASSUME ArpInv, [ArpNext]_arpVars PROVE ArpInv'
<1>1. CASE \E a \in Addresses, m \in Macs : ReceiveFrame(a, m)
  <2>1. PICK a \in Addresses, m \in Macs : ReceiveFrame(a, m)
    BY <1>1
  <2>2. CASE a \in LocalAddresses
    BY <2>1, <2>2, ReceiveKeeps
  <2>3. CASE a \notin LocalAddresses
    <3>1. UNCHANGED arpVars
      BY <2>1, <2>3 DEF ReceiveFrame, Refreshed, Local, arpVars
    <3> QED BY <3>1 DEF arpVars, ArpInv, ArpTypeOK, OneRow, OneDeviceRow, RowsAreFresh
  <2> QED BY <2>2, <2>3
<1>2. CASE \E a \in Addresses \cup Broadcasts : SendPacket(a)
  BY <1>2, SendKeeps
<1>3. CASE AgeCache
  BY <1>3, AgeKeeps
<1>4. CASE ClearARP
  <2>1. \A x \in Rows : xARPCache'[x] = EmptyRow
    BY <1>4 DEF ClearARP
  <2>2. ArpTypeOK'
    BY <1>4, EmptyRowIsRow DEF ClearARP, ArpInv, ArpTypeOK
  <2> QED BY <2>1, <2>2, EmptyRowIsRow DEF ArpInv, OneRow, OneDeviceRow, RowsAreFresh
<1>5. CASE UNCHANGED arpVars
  BY <1>5 DEF arpVars, ArpInv, ArpTypeOK, OneRow, OneDeviceRow, RowsAreFresh
<1> QED BY <1>1, <1>2, <1>3, <1>4, <1>5 DEF ArpNext

LEMMA AtMostOne ==
  ASSUME NEW S, \A x, y \in S : x = y
  PROVE  Cardinality(S) <= 1
<1>1. CASE S = {}
  BY <1>1, FS_EmptySet
<1>2. CASE S # {}
  <2>1. PICK x : S = {x}
    BY <1>2
  <2> QED BY <2>1, FS_Singleton
<1> QED BY <1>1, <1>2

(* The ARP cache, for every number of rows, every age and whatever is      *)
(* heard and sent: no address and no device has two rows, a row that       *)
(* answers holds the hardware address last heard from its address, of the  *)
(* age it states, and one that does not was asked for as often as it says  *)
(* (vARPRefreshCacheEntry, vARPAgeCache).                                  *)
THEOREM AnswersStayFresh == ArpSpec => []AnswersAreFresh
<1>1. ArpInv => AnswersAreFresh
  <2> SUFFICES ASSUME ArpInv
               PROVE  /\ \A m \in Macs : Cardinality(DeviceRows(m)) <= 1
                      /\ \A a \in LocalAddresses :
                           /\ Cardinality(IpRows(a)) <= 1
                           /\ \A x \in IpRows(a) :
                                /\ xARPCache[x].ucAge > 0
                                /\ RowIsFresh(xARPCache[x], heard[a], asked[a])
    BY DEF AnswersAreFresh, RowIsFresh
  <2>1. ASSUME NEW m \in Macs PROVE Cardinality(DeviceRows(m)) <= 1
    BY AtMostOne DEF ArpInv, OneDeviceRow, DeviceRows
  <2>2. ASSUME NEW a \in LocalAddresses PROVE Cardinality(IpRows(a)) <= 1
    BY AtMostOne DEF ArpInv, OneRow, IpRows
  <2>3. ASSUME NEW a \in LocalAddresses, NEW x \in IpRows(a)
        PROVE  RowIsFresh(xARPCache[x], heard[a], asked[a])
    BY DEF ArpInv, RowsAreFresh, IpRows
  <2> QED BY <2>1, <2>2, <2>3 DEF RowIsFresh
<1> QED BY <1>1, ArpInvInit, ArpInvNext, PTL DEF ArpSpec

(***************************************************************************)
(* The IP task.                                                            *)
(***************************************************************************)
IpPlaces == {"start", "arp", "queue", "tcp", "sockets", "restart", "sleep", "receive", "blocked",
             "handle", "initialise", "pending"}

IpTaskState ==
  [at : IpPlaces, event : {"none", "down", "arp", "tcp", "rx", "other"}, willSleep : BOOLEAN,
   sleep : Nat, late : Nat]

IpTimer(n) == [bActive : BOOLEAN, bExpired : BOOLEAN, ulRemainingTime : 0 .. n, elapsed : 0 .. n]

IpTypes ==
  /\ IpTypeOK
  /\ ipTask \in IpTaskState
  /\ asker \in [at : {"idle", "look", "send"}, waits : BOOLEAN]

(* Nothing is sent to the task before it is ready, so that its first event *)
(* finds the queue empty.                                                  *)
NothingBefore ==
  /\ ~network.ready => ipEvents = <<>> /\ asker.at = "idle"
  /\ ipTask.at = "start" <=> ~network.ready

DownQueued == \E i \in DOMAIN ipEvents : ipEvents[i] = "down"

(* The interface that is down is about to be initialised: the task does it,*)
(* has the event in hand, or will find it.                                 *)
DownNoticed ==
  network.ready /\ ~network.up /\ ipTask.at # "initialise" /\ ~Handling("down")
    => network.downPending \/ DownQueued

(* What the task read before it blocks is what the timer still says, and   *)
(* was true at the time of its last look.                                  *)
SleepsWithTimer ==
  /\ xARPTimer.elapsed <= xARPTimer.ulRemainingTime /\ xTCPTimer.elapsed <= xTCPTimer.ulRemainingTime
  /\ ipTask.at = "receive" => ipTask.sleep <= xTCPTimer.ulRemainingTime
  /\ ipTask.at = "blocked" => ipTask.sleep <= TimeLeft(xTCPTimer) + ipTask.late

IpInv == IpTypes /\ NothingBefore /\ DownNoticed /\ SleepsWithTimer

IpEvents == {"down", "arp", "tcp", "rx", "other"}

(* What is sent is at the end of the queue, and nothing leaves it.         *)
LEMMA SentKeeps ==
  ASSUME NEW e \in IpEvents, IpTypeOK
  PROVE  /\ Sent(e) \in Seq(IpEvents) /\ Len(Sent(e)) <= IpQueueLength
         /\ \A i \in DOMAIN ipEvents : i \in DOMAIN Sent(e) /\ Sent(e)[i] = ipEvents[i]
         /\ QueueHasRoom => \E i \in DOMAIN Sent(e) : Sent(e)[i] = e
<1>1. ipEvents \in Seq(IpEvents) /\ Len(ipEvents) \in Nat /\ Len(ipEvents) <= IpQueueLength
  BY DEF IpTypeOK, IpEvents
<1>2. IpQueueLength \in Nat
  BY IpAssumption
<1>3. CASE QueueHasRoom
  <2>1. Sent(e) = Append(ipEvents, e)
    BY <1>3 DEF Sent
  <2>2. /\ Sent(e) \in Seq(IpEvents) /\ Len(Sent(e)) = Len(ipEvents) + 1
        /\ \A i \in 1 .. Len(ipEvents) : Sent(e)[i] = ipEvents[i]
        /\ Sent(e)[Len(ipEvents) + 1] = e
    BY <1>1, <2>1
  <2>3. DOMAIN ipEvents = 1 .. Len(ipEvents) /\ DOMAIN Sent(e) = 1 .. Len(ipEvents) + 1
    BY <1>1, <2>2
  <2> QED BY <1>1, <1>2, <1>3, <2>2, <2>3 DEF QueueHasRoom
<1>4. CASE ~QueueHasRoom
  BY <1>1, <1>4 DEF Sent
<1> QED BY <1>3, <1>4

LEMMA AppendKeeps ==
  ASSUME NEW e \in IpEvents, IpTypeOK, QueueHasRoom
  PROVE  Append(ipEvents, e) = Sent(e)
  BY DEF Sent

LEMMA TimersStart ==
  ASSUME NEW n \in Nat, NEW m \in 0 .. n
  PROVE  /\ TimerStarted(m) \in IpTimer(n)
         /\ TimerStarted(m).elapsed <= TimerStarted(m).ulRemainingTime
  BY DEF TimerStarted, IpTimer

LEMMA TimersChecked ==
  ASSUME NEW n \in Nat, NEW m \in 0 .. n, NEW t \in IpTimer(n), t.elapsed <= t.ulRemainingTime
  PROVE  /\ Checked(t, m) \in IpTimer(n)
         /\ Checked(t, m).elapsed <= Checked(t, m).ulRemainingTime
<1>1. CASE TimerDue(t)
  BY <1>1, TimersStart DEF Checked
<1>2. CASE ~TimerDue(t) /\ t.bActive
  <2> DEFINE left == t.ulRemainingTime - t.elapsed
  <2>1. left \in 0 .. n /\ 0 \in 0 .. n /\ 0 <= left
    BY DEF IpTimer
  <2>2. Checked(t, m) = [t EXCEPT !.ulRemainingTime = left, !.elapsed = 0]
    BY <1>2 DEF Checked, TimeLeft
  <2> HIDE DEF left
  <2> QED BY <2>1, <2>2 DEF IpTimer
<1>3. CASE ~TimerDue(t) /\ ~t.bActive
  BY <1>3 DEF Checked
<1> QED BY <1>1, <1>2, <1>3

LEMMA TimersTick ==
  ASSUME NEW n \in Nat, NEW t \in IpTimer(n), t.elapsed <= t.ulRemainingTime
  PROVE  /\ Ticked(t) \in IpTimer(n)
         /\ Ticked(t).elapsed <= Ticked(t).ulRemainingTime
         /\ Ticked(t).ulRemainingTime = t.ulRemainingTime
         /\ TimeLeft(t) \in Nat /\ TimeLeft(Ticked(t)) \in Nat /\ TimeLeft(t) - 1 <= TimeLeft(Ticked(t))
<1>1. /\ t.elapsed \in 0 .. n /\ t.ulRemainingTime \in 0 .. n /\ TimeLeft(t) \in Nat
  BY DEF IpTimer, TimeLeft
<1>2. CASE t.bActive
  <2> DEFINE e == Shorter(t.elapsed + 1, t.ulRemainingTime)
  <2>1. e \in 0 .. n /\ e <= t.ulRemainingTime /\ e <= t.elapsed + 1
    BY <1>1 DEF Shorter
  <2>2. Ticked(t) = [t EXCEPT !.elapsed = e]
    BY <1>2 DEF Ticked
  <2> HIDE DEF e
  <2>3. /\ Ticked(t) \in IpTimer(n) /\ Ticked(t).elapsed = e /\ Ticked(t).ulRemainingTime = t.ulRemainingTime
    BY <2>1, <2>2 DEF IpTimer
  <2> QED BY <1>1, <2>1, <2>3 DEF TimeLeft
<1>3. CASE ~t.bActive
  BY <1>1, <1>3 DEF Ticked
<1> QED BY <1>2, <1>3

LEMMA IpInvInit == ASSUME IpInit PROVE IpInv
<1>1. /\ 0 \in 0 .. ArpPeriod /\ 0 \in 0 .. TcpPeriod /\ IpQueueLength \in Nat
  BY IpAssumption
<1>2. ipEvents \in Seq({"down", "arp", "tcp", "rx", "other"}) /\ Len(ipEvents) <= IpQueueLength
  BY <1>1 DEF IpInit
<1>3. IpTypes
  BY <1>1, <1>2 DEF IpInit, IpTypes, IpTypeOK, IpPlaces, IpTaskState, Stopped
<1>4. NothingBefore /\ DownNoticed /\ SleepsWithTimer
  BY DEF IpInit, NothingBefore, DownNoticed, SleepsWithTimer, Stopped
<1> QED BY <1>3, <1>4 DEF IpInv

LEMMA NetworkDownNoticed ==
  ASSUME IpTypeOK, NetworkDown
  PROVE  /\ ipEvents' \in Seq(IpEvents) /\ Len(ipEvents') <= IpQueueLength
         /\ network' \in [up : BOOLEAN, downPending : BOOLEAN, ready : BOOLEAN]
         /\ network'.up = network.up /\ network'.ready = network.ready
         /\ network'.downPending \/ DownQueued'
<1>1. /\ Sent("down") \in Seq(IpEvents) /\ Len(Sent("down")) <= IpQueueLength
      /\ QueueHasRoom => \E i \in DOMAIN Sent("down") : Sent("down")[i] = "down"
  BY SentKeeps DEF IpEvents
<1>2. ipEvents' = Sent("down") /\ network' = [network EXCEPT !.downPending = ~QueueHasRoom]
  BY DEF NetworkDown
<1>3. network \in [up : BOOLEAN, downPending : BOOLEAN, ready : BOOLEAN]
  BY DEF IpTypeOK
<1>4. QueueHasRoom \in BOOLEAN
  BY DEF QueueHasRoom
<1>5. network' \in [up : BOOLEAN, downPending : BOOLEAN, ready : BOOLEAN]
      /\ network'.up = network.up /\ network'.ready = network.ready /\ network'.downPending = ~QueueHasRoom
  BY <1>2, <1>3, <1>4
<1> QED BY <1>1, <1>2, <1>5 DEF DownQueued

LEMMA SentStaysNoticed ==
  ASSUME NEW e \in IpEvents, IpTypeOK, ipEvents' = Sent(e), DownQueued
  PROVE  DownQueued'
  BY SentKeeps DEF DownQueued

LEMMA IpInvNext == ASSUME IpInv, [IpNext]_ipVars PROVE IpInv'
<1> USE DEF IpPlaces, IpTaskState
<1>0. /\ ipEvents \in Seq(IpEvents) /\ Len(ipEvents) <= IpQueueLength
      /\ network \in [up : BOOLEAN, downPending : BOOLEAN, ready : BOOLEAN]
      /\ xARPTimer \in IpTimer(ArpPeriod)
      /\ xTCPTimer \in IpTimer(TcpPeriod)
      /\ xProcessedTCPMessage \in BOOLEAN
      /\ ipTask \in IpTaskState
      /\ asker \in [at : {"idle", "look", "send"}, waits : BOOLEAN]
      /\ IpTypeOK
  BY DEF IpInv, IpTypes, IpTypeOK, IpEvents, IpTimer
<1>1. /\ ArpPeriod \in Nat \ {0} /\ TcpPeriod \in Nat \ {0} /\ TcpPeriod <= ArpPeriod
      /\ MaxSleep \in Nat /\ IpQueueLength \in Nat \ {0}
  BY IpAssumption
<1>2. /\ NothingBefore /\ DownNoticed /\ SleepsWithTimer
      /\ xARPTimer.elapsed <= xARPTimer.ulRemainingTime /\ xTCPTimer.elapsed <= xTCPTimer.ulRemainingTime
  BY DEF IpInv, SleepsWithTimer
<1>3. SUFFICES /\ ipEvents' \in Seq(IpEvents) /\ Len(ipEvents') <= IpQueueLength
               /\ network' \in [up : BOOLEAN, downPending : BOOLEAN, ready : BOOLEAN]
               /\ xARPTimer' \in IpTimer(ArpPeriod)
               /\ xTCPTimer' \in IpTimer(TcpPeriod)
               /\ xProcessedTCPMessage' \in BOOLEAN
               /\ ipTask' \in IpTaskState
               /\ asker' \in [at : {"idle", "look", "send"}, waits : BOOLEAN]
               /\ NothingBefore' /\ DownNoticed' /\ SleepsWithTimer'
  BY DEF IpInv, IpTypes, IpTypeOK, IpEvents, IpTimer
<1>4. CASE StartIpTask
  <2>1. ~network.ready /\ ipEvents = <<>>
    BY <1>2, <1>4 DEF StartIpTask, NothingBefore
  <2>2. QueueHasRoom
    BY <1>1, <2>1 DEF QueueHasRoom
  <2>3. ipEvents' = Sent("down")
    BY <1>4, <2>2 DEF StartIpTask, Sent
  <2>4. /\ ipEvents' \in Seq(IpEvents) /\ Len(ipEvents') <= IpQueueLength /\ DownQueued'
    BY <1>0, <2>2, <2>3, SentKeeps DEF IpEvents, DownQueued
  <2>5. xTCPTimer' \in IpTimer(TcpPeriod) /\ xTCPTimer'.elapsed <= xTCPTimer'.ulRemainingTime
    BY <1>1, <1>4, TimersStart DEF StartIpTask
  <2> QED BY <1>0, <1>2, <1>4, <2>4, <2>5
      DEF StartIpTask, IpAt, NothingBefore, DownNoticed, SleepsWithTimer
<1>5. CASE CheckARPTimer
  <2>1. /\ ipEvents' \in Seq(IpEvents) /\ Len(ipEvents') <= IpQueueLength
        /\ DownQueued => DownQueued'
    BY <1>0, <1>5, SentKeeps, SentStaysNoticed DEF CheckARPTimer, IpEvents, DownQueued
  <2>2. xARPTimer' \in IpTimer(ArpPeriod) /\ xARPTimer'.elapsed <= xARPTimer'.ulRemainingTime
    BY <1>0, <1>1, <1>2, <1>5, TimersChecked DEF CheckARPTimer
  <2>3. network.ready
    BY <1>2, <1>5 DEF CheckARPTimer, NothingBefore
  <2> QED BY <1>0, <1>2, <1>5, <2>1, <2>2, <2>3
      DEF CheckARPTimer, IpAt, NothingBefore, DownNoticed, SleepsWithTimer, Handling
<1>6. CASE LookAtQueue
  <2>1. /\ ipTask' \in IpTaskState /\ ipTask.at = "queue" /\ ipTask'.at = "tcp"
        /\ UNCHANGED <<ipEvents, network, xARPTimer, xTCPTimer, xProcessedTCPMessage, asker>>
    BY <1>0, <1>6 DEF LookAtQueue
  <2> HIDE DEF IpPlaces, IpTaskState
  <2> QED BY <1>0, <1>2, <2>1 DEF NothingBefore, DownNoticed, DownQueued, SleepsWithTimer, Handling
<1>7. CASE CheckTCPTimer
  <2>1. xTCPTimer' \in IpTimer(TcpPeriod) /\ xTCPTimer'.elapsed <= xTCPTimer'.ulRemainingTime
    BY <1>0, <1>1, <1>2, <1>7, TimersChecked DEF CheckTCPTimer
  <2> QED BY <1>0, <1>2, <1>7, <2>1
      DEF CheckTCPTimer, IpAt, NothingBefore, DownNoticed, DownQueued, SleepsWithTimer, Handling
<1>8. CASE CheckSockets
  BY <1>0, <1>2, <1>8
  DEF CheckSockets, IpAt, NothingBefore, DownNoticed, DownQueued, SleepsWithTimer, Handling
<1>9. CASE RestartTCPTimer
  <2>1. PICK next \in 0 .. TcpPeriod : xTCPTimer' = TimerStarted(next)
    BY <1>1, <1>9 DEF RestartTCPTimer
  <2>2. xTCPTimer' \in IpTimer(TcpPeriod) /\ xTCPTimer'.elapsed <= xTCPTimer'.ulRemainingTime
    BY <1>1, <2>1, TimersStart
  <2> QED BY <1>0, <1>2, <1>9, <2>2
      DEF RestartTCPTimer, IpAt, NothingBefore, DownNoticed, DownQueued, SleepsWithTimer, Handling
<1>10. CASE CalculateSleepTime \/ GoToSleep
  <2>1. /\ xTCPTimer.ulRemainingTime \in 0 .. TcpPeriod /\ xTCPTimer.elapsed \in 0 .. TcpPeriod
        /\ xTCPTimer.ulRemainingTime \in Nat /\ xTCPTimer.elapsed \in Nat
    BY <1>0, <1>1 DEF IpTimer
  <2>2. SleepTime \in Nat /\ SleepTime <= xTCPTimer.ulRemainingTime
    BY <1>1, <2>1 DEF SleepTime, Shorter
  <2>3. CASE CalculateSleepTime
    <3>1. /\ ipTask' \in IpTaskState /\ ipTask.at = "sleep" /\ ipTask'.at = "receive"
          /\ ipTask'.sleep = SleepTime
          /\ UNCHANGED <<ipEvents, network, xARPTimer, xTCPTimer, xProcessedTCPMessage, asker>>
      BY <1>0, <2>2, <2>3 DEF CalculateSleepTime
    <3> HIDE DEF IpPlaces, IpTaskState
    <3> QED BY <1>0, <1>2, <2>2, <3>1 DEF NothingBefore, DownNoticed, DownQueued, SleepsWithTimer, Handling
  <2>4. CASE GoToSleep
    <3>1. /\ ipTask' \in IpTaskState /\ ipTask.at = "receive" /\ ipTask'.at = "blocked"
          /\ ipTask'.sleep = ipTask.sleep /\ ipTask.sleep \in Nat /\ ipTask'.late = xTCPTimer.elapsed
          /\ UNCHANGED <<ipEvents, network, xARPTimer, xTCPTimer, xProcessedTCPMessage, asker>>
      BY <1>0, <2>1, <2>4 DEF GoToSleep
    <3> HIDE DEF IpPlaces, IpTaskState
    <3>2. ipTask'.sleep <= TimeLeft(xTCPTimer') + ipTask'.late
      BY <1>2, <2>1, <3>1 DEF SleepsWithTimer, TimeLeft
    <3> QED BY <1>0, <1>2, <3>1, <3>2 DEF NothingBefore, DownNoticed, DownQueued, SleepsWithTimer, Handling
  <2> QED BY <1>10, <2>3, <2>4
<1>11. CASE TakeEvent
  <2>1. /\ Head(ipEvents) \in IpEvents /\ Tail(ipEvents) \in Seq(IpEvents)
        /\ Len(Tail(ipEvents)) = Len(ipEvents) - 1
        /\ \A i \in 1 .. Len(ipEvents) - 1 : Tail(ipEvents)[i] = ipEvents[i + 1]
        /\ Head(ipEvents) = ipEvents[1] /\ Len(ipEvents) \in Nat \ {0}
    BY <1>0, <1>11 DEF TakeEvent
  <2>2. DownQueued => Head(ipEvents) = "down" \/ DownQueued'
    <3> SUFFICES ASSUME NEW i \in DOMAIN ipEvents, ipEvents[i] = "down", i # 1
                 PROVE  i - 1 \in DOMAIN ipEvents' /\ ipEvents'[i - 1] = "down"
      BY <2>1 DEF DownQueued
    <3>1. i \in 1 .. Len(ipEvents) /\ DOMAIN ipEvents' = 1 .. Len(ipEvents) - 1
      BY <1>0, <1>11, <2>1 DEF TakeEvent
    <3> QED BY <1>11, <2>1, <3>1 DEF TakeEvent
  <2>3. network.ready
    BY <1>2, <1>11 DEF TakeEvent, NothingBefore
  <2>4. /\ ipEvents' \in Seq(IpEvents) /\ Len(ipEvents') <= IpQueueLength
        /\ ipTask' \in IpTaskState
        /\ ipTask'.at = "handle" /\ ipTask'.event = Head(ipEvents)
    <3>1. Head(ipEvents) \in {"none", "down", "arp", "tcp", "rx", "other"}
      BY <2>1 DEF IpEvents
    <3>2. ipEvents' = Tail(ipEvents) /\ ipTask' = [ipTask EXCEPT !.at = "handle", !.event = Head(ipEvents), !.sleep = 0, !.late = 0]
      BY <1>11 DEF TakeEvent
    <3>3. Len(ipEvents') <= IpQueueLength
      BY <1>0, <1>1, <2>1, <3>2
    <3> QED BY <1>0, <2>1, <3>1, <3>2, <3>3
  <2> QED BY <1>0, <1>2, <1>11, <2>2, <2>3, <2>4
      DEF TakeEvent, NothingBefore, DownNoticed, SleepsWithTimer, Handling, IpEvents
<1>12. CASE NoEvent
  <2>1. /\ ipTask' \in IpTaskState /\ ipTask.at = "blocked" /\ ipTask'.at = "handle" /\ ipTask'.event = "none"
        /\ UNCHANGED <<ipEvents, network, xARPTimer, xTCPTimer, xProcessedTCPMessage, asker>>
    BY <1>0, <1>12 DEF NoEvent
  <2> HIDE DEF IpPlaces, IpTaskState
  <2> QED BY <1>0, <1>2, <2>1 DEF NothingBefore, DownNoticed, DownQueued, SleepsWithTimer, Handling
<1>13. CASE HandleOther
  BY <1>0, <1>2, <1>13
  DEF HandleOther, Handled, NothingBefore, DownNoticed, DownQueued, SleepsWithTimer, Handling
<1>14. CASE HandleTCPTimer
  <2>1. xTCPTimer' \in IpTimer(TcpPeriod) /\ xTCPTimer'.elapsed <= xTCPTimer'.ulRemainingTime
    BY <1>0, <1>2, <1>14 DEF HandleTCPTimer, IpTimer
  <2> QED BY <1>0, <1>2, <1>14, <2>1
  DEF HandleTCPTimer, Handled, NothingBefore, DownNoticed, DownQueued, SleepsWithTimer, Handling
<1>15. CASE HandleNetworkDown
  <2>1. xARPTimer' \in IpTimer(ArpPeriod) /\ xARPTimer'.elapsed <= xARPTimer'.ulRemainingTime
    BY <1>0, <1>2, <1>15 DEF HandleNetworkDown, IpTimer
  <2> QED BY <1>0, <1>2, <1>15, <2>1
  DEF HandleNetworkDown, NothingBefore, DownNoticed, DownQueued, SleepsWithTimer, Handling
<1>16. CASE InterfaceIsUp
  <2>1. xARPTimer' \in IpTimer(ArpPeriod) /\ xARPTimer'.elapsed <= xARPTimer'.ulRemainingTime
    BY <1>1, <1>16, TimersStart DEF InterfaceIsUp
  <2> QED BY <1>0, <1>2, <1>16, <2>1
      DEF InterfaceIsUp, Handled, NothingBefore, DownNoticed, SleepsWithTimer
<1>17. CASE InterfaceFails
  <2>1. network.ready
    BY <1>2, <1>17 DEF InterfaceFails, NothingBefore
  <2>2. /\ ipTask' \in IpTaskState /\ ipTask'.at = "pending"
        /\ NetworkDown /\ UNCHANGED <<xARPTimer, xTCPTimer, xProcessedTCPMessage, asker>>
    BY <1>0, <1>17 DEF InterfaceFails, Handled
  <2> HIDE DEF IpPlaces, IpTaskState
  <2> QED BY <1>0, <1>2, <2>1, <2>2, NetworkDownNoticed DEF NothingBefore, DownNoticed, SleepsWithTimer, Handling
<1>18. CASE PostAgain
  <2>1. network.ready
    BY <1>2, <1>18 DEF PostAgain, NothingBefore
  <2>2. CASE network.downPending
    <3>1. /\ ipTask' \in IpTaskState /\ ipTask'.at = "arp"
          /\ NetworkDown /\ UNCHANGED <<xARPTimer, xTCPTimer, xProcessedTCPMessage, asker>>
      BY <1>0, <1>18, <2>2 DEF PostAgain, IpAt
    <3> HIDE DEF IpPlaces, IpTaskState
    <3> QED BY <1>0, <1>2, <2>1, <3>1, NetworkDownNoticed DEF NothingBefore, DownNoticed, SleepsWithTimer, Handling
  <2>3. CASE ~network.downPending
    BY <1>0, <1>2, <1>18, <2>1, <2>3
    DEF PostAgain, IpAt, NothingBefore, DownNoticed, DownQueued, SleepsWithTimer, Handling
  <2> QED BY <2>2, <2>3
<1>19. CASE SendEvent
  <2>1. PICK e \in {"rx", "other"} : ipEvents' = Append(ipEvents, e)
    BY <1>19 DEF SendEvent
  <2>2. e \in IpEvents /\ ipEvents' = Sent(e)
    BY <1>19, <2>1 DEF SendEvent, Sent, IpEvents
  <2>3. /\ ipEvents' \in Seq(IpEvents) /\ Len(ipEvents') <= IpQueueLength
        /\ DownQueued => DownQueued'
    BY <1>0, <2>2, SentKeeps, SentStaysNoticed
  <2> QED BY <1>0, <1>2, <1>19, <2>3
      DEF SendEvent, NothingBefore, DownNoticed, SleepsWithTimer, Handling
<1>20. CASE AskForCheck
  <2>1. /\ xTCPTimer' \in IpTimer(TcpPeriod)
        /\ xTCPTimer'.ulRemainingTime = xTCPTimer.ulRemainingTime /\ xTCPTimer'.elapsed = xTCPTimer.elapsed
        /\ TimeLeft(xTCPTimer') = TimeLeft(xTCPTimer)
    BY <1>0, <1>20 DEF AskForCheck, IpTimer, TimeLeft
  <2> QED BY <1>0, <1>2, <1>20, <2>1
    DEF AskForCheck, NothingBefore, DownNoticed, DownQueued, SleepsWithTimer, Handling
<1>21. CASE SendIfQueueEmpty
  BY <1>0, <1>2, <1>21
  DEF SendIfQueueEmpty, NothingBefore, DownNoticed, DownQueued, SleepsWithTimer, Handling
<1>22. CASE SendTCPTimerEvent
  <2>1. /\ ipEvents' \in Seq(IpEvents) /\ Len(ipEvents') <= IpQueueLength
        /\ DownQueued => DownQueued'
    BY <1>0, <1>22, SentKeeps, SentStaysNoticed DEF SendTCPTimerEvent, IpEvents
  <2> QED BY <1>0, <1>2, <1>22, <2>1
      DEF SendTCPTimerEvent, NothingBefore, DownNoticed, SleepsWithTimer, Handling
<1>23. CASE IpTick
  <2>1. /\ xARPTimer' \in IpTimer(ArpPeriod) /\ xARPTimer'.elapsed <= xARPTimer'.ulRemainingTime
        /\ xTCPTimer' \in IpTimer(TcpPeriod) /\ xTCPTimer'.elapsed <= xTCPTimer'.ulRemainingTime
        /\ xTCPTimer'.ulRemainingTime = xTCPTimer.ulRemainingTime
        /\ TimeLeft(xTCPTimer) \in Nat /\ TimeLeft(xTCPTimer') \in Nat
        /\ TimeLeft(xTCPTimer) - 1 <= TimeLeft(xTCPTimer')
    BY <1>0, <1>1, <1>2, <1>23, TimersTick DEF IpTick
  <2>2. /\ ipTask' \in IpTaskState
        /\ ipTask'.at = ipTask.at /\ ipTask'.event = ipTask.event /\ ipTask'.late = ipTask.late
        /\ ipTask'.sleep = (IF ipTask.at = "blocked" /\ ipTask.sleep > 0 THEN ipTask.sleep - 1 ELSE ipTask.sleep)
        /\ ipTask.sleep \in Nat /\ ipTask.late \in Nat
    <3>1. ipTask.sleep \in Nat /\ (ipTask.sleep > 0 => ipTask.sleep - 1 \in Nat)
      BY <1>0
    <3> QED BY <1>0, <1>23, <3>1 DEF IpTick
  <2>3. UNCHANGED <<ipEvents, network, xProcessedTCPMessage, asker>>
    BY <1>23 DEF IpTick
  <2> HIDE DEF IpPlaces, IpTaskState
  <2>4. SleepsWithTimer'
    BY <1>2, <2>1, <2>2 DEF SleepsWithTimer
  <2> QED BY <1>0, <1>2, <2>1, <2>2, <2>3, <2>4 DEF NothingBefore, DownNoticed, DownQueued, Handling
<1>24. CASE UNCHANGED ipVars
  BY <1>0, <1>2, <1>24
  DEF ipVars, NothingBefore, DownNoticed, DownQueued, SleepsWithTimer, Handling
<1> QED BY <1>4, <1>5, <1>6, <1>7, <1>8, <1>9, <1>10, <1>11, <1>12, <1>13, <1>14, <1>15, <1>16,
           <1>17, <1>18, <1>19, <1>20, <1>21, <1>22, <1>23, <1>24 DEF IpNext, IpTaskStep

(* The IP task, for every length of its queue and every period: a network  *)
(* that went down is initialised again though others fill the queue, and   *)
(* the task sleeps past the end of the TCP timer by no more than the ticks *)
(* between its last look at it and the call that blocks it                 *)
(* (FreeRTOS_NetworkDown, prvIPTask, prvCalculateSleepTime).               *)
THEOREM IpTaskWakesInTime == IpSpec => []IpTaskAwakeInTime
<1>1. IpInv => IpTaskAwakeInTime
  BY DEF IpInv, DownNoticed, DownQueued, SleepsWithTimer, IpTaskAwakeInTime
<1> QED BY <1>1, IpInvInit, IpInvNext, PTL DEF IpSpec

(***************************************************************************)
(* TcpConnection: the clients of a listening socket.                       *)
(***************************************************************************)
TcpStates == {"FREE", "CLOSED", "LISTEN", "CONNECT_SYN", "SYN_FIRST", "SYN_RECEIVED"} \cup AtLeastEstablished

TcpBits == {"PassQueued", "PassAccept", "UserShutdown", "CloseRequested", "FinSent", "FinAccepted", "FinRecv",
            "FinLast", "FinAcked", "ConnPrepared"}

TcpEvents == {"ACCEPT", "CONNECT", "RECEIVE", "SEND", "CLOSED"}

TcpSocket ==
  [state : TcpStates, remote : Remotes \cup {NoSocket}, peer : Sockets \cup {NoSocket}, children : Nat,
   bits : SUBSET TcpBits, timer : BOOLEAN, aged : BOOLEAN, repeats : Nat, probes : Nat,
   events : SUBSET TcpEvents, group : SUBSET TcpEvents, received : BOOLEAN, unsent : BOOLEAN, unacked : BOOLEAN]

SocketRequests == {"close", "accept"} \X Sockets

HostRecord == [sock : [Sockets -> TcpSocket], queue : Seq(SocketRequests)]

(* A socket that nobody owns is on its way to be connected, or will not be *)
(* any more; one that may be accepted was connected.                       *)
SocketOK(s, k) ==
  /\ "PassQueued" \in k.bits => /\ k.state \in {"CLOSED", "SYN_FIRST", "SYN_RECEIVED", "CLOSE_WAIT"}
                                /\ k.peer = Listener /\ "PassAccept" \notin k.bits
  /\ "PassAccept" \in k.bits => k.state \in AtLeastEstablished \cup {"CLOSED"}
  /\ s \notin Children => "PassQueued" \notin k.bits /\ "PassAccept" \notin k.bits
  /\ s = Listener => k.state \in {"CLOSED", "LISTEN"} /\ k.remote = NoSocket /\ k.timer = FALSE

(* A socket that is about to be deleted.                                   *)
ClosingOK(k) ==
  /\ k.state # "FREE" /\ "PassAccept" \notin k.bits
  /\ "PassQueued" \in k.bits => k.state = "CLOSED"

(* W are the sockets that a user has.                                      *)
ClosingsOK(q, f, W) ==
  /\ \A i \in 1 .. Len(q) : q[i][1] = "close" => q[i][2] # Listener /\ q[i][2] \notin W /\ ClosingOK(f[q[i][2]])
  /\ \A i, j \in 1 .. Len(q) : q[i][1] = "close" /\ q[i] = q[j] => i = j

NotClosing(q, s) == \A i \in 1 .. Len(q) : q[i] # <<"close", s>>

OwnedOK(f, W) ==
  \A s \in W : s \in Sockets \ {Listener} /\ f[s].state # "FREE" /\ "PassQueued" \notin f[s].bits /\ "PassAccept" \notin f[s].bits

Living(f) == {s \in Children : f[s].state # "FREE"}

CountOK(f) ==
  /\ f[Listener].children = Cardinality(Living(f)) /\ f[Listener].children <= Backlog
  /\ Living(f) # {} => f[Listener].state = "LISTEN"

(* asking: the user is about to ask for the next client.                   *)
OfferOK(q, f, asking) ==
  /\ f[Listener].peer # NoSocket => f[Listener].peer \in Sockets /\ "PassAccept" \in f[f[Listener].peer].bits
  /\ (\E s \in Sockets : "PassAccept" \in f[s].bits) =>
       f[Listener].peer # NoSocket \/ asking \/ \E i \in 1 .. Len(q) : q[i] = <<"accept", Listener>>

HostOK(h, W, asking) ==
  /\ h \in HostRecord
  /\ \A s \in Sockets : SocketOK(s, h.sock[s])
  /\ ClosingsOK(h.queue, h.sock, W)
  /\ OwnedOK(h.sock, W)
  /\ CountOK(h.sock)
  /\ OfferOK(h.queue, h.sock, asking)

LEMMA SocketsAre ==
  /\ Listener \in Sockets /\ Client \in Sockets /\ Children \subseteq Sockets /\ Sockets = {Listener, Client} \cup Children
  /\ Listener # Client /\ Listener \notin Children /\ Client \notin Children /\ IsFiniteSet(Children)
  /\ NoSocket \notin Sockets /\ NoSocket \notin Remotes /\ Acceptor # Caller
  /\ \A s \in Sockets : (Port(s) = Listener <=> s # Client)
  BY ConnectionAssumption DEF Sockets, NoSocket, Port

(***************************************************************************)
(* One socket changes.                                                     *)
(***************************************************************************)
LEMMA WithParts ==
  ASSUME NEW h, h \in HostRecord, NEW s \in Sockets, NEW l, l \in TcpSocket
  PROVE  /\ With(h, s, l) \in HostRecord
         /\ With(h, s, l).queue = h.queue /\ h.queue \in Seq(SocketRequests)
         /\ With(h, s, l).sock[s] = l
         /\ \A u \in Sockets \ {s} : With(h, s, l).sock[u] = h.sock[u]
<1>1. h.sock \in [Sockets -> TcpSocket] /\ h.queue \in Seq(SocketRequests)
  BY DEF HostRecord
<1>2. With(h, s, l).sock = [h.sock EXCEPT ![s] = l] /\ With(h, s, l).queue = h.queue
  BY DEF With, HostRecord
<1>3. PICK f \in [Sockets -> TcpSocket] : f = [h.sock EXCEPT ![s] = l]
  BY <1>1
<1>4. With(h, s, l) = [h EXCEPT !.sock = f]
  BY <1>3 DEF With
<1>5. With(h, s, l) \in HostRecord
  BY <1>4 DEF HostRecord
<1> QED BY <1>1, <1>2, <1>5

(* Who is about to be deleted.                                             *)
LEMMA ClosingsKept ==
  ASSUME NEW q \in Seq(SocketRequests), NEW W, NEW f, NEW g, NEW s, ClosingsOK(q, f, W),
         \A u \in Sockets \ {s} : g[u] = f[u], NotClosing(q, s) \/ ClosingOK(g[s])
  PROVE  ClosingsOK(q, g, W)
<1>1. ASSUME NEW i \in 1 .. Len(q), q[i][1] = "close"
      PROVE  ClosingOK(g[q[i][2]])
  <2>1. ClosingOK(f[q[i][2]])
    BY <1>1 DEF ClosingsOK
  <2>2. q[i] \in SocketRequests
    OBVIOUS
  <2>3. q[i][2] \in Sockets /\ q[i] = <<"close", q[i][2]>>
    BY <1>1, <2>2 DEF SocketRequests
  <2>4. CASE q[i][2] = s
    BY <2>3, <2>4 DEF NotClosing
  <2>5. CASE q[i][2] # s
    BY <2>1, <2>3, <2>5
  <2> QED BY <2>4, <2>5
<1> QED BY <1>1 DEF ClosingsOK

(* A socket other than the listener, which exists.                         *)
Moves(h, W, a, s, k, l) ==
  /\ l \in TcpSocket /\ SocketOK(s, l) /\ k.state # "FREE" /\ l.state # "FREE"
  /\ NotClosing(h.queue, s) \/ ClosingOK(l)
  /\ s \in W => "PassQueued" \notin l.bits /\ "PassAccept" \notin l.bits
  /\ "PassAccept" \in l.bits => "PassAccept" \in k.bits \/ a
  /\ h.sock[Listener].peer = s => "PassAccept" \in l.bits

LEMMA MovesKeeps ==
  ASSUME NEW h, NEW W, NEW a \in BOOLEAN, HostOK(h, W, a), NEW s \in Sockets \ {Listener}, NEW l, Moves(h, W, a, s, h.sock[s], l)
  PROVE  /\ HostOK(With(h, s, l), W, a)
         /\ With(h, s, l).queue = h.queue /\ With(h, s, l).sock[s] = l
         /\ \A u \in Sockets \ {s} : With(h, s, l).sock[u] = h.sock[u]
<1>0. l \in TcpSocket /\ s \in Sockets
  BY DEF Moves
<1> DEFINE g == With(h, s, l)
<1>1. /\ g \in HostRecord /\ g.queue = h.queue /\ h.queue \in Seq(SocketRequests)
      /\ g.sock[s] = l /\ \A u \in Sockets \ {s} : g.sock[u] = h.sock[u]
  BY <1>0, WithParts DEF HostOK
<1> HIDE DEF g
<1>2. \A u \in Sockets : SocketOK(u, g.sock[u])
  BY <1>1 DEF HostOK, Moves
<1>3. ClosingsOK(g.queue, g.sock, W)
  <2>1. ClosingsOK(h.queue, h.sock, W) /\ (NotClosing(h.queue, s) \/ ClosingOK(g.sock[s]))
    BY <1>1 DEF HostOK, Moves
  <2> QED BY <1>1, <2>1, ClosingsKept
<1>4. OwnedOK(g.sock, W)
  BY <1>1 DEF HostOK, OwnedOK, Moves
<1>5. CountOK(g.sock)
  <2>1. Living(g.sock) = Living(h.sock)
    BY <1>1, SocketsAre DEF Living, Moves
  <2>2. g.sock[Listener] = h.sock[Listener]
    BY <1>1, SocketsAre
  <2> QED BY <2>1, <2>2 DEF HostOK, CountOK
<1>6. OfferOK(g.queue, g.sock, a)
  <2>1. g.sock[Listener] = h.sock[Listener]
    BY <1>1, SocketsAre
  <2>2. OfferOK(h.queue, h.sock, a)
    BY DEF HostOK
  <2>3. g.sock[Listener].peer # NoSocket =>
          g.sock[Listener].peer \in Sockets /\ "PassAccept" \in g.sock[g.sock[Listener].peer].bits
    BY <1>1, <2>1, <2>2 DEF OfferOK, Moves
  <2>4. (\E u \in Sockets : "PassAccept" \in g.sock[u].bits) =>
          (\E u \in Sockets : "PassAccept" \in h.sock[u].bits) \/ a
    BY <1>1 DEF Moves
  <2> QED BY <1>1, <2>1, <2>2, <2>3, <2>4 DEF OfferOK
<1>8. HostOK(g, W, a)
  BY <1>1, <1>2, <1>3, <1>4, <1>5, <1>6 DEF HostOK
<1> QED BY <1>1, <1>8 DEF g

(* The listener; b: the user is about to ask afterwards.                   *)
Offers(h, a, b, k, l) ==
  /\ l \in TcpSocket /\ SocketOK(Listener, l) /\ l.children = k.children /\ l.state # "FREE"
  /\ k.state = "LISTEN" => l.state = "LISTEN"
  /\ l.peer # NoSocket => "PassAccept" \in h.sock[l.peer].bits
  /\ l.peer # NoSocket \/ b \/ (l.peer = k.peer /\ ~a)

LEMMA OffersKeeps ==
  ASSUME NEW h, NEW W, NEW a \in BOOLEAN, NEW b \in BOOLEAN, HostOK(h, W, a), NEW l, Offers(h, a, b, h.sock[Listener], l)
  PROVE  /\ HostOK(With(h, Listener, l), W, b)
         /\ With(h, Listener, l).queue = h.queue /\ With(h, Listener, l).sock[Listener] = l
         /\ \A u \in Sockets \ {Listener} : With(h, Listener, l).sock[u] = h.sock[u]
<1>0. l \in TcpSocket /\ Listener \in Sockets
  BY SocketsAre DEF Offers
<1> DEFINE g == With(h, Listener, l)
<1>1. /\ g \in HostRecord /\ g.queue = h.queue /\ h.queue \in Seq(SocketRequests)
      /\ g.sock[Listener] = l /\ \A u \in Sockets \ {Listener} : g.sock[u] = h.sock[u]
  BY <1>0, WithParts DEF HostOK
<1> HIDE DEF g
<1>2. \A u \in Sockets : SocketOK(u, g.sock[u])
  BY <1>1 DEF HostOK, Offers
<1>3. ClosingsOK(g.queue, g.sock, W)
  <2>1. ClosingsOK(h.queue, h.sock, W) /\ NotClosing(h.queue, Listener)
    BY DEF HostOK, ClosingsOK, NotClosing
  <2> QED BY <1>1, <2>1, ClosingsKept
<1>4. OwnedOK(g.sock, W)
  BY <1>1 DEF HostOK, OwnedOK
<1>5. CountOK(g.sock)
  <2>1. Living(g.sock) = Living(h.sock)
    BY <1>1, SocketsAre DEF Living
  <2> QED BY <1>1, <2>1 DEF HostOK, CountOK, Offers
<1>6. OfferOK(g.queue, g.sock, b)
  <2>1. OfferOK(h.queue, h.sock, a)
    BY DEF HostOK
  <2>2. \A u \in Sockets : "PassAccept" \in g.sock[u].bits <=> "PassAccept" \in h.sock[u].bits
    <3>1. "PassAccept" \notin l.bits /\ "PassAccept" \notin h.sock[Listener].bits
      BY SocketsAre DEF Offers, SocketOK, HostOK
    <3> QED BY <1>1, <3>1
  <2>3. l.peer # NoSocket => l.peer \in Sockets
    BY DEF Offers, TcpSocket
  <2> QED BY <1>1, <2>1, <2>2, <2>3 DEF OfferOK, Offers
<1>8. HostOK(g, W, b)
  BY <1>1, <1>2, <1>3, <1>4, <1>5, <1>6 DEF HostOK
<1> QED BY <1>1, <1>8 DEF g

(* What is about to be deleted and belongs to nobody is closed.            *)
LEMMA QueuedNotClosing ==
  ASSUME NEW h, NEW W, NEW a, HostOK(h, W, a), NEW s \in Sockets,
         \/ "PassQueued" \in h.sock[s].bits /\ h.sock[s].state # "CLOSED"
         \/ "PassAccept" \in h.sock[s].bits
         \/ h.sock[s].state = "FREE"
  PROVE  NotClosing(h.queue, s)
<1> SUFFICES ASSUME NEW i \in 1 .. Len(h.queue), h.queue[i] = <<"close", s>> PROVE FALSE
  BY DEF NotClosing
<1>1. h.queue[i][1] = "close" /\ h.queue[i][2] = s
  OBVIOUS
<1>2. ClosingOK(h.sock[h.queue[i][2]])
  BY <1>1 DEF HostOK, ClosingsOK
<1> QED BY <1>1, <1>2 DEF ClosingOK

(* A step that leaves state and owners alone.                              *)
Tame(k, l) ==
  /\ l \in TcpSocket /\ k.state # "FREE" /\ l.state = k.state /\ l.peer = k.peer /\ l.children = k.children
  /\ ("PassQueued" \in l.bits <=> "PassQueued" \in k.bits) /\ ("PassAccept" \in l.bits <=> "PassAccept" \in k.bits)

LEMMA TameMoves ==
  ASSUME NEW h, NEW W, NEW a \in BOOLEAN, HostOK(h, W, a), NEW s \in Sockets \ {Listener}, NEW l, Tame(h.sock[s], l)
  PROVE  Moves(h, W, a, s, h.sock[s], l)
<1>1. SocketOK(s, l)
  BY DEF HostOK, SocketOK, Tame
<1>2. NotClosing(h.queue, s) \/ ClosingOK(l)
  <2>1. CASE ClosingOK(h.sock[s])
    BY <2>1 DEF ClosingOK, Tame
  <2>2. CASE ~ClosingOK(h.sock[s])
    BY <2>2, QueuedNotClosing DEF ClosingOK, Tame
  <2> QED BY <2>1, <2>2
<1>3. s \in W => "PassQueued" \notin l.bits /\ "PassAccept" \notin l.bits
  BY DEF HostOK, OwnedOK, Tame
<1>4. h.sock[Listener].peer = s => "PassAccept" \in l.bits
  BY SocketsAre DEF HostOK, OfferOK, Tame
<1> QED BY <1>1, <1>2, <1>3, <1>4 DEF Moves, Tame

(* A step of the listener that leaves its clients alone.                   *)
LEMMA TameOffers ==
  ASSUME NEW h, NEW W, NEW a \in BOOLEAN, HostOK(h, W, a), NEW l, Tame(h.sock[Listener], l),
         l.remote = NoSocket, l.timer = FALSE
  PROVE  Offers(h, a, a, h.sock[Listener], l)
<1>1. Listener \in Sockets /\ SocketOK(Listener, h.sock[Listener]) /\ OfferOK(h.queue, h.sock, a)
  BY SocketsAre DEF HostOK
<1>2. SocketOK(Listener, l)
  BY <1>1 DEF SocketOK, Tame
<1>3. l.peer # NoSocket => "PassAccept" \in h.sock[l.peer].bits
  BY <1>1 DEF OfferOK, Tame
<1> QED BY <1>2, <1>3 DEF Offers, Tame

LEMMA AskingKeeps ==
  ASSUME NEW h, NEW W, NEW a, HostOK(h, W, a), NEW b \in BOOLEAN, b
  PROVE  HostOK(h, W, b)
  BY DEF HostOK, OfferOK

LEMMA WithTwice ==
  ASSUME NEW h, h \in HostRecord, NEW s \in Sockets, NEW u \in Sockets, NEW k, k \in TcpSocket, NEW l, l \in TcpSocket
  PROVE  /\ With(With(h, s, k), s, l) = With(h, s, l)
         /\ s # u => With(With(h, s, k), u, l) = With(With(h, u, l), s, k)
<1>1. h.sock \in [Sockets -> TcpSocket]
  BY DEF HostRecord
<1>2. [[h.sock EXCEPT ![s] = k] EXCEPT ![s] = l] = [h.sock EXCEPT ![s] = l]
  BY <1>1
<1>3. s # u => [[h.sock EXCEPT ![s] = k] EXCEPT ![u] = l] = [[h.sock EXCEPT ![u] = l] EXCEPT ![s] = k]
  BY <1>1
<1>4. \A f, g : [[h EXCEPT !.sock = f] EXCEPT !.sock = g] = [h EXCEPT !.sock = g]
  BY DEF HostRecord
<1>5. \A f : [h EXCEPT !.sock = f].sock = f
  BY DEF HostRecord
<1> QED BY <1>2, <1>3, <1>4, <1>5 DEF With

(* A request to delete a socket that belongs to nobody.                    *)
LEMMA PostedKeeps ==
  ASSUME NEW from, NEW h, NEW W, NEW a \in BOOLEAN, HostOK(h, W, a), NEW s \in Sockets \ {Listener},
         s \notin W, NotClosing(h.queue, s), ClosingOK(h.sock[s])
  PROVE  HostOK(Posted(h, <<"close", s>>), W, a) /\ Posted(h, <<"close", s>>).sock = h.sock
<1>1. h.queue \in Seq(SocketRequests) /\ h \in HostRecord
  BY DEF HostOK, HostRecord
<1>0. <<"close", s>> \in SocketRequests
  BY DEF SocketRequests
<1>2. PICK q \in Seq(SocketRequests) : q = Append(h.queue, <<"close", s>>)
  <2>1. \A q \in Seq(SocketRequests), e \in SocketRequests : Append(q, e) \in Seq(SocketRequests)
    OBVIOUS
  <2>2. Append(h.queue, <<"close", s>>) \in Seq(SocketRequests)
    BY ONLY <1>0, <1>1, <2>1
  <2> QED BY <2>2
<1>3. /\ Len(q) = Len(h.queue) + 1 /\ q[Len(q)] = <<"close", s>> /\ Len(h.queue) \in Nat
      /\ \A i \in 1 .. Len(h.queue) : q[i] = h.queue[i]
  BY <1>1, <1>2
<1>4. CASE Len(h.queue) < EventQueueLength
  <2>1. Posted(h, <<"close", s>>) = [h EXCEPT !.queue = q]
    BY <1>2, <1>4 DEF Posted
  <2>2. PICK g \in HostRecord : g = [h EXCEPT !.queue = q]
    BY <1>1 DEF HostRecord
  <2>3. g.sock = h.sock /\ g.queue = q
    BY <1>1, <2>2 DEF HostRecord
  <2>4. ClosingsOK(q, h.sock, W)
    <3>1. ASSUME NEW i \in 1 .. Len(q), q[i][1] = "close"
          PROVE  q[i][2] # Listener /\ q[i][2] \notin W /\ ClosingOK(h.sock[q[i][2]])
      <4>1. CASE i = Len(q)
        BY <1>3, <4>1
      <4>2. CASE i # Len(q)
        <5>1. i \in 1 .. Len(h.queue) /\ q[i] = h.queue[i]
          BY <1>3, <4>2
        <5> QED BY <3>1, <5>1 DEF HostOK, ClosingsOK
      <4> QED BY <4>1, <4>2
    <3>2. ASSUME NEW i \in 1 .. Len(q), NEW j \in 1 .. Len(q), q[i][1] = "close", q[i] = q[j], i < j
          PROVE  FALSE
      <4>1. i \in 1 .. Len(h.queue) /\ q[i] = h.queue[i]
        BY <1>3, <3>2
      <4>2. CASE j = Len(q)
        BY <1>3, <3>2, <4>1, <4>2 DEF NotClosing
      <4>3. CASE j # Len(q)
        <5>1. j \in 1 .. Len(h.queue) /\ q[j] = h.queue[j]
          BY <1>3, <4>3
        <5>2. h.queue[i][1] = "close" /\ h.queue[i] = h.queue[j]
          BY <3>2, <4>1, <5>1
        <5>3. i = j
          BY <4>1, <5>1, <5>2 DEF HostOK, ClosingsOK
        <5> QED BY <3>2, <5>3
      <4> QED BY <4>2, <4>3
    <3>3. ASSUME NEW i \in 1 .. Len(q), NEW j \in 1 .. Len(q), q[i][1] = "close", q[i] = q[j]
          PROVE  i = j
      BY <3>2, <3>3
    <3> QED BY <3>1, <3>3 DEF ClosingsOK
  <2>5. OfferOK(q, h.sock, a)
    <3>1. OfferOK(h.queue, h.sock, a) /\ 1 .. Len(h.queue) \subseteq 1 .. Len(q)
      BY <1>3 DEF HostOK
    <3> QED BY <1>3, <3>1 DEF OfferOK
  <2> QED BY <2>1, <2>2, <2>3, <2>4, <2>5 DEF HostOK
<1>5. CASE ~(Len(h.queue) < EventQueueLength)
  BY <1>5 DEF Posted
<1> QED BY <1>4, <1>5

Pending(k) == "PassQueued" \in k.bits

(* What the user of a socket finds, or is told when it sleeps: nothing is  *)
(* taken back, and what it may wait for is not changed without a word.     *)
Settled == AtLeastEstablished \cup {"CLOSED"}
Word(k) == k.events \cup k.group

Told(k, l) ==
  k.state # "FREE" /\ ~Pending(k) =>
    /\ ~Pending(l) /\ Word(k) \subseteq Word(l)
    /\ ~NowConnected(k.state) /\ NowConnected(l.state) => "CONNECT" \in Word(l)
    /\ NowConnected(k.state) /\ ~NowConnected(l.state) => "CLOSED" \in Word(l)
    /\ l.received => k.received \/ "RECEIVE" \in Word(l)
    /\ k.unacked => l.unacked \/ "SEND" \in Word(l)
    /\ k.state \in Settled => l.state \in Settled
    /\ k.state = "CONNECT_SYN" => l.state \in Settled \cup {"CONNECT_SYN"}

(* So it is with the listener, whose user waits for a client.              *)
Heard(k, l) ==
  /\ Word(k) \subseteq Word(l) /\ (k.events = {} => l.events = {})
  /\ l.peer = k.peer \/ l.peer = NoSocket \/ "ACCEPT" \in Word(l)

(* Nor is the time taken back when the socket is looked at.                *)
Tells(k, l) == Told(k, l) /\ (k.state # "FREE" /\ k.timer => l.timer \/ l.state = "FREE")

(* Since the host was from, the IP task worked on the socket s only.       *)
Since(from, h, s) ==
  /\ \A u \in Sockets \ {s, Listener} : h.sock[u] = from.sock[u]
  /\ Tells(from.sock[s], h.sock[s]) /\ Heard(from.sock[Listener], h.sock[Listener])

LEMMA TellsOn ==
  ASSUME NEW k, NEW l, NEW m, Tells(k, l), Tells(l, m), l.state # "FREE"
  PROVE  Tells(k, m)
<1>1. k.state # "FREE" /\ k.timer => m.timer \/ m.state = "FREE"
  BY DEF Tells
<1>2. ASSUME k.state # "FREE", ~Pending(k)
      PROVE  /\ ~Pending(m) /\ Word(k) \subseteq Word(m)
             /\ ~NowConnected(k.state) /\ NowConnected(m.state) => "CONNECT" \in Word(m)
             /\ NowConnected(k.state) /\ ~NowConnected(m.state) => "CLOSED" \in Word(m)
             /\ m.received => k.received \/ "RECEIVE" \in Word(m)
             /\ k.unacked => m.unacked \/ "SEND" \in Word(m)
             /\ k.state \in Settled => m.state \in Settled
             /\ k.state = "CONNECT_SYN" => m.state \in Settled \cup {"CONNECT_SYN"}
  BY <1>2 DEF Tells, Told
<1> QED BY <1>1, <1>2 DEF Tells, Told

LEMMA HeardOn ==
  ASSUME NEW k, NEW l, NEW m, Heard(k, l), Heard(l, m)
  PROVE  Heard(k, m)
  BY DEF Heard

LEMMA SinceOn ==
  ASSUME NEW from, NEW h, NEW g, NEW s \in Sockets \ {Listener}, Since(from, h, s), h.sock[s].state # "FREE",
         \A u \in Sockets \ {s, Listener} : g.sock[u] = h.sock[u],
         Tells(h.sock[s], g.sock[s]), Heard(h.sock[Listener], g.sock[Listener])
  PROVE  Since(from, g, s)
<1>1. Tells(from.sock[s], g.sock[s])
  BY TellsOn DEF Since
<1>2. Heard(from.sock[Listener], g.sock[Listener])
  BY HeardOn DEF Since
<1> QED BY <1>1, <1>2 DEF Since

LEMMA SinceNow ==
  ASSUME NEW h, NEW s
  PROVE  Since(h, h, s) /\ \A k : Tells(k, k) /\ Heard(k, k)
  BY DEF Since, Tells, Told, Heard

(* The socket s that the IP task works on; it is not about to be deleted   *)
(* while it waits for its connection.                                      *)
Ready(from, h, W, a, s) ==
  /\ HostOK(h, W, a) /\ h.sock[s].state # "FREE"
  /\ "PassQueued" \in h.sock[s].bits => NotClosing(h.queue, s)
  /\ "PassAccept" \in h.sock[s].bits => h.sock[s].state \in AtLeastEstablished
  /\ Since(from, h, s)

(* What vTCPStateChange is called for.                                     *)
Targets == {"CLOSED", "SYN_FIRST", "SYN_RECEIVED"} \cup AtLeastEstablished

MayEnter(k, state) ==
  /\ state \in Targets /\ k.state \in TcpStates
  /\ Pending(k) \/ state \in Settled \/ k.state \notin Settled \cup {"CONNECT_SYN"}
  /\ "PassAccept" \in k.bits => state \in AtLeastEstablished \cup {"CLOSED"} /\ (state = "CLOSED" => NowConnected(k.state))

(* What the user is told when the state changes.                           *)
Speaks(k, l, state) ==
  /\ l.bits = k.bits /\ l.peer = k.peer /\ l.timer = k.timer
  /\ l.group = k.group /\ k.events \subseteq l.events /\ l.received = k.received /\ l.unacked = k.unacked
  /\ ~Pending(k) /\ ~NowConnected(k.state) /\ NowConnected(state) => "CONNECT" \in l.events
  /\ NowConnected(k.state) /\ ~NowConnected(state) => "CLOSED" \in l.events

(* The socket afterwards, unless it is handed over.                        *)
Entered(k, l, state) == l \in TcpSocket /\ l.state = state /\ Speaks(k, l, state)

LEMMA EnteredTells ==
  ASSUME NEW k, NEW l, NEW state, MayEnter(k, state), Entered(k, l, state)
  PROVE  Tells(k, l)
  BY DEF Tells, Told, Word, Entered, Speaks, MayEnter, Pending

LEMMA EnteredMoves ==
  ASSUME NEW from, NEW h, NEW W, NEW a \in BOOLEAN, NEW s \in Sockets \ {Listener}, Ready(from, h, W, a, s), NEW state, MayEnter(h.sock[s], state),
         NEW l, Entered(h.sock[s], l, state), ~(Pending(h.sock[s]) /\ NowConnected(state))
  PROVE  Moves(h, W, a, s, h.sock[s], l)
<1>1. SocketOK(s, h.sock[s]) /\ HostOK(h, W, a)
  BY DEF HostOK, Ready
<1>2. SocketOK(s, l)
  BY <1>1 DEF SocketOK, Entered, Speaks, MayEnter, Pending, Targets, NowConnected, AtLeastEstablished
<1>3. NotClosing(h.queue, s) \/ ClosingOK(l)
  <2>1. CASE "PassQueued" \in l.bits \/ "PassAccept" \in l.bits
    BY <1>1, <2>1, QueuedNotClosing DEF Entered, Speaks, Ready
  <2>2. CASE "PassQueued" \notin l.bits /\ "PassAccept" \notin l.bits
    BY <2>2 DEF ClosingOK, Entered, MayEnter, Targets, AtLeastEstablished
  <2> QED BY <2>1, <2>2
<1>4. s \in W => "PassQueued" \notin l.bits /\ "PassAccept" \notin l.bits
  BY <1>1 DEF HostOK, OwnedOK, Entered, Speaks
<1>5. h.sock[Listener].peer = s => "PassAccept" \in l.bits
  BY <1>1, SocketsAre DEF HostOK, OfferOK, Entered, Speaks
<1>6. l.state # "FREE" /\ h.sock[s].state # "FREE" /\ l \in TcpSocket
  BY DEF Entered, MayEnter, Targets, AtLeastEstablished, Ready
<1> QED BY <1>2, <1>3, <1>4, <1>5, <1>6 DEF Moves, Entered, Speaks

(* What the socket is afterwards.                                          *)
Changed(from, h, g, W, a, s, state) ==
  /\ HostOK(g, W, a) /\ g.sock[s].state = state /\ Since(from, g, s)
  /\ Pending(g.sock[s]) => Pending(h.sock[s]) /\ ~NowConnected(state)
  /\ state # "CLOSED" => Ready(from, g, W, a, s) /\ g.queue = h.queue

LEMMA ChangedByEntering ==
  ASSUME NEW from, NEW h, NEW W, NEW a \in BOOLEAN, NEW s \in Sockets \ {Listener}, Ready(from, h, W, a, s), NEW state, MayEnter(h.sock[s], state),
         NEW l, Entered(h.sock[s], l, state), ~(Pending(h.sock[s]) /\ NowConnected(state))
  PROVE  Changed(from, h, With(h, s, l), W, a, s, state)
<1>1. Moves(h, W, a, s, h.sock[s], l) /\ HostOK(h, W, a)
  BY EnteredMoves DEF Ready
<1>2. /\ HostOK(With(h, s, l), W, a) /\ With(h, s, l).queue = h.queue /\ With(h, s, l).sock[s] = l
      /\ \A u \in Sockets \ {s} : With(h, s, l).sock[u] = h.sock[u]
  BY <1>1, MovesKeeps
<1>3. Since(from, With(h, s, l), s)
  <2>1. Tells(h.sock[s], l)
    BY EnteredTells
  <2>2. With(h, s, l).sock[Listener] = h.sock[Listener]
    BY <1>2, SocketsAre
  <2> QED BY <1>2, <2>1, <2>2, SinceOn, SinceNow DEF Ready
<1> QED BY <1>2, <1>3 DEF Changed, Entered, Speaks, Ready, MayEnter, Pending, Targets, AtLeastEstablished

(* A socket that waited for its connection is handed over.                 *)
LEMMA HandedOverMoves ==
  ASSUME NEW from, NEW h, NEW W, NEW a \in BOOLEAN, NEW s \in Sockets \ {Listener}, Ready(from, h, W, a, s), Pending(h.sock[s]),
         NEW l, l \in TcpSocket, NowConnected(l.state), l.bits = (h.sock[s].bits \ {"PassQueued"}) \cup {"PassAccept"},
         NEW b \in BOOLEAN, b
  PROVE  Moves(h, W, b, s, h.sock[s], l)
<1>1. SocketOK(s, h.sock[s]) /\ HostOK(h, W, a)
  BY DEF HostOK, Ready
<1>2. SocketOK(s, l)
  BY <1>1 DEF SocketOK, Pending, NowConnected
<1>3. s \notin W
  BY <1>1 DEF HostOK, OwnedOK, Pending
<1> QED BY <1>2, <1>3 DEF Moves, Ready, Pending, NowConnected, AtLeastEstablished

LEMMA HandedOverKeeps ==
  ASSUME NEW from, NEW h, NEW W, NEW a \in BOOLEAN, NEW s \in Sockets \ {Listener}, Ready(from, h, W, a, s), Pending(h.sock[s]),
         NEW state, state \in TcpStates, NowConnected(state), ~NowConnected(h.sock[s].state)
  PROVE  Changed(from, h, StateChange(h, s, state), W, a, s, state)
<1> DEFINE k == h.sock[s]
           m == h.sock[Listener]
           x == [m EXCEPT !.peer = IF @ = NoSocket THEN s ELSE @, !.events = @ \cup {"ACCEPT"}]
           y == [k EXCEPT !.peer = NoSocket, !.bits = (@ \ {"PassQueued"}) \cup {"PassAccept"}]
           z == Touched([y EXCEPT !.state = state])
           o == With(With(h, s, z), Listener, x)
           w == [x EXCEPT !.group = @ \cup x.events, !.events = {}]
<1>1. /\ HostOK(h, W, a) /\ h \in HostRecord /\ Listener \in Sockets /\ s \in Sockets /\ s # Listener
      /\ k \in TcpSocket /\ m \in TcpSocket /\ SocketOK(s, k) /\ SocketOK(Listener, m)
  BY SocketsAre DEF Ready, HostOK, HostRecord
<1>2. y \in TcpSocket /\ z \in TcpSocket /\ x \in TcpSocket /\ w \in TcpSocket
  <2>1. y \in TcpSocket /\ x \in TcpSocket
    BY <1>1 DEF TcpSocket, TcpBits, TcpEvents
  <2>2. [y EXCEPT !.state = state] \in TcpSocket
    BY <2>1 DEF TcpSocket
  <2>3. z \in TcpSocket
    BY <2>2 DEF TcpSocket, Touched
  <2>4. w \in TcpSocket
    BY <2>1 DEF TcpSocket
  <2> QED BY <2>1, <2>3, <2>4
<1>3. k.peer = Listener
  BY <1>1 DEF SocketOK, Pending
<1>4. StateChange(h, s, state) = WakeUpUser(o, Listener)
  <2>1. HandedOver(h, s) = With(With(h, Listener, x), s, [With(h, Listener, x).sock[s] EXCEPT !.peer = NoSocket, !.bits = (@ \ {"PassQueued"}) \cup {"PassAccept"}])
    BY <1>3 DEF HandedOver
  <2> HIDE DEF x, z, m
  <2>2. With(h, Listener, x).sock[s] = k
    BY <1>1, <1>2, WithParts
  <2>3. HandedOver(h, s) = With(With(h, Listener, x), s, y)
    BY <2>1, <2>2
  <2>4. With(h, Listener, x) \in HostRecord
    BY <1>1, <1>2, WithParts
  <2> HIDE DEF y
  <2>5. HandedOver(h, s).sock[s] = y
    <3>1. PICK v \in HostRecord : v = With(h, Listener, x)
      BY <2>4
    <3>2. With(v, s, y).sock[s] = y
      BY <1>1, <1>2, WithParts
    <3> QED BY <2>3, <3>1, <3>2
  <2>6. With(HandedOver(h, s), s, z) = With(With(h, Listener, x), s, z)
    BY <1>1, <1>2, <2>3, <2>4, WithTwice
  <2>7. With(HandedOver(h, s), s, z) = o
    BY <1>1, <1>2, <2>6, WithTwice
  <2>8. BecomesConnected(h, s) = HandedOver(h, s)
    BY DEF BecomesConnected, Has, Pending
  <2> HIDE DEF o
  <2>9. z = Touched([HandedOver(h, s).sock[s] EXCEPT !.state = state])
    BY <2>5 DEF z
  <2> QED BY <1>3, <2>7, <2>8, <2>9 DEF StateChange, Has, Pending
<1>5. z.state = state /\ z.bits = (k.bits \ {"PassQueued"}) \cup {"PassAccept"} /\ z.timer = k.timer
  BY <1>1 DEF Touched, TcpSocket
<1>0. PICK b \in BOOLEAN : b
  OBVIOUS
<1>6. Moves(h, W, b, s, k, z)
  <2>1. NowConnected(z.state) /\ z.bits = (h.sock[s].bits \ {"PassQueued"}) \cup {"PassAccept"} /\ z \in TcpSocket
    BY <1>2, <1>5 DEF NowConnected
  <2> QED BY <1>0, <2>1, HandedOverMoves
<1> HIDE DEF y, z
<1>7. /\ HostOK(With(h, s, z), W, b) /\ With(h, s, z).queue = h.queue /\ With(h, s, z).sock[s] = z
      /\ \A u \in Sockets \ {s} : With(h, s, z).sock[u] = h.sock[u]
  <2>1. HostOK(h, W, b)
    BY <1>0, <1>1, AskingKeeps
  <2>2. s \in Sockets \ {Listener} /\ Moves(h, W, b, s, h.sock[s], z)
    BY <1>1, <1>6
  <2> QED BY <2>1, <2>2, MovesKeeps
<1>8. Offers(With(h, s, z), b, a, m, x)
  <2>1. x.peer = (IF m.peer = NoSocket THEN s ELSE m.peer) /\ x.state = m.state /\ x.children = m.children /\ x.bits = m.bits
        /\ x.remote = m.remote /\ x.timer = m.timer
    BY <1>1 DEF TcpSocket
  <2>2. SocketOK(Listener, x)
    BY <1>1, <2>1, SocketsAre DEF SocketOK
  <2>3. x.peer # NoSocket
    BY <2>1, SocketsAre
  <2>4. "PassAccept" \in With(h, s, z).sock[x.peer].bits
    <3>1. m.peer # NoSocket => m.peer \in Sockets /\ "PassAccept" \in h.sock[m.peer].bits
      BY <1>1 DEF HostOK, OfferOK
    <3> QED BY <1>5, <1>7, <2>1, <3>1
  <2>5. x.state # "FREE"
    BY <2>1, <1>1 DEF SocketOK
  <2> QED BY <1>2, <2>1, <2>2, <2>3, <2>4, <2>5 DEF Offers
<1>9. With(h, s, z).sock[Listener] = m
  BY <1>1, <1>7
<1> HIDE DEF x, w, m
<1>10. /\ HostOK(o, W, a) /\ o.queue = h.queue /\ o.sock[Listener] = x /\ o.sock[s] = z
       /\ \A u \in Sockets \ {s, Listener} : o.sock[u] = h.sock[u]
  <2>1. PICK v : v = With(h, s, z)
    OBVIOUS
  <2>2. HostOK(v, W, b) /\ Offers(v, b, a, v.sock[Listener], x) 
    BY <1>7, <1>8, <1>9, <2>1
  <2>3. /\ HostOK(With(v, Listener, x), W, a) /\ With(v, Listener, x).queue = v.queue
        /\ With(v, Listener, x).sock[Listener] = x
        /\ \A u \in Sockets \ {Listener} : With(v, Listener, x).sock[u] = v.sock[u]
    BY <2>2, OffersKeeps
  <2> QED BY <1>1, <1>7, <2>1, <2>3
<1> HIDE DEF o
<1>11. WakeUpUser(o, Listener) = With(o, Listener, w)
  BY <1>10 DEF WakeUpUser, w
<1>12. Tame(x, w) /\ w.remote = NoSocket /\ w.timer = FALSE
  <2>1. SocketOK(Listener, x) /\ x \in TcpSocket /\ x.state # "FREE"
    BY <1>8, <1>2 DEF Offers
  <2> QED BY <1>2, <2>1 DEF Tame, w, SocketOK, TcpSocket
<1>13. Offers(o, a, a, x, w)
  BY <1>10, <1>12, TameOffers
<1>14. /\ HostOK(With(o, Listener, w), W, a) /\ With(o, Listener, w).queue = h.queue /\ With(o, Listener, w).sock[s] = z
       /\ With(o, Listener, w).sock[Listener] = w
       /\ \A u \in Sockets \ {s, Listener} : With(o, Listener, w).sock[u] = h.sock[u]
  BY <1>1, <1>10, <1>13, OffersKeeps
<1>15. Since(from, With(o, Listener, w), s)
  <2>1. Tells(k, z)
    BY <1>5 DEF Tells, Told, Pending
  <2>2. Heard(m, w)
    <3>1. x.events = m.events \cup {"ACCEPT"} /\ x.group = m.group
      BY <1>1 DEF x, TcpSocket
    <3>2. w.events = {} /\ w.group = m.group \cup m.events \cup {"ACCEPT"}
      BY <1>2, <3>1 DEF w, TcpSocket
    <3> QED BY <3>2 DEF Heard, Word
  <2> QED BY <1>14, <2>1, <2>2, SinceOn DEF Ready, m
<1> QED BY <1>4, <1>5, <1>11, <1>14, <1>15 DEF Changed, Ready, Pending, NowConnected, AtLeastEstablished

LEMMA EnteredTouched ==
  ASSUME NEW k, k \in TcpSocket, NEW l, l \in TcpSocket, NEW state, state \in TcpStates, Speaks(k, l, state)
  PROVE  Entered(k, Touched([l EXCEPT !.state = state]), state)
<1>1. [l EXCEPT !.state = state] \in TcpSocket
  BY DEF TcpSocket
<1>2. Touched([l EXCEPT !.state = state]) \in TcpSocket
  BY <1>1 DEF TcpSocket, Touched
<1> QED BY <1>2 DEF Entered, Speaks, Touched, TcpSocket

LEMMA WithPosted ==
  ASSUME NEW h, h \in HostRecord, NEW s \in Sockets, NEW l, l \in TcpSocket, NEW event
  PROVE  With(Posted(h, event), s, l) = Posted(With(h, s, l), event) /\ Posted(h, event).sock = h.sock
<1>1. h.sock \in [Sockets -> TcpSocket] /\ h = [sock |-> h.sock, queue |-> h.queue]
  BY DEF HostRecord
<1>2. With(h, s, l) = [sock |-> [h.sock EXCEPT ![s] = l], queue |-> h.queue]
  BY <1>1 DEF With
<1>3. CASE Len(h.queue) < EventQueueLength
  <2>1. Posted(h, event) = [sock |-> h.sock, queue |-> Append(h.queue, event)]
    BY <1>1, <1>3 DEF Posted
  <2>2. With(Posted(h, event), s, l) = [sock |-> [h.sock EXCEPT ![s] = l], queue |-> Append(h.queue, event)]
    <3>1. PICK g : g = Posted(h, event)
      OBVIOUS
    <3>2. g = [sock |-> h.sock, queue |-> Append(h.queue, event)] /\ g.sock = h.sock
      BY <2>1, <3>1
    <3>0. PICK q : q = Append(h.queue, event)
      OBVIOUS
    <3>3. \A f : [g EXCEPT !.sock = f] = [sock |-> f, queue |-> q]
      <4>1. PICK c : c = h.sock
        OBVIOUS
      <4>2. g = [sock |-> c, queue |-> q]
        BY <3>0, <3>2, <4>1
      <4>3. \A d, e, f : [[sock |-> d, queue |-> e] EXCEPT !.sock = f] = [sock |-> f, queue |-> e]
        OBVIOUS
      <4> QED BY ONLY <4>2, <4>3
    <3>4. With(g, s, l) = [sock |-> [h.sock EXCEPT ![s] = l], queue |-> Append(h.queue, event)]
      BY <3>0, <3>2, <3>3 DEF With
    <3> QED BY <3>1, <3>4
  <2>3. Posted(With(h, s, l), event) = [sock |-> [h.sock EXCEPT ![s] = l], queue |-> Append(h.queue, event)]
    <3>1. PICK g : g = With(h, s, l)
      OBVIOUS
    <3>2. g = [sock |-> [h.sock EXCEPT ![s] = l], queue |-> h.queue] /\ g.queue = h.queue
      BY <1>2, <3>1
    <3>3. \A q : [g EXCEPT !.queue = q] = [sock |-> [h.sock EXCEPT ![s] = l], queue |-> q]
      BY <3>2
    <3>4. Posted(g, event) = [sock |-> [h.sock EXCEPT ![s] = l], queue |-> Append(h.queue, event)]
      BY <1>3, <3>2, <3>3 DEF Posted
    <3> QED BY <3>1, <3>4
  <2> QED BY <2>1, <2>2, <2>3
<1>4. CASE ~(Len(h.queue) < EventQueueLength)
  BY <1>1, <1>2, <1>4 DEF Posted
<1> QED BY <1>3, <1>4

(* vTCPStateChange for a socket that does not listen.                      *)
LEMMA StateChanges ==
  ASSUME NEW from, NEW h, NEW W, NEW a \in BOOLEAN, NEW s \in Sockets \ {Listener}, Ready(from, h, W, a, s), NEW state, MayEnter(h.sock[s], state)
  PROVE  Changed(from, h, StateChange(h, s, state), W, a, s, state)
<1> DEFINE k == h.sock[s]
           z(l) == Touched([l EXCEPT !.state = state])
           before == NowConnected(k.state)
           after == NowConnected(state)
<1>1. HostOK(h, W, a) /\ h \in HostRecord /\ k \in TcpSocket /\ SocketOK(s, k) /\ s \in Sockets
  BY DEF Ready, HostOK, HostRecord
<1>2. state \in TcpStates
  BY DEF MayEnter, Targets, TcpStates
<1>3. ~(before /\ Pending(k))
  BY <1>1 DEF SocketOK, Pending, NowConnected, AtLeastEstablished
<1>4. ASSUME NEW l, l \in TcpSocket, Speaks(k, l, state)
      PROVE  Entered(k, z(l), state) /\ z(l) \in TcpSocket
  BY <1>1, <1>2, <1>4, EnteredTouched DEF Entered
<1> HIDE DEF z
<1>5. ASSUME NEW l, l \in TcpSocket, Speaks(k, l, state)
      PROVE  With(With(h, s, l), s, z(l)) = With(h, s, z(l)) /\ With(h, s, l).sock[s] = l
  BY <1>1, <1>4, <1>5, WithTwice, WithParts
<1>6. CASE ~before /\ after /\ Pending(k)
  BY <1>2, <1>6, HandedOverKeeps
<1>7. CASE ~before /\ after /\ ~Pending(k)
  <2>1. PICK l : l = [k EXCEPT !.events = @ \cup {"CONNECT"}]
    OBVIOUS
  <2>2. l \in TcpSocket /\ Speaks(k, l, state)
    BY <1>1, <1>7, <2>1 DEF TcpSocket, TcpEvents, Speaks
  <2>3. BecomesConnected(h, s) = With(h, s, l)
    BY <1>7, <2>1 DEF BecomesConnected, Pending, Has
  <2>4. StateChange(h, s, state) = With(With(h, s, l), s, z(With(h, s, l).sock[s]))
    BY <1>7, <2>3 DEF StateChange, Pending, Has, z
  <2>5. StateChange(h, s, state) = With(h, s, z(l)) /\ Entered(k, z(l), state)
    BY <1>4, <1>5, <2>2, <2>4
  <2> QED BY <1>7, <2>5, ChangedByEntering
<1>8. CASE before /\ ~after
  <2>1. PICK l : l = [k EXCEPT !.events = @ \cup {"CLOSED"}, !.timer = @ /\ Active(k.state)]
    OBVIOUS
  <2>2. l \in TcpSocket /\ Speaks(k, l, state)
    <3>1. PICK c \in BOOLEAN : c = (k.timer /\ Active(k.state))
      OBVIOUS
    <3>2. l = [k EXCEPT !.events = @ \cup {"CLOSED"}, !.timer = c]
      BY ONLY <2>1, <3>1
    <3>3. c = k.timer
      <4>1. Active(k.state) /\ k.timer \in BOOLEAN
        BY <1>1, <1>8 DEF Active, NowConnected, AtLeastEstablished, TcpSocket
      <4> QED BY <3>1, <4>1
    <3>4. /\ l \in TcpSocket /\ l.bits = k.bits /\ l.peer = k.peer /\ l.timer = c /\ l.group = k.group
          /\ l.events = k.events \cup {"CLOSED"} /\ l.received = k.received /\ l.unacked = k.unacked
      BY <1>1, <3>1, <3>2 DEF TcpSocket, TcpEvents
    <3> QED BY <1>8, <3>3, <3>4 DEF Speaks
  <2>3. LosesConnection(h, s, state) = With(h, s, l)
    BY <2>1 DEF LosesConnection
  <2>4. StateChange(h, s, state) = With(With(h, s, l), s, z(With(h, s, l).sock[s]))
    BY <1>8, <2>3 DEF StateChange, z
  <2>5. StateChange(h, s, state) = With(h, s, z(l)) /\ Entered(k, z(l), state)
    BY <1>4, <1>5, <2>2, <2>4
  <2> QED BY <1>8, <2>5, ChangedByEntering
<1>9. CASE (before <=> after) /\ state = "CLOSED" /\ NobodyOwns(h, s)
  <2>1. ~after /\ ~before
    BY <1>9 DEF NowConnected, AtLeastEstablished
  <2>2. Pending(k) /\ "PassAccept" \notin k.bits
    BY <1>9, <2>1 DEF MayEnter, NobodyOwns, Has, Pending
  <2>3. StateChange(h, s, state) = With(Posted(h, <<"close", s>>), s, z(Posted(h, <<"close", s>>).sock[s]))
    <3>1. (NowConnected(k.state) = NowConnected(state)) = TRUE
      BY <1>9 DEF NowConnected
    <3> QED BY <1>9, <2>1, <3>1 DEF StateChange, z
  <2>4. Entered(k, z(k), state) /\ z(k) \in TcpSocket
    BY <1>1, <1>4, <2>1 DEF Speaks
  <2>5. StateChange(h, s, state) = Posted(With(h, s, z(k)), <<"close", s>>)
    BY <1>1, <2>3, <2>4, WithPosted
  <2>6. Moves(h, W, a, s, k, z(k))
    BY <2>1, <2>4, EnteredMoves
  <2>7. HostOK(With(h, s, z(k)), W, a) /\ With(h, s, z(k)).queue = h.queue /\ With(h, s, z(k)).sock[s] = z(k)
    BY <1>1, <2>6, MovesKeeps
  <2>13. Since(from, With(h, s, z(k)), s)
    BY <1>3, <2>1, <2>4, ChangedByEntering DEF Changed
  <2>8. s \notin W /\ NotClosing(h.queue, s)
    BY <1>1, <2>2 DEF HostOK, OwnedOK, Pending, Ready
  <2>9. ClosingOK(z(k))
    BY <1>9, <2>2, <2>4 DEF ClosingOK, Entered, Speaks
  <2>10. PICK g : g = With(h, s, z(k))
    OBVIOUS
  <2>11. HostOK(Posted(g, <<"close", s>>), W, a) /\ Posted(g, <<"close", s>>).sock = g.sock
    BY <2>7, <2>8, <2>9, <2>10, PostedKeeps
  <2>12. g.sock[s].state = "CLOSED"
    BY <1>9, <2>4, <2>7, <2>10 DEF Entered
  <2>14. Since(from, Posted(g, <<"close", s>>), s)
    BY <2>10, <2>11, <2>13 DEF Since
  <2> QED BY <1>9, <2>1, <2>2, <2>5, <2>10, <2>11, <2>12, <2>14 DEF Changed
<1>10. CASE (before <=> after) /\ ~(state = "CLOSED" /\ NobodyOwns(h, s))
  <2>1. StateChange(h, s, state) = With(h, s, z(k))
    BY <1>10 DEF StateChange, z
  <2>2. Entered(k, z(k), state)
    BY <1>1, <1>4, <1>10 DEF Speaks
  <2> QED BY <1>3, <1>10, <2>1, <2>2, ChangedByEntering
<1> QED BY <1>6, <1>7, <1>8, <1>9, <1>10

(***************************************************************************)
(* What the IP task does with one socket.                                  *)
(***************************************************************************)
LEMMA ReadyIs ==
  ASSUME NEW from, NEW h, NEW W, NEW a \in BOOLEAN, NEW s \in Sockets \ {Listener}, Ready(from, h, W, a, s)
  PROVE  /\ HostOK(h, W, a) /\ h \in HostRecord /\ s \in Sockets /\ h.sock[s] \in TcpSocket
         /\ h.sock[s].state \in TcpStates /\ SocketOK(s, h.sock[s])
  BY DEF Ready, HostOK, HostRecord, TcpSocket

(* Its connection was asked for by another host.                           *)
Begins(k) == Pending(k) \/ k.state \notin Settled \cup {"CONNECT_SYN"}

LEMMA MayEnterFrom ==
  ASSUME NEW from, NEW h, NEW W, NEW a \in BOOLEAN, NEW s \in Sockets \ {Listener}, Ready(from, h, W, a, s), NEW state,
         \/ state \in AtLeastEstablished
         \/ h.sock[s].state \notin AtLeastEstablished /\ state = "CLOSED"
         \/ h.sock[s].state \notin AtLeastEstablished /\ state \in {"SYN_FIRST", "SYN_RECEIVED"} /\ Begins(h.sock[s])
         \/ NowConnected(h.sock[s].state) /\ state = "CLOSED"
  PROVE  MayEnter(h.sock[s], state)
  BY ReadyIs DEF MayEnter, Ready, Targets, AtLeastEstablished, NowConnected, Settled, Begins

(* A step that takes nothing back.                                         *)
Adds(k, l) ==
  /\ k.events \subseteq l.events /\ k.group \subseteq l.group /\ (k.timer => l.timer)
  /\ l.received => k.received \/ "RECEIVE" \in l.events
  /\ k.unacked => l.unacked \/ "SEND" \in l.events

LEMMA AddsTells ==
  ASSUME NEW k, NEW l, Tame(k, l), Adds(k, l)
  PROVE  Tells(k, l)
  BY DEF Tame, Adds, Tells, Told, Word, Pending

(* A step that leaves state and owners alone.                              *)
LEMMA TameReady ==
  ASSUME NEW from, NEW h, NEW W, NEW a \in BOOLEAN, NEW s \in Sockets \ {Listener}, Ready(from, h, W, a, s), NEW l,
         Tame(h.sock[s], l), Adds(h.sock[s], l)
  PROVE  /\ Ready(from, With(h, s, l), W, a, s) /\ With(h, s, l).sock[s] = l
         /\ With(h, s, l).sock[s].state = h.sock[s].state
<1>1. HostOK(h, W, a)
  BY ReadyIs
<1>2. Moves(h, W, a, s, h.sock[s], l)
  BY <1>1, TameMoves
<1>3. /\ HostOK(With(h, s, l), W, a) /\ With(h, s, l).queue = h.queue /\ With(h, s, l).sock[s] = l
      /\ \A u \in Sockets \ {s} : With(h, s, l).sock[u] = h.sock[u]
  BY <1>1, <1>2, MovesKeeps
<1>4. Since(from, With(h, s, l), s)
  <2>1. Tells(h.sock[s], l)
    BY AddsTells
  <2>2. With(h, s, l).sock[Listener] = h.sock[Listener]
    BY <1>3, SocketsAre
  <2> QED BY <1>3, <2>1, <2>2, SinceOn, SinceNow DEF Ready
<1> QED BY <1>3, <1>4 DEF Ready, Tame

(* A step that keeps the state too.                                        *)
Stays(from, h, g, W, a, s) == Ready(from, g, W, a, s) /\ g.sock[s].state = h.sock[s].state

OtherBits(names) == names \subseteq TcpBits \ {"PassQueued", "PassAccept"}

LEMMA SetBitsStays ==
  ASSUME NEW from, NEW h, NEW W, NEW a \in BOOLEAN, NEW s \in Sockets \ {Listener}, Ready(from, h, W, a, s),
         NEW names, OtherBits(names)
  PROVE  Stays(from, h, SetBits(h, s, names), W, a, s) /\ SetBits(h, s, names).sock[s].bits = h.sock[s].bits \cup names
<1>1. PICK l : l = [h.sock[s] EXCEPT !.bits = @ \cup names]
  OBVIOUS
<1>2. h.sock[s] \in TcpSocket /\ h.sock[s].state # "FREE"
  BY ReadyIs DEF Ready
<1>3. Tame(h.sock[s], l) /\ Adds(h.sock[s], l) /\ l.bits = h.sock[s].bits \cup names
  BY <1>1, <1>2 DEF Tame, Adds, TcpSocket, TcpBits, OtherBits
<1>4. SetBits(h, s, names) = With(h, s, l)
  BY <1>1 DEF SetBits
<1> QED BY <1>3, <1>4, TameReady DEF Stays

LEMMA DataSentStays ==
  ASSUME NEW from, NEW h, NEW W, NEW a \in BOOLEAN, NEW s \in Sockets \ {Listener}, Ready(from, h, W, a, s)
  PROVE  Stays(from, h, DataSent(h, s), W, a, s)
<1>1. PICK c : c = IF Has(h, s, "CloseRequested") /\ ~Has(h, s, "FinSent") THEN h.sock[s].bits \cup {"FinSent"} ELSE h.sock[s].bits
  OBVIOUS
<1>2. PICK l : l = [h.sock[s] EXCEPT !.unsent = FALSE, !.bits = c]
  OBVIOUS
<1>3. h.sock[s] \in TcpSocket /\ h.sock[s].state # "FREE"
  BY ReadyIs DEF Ready
<1>4. Tame(h.sock[s], l) /\ Adds(h.sock[s], l)
  BY <1>1, <1>2, <1>3 DEF Tame, Adds, TcpSocket, TcpBits
<1>5. DataSent(h, s) = With(h, s, l)
  BY <1>1, <1>2 DEF DataSent
<1> QED BY <1>4, <1>5, TameReady DEF Stays

LEMMA NextTimeoutStays ==
  ASSUME NEW from, NEW h, NEW W, NEW a \in BOOLEAN, NEW s \in Sockets \ {Listener}, Ready(from, h, W, a, s), NEW c \in BOOLEAN, c
  PROVE  Stays(from, h, [h EXCEPT !.sock[s].timer = c], W, a, s) /\ [h EXCEPT !.sock[s].timer = c].sock[s].timer
<1>1. PICK l : l = [h.sock[s] EXCEPT !.timer = c]
  OBVIOUS
<1>2. h.sock[s] \in TcpSocket /\ h.sock[s].state # "FREE"
  BY ReadyIs DEF Ready
<1>3. Tame(h.sock[s], l) /\ Adds(h.sock[s], l) /\ l.timer
  BY <1>1, <1>2 DEF Tame, Adds, TcpSocket
<1>4. [h EXCEPT !.sock[s].timer = c] = With(h, s, l)
  BY <1>1 DEF With
<1>5. Stays(from, h, With(h, s, l), W, a, s) /\ With(h, s, l).sock[s].timer
  BY <1>3, TameReady DEF Stays
<1> QED BY <1>4, <1>5

LEMMA RepeatsStays ==
  ASSUME NEW from, NEW h, NEW W, NEW a \in BOOLEAN, NEW s \in Sockets \ {Listener}, Ready(from, h, W, a, s), NEW n \in Nat
  PROVE  /\ Stays(from, h, [h EXCEPT !.sock[s].repeats = n], W, a, s)
         /\ Stays(from, h, With(h, s, [h.sock[s] EXCEPT !.repeats = n]), W, a, s)
<1>1. PICK l : l = [h.sock[s] EXCEPT !.repeats = n]
  OBVIOUS
<1>2. h.sock[s] \in TcpSocket /\ h.sock[s].state # "FREE"
  BY ReadyIs DEF Ready
<1>3. Tame(h.sock[s], l) /\ Adds(h.sock[s], l)
  BY <1>1, <1>2 DEF Tame, Adds, TcpSocket
<1>4. [h EXCEPT !.sock[s].repeats = n] = With(h, s, l)
  BY <1>1 DEF With
<1> QED BY <1>1, <1>3, <1>4, TameReady DEF Stays

LEMMA ShutDownReady ==
  ASSUME NEW from, NEW h, NEW W, NEW a \in BOOLEAN, NEW s \in Sockets \ {Listener}, Ready(from, h, W, a, s), h.sock[s].state = "ESTABLISHED"
  PROVE  Ready(from, ShutDown(h, s), W, a, s) /\ ShutDown(h, s).sock[s].state \in {"ESTABLISHED", "FIN_WAIT_1"}
<1>1. PICK l : l = [h.sock[s] EXCEPT !.bits = (@ \ {"UserShutdown"}) \cup {"FinSent"}]
  OBVIOUS
<1>2. h.sock[s] \in TcpSocket /\ h.sock[s].state # "FREE"
  BY ReadyIs DEF Ready
<1>3. Tame(h.sock[s], l) /\ Adds(h.sock[s], l)
  BY <1>1, <1>2 DEF Tame, Adds, TcpSocket, TcpBits
<1>4. PICK g : g = With(h, s, l)
  OBVIOUS
<1>5. Ready(from, g, W, a, s)
  BY <1>3, <1>4, TameReady
<1>6. MayEnter(g.sock[s], "FIN_WAIT_1")
  BY <1>5, MayEnterFrom DEF AtLeastEstablished
<1>7. PICK e : e = "FIN_WAIT_1"
  OBVIOUS
<1>8. Changed(from, g, StateChange(g, s, e), W, a, s, e)
  BY <1>5, <1>6, <1>7, StateChanges
<1> QED BY <1>1, <1>4, <1>7, <1>8 DEF ShutDown, Changed

LEMMA KeptAliveReady ==
  ASSUME NEW from, NEW h, NEW W, NEW a \in BOOLEAN, NEW s \in Sockets \ {Listener}, Ready(from, h, W, a, s), NEW idle, NEW silent
  PROVE  Ready(from, KeptAlive(h, s, idle, silent), W, a, s)
<1>1. PICK e : e = "CLOSE_WAIT"
  OBVIOUS
<1>2. MayEnter(h.sock[s], e)
  BY <1>1, MayEnterFrom DEF AtLeastEstablished
<1>3. Ready(from, StateChange(h, s, "CLOSE_WAIT"), W, a, s)
  <2>1. Changed(from, h, StateChange(h, s, e), W, a, s, e)
    BY <1>2, StateChanges
  <2> QED BY <1>1, <2>1 DEF Changed
<1>4. PICK l : l = [h.sock[s] EXCEPT !.probes = @ + 1]
  OBVIOUS
<1>5. h.sock[s] \in TcpSocket /\ h.sock[s].state # "FREE"
  BY ReadyIs DEF Ready
<1>6. Tame(h.sock[s], l) /\ Adds(h.sock[s], l)
  <2>1. PICK n \in Nat : n = h.sock[s].probes + 1
    BY <1>5 DEF TcpSocket
  <2>2. l = [h.sock[s] EXCEPT !.probes = n]
    BY <1>4, <2>1
  <2> QED BY <1>5, <2>2 DEF Tame, Adds, TcpSocket
<1>7. Ready(from, With(h, s, l), W, a, s)
  BY <1>6, TameReady
<1> QED BY <1>3, <1>4, <1>7 DEF KeptAlive

LEMMA PrepareSendReady ==
  ASSUME NEW from, NEW h, NEW W, NEW a \in BOOLEAN, NEW s \in Sockets \ {Listener}, Ready(from, h, W, a, s), NEW buffer, NEW idle
  PROVE  Ready(from, PrepareSend(h, s, buffer, idle), W, a, s)
<1>1. PICK g : g = IF h.sock[s].unsent /\ buffer THEN DataSent(h, s) ELSE h
  OBVIOUS
<1>2. Ready(from, g, W, a, s) /\ g.sock[s].state = h.sock[s].state
  BY <1>1, DataSentStays DEF Stays
<1>3. CASE (h.sock[s].unsent /\ ~buffer) \/ h.sock[s].state # "ESTABLISHED"
  BY <1>1, <1>2, <1>3 DEF PrepareSend
<1>4. CASE ~((h.sock[s].unsent /\ ~buffer) \/ h.sock[s].state # "ESTABLISHED")
  <2>1. PICK f : f = ShutDown(g, s)
    OBVIOUS
  <2>2. Ready(from, f, W, a, s)
    BY <1>2, <1>4, <2>1, ShutDownReady
  <2>3. Ready(from, KeptAlive(f, s, idle, ~h.sock[s].unsent), W, a, s)
    <3>1. PICK silent : silent = ~h.sock[s].unsent
      OBVIOUS
    <3> QED BY <2>2, <3>1, KeptAliveReady
  <2> QED BY <1>1, <1>4, <2>1, <2>3 DEF PrepareSend
<1> QED BY <1>3, <1>4

(* vSocketClose: what is not deleted twice, and cannot be accepted.        *)
Closable(h, W, s) ==
  /\ s \notin W /\ h.sock[s].state # "FREE" /\ "PassAccept" \notin h.sock[s].bits /\ NotClosing(h.queue, s)

LEMMA NotASocketIs ==
  /\ NotASocket \in TcpSocket /\ NotASocket.state = "FREE"
  /\ "PassQueued" \notin NotASocket.bits /\ "PassAccept" \notin NotASocket.bits
  BY DEF NotASocket, NewSocket, TcpSocket, TcpStates

LEMMA ClosedIs ==
  ASSUME NEW h, NEW W, NEW a \in BOOLEAN, HostOK(h, W, a), NEW s \in Sockets \ {Listener}, Closable(h, W, s)
  PROVE  /\ Closed(h, s) \in HostRecord /\ Closed(h, s).queue = h.queue /\ Closed(h, s).sock[s] = NotASocket
         /\ \A u \in Sockets \ {s, Listener} : Closed(h, s).sock[u] = h.sock[u]
         /\ Closed(h, s).sock[Listener] = [h.sock[Listener] EXCEPT !.children = IF s \in Children THEN @ - 1 ELSE @]
         /\ s \in Children => h.sock[Listener].children > 0
<1> DEFINE m == h.sock[Listener]
           x == [m EXCEPT !.children = @ - 1]
<1>1. h \in HostRecord /\ m \in TcpSocket /\ Listener \in Sockets /\ CountOK(h.sock) /\ s \in Sockets /\ NotASocket \in TcpSocket
  BY SocketsAre, NotASocketIs DEF HostOK, HostRecord
<1>2. CASE s \in Children
  <2>1. m.state = "LISTEN" /\ m.children > 0
    <3>1. s \in Living(h.sock) /\ IsFiniteSet(Living(h.sock))
      <4>1. Living(h.sock) \subseteq Children
        BY DEF Living
      <4>2. s \in Living(h.sock)
        BY <1>2 DEF Living, Closable
      <4> QED BY <4>1, <4>2, SocketsAre, FS_Subset
    <3>2. Cardinality(Living(h.sock)) # 0 /\ Cardinality(Living(h.sock)) \in Nat
      BY <3>1, FS_EmptySet, FS_CardinalityType
    <3> QED BY <1>1, <3>1, <3>2 DEF CountOK
  <2>2. Port(s) = Listener
    BY <1>2, SocketsAre
  <2>3. x \in TcpSocket
    <3>1. PICK n \in Nat : n = m.children - 1
      BY <1>1, <2>1 DEF TcpSocket
    <3>2. x = [m EXCEPT !.children = n]
      BY <3>1
    <3> QED BY <1>1, <3>2 DEF TcpSocket
  <2> HIDE DEF x
  <2>4. SetSocketCount(h, s) = With(h, Listener, x)
    BY <2>1, <2>2 DEF SetSocketCount, With, x
  <2>5. PICK g : g = With(h, Listener, x)
    OBVIOUS
  <2>6. g \in HostRecord /\ g.queue = h.queue /\ g.sock[Listener] = x /\ \A u \in Sockets \ {Listener} : g.sock[u] = h.sock[u]
    <3>1. /\ With(h, Listener, x) \in HostRecord /\ With(h, Listener, x).queue = h.queue
          /\ With(h, Listener, x).sock[Listener] = x
          /\ \A u \in Sockets \ {Listener} : With(h, Listener, x).sock[u] = h.sock[u]
      BY ONLY <1>1, <2>3, WithParts
    <3> QED BY ONLY <2>5, <3>1
  <2>7. Closed(h, s) = With(g, s, NotASocket)
    BY <2>4, <2>5 DEF Closed
  <2>8. /\ With(g, s, NotASocket) \in HostRecord /\ With(g, s, NotASocket).queue = g.queue
        /\ With(g, s, NotASocket).sock[s] = NotASocket
        /\ \A u \in Sockets \ {s} : With(g, s, NotASocket).sock[u] = g.sock[u]
    BY <1>1, <2>6, WithParts
  <2>9. x = [m EXCEPT !.children = IF s \in Children THEN @ - 1 ELSE @]
    BY <1>2 DEF x
  <2> HIDE DEF m
  <2>10. Closed(h, s).sock[Listener] = x
    BY <1>1, <2>6, <2>7, <2>8
  <2> QED BY <1>1, <2>1, <2>6, <2>7, <2>8, <2>9, <2>10 DEF m
<1>3. CASE s \notin Children
  <2>1. s = Client /\ Port(s) # Listener
    BY <1>1, <1>3, SocketsAre DEF Port
  <2>2. Closed(h, s) = With(h, s, NotASocket)
    BY <2>1 DEF Closed, SetSocketCount
  <2>3. /\ With(h, s, NotASocket) \in HostRecord /\ With(h, s, NotASocket).queue = h.queue
        /\ With(h, s, NotASocket).sock[s] = NotASocket
        /\ \A u \in Sockets \ {s} : With(h, s, NotASocket).sock[u] = h.sock[u]
    BY <1>1, WithParts
  <2>4. m = [m EXCEPT !.children = IF s \in Children THEN @ - 1 ELSE @]
    BY <1>1, <1>3 DEF TcpSocket
  <2> HIDE DEF m
  <2>5. Closed(h, s).sock[Listener] = m
    BY <1>1, <2>2, <2>3 DEF m
  <2> QED BY <1>1, <1>3, <2>2, <2>3, <2>4, <2>5 DEF m
<1> QED BY <1>2, <1>3

LEMMA ClosedHeard ==
  ASSUME NEW h, NEW W, NEW a \in BOOLEAN, HostOK(h, W, a), NEW s \in Sockets \ {Listener}, Closable(h, W, s)
  PROVE  Heard(h.sock[Listener], Closed(h, s).sock[Listener])
<1>1. PICK m : m = h.sock[Listener]
  OBVIOUS
<1>2. m \in TcpSocket
  BY <1>1, SocketsAre DEF HostOK, HostRecord
<1>3. PICK n : n = IF s \in Children THEN m.children - 1 ELSE m.children
  OBVIOUS
<1>4. Closed(h, s).sock[Listener] = [m EXCEPT !.children = n]
  BY <1>1, <1>3, ClosedIs
<1> QED BY <1>1, <1>2, <1>4 DEF Heard, Word, TcpSocket

LEMMA ClosedOthers ==
  ASSUME NEW h, NEW W, NEW a \in BOOLEAN, HostOK(h, W, a), NEW s \in Sockets \ {Listener}, Closable(h, W, s)
  PROVE  Closed(h, s).sock[s] = NotASocket /\ \A u \in Sockets \ {s, Listener} : Closed(h, s).sock[u] = h.sock[u]
<1>1. PICK g : g = Closed(h, s)
  OBVIOUS
<1>2. /\ g \in HostRecord /\ g.queue = h.queue /\ g.sock[s] = NotASocket
      /\ \A u \in Sockets \ {s, Listener} : g.sock[u] = h.sock[u]
      /\ g.sock[Listener] = [h.sock[Listener] EXCEPT !.children = IF s \in Children THEN @ - 1 ELSE @]
      /\ s \in Children => h.sock[Listener].children > 0
  BY <1>1, ClosedIs
<1> QED BY <1>1, <1>2

LEMMA ClosedKeeps ==
  ASSUME NEW h, NEW W, NEW a \in BOOLEAN, HostOK(h, W, a), NEW s \in Sockets \ {Listener}, Closable(h, W, s)
  PROVE  HostOK(Closed(h, s), W, a) /\ Closed(h, s).queue = h.queue
<1> DEFINE m == h.sock[Listener]
           x == [m EXCEPT !.children = IF s \in Children THEN @ - 1 ELSE @]
<1>0. PICK g : g = Closed(h, s)
  OBVIOUS
<1>1. /\ g \in HostRecord /\ g.queue = h.queue /\ g.sock[s] = NotASocket
      /\ \A u \in Sockets \ {s, Listener} : g.sock[u] = h.sock[u]
      /\ g.sock[Listener] = x
      /\ s \in Children => m.children > 0
  BY <1>0, ClosedIs
<1>2. /\ h \in HostRecord /\ m \in TcpSocket /\ Listener \in Sockets /\ CountOK(h.sock) /\ s \in Sockets /\ h.queue \in Seq(SocketRequests)
      /\ SocketOK(Listener, m) /\ OfferOK(h.queue, h.sock, a) /\ OwnedOK(h.sock, W) /\ ClosingsOK(h.queue, h.sock, W)
      /\ s # Listener
  BY SocketsAre DEF HostOK, HostRecord
<1>3. /\ x.state = m.state /\ x.peer = m.peer /\ x.bits = m.bits /\ x.remote = m.remote /\ x.timer = m.timer
      /\ x.children = IF s \in Children THEN m.children - 1 ELSE m.children
  BY <1>2 DEF TcpSocket
<1> HIDE DEF x
<1>4. \A u \in Sockets : SocketOK(u, g.sock[u])
  <2>1. SocketOK(Listener, x)
    BY <1>2, <1>3 DEF SocketOK
  <2>2. SocketOK(s, NotASocket)
    BY <1>2, NotASocketIs DEF SocketOK
  <2> QED BY <1>1, <2>1, <2>2 DEF HostOK
<1>5. ClosingsOK(g.queue, g.sock, W)
  <2>1. ASSUME NEW i \in 1 .. Len(h.queue), h.queue[i][1] = "close"
        PROVE  ClosingOK(g.sock[h.queue[i][2]])
    <3>1. h.queue[i] \in SocketRequests
      BY <1>2
    <3>2. h.queue[i][2] \in Sockets /\ h.queue[i] = <<"close", h.queue[i][2]>>
      BY <2>1, <3>1 DEF SocketRequests
    <3>3. h.queue[i][2] # Listener /\ h.queue[i][2] # s /\ ClosingOK(h.sock[h.queue[i][2]])
      BY <1>2, <2>1, <3>2 DEF ClosingsOK, Closable, NotClosing
    <3> QED BY <1>1, <3>2, <3>3
  <2> QED BY <1>1, <1>2, <2>1 DEF ClosingsOK
<1>6. OwnedOK(g.sock, W)
  BY <1>1, <1>2 DEF OwnedOK, Closable
<1>7. CountOK(g.sock)
  <2>1. Living(g.sock) = Living(h.sock) \ {s}
    BY <1>1, <1>2, NotASocketIs, SocketsAre DEF Living
  <2>2. IsFiniteSet(Living(h.sock))
    <3>1. Living(h.sock) \subseteq Children
      BY DEF Living
    <3> QED BY <3>1, SocketsAre, FS_Subset
  <2>3. s \in Children => s \in Living(h.sock)
    BY DEF Living, Closable
  <2>4. s \notin Children => s \notin Living(h.sock)
    BY DEF Living
  <2>5. CASE s \in Children
    <3>1. Cardinality(Living(h.sock) \ {s}) = Cardinality(Living(h.sock)) - 1 /\ Cardinality(Living(h.sock)) \in Nat
      BY <2>2, <2>3, <2>5, FS_RemoveElement, FS_CardinalityType
    <3> QED BY <1>1, <1>2, <1>3, <2>1, <2>5, <3>1, ConnectionAssumption DEF CountOK
  <2>6. CASE s \notin Children
    <3>1. Living(g.sock) = Living(h.sock)
      BY <2>1, <2>4, <2>6
    <3> QED BY <1>1, <1>2, <1>3, <2>6, <3>1 DEF CountOK
  <2> QED BY <2>5, <2>6
<1>8. OfferOK(g.queue, g.sock, a)
  <2>1. \A u \in Sockets : "PassAccept" \in g.sock[u].bits <=> "PassAccept" \in h.sock[u].bits
    BY <1>1, <1>2, <1>3, NotASocketIs DEF Closable
  <2> QED BY <1>1, <1>2, <1>3, <2>1 DEF OfferOK
<1> QED BY <1>0, <1>1, <1>4, <1>5, <1>6, <1>7, <1>8 DEF HostOK

(* A change to a state that every socket may enter.                        *)
LEMMA ChangeReady ==
  ASSUME NEW from, NEW h, NEW W, NEW a \in BOOLEAN, NEW s \in Sockets \ {Listener}, Ready(from, h, W, a, s), NEW state,
         \/ state \in AtLeastEstablished
         \/ h.sock[s].state \notin AtLeastEstablished /\ state \in {"SYN_FIRST", "SYN_RECEIVED"} /\ Begins(h.sock[s])
  PROVE  Ready(from, StateChange(h, s, state), W, a, s) /\ StateChange(h, s, state).sock[s].state = state
<1>1. MayEnter(h.sock[s], state)
  BY MayEnterFrom
<1>2. Changed(from, h, StateChange(h, s, state), W, a, s, state)
  BY <1>1, StateChanges
<1> QED BY <1>2 DEF Changed, AtLeastEstablished

LEMMA PrepareConnectStays ==
  ASSUME NEW from, NEW h, NEW W, NEW a \in BOOLEAN, NEW s \in Sockets \ {Listener}, Ready(from, h, W, a, s), NEW known
  PROVE  Stays(from, h, PrepareConnect(h, s, known), W, a, s)
<1>1. PICK n \in Nat : n = h.sock[s].repeats + 1
  <2>1. h.sock[s] \in TcpSocket
    BY ReadyIs
  <2> QED BY <2>1 DEF TcpSocket
<1>2. PICK f : f = With(h, s, [h.sock[s] EXCEPT !.repeats = 0])
  OBVIOUS
<1>3. Stays(from, h, f, W, a, s)
  BY <1>2, RepeatsStays
<1>4. Stays(from, f, SetBits(f, s, {"ConnPrepared"}), W, a, s)
  <2>1. PICK names : names = {"ConnPrepared"}
    OBVIOUS
  <2>2. OtherBits(names)
    BY <2>1 DEF TcpBits, OtherBits
  <2>3. Ready(from, f, W, a, s)
    BY <1>3 DEF Stays
  <2>4. Stays(from, f, SetBits(f, s, names), W, a, s)
    <3>1. Stays(from, f, SetBits(f, s, names), W, a, s) /\ SetBits(f, s, names).sock[s].bits = f.sock[s].bits \cup names
      BY <2>2, <2>3, SetBitsStays
    <3> QED BY <3>1
  <2> QED BY <2>1, <2>4
<1>5. Stays(from, h, With(h, s, [h.sock[s] EXCEPT !.repeats = n]), W, a, s)
  BY RepeatsStays
<1> QED BY <1>1, <1>2, <1>3, <1>4, <1>5 DEF PrepareConnect, Stays

LEMMA SendPacketReady ==
  ASSUME NEW from, NEW h, NEW W, NEW a \in BOOLEAN, NEW s \in Sockets \ {Listener}, Ready(from, h, W, a, s), NEW buffer, NEW idle, NEW known
  PROVE  Ready(from, TCPSendPacket(h, s, buffer, idle, known), W, a, s)
<1>1. CASE h.sock[s].state # "CONNECT_SYN"
  BY <1>1, PrepareSendReady DEF TCPSendPacket
<1>2. CASE h.sock[s].state = "CONNECT_SYN" /\ h.sock[s].repeats >= SynCount
  <2>1. PICK e \in AtLeastEstablished : e = "CLOSE_WAIT"
    BY DEF AtLeastEstablished
  <2>2. Ready(from, StateChange(h, s, e), W, a, s)
    BY ChangeReady
  <2> QED BY <1>2, <2>1, <2>2 DEF TCPSendPacket
<1>3. CASE h.sock[s].state = "CONNECT_SYN" /\ ~(h.sock[s].repeats >= SynCount)
  <2>1. PICK f : f = IF Has(h, s, "ConnPrepared") THEN h ELSE PrepareConnect(h, s, known)
    OBVIOUS
  <2>2. Ready(from, f, W, a, s)
    BY <2>1, PrepareConnectStays DEF Stays
  <2>3. PICK n \in Nat : n = f.sock[s].repeats + 1
    <3>1. f.sock[s] \in TcpSocket
      BY <2>2, ReadyIs
    <3> QED BY <3>1 DEF TcpSocket
  <2>4. Ready(from, [f EXCEPT !.sock[s].repeats = n], W, a, s)
    <3>1. \A b \in BOOLEAN, t \in Sockets \ {Listener} :
             Ready(from, f, W, b, t) => Stays(from, f, [f EXCEPT !.sock[t].repeats = n], W, b, t)
      BY RepeatsStays
    <3> QED BY <2>2, <3>1 DEF Stays
  <2>5. TCPSendPacket(h, s, buffer, idle, known) = IF Has(f, s, "ConnPrepared") THEN [f EXCEPT !.sock[s].repeats = n] ELSE f
    BY <1>3, <2>1, <2>3 DEF TCPSendPacket
  <2> QED BY <2>2, <2>4, <2>5
<1> QED BY <1>1, <1>2, <1>3

LEMMA ReadyClosable ==
  ASSUME NEW from, NEW h, NEW W, NEW a \in BOOLEAN, NEW s \in Sockets \ {Listener}, Ready(from, h, W, a, s), "PassQueued" \in h.sock[s].bits
  PROVE  Closable(h, W, s)
  BY DEF Ready, HostOK, OwnedOK, SocketOK, Closable

LEMMA StatusAgeCheckKeeps ==
  ASSUME NEW from, NEW h, NEW W, NEW a \in BOOLEAN, NEW s \in Sockets \ {Listener}, Ready(from, h, W, a, s)
  PROVE  HostOK(StatusAgeCheck(h, s), W, a) /\ Since(from, StatusAgeCheck(h, s), s)
<1>1. PICK e \in AtLeastEstablished : e = "CLOSE_WAIT"
  BY DEF AtLeastEstablished
<1>2. PICK f : f = StateChange(h, s, e)
  OBVIOUS
<1>3. Ready(from, f, W, a, s)
  BY <1>2, ChangeReady
<1>4. ASSUME Has(f, s, "PassQueued")
      PROVE  HostOK(Closed(f, s), W, a) /\ Since(from, Closed(f, s), s)
  <2>1. Closable(f, W, s)
    BY <1>3, <1>4, ReadyClosable DEF Has
  <2>2. HostOK(f, W, a)
    BY <1>3, ReadyIs
  <2>3. HostOK(Closed(f, s), W, a)
    BY <2>1, <2>2, ClosedKeeps
  <2>4. PICK g : g = Closed(f, s)
    OBVIOUS
  <2>5. g.sock[s] = NotASocket /\ \A u \in Sockets \ {s, Listener} : g.sock[u] = f.sock[u]
    BY <2>1, <2>2, <2>4, ClosedOthers
  <2>6. Tells(f.sock[s], g.sock[s])
    BY <1>4, <2>5, NotASocketIs DEF Tells, Told, Has, Pending
  <2>7. Heard(f.sock[Listener], g.sock[Listener])
    BY <2>1, <2>2, <2>4, ClosedHeard
  <2>8. Since(from, g, s)
    BY <1>3, <2>5, <2>6, <2>7, SinceOn DEF Ready
  <2> QED BY <2>3, <2>4, <2>8
<1>5. HostOK(f, W, a) /\ HostOK(h, W, a) /\ Since(from, f, s) /\ Since(from, h, s)
  BY <1>3 DEF Ready
<1> QED BY <1>1, <1>2, <1>4, <1>5 DEF StatusAgeCheck

LEMMA SocketCheckKeeps ==
  ASSUME NEW from, NEW h, NEW W, NEW a \in BOOLEAN, NEW s \in Sockets \ {Listener}, Ready(from, h, W, a, s),
         NEW quiet, NEW buffer, NEW idle, NEW known
  PROVE  LET g == SocketCheck(h, s, quiet, buffer, idle, known)
         IN  HostOK(g, W, a) /\ Since(from, g, s) /\ (g.sock[s].timer \/ g.sock[s].state = "FREE")
<1>1. PICK c \in BOOLEAN : c
  OBVIOUS
<1>2. PICK f : f = IF h.sock[s].state \in AtLeastEstablished \cup {"CONNECT_SYN"} THEN TCPSendPacket(h, s, buffer, idle, known) ELSE h
  OBVIOUS
<1>3. Ready(from, f, W, a, s)
  BY <1>2, SendPacketReady
<1>4. ASSUME NEW g, Ready(from, g, W, a, s)
      PROVE  Ready(from, NextTimeout(g, s), W, a, s) /\ NextTimeout(g, s).sock[s].timer
  <2>1. \A b \in BOOLEAN, u \in Sockets \ {Listener} : Ready(from, g, W, b, u) =>
           Stays(from, g, [g EXCEPT !.sock[u].timer = c], W, b, u) /\ [g EXCEPT !.sock[u].timer = c].sock[u].timer
    BY <1>1, NextTimeoutStays
  <2>2. NextTimeout(g, s) = [g EXCEPT !.sock[s].timer = c]
    BY <1>1 DEF NextTimeout
  <2>3. Stays(from, g, [g EXCEPT !.sock[s].timer = c], W, a, s) /\ [g EXCEPT !.sock[s].timer = c].sock[s].timer
    BY <1>4, <2>1
  <2> QED BY <2>2, <2>3 DEF Stays
<1>5. PICK e : e = NextTimeout(f, s)
  OBVIOUS
<1>6. Ready(from, e, W, a, s) /\ e.sock[s].timer
  BY <1>3, <1>4, <1>5
<1>7. PICK g : g = StatusAgeCheck(e, s)
  OBVIOUS
<1>8. HostOK(g, W, a) /\ Since(from, g, s)
  BY <1>6, <1>7, StatusAgeCheckKeeps
<1>9. g.sock[s].timer \/ g.sock[s].state = "FREE"
  <2>1. Ready(e, e, W, a, s)
    BY <1>6, SinceNow DEF Ready
  <2>2. Since(e, g, s)
    BY <1>7, <2>1, StatusAgeCheckKeeps
  <2>3. e.sock[s].state # "FREE"
    BY <1>6 DEF Ready
  <2> QED BY <1>6, <2>2, <2>3 DEF Since, Tells
<1>10. HostOK(NextTimeout(h, s), W, a) /\ Since(from, NextTimeout(h, s), s) /\ NextTimeout(h, s).sock[s].timer
  BY <1>4 DEF Ready
<1> QED BY <1>2, <1>5, <1>7, <1>8, <1>9, <1>10 DEF SocketCheck

(* vSocketWakeUpUser                                                       *)
LEMMA WakeUpKeeps ==
  ASSUME NEW h, NEW W, NEW a \in BOOLEAN, HostOK(h, W, a), NEW s \in Sockets, h.sock[s].state # "FREE"
  PROVE  HostOK(WakeUpUser(h, s), W, a)
<1>1. PICK l : l = [h.sock[s] EXCEPT !.group = @ \cup h.sock[s].events, !.events = {}]
  OBVIOUS
<1>2. h.sock[s] \in TcpSocket /\ SocketOK(s, h.sock[s])
  BY DEF HostOK, HostRecord
<1>3. Tame(h.sock[s], l) /\ l.remote = h.sock[s].remote /\ l.timer = h.sock[s].timer
  BY <1>1, <1>2 DEF Tame, TcpSocket
<1>4. WakeUpUser(h, s) = With(h, s, l)
  BY <1>1 DEF WakeUpUser
<1>5. CASE s = Listener
  <2>1. Offers(h, a, a, h.sock[Listener], l)
    BY <1>2, <1>3, <1>5, TameOffers DEF SocketOK
  <2> QED BY <1>4, <1>5, <2>1, OffersKeeps
<1>6. CASE s # Listener
  <2>1. Moves(h, W, a, s, h.sock[s], l)
    BY <1>3, <1>6, TameMoves
  <2> QED BY <1>4, <1>6, <2>1, MovesKeeps
<1> QED BY <1>5, <1>6

(* Packets.                                                                *)
LEMMA FinAnsweredReady ==
  ASSUME NEW from, NEW h, NEW W, NEW a \in BOOLEAN, NEW s \in Sockets \ {Listener}, Ready(from, h, W, a, s), NEW p
  PROVE  Ready(from, FinAnswered(h, s, p), W, a, s)
<1> DEFINE acked == Has(h, s, "FinAcked") \/ (Has(h, s, "FinSent") /\ p.acksFin)
<1>1. PICK names : names = {"FinSent"} \cup (IF acked THEN {"FinAcked"} ELSE {})
  OBVIOUS
<1>2. OtherBits(names)
  BY <1>1 DEF TcpBits, OtherBits
<1>3. PICK f : f = SetBits(h, s, names)
  OBVIOUS
<1>4. Ready(from, f, W, a, s)
  BY <1>2, <1>3, SetBitsStays DEF Stays
<1>5. ASSUME NEW e \in AtLeastEstablished
      PROVE  Ready(from, StateChange(f, s, e), W, a, s)
  BY <1>4, ChangeReady
<1>6. Ready(from, StateChange(f, s, "LAST_ACK"), W, a, s) /\ Ready(from, StateChange(f, s, "CLOSE_WAIT"), W, a, s)
  BY <1>5 DEF AtLeastEstablished
<1> QED BY <1>1, <1>3, <1>4, <1>6 DEF FinAnswered

LEMMA SynReceivedReady ==
  ASSUME NEW from, NEW h, NEW W, NEW a \in BOOLEAN, NEW s \in Sockets \ {Listener}, Ready(from, h, W, a, s), NEW p
  PROVE  Ready(from, SynReceived(h, s, p), W, a, s)
<1>1. PICK e \in AtLeastEstablished : e = IF p.flags = Expected(h.sock[s].state) THEN "ESTABLISHED" ELSE "CLOSE_WAIT"
  BY DEF AtLeastEstablished
<1>2. Ready(from, StateChange(h, s, e), W, a, s)
  BY ChangeReady
<1> QED BY <1>1, <1>2 DEF SynReceived

LEMMA AckTakenReady ==
  ASSUME NEW from, NEW h, NEW W, NEW a \in BOOLEAN, NEW s \in Sockets \ {Listener}, Ready(from, h, W, a, s), NEW p
  PROVE  Stays(from, h, AckTaken(h, s, p), W, a, s)
<1>1. PICK l : l = [h.sock[s] EXCEPT !.unacked = FALSE, !.events = @ \cup {"SEND"}]
  OBVIOUS
<1>2. h.sock[s] \in TcpSocket /\ h.sock[s].state # "FREE"
  BY ReadyIs DEF Ready
<1>3. Tame(h.sock[s], l) /\ Adds(h.sock[s], l)
  BY <1>1, <1>2 DEF Tame, Adds, TcpSocket, TcpEvents
<1>4. Stays(from, h, With(h, s, l), W, a, s)
  BY <1>3, TameReady DEF Stays
<1> QED BY <1>1, <1>4 DEF AckTaken, Stays

LEMMA EstablishedHandledReady ==
  ASSUME NEW from, NEW h, NEW W, NEW a \in BOOLEAN, NEW s \in Sockets \ {Listener}, Ready(from, h, W, a, s), NEW p, NEW buffer, NEW idle
  PROVE  Ready(from, EstablishedHandled(h, s, p, buffer, idle), W, a, s)
<1>1. PICK f : f = AckTaken(h, s, p)
  OBVIOUS
<1>2. Ready(from, f, W, a, s)
  BY <1>1, AckTakenReady DEF Stays
<1>3. PICK names : names = {"FinAccepted"}
  OBVIOUS
<1>4. OtherBits(names)
  BY <1>3 DEF TcpBits, OtherBits
<1>5. Ready(from, SetBits(f, s, names), W, a, s)
  <2>1. PICK g : g = SetBits(f, s, names)
    OBVIOUS
  <2>2. Stays(from, f, g, W, a, s)
    BY <1>2, <1>4, <2>1, SetBitsStays
  <2> QED BY <2>1, <2>2 DEF Stays
<1>6. Ready(from, FinAnswered(SetBits(f, s, names), s, p), W, a, s)
  BY <1>5, FinAnsweredReady
<1>7. Ready(from, PrepareSend(f, s, buffer, idle), W, a, s)
  BY <1>2, PrepareSendReady
<1> QED BY <1>1, <1>3, <1>6, <1>7 DEF EstablishedHandled

LEMMA DataStoredStays ==
  ASSUME NEW from, NEW h, NEW W, NEW a \in BOOLEAN, NEW s \in Sockets \ {Listener}, Ready(from, h, W, a, s), NEW p
  PROVE  Stays(from, h, DataStored(h, s, p), W, a, s)
<1>1. PICK l : l = [h.sock[s] EXCEPT !.received = TRUE, !.events = @ \cup {"RECEIVE"}]
  OBVIOUS
<1>2. h.sock[s] \in TcpSocket /\ h.sock[s].state # "FREE"
  BY ReadyIs DEF Ready
<1>3. Tame(h.sock[s], l) /\ Adds(h.sock[s], l)
  BY <1>1, <1>2 DEF Tame, Adds, TcpSocket, TcpEvents
<1>4. Stays(from, h, With(h, s, l), W, a, s)
  BY <1>3, TameReady DEF Stays
<1> QED BY <1>1, <1>4 DEF DataStored, Stays

LEMMA FinNotedStays ==
  ASSUME NEW from, NEW h, NEW W, NEW a \in BOOLEAN, NEW s \in Sockets \ {Listener}, Ready(from, h, W, a, s), NEW p
  PROVE  Stays(from, h, FinNoted(h, s, p), W, a, s)
<1>1. PICK names : names = {"FinRecv"} \cup (IF Has(h, s, "FinSent") THEN {} ELSE {"FinLast"})
  OBVIOUS
<1>2. OtherBits(names)
  BY <1>1 DEF TcpBits, OtherBits
<1>3. Stays(from, h, SetBits(h, s, names), W, a, s)
  <2>1. Stays(from, h, SetBits(h, s, names), W, a, s) /\ SetBits(h, s, names).sock[s].bits = h.sock[s].bits \cup names
    BY <1>2, SetBitsStays
  <2> QED BY <2>1
<1> QED BY <1>1, <1>3 DEF FinNoted, Stays

LEMMA StateHandledReady ==
  ASSUME NEW from, NEW h, NEW W, NEW a \in BOOLEAN, NEW s \in Sockets \ {Listener}, Ready(from, h, W, a, s), NEW p, NEW buffer, NEW idle
  PROVE  Ready(from, StateHandled(h, s, p, buffer, idle), W, a, s)
<1>1. PICK d : d = DataStored(h, s, p)
  OBVIOUS
<1>2. Ready(from, d, W, a, s)
  BY <1>1, DataStoredStays DEF Stays
<1>3. ASSUME NEW f, Ready(from, f, W, a, s), NEW e \in {"SYN_FIRST", "SYN_RECEIVED"}, f.sock[s].state \in {"SYN_FIRST", "SYN_RECEIVED"}
      PROVE  Ready(from, StateChange(f, s, e), W, a, s)
  <2>1. f.sock[s].state \notin AtLeastEstablished /\ Begins(f.sock[s])
    BY <1>3 DEF AtLeastEstablished, Settled, Begins
  <2> QED BY <1>3, <2>1, ChangeReady
<1>4. PICK g : g = IF d.sock[s].state = "SYN_RECEIVED" /\ p.flags = {"SYN"} THEN StateChange(d, s, "SYN_FIRST") ELSE d
  OBVIOUS
<1>5. Ready(from, g, W, a, s)
  BY <1>2, <1>3, <1>4
<1>6. PICK n : n = FinNoted(g, s, p)
  OBVIOUS
<1>7. Ready(from, n, W, a, s)
  BY <1>5, <1>6, FinNotedStays DEF Stays
<1>8. CASE n.sock[s].state = "SYN_FIRST"
  <2>1. Ready(from, StateChange(n, s, "SYN_RECEIVED"), W, a, s)
    BY <1>3, <1>7, <1>8
  <2> QED BY <1>1, <1>4, <1>6, <1>8, <2>1 DEF StateHandled
<1>9. CASE n.sock[s].state \in {"CONNECT_SYN", "SYN_RECEIVED"}
  <2>1. Ready(from, SynReceived(n, s, p), W, a, s)
    BY <1>7, SynReceivedReady
  <2> QED BY <1>1, <1>4, <1>6, <1>9, <2>1 DEF StateHandled
<1>10. CASE n.sock[s].state = "ESTABLISHED"
  <2>1. Ready(from, EstablishedHandled(n, s, p, buffer, idle), W, a, s)
    BY <1>7, EstablishedHandledReady
  <2> QED BY <1>1, <1>4, <1>6, <1>10, <2>1 DEF StateHandled
<1>11. CASE n.sock[s].state \in {"LAST_ACK", "FIN_WAIT_1"}
  <2>1. Ready(from, FinAnswered(n, s, p), W, a, s)
    BY <1>7, FinAnsweredReady
  <2> QED BY <1>1, <1>4, <1>6, <1>11, <2>1 DEF StateHandled
<1>12. CASE n.sock[s].state \notin {"SYN_FIRST", "CONNECT_SYN", "SYN_RECEIVED", "ESTABLISHED", "LAST_ACK", "FIN_WAIT_1"}
  BY <1>1, <1>4, <1>6, <1>7, <1>12 DEF StateHandled
<1> QED BY <1>8, <1>9, <1>10, <1>11, <1>12

LEMMA TouchedStays ==
  ASSUME NEW from, NEW h, NEW W, NEW a \in BOOLEAN, NEW s \in Sockets \ {Listener}, Ready(from, h, W, a, s)
  PROVE  Stays(from, h, [h EXCEPT !.sock[s] = Touched(@)], W, a, s)
<1>1. PICK l : l = Touched(h.sock[s])
  OBVIOUS
<1>2. h.sock[s] \in TcpSocket /\ h.sock[s].state # "FREE"
  BY ReadyIs DEF Ready
<1>3. Tame(h.sock[s], l) /\ Adds(h.sock[s], l)
  BY <1>1, <1>2 DEF Tame, Adds, TcpSocket, Touched
<1>4. [h EXCEPT !.sock[s] = Touched(@)] = With(h, s, l)
  BY <1>1 DEF With
<1>5. Stays(from, h, With(h, s, l), W, a, s)
  BY <1>3, TameReady DEF Stays
<1> QED BY <1>4, <1>5

LEMMA AcceptedReady ==
  ASSUME NEW from, NEW h, NEW W, NEW a \in BOOLEAN, NEW s \in Sockets \ {Listener}, Ready(from, h, W, a, s), NEW p, NEW buffer, NEW idle
  PROVE  Ready(from, Accepted(h, s, p, buffer, idle), W, a, s) /\ Accepted(h, s, p, buffer, idle).sock[s].timer
<1>1. PICK c \in BOOLEAN : c
  OBVIOUS
<1>2. PICK f : f = [h EXCEPT !.sock[s] = Touched(@)]
  OBVIOUS
<1>3. Ready(from, f, W, a, s)
  BY <1>2, TouchedStays DEF Stays
<1>4. PICK g : g = StateHandled(f, s, p, buffer, idle)
  OBVIOUS
<1>5. Ready(from, g, W, a, s)
  BY <1>3, <1>4, StateHandledReady
<1>6. Ready(from, [g EXCEPT !.sock[s].timer = c], W, a, s) /\ [g EXCEPT !.sock[s].timer = c].sock[s].timer
  <2>1. \A b \in BOOLEAN, t \in Sockets \ {Listener} : Ready(from, g, W, b, t) =>
           Stays(from, g, [g EXCEPT !.sock[t].timer = c], W, b, t) /\ [g EXCEPT !.sock[t].timer = c].sock[t].timer
    BY <1>1, NextTimeoutStays
  <2> QED BY <1>5, <2>1 DEF Stays
<1>7. Accepted(h, s, p, buffer, idle) = [g EXCEPT !.sock[s].timer = c]
  BY <1>1, <1>2, <1>4 DEF Accepted, NextTimeout
<1> QED BY <1>6, <1>7

(* A packet for a socket that is active.                                   *)
LEMMA ReceivedKeeps ==
  ASSUME NEW from, NEW h, NEW W, NEW a \in BOOLEAN, NEW s \in Sockets \ {Listener}, Ready(from, h, W, a, s), Active(h.sock[s].state),
         NEW p, NEW buffer, NEW idle
  PROVE  HostOK(Received(h, s, p, buffer, idle), W, a) /\ Since(from, Received(h, s, p, buffer, idle), s)
<1>1. PICK f : f = [h EXCEPT !.sock[s].repeats = 0]
  OBVIOUS
<1>2. Ready(from, f, W, a, s) /\ f.sock[s].state = h.sock[s].state
  <2>1. PICK n \in Nat : n = 0
    OBVIOUS
  <2>2. Stays(from, h, [h EXCEPT !.sock[s].repeats = n], W, a, s)
    BY RepeatsStays
  <2> QED BY <1>1, <2>1, <2>2 DEF Stays
<1>3. HostOK(Reset(f, s, p), W, a) /\ Since(from, Reset(f, s, p), s)
  <2>1. PICK e : e = "CLOSED"
    OBVIOUS
  <2>2. f.sock[s].state \notin AtLeastEstablished \/ NowConnected(f.sock[s].state)
    BY <1>2 DEF Active, NowConnected
  <2>3. MayEnter(f.sock[s], e)
    BY <1>2, <2>1, <2>2, MayEnterFrom
  <2>4. Changed(from, f, StateChange(f, s, e), W, a, s, e)
    BY <1>2, <2>3, StateChanges
  <2> QED BY <1>2, <2>1, <2>4 DEF Reset, Changed, Ready
<1>4. HostOK(Accepted(f, s, p, buffer, idle), W, a) /\ Since(from, Accepted(f, s, p, buffer, idle), s)
  BY <1>2, AcceptedReady DEF Ready
<1>5. HostOK(f, W, a) /\ Since(from, f, s)
  BY <1>2 DEF Ready
<1> QED BY <1>1, <1>3, <1>4, <1>5 DEF Received

(***************************************************************************)
(* The listener and its clients.                                           *)
(***************************************************************************)
LEMMA HandleListenReady ==
  ASSUME NEW h, NEW W, NEW a \in BOOLEAN, HostOK(h, W, a), NEW s \in Children, h.sock[s].state = "FREE",
         h.sock[Listener].state = "LISTEN", h.sock[Listener].children < Backlog, NEW remote \in Remotes
  PROVE  Ready(h, HandleListen(h, s, remote), W, a, s)
<1> DEFINE m == h.sock[Listener]
           x == [m EXCEPT !.children = @ + 1]
           n == [[NewSocket EXCEPT !.bits = {"PassQueued"}, !.peer = Listener] EXCEPT !.remote = remote]
<1>1. /\ h \in HostRecord /\ m \in TcpSocket /\ Listener \in Sockets /\ CountOK(h.sock) /\ s \in Sockets /\ h.queue \in Seq(SocketRequests)
      /\ SocketOK(Listener, m) /\ OfferOK(h.queue, h.sock, a) /\ OwnedOK(h.sock, W) /\ ClosingsOK(h.queue, h.sock, W)
      /\ s # Listener /\ h.sock \in [Sockets -> TcpSocket]
  BY SocketsAre DEF HostOK, HostRecord
<1>2. n \in TcpSocket /\ n.state = "CLOSED" /\ n.bits = {"PassQueued"} /\ n.peer = Listener
  BY <1>1 DEF NewSocket, TcpSocket, TcpStates, TcpBits
<1>3. /\ x \in TcpSocket
      /\ x.state = m.state /\ x.peer = m.peer /\ x.bits = m.bits /\ x.remote = m.remote /\ x.timer = m.timer
      /\ x.children = m.children + 1
  <2>1. PICK c \in Nat : c = m.children + 1
    BY <1>1 DEF TcpSocket
  <2>2. x = [m EXCEPT !.children = c]
    BY <2>1
  <2> HIDE DEF x
  <2> QED BY <1>1, <2>1, <2>2 DEF TcpSocket
<1>4. PICK g : g = With(With(h, Listener, x), s, n)
  OBVIOUS
<1> DEFINE k == [NewSocket EXCEPT !.bits = {"PassQueued"}, !.peer = Listener]
           copied == SocketCopied(h, s)
<1>5. HandleListen(h, s, remote) = StateChange(g, s, "SYN_FIRST")
  <2>1. copied.sock = [h.sock EXCEPT ![s] = k, ![Listener] = x] /\ copied.queue = h.queue /\ copied = [h EXCEPT !.sock = copied.sock]
    BY <1>1 DEF SocketCopied, HostRecord
  <2>2. [copied.sock EXCEPT ![s].remote = remote] = [[h.sock EXCEPT ![Listener] = x] EXCEPT ![s] = n]
    <3> HIDE DEF x
    <3>1. [h.sock EXCEPT ![s] = k, ![Listener] = x][s] = k
      BY <1>1
    <3>2. [copied.sock EXCEPT ![s].remote = remote] = [copied.sock EXCEPT ![s] = n]
      BY <2>1, <3>1
    <3> HIDE DEF k, n, copied
    <3> QED BY <1>1, <2>1, <3>2
  <2>3. [copied EXCEPT !.sock[s].remote = remote] = g
    <3>1. PICK f : f = [[h.sock EXCEPT ![Listener] = x] EXCEPT ![s] = n]
      OBVIOUS
    <3>2. [copied EXCEPT !.sock[s].remote = remote] = [copied EXCEPT !.sock = f]
      BY <2>2, <3>1
    <3>3. \A d, e : [[h EXCEPT !.sock = d] EXCEPT !.sock = e] = [h EXCEPT !.sock = e] /\ [h EXCEPT !.sock = d].sock = d
      BY <1>1 DEF HostRecord
    <3>4. g = [h EXCEPT !.sock = f]
      <4>1. PICK d : d = [h.sock EXCEPT ![Listener] = x]
        OBVIOUS
      <4>2. With(h, Listener, x) = [h EXCEPT !.sock = d]
        BY <4>1 DEF With
      <4> HIDE DEF x, n
      <4>3. With([h EXCEPT !.sock = d], s, n) = [[h EXCEPT !.sock = d] EXCEPT !.sock = [d EXCEPT ![s] = n]]
        BY <3>3 DEF With
      <4> QED BY <1>4, <3>1, <3>3, <4>1, <4>2, <4>3
    <3> HIDE DEF copied
    <3> QED BY <2>1, <3>2, <3>3, <3>4
  <2> QED BY <2>3 DEF HandleListen
<1> HIDE DEF x, n, k, copied
<1>6. /\ g \in HostRecord /\ g.queue = h.queue /\ g.sock[s] = n /\ g.sock[Listener] = x
      /\ \A u \in Sockets \ {s, Listener} : g.sock[u] = h.sock[u]
  <2>1. PICK f : f = With(h, Listener, x)
    OBVIOUS
  <2>2. f \in HostRecord /\ f.queue = h.queue /\ f.sock[Listener] = x /\ \A u \in Sockets \ {Listener} : f.sock[u] = h.sock[u]
    <3>1. /\ With(h, Listener, x) \in HostRecord /\ With(h, Listener, x).queue = h.queue
          /\ With(h, Listener, x).sock[Listener] = x
          /\ \A u \in Sockets \ {Listener} : With(h, Listener, x).sock[u] = h.sock[u]
      BY ONLY <1>1, <1>3, WithParts
    <3> QED BY ONLY <2>1, <3>1
  <2>3. /\ With(f, s, n) \in HostRecord /\ With(f, s, n).queue = f.queue /\ With(f, s, n).sock[s] = n
        /\ \A u \in Sockets \ {s} : With(f, s, n).sock[u] = f.sock[u]
    BY ONLY <1>1, <1>2, <2>2, WithParts
  <2> QED BY <1>1, <1>4, <2>1, <2>2, <2>3
<1>7. \A u \in Sockets : SocketOK(u, g.sock[u])
  <2>1. SocketOK(Listener, x)
    BY <1>1, <1>3 DEF SocketOK
  <2>2. SocketOK(s, n)
    BY <1>1, <1>2 DEF SocketOK
  <2> QED BY <1>1, <1>6, <2>1, <2>2 DEF HostOK
<1>8. NotClosing(h.queue, s)
  BY <1>1, QueuedNotClosing
<1>9. s \notin W
  BY <1>1 DEF OwnedOK
<1>10. ClosingsOK(g.queue, g.sock, W)
  <2>1. ASSUME NEW i \in 1 .. Len(h.queue), h.queue[i][1] = "close"
        PROVE  ClosingOK(g.sock[h.queue[i][2]])
    <3>1. h.queue[i] \in SocketRequests
      BY <1>1
    <3>2. h.queue[i][2] \in Sockets /\ h.queue[i] = <<"close", h.queue[i][2]>>
      BY <2>1, <3>1 DEF SocketRequests
    <3>3. h.queue[i][2] # Listener /\ h.queue[i][2] # s /\ ClosingOK(h.sock[h.queue[i][2]])
      BY <1>1, <1>8, <2>1, <3>2 DEF ClosingsOK, NotClosing
    <3> QED BY <1>6, <3>2, <3>3
  <2> QED BY <1>1, <1>6, <2>1 DEF ClosingsOK
<1>11. OwnedOK(g.sock, W)
  BY <1>1, <1>6, <1>9 DEF OwnedOK
<1>12. CountOK(g.sock)
  <2>1. Living(g.sock) = Living(h.sock) \cup {s} /\ s \notin Living(h.sock)
    BY <1>1, <1>2, <1>6, SocketsAre DEF Living
  <2>2. IsFiniteSet(Living(h.sock))
    <3>1. Living(h.sock) \subseteq Children
      BY DEF Living
    <3> QED BY <3>1, SocketsAre, FS_Subset
  <2>3. Cardinality(Living(g.sock)) = Cardinality(Living(h.sock)) + 1 /\ Cardinality(Living(h.sock)) \in Nat
    BY <2>1, <2>2, FS_AddElement, FS_CardinalityType
  <2> QED BY <1>1, <1>3, <1>6, <2>3, ConnectionAssumption DEF CountOK
<1>13. OfferOK(g.queue, g.sock, a)
  <2>1. \A u \in Sockets : "PassAccept" \in g.sock[u].bits <=> "PassAccept" \in h.sock[u].bits
    <3>1. "PassAccept" \notin h.sock[s].bits
      BY <1>1 DEF HostOK, SocketOK, AtLeastEstablished
    <3> QED BY <1>1, <1>2, <1>3, <1>6, <3>1
  <2> QED BY <1>1, <1>3, <1>6, <2>1 DEF OfferOK
<1>14. Ready(h, g, W, a, s)
  <2>1. Heard(m, x)
    BY <1>1 DEF Heard, Word, x, TcpSocket
  <2>2. Tells(h.sock[s], n)
    BY DEF Tells, Told
  <2>3. Since(h, g, s)
    BY <1>6, <2>1, <2>2 DEF Since
  <2> QED BY <1>2, <1>6, <1>7, <1>8, <1>10, <1>11, <1>12, <1>13, <2>3 DEF HostOK, Ready
<1>15. PICK e : e = "SYN_FIRST"
  OBVIOUS
<1>16. g.sock[s].state \notin AtLeastEstablished /\ Begins(g.sock[s])
  BY <1>2, <1>6 DEF AtLeastEstablished, Begins, Pending
<1>17. Ready(h, StateChange(g, s, e), W, a, s)
  BY <1>1, <1>14, <1>15, <1>16, ChangeReady
<1> QED BY <1>5, <1>15, <1>17

LEMMA ReadyWhenActive ==
  ASSUME NEW h, NEW W, NEW a \in BOOLEAN, HostOK(h, W, a), NEW s \in Sockets \ {Listener},
         h.sock[s].state # "FREE", h.sock[s].state # "CLOSED"
  PROVE  Ready(h, h, W, a, s)
  BY QueuedNotClosing, SinceNow DEF Ready, HostOK, SocketOK

LEMMA TameHost ==
  ASSUME NEW h, NEW W, NEW a \in BOOLEAN, HostOK(h, W, a), NEW s \in Sockets, NEW l, Tame(h.sock[s], l),
         s = Listener => l.remote = h.sock[s].remote /\ l.timer = h.sock[s].timer
  PROVE  /\ HostOK(With(h, s, l), W, a)
         /\ With(h, s, l).queue = h.queue /\ With(h, s, l).sock[s] = l
         /\ \A u \in Sockets \ {s} : With(h, s, l).sock[u] = h.sock[u]
<1>1. SocketOK(s, h.sock[s])
  BY DEF HostOK
<1>2. CASE s = Listener
  <2>1. Offers(h, a, a, h.sock[Listener], l)
    BY <1>1, <1>2, TameOffers DEF SocketOK
  <2> QED BY <1>2, <2>1, OffersKeeps
<1>3. CASE s # Listener
  <2>1. Moves(h, W, a, s, h.sock[s], l)
    BY <1>3, TameMoves
  <2> QED BY <1>3, <2>1, MovesKeeps
<1> QED BY <1>2, <1>3

(* The first event is taken from the queue.                                *)
Taken(h) == [h EXCEPT !.queue = Tail(@)]

LEMMA TakenKeeps ==
  ASSUME NEW h, NEW W, NEW a \in BOOLEAN, HostOK(h, W, a), h.queue # <<>>, NEW b \in BOOLEAN, a => b, b \/ Head(h.queue)[1] = "close"
  PROVE  HostOK(Taken(h), W, b) /\ Taken(h).sock = h.sock /\ Taken(h).queue = Tail(h.queue)
<1>1. h \in HostRecord /\ h.queue \in Seq(SocketRequests)
  BY DEF HostOK, HostRecord
<1>2. PICK q \in Seq(SocketRequests) : q = Tail(h.queue)
  <2>1. \A q \in Seq(SocketRequests) : q # <<>> => Tail(q) \in Seq(SocketRequests)
    OBVIOUS
  <2>2. Tail(h.queue) \in Seq(SocketRequests)
    BY <1>1, <2>1
  <2> QED BY <2>2
<1>3. Len(h.queue) \in Nat /\ Len(h.queue) > 0 /\ Len(q) = Len(h.queue) - 1 /\ \A i \in 1 .. Len(q) : q[i] = h.queue[i + 1]
  BY <1>1, <1>2
<1>4. PICK g : g = Taken(h)
  OBVIOUS
<1>5. g \in HostRecord /\ g.sock = h.sock /\ g.queue = q
  <2>1. g = [h EXCEPT !.queue = q]
    BY <1>2, <1>4 DEF Taken
  <2> QED BY <1>1, <2>1 DEF HostRecord
<1>6. ClosingsOK(q, h.sock, W)
  <2>1. ClosingsOK(h.queue, h.sock, W)
    BY DEF HostOK
  <2>2. ASSUME NEW i \in 1 .. Len(q), q[i][1] = "close"
        PROVE  q[i][2] # Listener /\ q[i][2] \notin W /\ ClosingOK(h.sock[q[i][2]])
    <3>1. i + 1 \in 1 .. Len(h.queue) /\ h.queue[i + 1] = q[i]
      BY <1>3
    <3>2. h.queue[i + 1][1] = "close"
      BY <2>2, <3>1
    <3>3. h.queue[i + 1][2] # Listener /\ h.queue[i + 1][2] \notin W /\ ClosingOK(h.sock[h.queue[i + 1][2]])
      BY <2>1, <3>1, <3>2 DEF ClosingsOK
    <3> QED BY <3>1, <3>3
  <2>3. ASSUME NEW i \in 1 .. Len(q), NEW j \in 1 .. Len(q), q[i][1] = "close", q[i] = q[j]
        PROVE  i = j
    <3>1. \A n \in 1 .. Len(q) : n + 1 \in 1 .. Len(h.queue) /\ h.queue[n + 1] = q[n]
      BY <1>3
    <3>2. h.queue[i + 1][1] = "close" /\ h.queue[i + 1] = h.queue[j + 1]
      BY <2>3, <3>1
    <3>3. i + 1 = j + 1
      BY <2>1, <3>1, <3>2 DEF ClosingsOK
    <3> QED BY <3>3
  <2> QED BY <2>2, <2>3 DEF ClosingsOK
<1>7. OfferOK(q, h.sock, b)
  <2>1. OfferOK(h.queue, h.sock, a)
    BY DEF HostOK
  <2>2. ASSUME NEW i \in 1 .. Len(h.queue), h.queue[i] = <<"accept", Listener>>, ~b
        PROVE  \E j \in 1 .. Len(q) : q[j] = <<"accept", Listener>>
    <3>1. i # 1
      <4>1. h.queue[i][1] # "close"
        BY <2>2
      <4>2. Head(h.queue) = h.queue[1]
        BY <1>1, <1>3
      <4> QED BY <2>2, <4>1, <4>2
    <3>2. i - 1 \in 1 .. Len(q) /\ q[i - 1] = h.queue[i]
      BY <1>3, <3>1
    <3> QED BY <2>2, <3>2
  <2> QED BY <2>1, <2>2 DEF OfferOK
<1> QED BY <1>2, <1>4, <1>5, <1>6, <1>7 DEF HostOK

(* eSocketCloseEvent                                                       *)
LEMMA ClosingHead ==
  ASSUME NEW h, NEW W, NEW a \in BOOLEAN, HostOK(h, W, a), h.queue # <<>>, Head(h.queue)[1] = "close"
  PROVE  \E s \in Sockets \ {Listener} : s = Head(h.queue)[2] /\ Closable(Taken(h), W, s)
<1>1. PICK g : g = Taken(h)
  OBVIOUS
<1>2. HostOK(g, W, a) /\ g.sock = h.sock /\ g.queue = Tail(h.queue)
  BY <1>1, TakenKeeps
<1>3. h.queue \in Seq(SocketRequests) /\ ClosingsOK(h.queue, h.sock, W)
  BY DEF HostOK, HostRecord
<1>4. 1 \in 1 .. Len(h.queue) /\ Head(h.queue) = h.queue[1] /\ h.queue[1] \in SocketRequests /\ Len(h.queue) \in Nat
      /\ Len(Tail(h.queue)) = Len(h.queue) - 1 /\ \A i \in 1 .. Len(Tail(h.queue)) : Tail(h.queue)[i] = h.queue[i + 1]
  BY <1>3
<1>5. PICK s \in Sockets : h.queue[1] = <<"close", s>>
  BY <1>4 DEF SocketRequests
<1>6. s # Listener /\ s \notin W /\ ClosingOK(h.sock[s])
  BY <1>3, <1>4, <1>5 DEF ClosingsOK
<1>7. NotClosing(g.queue, s)
  <2> SUFFICES ASSUME NEW i \in 1 .. Len(Tail(h.queue)), Tail(h.queue)[i] = <<"close", s>> PROVE FALSE
    BY <1>2 DEF NotClosing
  <2>1. i + 1 \in 1 .. Len(h.queue) /\ h.queue[i + 1] = <<"close", s>>
    BY <1>4
  <2>2. 1 = i + 1
    BY <1>3, <1>4, <1>5, <2>1 DEF ClosingsOK
  <2> QED BY <2>2
<1>8. Closable(g, W, s)
  BY <1>2, <1>6, <1>7 DEF Closable, ClosingOK
<1> QED BY <1>1, <1>4, <1>5, <1>6, <1>8

LEMMA HandleCloseKeeps ==
  ASSUME NEW h, NEW W, NEW a \in BOOLEAN, HostOK(h, W, a), h.queue # <<>>, Head(h.queue)[1] = "close"
  PROVE  HostOK(Closed(Taken(h), Head(h.queue)[2]), W, a)
<1>1. PICK g : g = Taken(h)
  OBVIOUS
<1>2. HostOK(g, W, a)
  BY <1>1, TakenKeeps
<1>3. PICK s \in Sockets \ {Listener} : s = Head(h.queue)[2] /\ Closable(g, W, s)
  BY <1>1, ClosingHead
<1> QED BY <1>1, <1>2, <1>3, ClosedKeeps

(* eTCPAcceptEvent                                                         *)
LEMMA CheckNewClientKeeps ==
  ASSUME NEW h, NEW W, NEW a \in BOOLEAN, HostOK(h, W, a), h.queue # <<>>
  PROVE  /\ \A s \in Sockets : Port(s) = Listener /\ "PassAccept" \in h.sock[s].bits =>
              HostOK(WakeUpUser(With(Taken(h), Listener, [h.sock[Listener] EXCEPT !.peer = s, !.events = @ \cup {"ACCEPT"}]), Listener), W, a)
         /\ {s \in Sockets : Port(s) = Listener /\ "PassAccept" \in h.sock[s].bits} = {} => HostOK(Taken(h), W, a)
<1>1. PICK g : g = Taken(h)
  OBVIOUS
<1>2. PICK b \in BOOLEAN : b
  OBVIOUS
<1>3. HostOK(g, W, b) /\ g.sock = h.sock
  BY <1>1, <1>2, TakenKeeps
<1>4. /\ h.sock[Listener] \in TcpSocket /\ Listener \in Sockets /\ SocketOK(Listener, h.sock[Listener])
      /\ CountOK(h.sock)
  BY SocketsAre DEF HostOK, HostRecord
<1>5. ASSUME NEW s \in Sockets, "PassAccept" \in h.sock[s].bits
      PROVE  HostOK(WakeUpUser(With(g, Listener, [h.sock[Listener] EXCEPT !.peer = s, !.events = @ \cup {"ACCEPT"}]), Listener), W, a)
  <2>1. PICK l : l = [h.sock[Listener] EXCEPT !.peer = s, !.events = @ \cup {"ACCEPT"}]
    OBVIOUS
  <2>2. /\ l \in TcpSocket /\ l.peer = s /\ l.state = h.sock[Listener].state /\ l.children = h.sock[Listener].children
        /\ l.bits = h.sock[Listener].bits /\ l.remote = h.sock[Listener].remote /\ l.timer = h.sock[Listener].timer
    BY <1>4, <2>1 DEF TcpSocket, TcpEvents
  <2>3. SocketOK(Listener, l) /\ l.state # "FREE"
    BY <1>4, <2>2, SocketsAre DEF SocketOK
  <2>4. Offers(g, b, a, g.sock[Listener], l)
    BY <1>3, <1>5, <2>2, <2>3, SocketsAre DEF Offers
  <2>5. PICK f : f = With(g, Listener, l)
    OBVIOUS
  <2>6. HostOK(f, W, a) /\ f.sock[Listener] = l
    BY <1>3, <2>4, <2>5, OffersKeeps
  <2>7. HostOK(WakeUpUser(f, Listener), W, a)
    BY <1>4, <2>3, <2>6, WakeUpKeeps
  <2> QED BY <2>1, <2>5, <2>7
<1>6. ASSUME {s \in Sockets : Port(s) = Listener /\ "PassAccept" \in h.sock[s].bits} = {}
      PROVE  HostOK(g, W, a)
  <2>1. \A s \in Sockets : "PassAccept" \notin g.sock[s].bits
    <3>1. "PassAccept" \notin h.sock[Client].bits
      BY SocketsAre DEF HostOK, SocketOK
    <3> QED BY <1>3, <1>6, <3>1, SocketsAre
  <2> QED BY <1>3, <2>1 DEF HostOK, OfferOK
<1> QED BY <1>1, <1>5, <1>6

(* More, and fewer, that belong to a user.                                 *)
LEMMA OwnedChanges ==
  ASSUME NEW h, NEW W, NEW a \in BOOLEAN, HostOK(h, W, a), NEW V, NEW s \in Sockets \ {Listener},
         V \subseteq W \cup {s}, h.sock[s].state # "FREE", "PassQueued" \notin h.sock[s].bits, "PassAccept" \notin h.sock[s].bits,
         s \in V => NotClosing(h.queue, s)
  PROVE  HostOK(h, V, a)
<1>1. ClosingsOK(h.queue, h.sock, V)
  <2>1. ASSUME NEW i \in 1 .. Len(h.queue), h.queue[i][1] = "close", h.queue[i][2] \in V
        PROVE  FALSE
    <3>1. h.queue[i][2] \notin W
      BY <2>1 DEF HostOK, ClosingsOK
    <3>2. h.queue[i][2] = s
      BY <2>1, <3>1
    <3>3. h.queue[i] \in SocketRequests
      BY DEF HostOK, HostRecord
    <3>4. h.queue[i] = <<"close", s>>
      BY <2>1, <3>2, <3>3 DEF SocketRequests
    <3> QED BY <2>1, <3>2, <3>4 DEF NotClosing
  <2> QED BY <2>1 DEF HostOK, ClosingsOK
<1>2. OwnedOK(h.sock, V)
  BY DEF HostOK, OwnedOK
<1> QED BY <1>1, <1>2 DEF HostOK

(* The question for another client.                                        *)
Asked(h) == [h EXCEPT !.queue = Append(@, <<"accept", Listener>>)]

LEMMA AskedKeeps ==
  ASSUME NEW h, NEW W, NEW a \in BOOLEAN, HostOK(h, W, a), NEW b \in BOOLEAN
  PROVE  HostOK(Asked(h), W, b)
<1>1. h.queue \in Seq(SocketRequests) /\ h \in HostRecord
  BY DEF HostOK, HostRecord
<1>0. <<"accept", Listener>> \in SocketRequests
  BY SocketsAre DEF SocketRequests
<1>2. PICK q \in Seq(SocketRequests) : q = Append(h.queue, <<"accept", Listener>>)
  <2>1. \A q \in Seq(SocketRequests), e \in SocketRequests : Append(q, e) \in Seq(SocketRequests)
    OBVIOUS
  <2>2. Append(h.queue, <<"accept", Listener>>) \in Seq(SocketRequests)
    BY ONLY <1>0, <1>1, <2>1
  <2> QED BY <2>2
<1>3. /\ Len(q) = Len(h.queue) + 1 /\ q[Len(q)] = <<"accept", Listener>> /\ Len(h.queue) \in Nat
      /\ \A i \in 1 .. Len(h.queue) : q[i] = h.queue[i]
  BY <1>1, <1>2
<1>4. PICK g \in HostRecord : g = [h EXCEPT !.queue = q]
  BY <1>1 DEF HostRecord
<1>5. g.sock = h.sock /\ g.queue = q /\ Asked(h) = g
  BY <1>1, <1>2, <1>4 DEF HostRecord, Asked
<1>6. ClosingsOK(q, h.sock, W)
  <2>1. ASSUME NEW i \in 1 .. Len(q), q[i][1] = "close"
        PROVE  i \in 1 .. Len(h.queue) /\ q[i] = h.queue[i]
    <3>1. i # Len(q)
      BY <1>3, <2>1
    <3> QED BY <1>3, <3>1
  <2>2. ClosingsOK(h.queue, h.sock, W)
    BY DEF HostOK
  <2>3. ASSUME NEW i \in 1 .. Len(q), q[i][1] = "close"
        PROVE  q[i][2] # Listener /\ q[i][2] \notin W /\ ClosingOK(h.sock[q[i][2]])
    BY <2>1, <2>2, <2>3 DEF ClosingsOK
  <2>4. ASSUME NEW i \in 1 .. Len(q), NEW j \in 1 .. Len(q), q[i][1] = "close", q[i] = q[j]
        PROVE  i = j
    <3>1. q[j][1] = "close"
      BY <2>4
    <3>2. i \in 1 .. Len(h.queue) /\ q[i] = h.queue[i] /\ j \in 1 .. Len(h.queue) /\ q[j] = h.queue[j]
      BY <2>1, <2>4, <3>1
    <3>3. h.queue[i][1] = "close" /\ h.queue[i] = h.queue[j]
      BY <2>4, <3>2
    <3> QED BY <2>2, <3>2, <3>3 DEF ClosingsOK
  <2> QED BY <2>3, <2>4 DEF ClosingsOK
<1>7. OfferOK(q, h.sock, b)
  <2>1. Len(q) \in 1 .. Len(q)
    BY <1>3
  <2>2. OfferOK(h.queue, h.sock, a)
    BY DEF HostOK
  <2> QED BY <1>3, <2>1, <2>2 DEF OfferOK
<1> QED BY <1>5, <1>6, <1>7 DEF HostOK

(***************************************************************************)
(* The host, in each step.                                                 *)
(***************************************************************************)
Sound(W, a) == HostOK(Host, W, a)

LEMMA HostIs ==
  ASSUME NEW W, NEW a \in BOOLEAN, Sound(W, a)
  PROVE  \E h : /\ h = Host /\ HostOK(h, W, a) /\ h.sock = sockets /\ h.queue = ipQueue
                /\ sockets \in [Sockets -> TcpSocket] /\ ipQueue \in Seq(SocketRequests)
<1>1. PICK h : h = Host
  OBVIOUS
<1>2. h.sock = sockets /\ h.queue = ipQueue
  BY <1>1 DEF Host
<1>3. HostOK(h, W, a)
  BY <1>1 DEF Sound
<1> QED BY <1>1, <1>2, <1>3 DEF HostOK, HostRecord

LEMMA HostBecomes ==
  ASSUME NEW W, NEW a \in BOOLEAN, NEW g, HostOK(g, W, a), IsHost(g)
  PROVE  Sound(W, a)'
<1>1. g \in HostRecord
  BY DEF HostOK
<1>2. g = [sock |-> g.sock, queue |-> g.queue]
  BY <1>1 DEF HostRecord
<1>3. Host' = g
  BY <1>2 DEF IsHost, Host
<1> QED BY <1>3 DEF Sound

LEMMA ReceiveSynSound ==
  ASSUME NEW W, NEW a \in BOOLEAN, Sound(W, a), NEW remote \in Remotes, NEW p, ReceiveSyn(remote, p)
  PROVE  Sound(W, a)'
<1>1. PICK h : h = Host /\ HostOK(h, W, a) /\ h.sock = sockets /\ h.queue = ipQueue
  BY HostIs
<1>2. PICK s \in Children : h.sock[s].state = "FREE" /\ IsHost(Accepted(HandleListen(h, s, remote), s, p, FALSE, FALSE))
  BY <1>1, SocketsAre DEF ReceiveSyn, Exists
<1>3. h.sock[Listener].state = "LISTEN" /\ h.sock[Listener].children < Backlog
  <2>1. Lookup(Listener, remote) = {Listener} /\ sockets[Listener].children < Backlog
    BY DEF ReceiveSyn
  <2>2. Listener \in Lookup(Listener, remote)
    BY <2>1
  <2>3. SocketOK(Listener, sockets[Listener])
    BY <1>1, SocketsAre DEF HostOK
  <2>4. remote # NoSocket
    BY SocketsAre
  <2>5. sockets[Listener].state = "LISTEN"
    BY <2>2, <2>3, <2>4 DEF Lookup, SocketOK
  <2> QED BY <1>1, <2>1, <2>5
<1>4. PICK g : g = HandleListen(h, s, remote)
  OBVIOUS
<1>5. Ready(h, g, W, a, s)
  BY <1>1, <1>2, <1>3, <1>4, HandleListenReady
<1>6. s \in Sockets \ {Listener}
  BY SocketsAre
<1>7. PICK c \in BOOLEAN : c = FALSE
  OBVIOUS
<1>8. HostOK(Accepted(g, s, p, c, c), W, a)
  BY <1>5, <1>6, AcceptedReady DEF Ready
<1>9. IsHost(Accepted(g, s, p, c, c))
  BY <1>2, <1>4, <1>7
<1> QED BY <1>8, <1>9, HostBecomes

LEMMA ReceivePacketSound ==
  ASSUME NEW W, NEW a \in BOOLEAN, Sound(W, a), NEW port \in {Listener, Client}, NEW remote \in Remotes, NEW p, ReceivePacket(port, remote, p)
  PROVE  Sound(W, a)'
<1>1. PICK h : h = Host /\ HostOK(h, W, a) /\ h.sock = sockets /\ h.queue = ipQueue
  BY HostIs
<1>2. PICK s \in Lookup(port, remote) :
        /\ sockets[s].state # "LISTEN" /\ Active(sockets[s].state)
        /\ \E g \in {Received(Host, s, p, buffer, idle) : buffer \in BufferChoices(s), idle \in Silences(s)} : IsHost(g)
  BY DEF ReceivePacket
<1>3. PICK buffer \in BufferChoices(s), idle \in Silences(s) : IsHost(Received(h, s, p, buffer, idle))
  BY <1>1, <1>2
<1>4. s \in Sockets /\ h.sock[s].state # "FREE"
  BY <1>1, <1>2, SocketsAre DEF Lookup
<1>5. s # Listener
  <2>1. SocketOK(Listener, sockets[Listener])
    BY <1>1, SocketsAre DEF HostOK
  <2> QED BY <1>2, <2>1 DEF SocketOK, Active
<1>6. Active(h.sock[s].state) /\ h.sock[s].state # "CLOSED"
  BY <1>1, <1>2 DEF Active
<1>7. Ready(h, h, W, a, s)
  BY <1>1, <1>4, <1>5, <1>6, ReadyWhenActive
<1>8. HostOK(Received(h, s, p, buffer, idle), W, a)
  BY <1>4, <1>5, <1>6, <1>7, ReceivedKeeps
<1> QED BY <1>3, <1>8, HostBecomes

LEMMA WokenKeeps ==
  ASSUME NEW h, NEW W, NEW a \in BOOLEAN, HostOK(h, W, a), NEW s \in Sockets, NEW sleep
  PROVE  HostOK(Woken(h, s, sleep), W, a)
  BY WakeUpKeeps DEF Woken

(* xTCPSocketCheck, of a socket in any state.                              *)
LEMMA LookedAtKeeps ==
  ASSUME NEW g, NEW W, NEW a \in BOOLEAN, HostOK(g, W, a), NEW s \in Sockets \ {Listener}, g.sock[s].state # "FREE",
         NEW quiet, NEW buffer, NEW idle, NEW known
  PROVE  LET f == SocketCheck(g, s, quiet, buffer, idle, known)
         IN  HostOK(f, W, a) /\ Since(g, f, s) /\ (f.sock[s].timer \/ f.sock[s].state = "FREE")
<1>1. CASE g.sock[s].state # "CLOSED"
  <2>1. Ready(g, g, W, a, s)
    BY <1>1, ReadyWhenActive
  <2> QED BY <2>1, SocketCheckKeeps
<1>2. CASE g.sock[s].state = "CLOSED"
  <2>1. PICK d \in BOOLEAN : d
    OBVIOUS
  <2>2. PICK m : m = [g.sock[s] EXCEPT !.timer = d]
    OBVIOUS
  <2>3. g.sock[s] \in TcpSocket
    BY DEF HostOK, HostRecord
  <2>4. Tame(g.sock[s], m) /\ Adds(g.sock[s], m) /\ m.state = "CLOSED" /\ m.timer
    BY <1>2, <2>1, <2>2, <2>3 DEF Tame, Adds, TcpSocket
  <2>5. PICK f : f = With(g, s, m)
    OBVIOUS
  <2>6. HostOK(f, W, a) /\ f.sock[s] = m /\ \A u \in Sockets \ {s} : f.sock[u] = g.sock[u]
    BY <2>4, <2>5, TameHost
  <2>7. NextTimeout(g, s) = f
    BY <2>1, <2>2, <2>5 DEF NextTimeout, With
  <2>8. SocketCheck(g, s, quiet, buffer, idle, known) = f
    BY <1>2, <2>4, <2>6, <2>7 DEF SocketCheck, StatusAgeCheck, Protected, AtLeastEstablished
  <2>9. Tells(g.sock[s], f.sock[s]) /\ Heard(g.sock[Listener], f.sock[Listener])
    BY <2>4, <2>6, AddsTells, SinceNow, SocketsAre
  <2>10. Since(g, f, s)
    BY <2>6, <2>9 DEF Since
  <2> QED BY <2>4, <2>6, <2>8, <2>10
<1> QED BY <1>1, <1>2

LEMMA TimerCheckSound ==
  ASSUME NEW W, NEW a \in BOOLEAN, Sound(W, a), NEW s \in Sockets, NEW sleep \in BOOLEAN, TimerCheck(s, sleep)
  PROVE  Sound(W, a)'
<1>1. PICK h : h = Host /\ HostOK(h, W, a) /\ h.sock = sockets /\ h.queue = ipQueue /\ sockets \in [Sockets -> TcpSocket]
  BY HostIs
<1>2. h.sock[s].state # "FREE" /\ h.sock[s].timer /\ h.sock[s] \in TcpSocket /\ SocketOK(s, h.sock[s])
  BY <1>1 DEF TimerCheck, Exists, HostOK
<1>3. s # Listener
  BY <1>2 DEF SocketOK
<1>4. CASE sleep /\ IsHost(WakeUpUser(Host, s))
  <2>1. HostOK(WakeUpUser(h, s), W, a) /\ IsHost(WakeUpUser(h, s))
    BY <1>1, <1>2, <1>4, WakeUpKeeps
  <2> QED BY <2>1, HostBecomes
<1>5. ASSUME NEW quiet, NEW buffer, NEW idle, NEW known,
             IsHost(Woken(SocketCheck(TimeUp(Host, s), s, quiet, buffer, idle, known), s, sleep))
      PROVE  Sound(W, a)'
  <2>1. PICK c \in BOOLEAN : c = FALSE
    OBVIOUS
  <2>2. PICK l : l = [h.sock[s] EXCEPT !.timer = c]
    OBVIOUS
  <2>3. Tame(h.sock[s], l) /\ l.state = h.sock[s].state
    BY <1>2, <2>2 DEF Tame, TcpSocket
  <2>4. PICK g : g = With(h, s, l)
    OBVIOUS
  <2>5. HostOK(g, W, a) /\ g.sock[s] = l
    BY <1>1, <1>3, <2>3, <2>4, TameHost
  <2>6. TimeUp(Host, s) = g
    BY <1>1, <2>1, <2>2, <2>4 DEF With, TimeUp
  <2>7. g.sock[s].state # "FREE"
    BY <1>2, <2>3, <2>5
  <2>8. PICK f : f = SocketCheck(g, s, quiet, buffer, idle, known)
    OBVIOUS
  <2>11. HostOK(f, W, a)
    BY <1>3, <2>5, <2>7, <2>8, LookedAtKeeps
  <2>9. HostOK(Woken(f, s, sleep), W, a)
    BY <2>11, WokenKeeps
  <2>10. IsHost(Woken(f, s, sleep))
    BY <1>5, <2>6, <2>8
  <2> QED BY <2>9, <2>10, HostBecomes
<1>6. CASE \E g \in {SocketCheck(TimeUp(Host, s), s, quiet, buffer, idle, known) :
                     quiet \in Silences(s), buffer \in BufferChoices(s), idle \in Silences(s), known \in ArpAnswers(s)} :
             IsHost(Woken(g, s, sleep))
  <2>1. PICK quiet \in Silences(s), buffer \in BufferChoices(s), idle \in Silences(s), known \in ArpAnswers(s) :
               IsHost(Woken(SocketCheck(TimeUp(Host, s), s, quiet, buffer, idle, known), s, sleep))
    BY <1>6
  <2> QED BY <1>5, <2>1
<1> QED BY <1>4, <1>6 DEF TimerCheck

LEMMA HandleCloseSound ==
  ASSUME NEW W, NEW a \in BOOLEAN, Sound(W, a), HandleClose
  PROVE  Sound(W, a)'
<1>1. PICK h : h = Host /\ HostOK(h, W, a) /\ h.sock = sockets /\ h.queue = ipQueue
  BY HostIs
<1>2. h.queue # <<>> /\ Head(h.queue)[1] = "close" /\ IsHost(Closed(Taken(h), Head(h.queue)[2]))
  BY <1>1 DEF HandleClose, Taken
<1>3. HostOK(Closed(Taken(h), Head(h.queue)[2]), W, a)
  BY <1>1, <1>2, HandleCloseKeeps
<1> QED BY <1>2, <1>3, HostBecomes

LEMMA CheckNewClientSound ==
  ASSUME NEW W, NEW a \in BOOLEAN, Sound(W, a), CheckNewClient
  PROVE  Sound(W, a)'
<1>1. PICK h : h = Host /\ HostOK(h, W, a) /\ h.sock = sockets /\ h.queue = ipQueue
  BY HostIs
<1>2. h.queue # <<>>
  BY <1>1 DEF CheckNewClient
<1>3. ASSUME NEW s \in Acceptable,
             IsHost(WakeUpUser(With(Taken(h), Listener, [h.sock[Listener] EXCEPT !.peer = s, !.events = @ \cup {"ACCEPT"}]), Listener))
      PROVE  Sound(W, a)'
  <2>1. s \in Sockets /\ Port(s) = Listener /\ "PassAccept" \in h.sock[s].bits
    BY <1>1 DEF Acceptable
  <2>2. PICK g : g = WakeUpUser(With(Taken(h), Listener, [h.sock[Listener] EXCEPT !.peer = s, !.events = @ \cup {"ACCEPT"}]), Listener)
    OBVIOUS
  <2>3. HostOK(g, W, a)
    BY <1>1, <1>2, <2>1, <2>2, CheckNewClientKeeps
  <2> QED BY <1>3, <2>2, <2>3, HostBecomes
<1>4. ASSUME Acceptable = {}, IsHost(Taken(h))
      PROVE  Sound(W, a)'
  <2>1. {s \in Sockets : Port(s) = Listener /\ "PassAccept" \in h.sock[s].bits} = {}
    BY <1>1, <1>4 DEF Acceptable
  <2>2. HostOK(Taken(h), W, a)
    BY <1>1, <1>2, <2>1, CheckNewClientKeeps
  <2> QED BY <1>4, <2>2, HostBecomes
<1> QED BY <1>1, <1>3, <1>4 DEF CheckNewClient, Taken

(* One field of a socket changes, by its user or with the time.            *)
LEMMA TameSound ==
  ASSUME NEW W, NEW a \in BOOLEAN, Sound(W, a), NEW s \in Sockets, NEW l, Tame(sockets[s], l),
         s = Listener => l.remote = sockets[s].remote /\ l.timer = sockets[s].timer,
         sockets' = [sockets EXCEPT ![s] = l], UNCHANGED ipQueue
  PROVE  Sound(W, a)'
<1>1. PICK h : h = Host /\ HostOK(h, W, a) /\ h.sock = sockets /\ h.queue = ipQueue
  BY HostIs
<1>2. HostOK(With(h, s, l), W, a) /\ With(h, s, l).queue = h.queue
  BY <1>1, TameHost
<1>3. With(h, s, l).sock = [h.sock EXCEPT ![s] = l]
  <2>1. h \in HostRecord
    BY <1>1 DEF HostOK
  <2> QED BY <2>1 DEF With, HostRecord
<1>4. IsHost(With(h, s, l))
  BY <1>1, <1>2, <1>3 DEF IsHost
<1> QED BY <1>2, <1>4, HostBecomes

LEMMA TimePassesSound ==
  ASSUME NEW W, NEW a \in BOOLEAN, Sound(W, a), NEW s \in Sockets, TimePasses(s)
  PROVE  Sound(W, a)'
<1>1. sockets \in [Sockets -> TcpSocket]
  BY HostIs
<1>2. PICK l : l = [sockets[s] EXCEPT !.aged = TRUE]
  OBVIOUS
<1>3. Tame(sockets[s], l) /\ l.remote = sockets[s].remote /\ l.timer = sockets[s].timer
  BY <1>1, <1>2 DEF Tame, TcpSocket, TimePasses, Exists
<1>4. sockets' = [sockets EXCEPT ![s] = l] /\ UNCHANGED ipQueue
  BY <1>2 DEF TimePasses
<1> QED BY <1>3, <1>4, TameSound

(***************************************************************************)
(* The users.                                                              *)
(***************************************************************************)
DataPlaces == {"connect, timer", "connect", "in connect", "timer", "recv", "recv, state", "in recv", "send", "in send", "shutdown"}

UserRecord ==
  [at : {"idle", "accept", "in accept", "ask"} \cup DataPlaces, on : Sockets \cup {NoSocket},
   read : SUBSET TcpBits, holds : SUBSET Sockets]

UserOK(t, u) ==
  /\ u \in UserRecord
  /\ u.holds \subseteq IF t = Acceptor THEN {Listener} \cup Children ELSE {Client}
  /\ u.at \in {"accept", "in accept"} => t = Acceptor /\ u.on = Listener
  /\ u.at = "ask" => t = Acceptor /\ u.on \in Children
  /\ u.at \in DataPlaces => u.on \in u.holds \ {Listener}
  /\ u.at = "shutdown" => "PassQueued" \notin u.read /\ "PassAccept" \notin u.read

OwnedBy(u) == (u.holds \ {Listener}) \cup (IF u.at = "ask" THEN {u.on} ELSE {})
Owned == OwnedBy(users[Acceptor]) \cup OwnedBy(users[Caller])

UsersOK == users \in [{Acceptor, Caller} -> UserRecord] /\ \A t \in {Acceptor, Caller} : UserOK(t, users[t])

ConnectionInv ==
  /\ UsersOK
  /\ \E a \in BOOLEAN : (a <=> At(Acceptor, "ask")) /\ Sound(Owned, a)

(* The user t does something with what it has.                             *)
LEMMA SameOwners ==
  ASSUME ConnectionInv, NEW t \in {Acceptor, Caller}, NEW u, UserOK(t, u), users' = [users EXCEPT ![t] = u],
         u.holds = users[t].holds, u.at # "ask", users[t].at # "ask",
         \A W : \A a \in BOOLEAN : Sound(W, a) /\ OwnedBy(users[t]) \subseteq W => Sound(W, a)'
  PROVE  ConnectionInv'
<1>1. PICK a \in BOOLEAN : (a <=> At(Acceptor, "ask")) /\ Sound(Owned, a)
  BY DEF ConnectionInv
<1>2. PICK W : W = Owned
  OBVIOUS
<1>3. users \in [{Acceptor, Caller} -> UserRecord] /\ \A v \in {Acceptor, Caller} : UserOK(v, users[v])
  BY DEF ConnectionInv, UsersOK
<1>4. u \in UserRecord
  BY DEF UserOK
<1>5. users' \in [{Acceptor, Caller} -> UserRecord] /\ \A v \in {Acceptor, Caller} : users'[v] = IF v = t THEN u ELSE users[v]
  BY <1>3, <1>4
<1>6. UsersOK'
  <2>1. \A v \in {Acceptor, Caller} : UserOK(v, users'[v])
    BY <1>3, <1>5
  <2> QED BY <1>5, <2>1 DEF UsersOK, UserOK, UserRecord, OwnedBy
<1>7. OwnedBy(u) = OwnedBy(users[t])
  BY DEF OwnedBy
<1>8. Owned' = W
  <2>1. \A v \in {Acceptor, Caller} : OwnedBy(users'[v]) = OwnedBy(users[v])
    BY <1>5, <1>7
  <2> QED BY <1>2, <2>1 DEF Owned, OwnedBy
<1>9. (a <=> At(Acceptor, "ask"))'
  BY <1>1, <1>5 DEF At
<1>10. Sound(W, a)'
  <2>1. OwnedBy(users[t]) \subseteq W
    BY <1>2 DEF Owned
  <2>2. Sound(W, a)
    BY <1>1, <1>2
  <2> QED BY <2>1, <2>2
<1>11. Sound(Owned, a)'
  BY <1>8, <1>10 DEF Sound
<1> QED BY <1>6, <1>9, <1>11 DEF ConnectionInv

LEMMA HostKept ==
  ASSUME UNCHANGED <<sockets, ipQueue>>, NEW W, NEW a \in BOOLEAN, Sound(W, a)
  PROVE  Sound(W, a)'
<1>1. Host' = Host
  BY DEF Host
<1> QED BY <1>1 DEF Sound

LEMMA OwnedSocket ==
  ASSUME NEW W, NEW a \in BOOLEAN, Sound(W, a), NEW s \in W
  PROVE  /\ s \in Sockets \ {Listener} /\ sockets \in [Sockets -> TcpSocket] /\ sockets[s] \in TcpSocket /\ sockets[s].state # "FREE"
         /\ "PassQueued" \notin sockets[s].bits /\ "PassAccept" \notin sockets[s].bits
<1>1. PICK h : h = Host /\ HostOK(h, W, a) /\ h.sock = sockets /\ h.queue = ipQueue /\ sockets \in [Sockets -> TcpSocket]
  BY HostIs
<1> QED BY <1>1 DEF HostOK, OwnedOK

LEMMA UserIs ==
  ASSUME UsersOK, NEW t \in {Acceptor, Caller}
  PROVE  UserOK(t, users[t]) /\ users[t] \in UserRecord
  BY DEF UsersOK

LEMMA ContinueIs ==
  ASSUME UsersOK, NEW t \in {Acceptor, Caller}, NEW at, Continue(t, at)
  PROVE  users' = [users EXCEPT ![t] = [users[t] EXCEPT !.at = at]]
  BY DEF Continue, UsersOK, UserRecord

(* The user t goes on, with a socket it has.                               *)
LEMMA Continues ==
  ASSUME ConnectionInv, NEW t \in {Acceptor, Caller}, users[t].at \in DataPlaces,
         NEW at \in ({"idle"} \cup DataPlaces) \ {"shutdown"}, Continue(t, at),
         \A W : \A a \in BOOLEAN : Sound(W, a) /\ OwnedBy(users[t]) \subseteq W => Sound(W, a)'
  PROVE  ConnectionInv'
<1>1. PICK u : u = [users[t] EXCEPT !.at = at]
  OBVIOUS
<1>2. UsersOK /\ users' = [users EXCEPT ![t] = u]
  BY <1>1, ContinueIs DEF ConnectionInv
<1>3. u \in UserRecord /\ u.holds = users[t].holds /\ u.at = at /\ u.on = users[t].on /\ u.read = users[t].read
  BY <1>1, <1>2, UserIs DEF UserRecord
<1>4. UserOK(t, u)
  BY <1>2, <1>3, UserIs DEF UserOK, DataPlaces
<1>5. u.at # "ask" /\ users[t].at # "ask"
  BY <1>3 DEF DataPlaces
<1> QED BY <1>2, <1>3, <1>4, <1>5, SameOwners

LEMMA Calls ==
  ASSUME ConnectionInv, NEW t \in {Acceptor, Caller}, Idle(t), NEW s \in users[t].holds, s # Listener,
         NEW at \in DataPlaces \ {"shutdown"}, Call(t, s, at),
         \A W : \A a \in BOOLEAN : Sound(W, a) /\ OwnedBy(users[t]) \subseteq W => Sound(W, a)'
  PROVE  ConnectionInv'
<1>1. PICK u : u = [users[t] EXCEPT !.at = at, !.on = s]
  OBVIOUS
<1>0. UsersOK
  BY DEF ConnectionInv
<1>2. UsersOK /\ users' = [users EXCEPT ![t] = u] /\ users[t] \in UserRecord
  <2>1. users[t] \in UserRecord
    BY <1>0, UserIs
  <2>2. users' = [users EXCEPT ![t] = u]
    BY <1>0, <1>1 DEF Call, UsersOK, UserRecord
  <2> QED BY <1>0, <2>1, <2>2
<1>3. u \in UserRecord /\ u.holds = users[t].holds /\ u.at = at /\ u.on = s /\ u.read = users[t].read
  BY <1>1, <1>2 DEF UserRecord
<1>4. UserOK(t, u)
  BY <1>2, <1>3, UserIs DEF UserOK, DataPlaces
<1>5. u.at # "ask" /\ users[t].at # "ask"
  BY <1>3 DEF DataPlaces, Idle
<1> QED BY <1>2, <1>3, <1>4, <1>5, SameOwners

(* Steps that leave the host alone.                                        *)
LEMMA KeptFor ==
  ASSUME UNCHANGED <<sockets, ipQueue>>, NEW V
  PROVE  \A W : \A a \in BOOLEAN : Sound(W, a) /\ V \subseteq W => Sound(W, a)'
  BY HostKept

LEMMA AcceptInv ==
  ASSUME ConnectionInv, NEW t \in {Acceptor, Caller}, Accept(t)
  PROVE  ConnectionInv'
<1>0. UsersOK /\ Call(t, Listener, "accept") /\ UNCHANGED <<sockets, ipQueue>>
  BY DEF ConnectionInv, Accept
<1>1. PICK u : u = [users[t] EXCEPT !.at = "accept", !.on = Listener]
  OBVIOUS
<1>2. users' = [users EXCEPT ![t] = u] /\ users[t] \in UserRecord /\ UserOK(t, users[t])
  <2>1. users[t] \in UserRecord /\ UserOK(t, users[t])
    BY <1>0, UserIs
  <2>2. users' = [users EXCEPT ![t] = u]
    BY <1>0, <1>1 DEF Call, UsersOK, UserRecord
  <2> QED BY <2>1, <2>2
<1>3. u \in UserRecord /\ u.holds = users[t].holds /\ u.at = "accept" /\ u.on = Listener /\ u.read = users[t].read
  BY <1>1, <1>2, SocketsAre DEF UserRecord
<1>4. UserOK(t, u)
  BY <1>2, <1>3, SocketsAre DEF UserOK, DataPlaces, Accept
<1>5. \A W : \A a \in BOOLEAN : Sound(W, a) /\ OwnedBy(users[t]) \subseteq W => Sound(W, a)'
  BY <1>0, KeptFor
<1>6. users[t].at # "ask"
  BY DEF Accept, Idle
<1> QED BY <1>2, <1>3, <1>4, <1>5, <1>6, SameOwners

LEMMA CheckInv ==
  ASSUME ConnectionInv, NEW t \in {Acceptor, Caller}, CheckConnected(t) \/ CheckState(t)
  PROVE  ConnectionInv'
<1>1. /\ users[t].at \in DataPlaces /\ UNCHANGED <<sockets, ipQueue>>
      /\ \E at \in ({"idle"} \cup DataPlaces) \ {"shutdown"} : Continue(t, at)
  BY DEF CheckConnected, CheckState, At, DataPlaces
<1>2. \A W : \A a \in BOOLEAN : Sound(W, a) /\ OwnedBy(users[t]) \subseteq W => Sound(W, a)'
  BY <1>1, KeptFor
<1> QED BY <1>1, <1>2, Continues

LEMMA BeginsInv ==
  ASSUME ConnectionInv, NEW t \in {Acceptor, Caller}, NEW s \in Sockets, Recv(t, s) \/ Send(t, s)
  PROVE  ConnectionInv'
<1>1. /\ Idle(t) /\ s \in users[t].holds /\ s # Listener /\ UNCHANGED <<sockets, ipQueue>>
      /\ \E at \in DataPlaces \ {"shutdown"} : Call(t, s, at)
  BY DEF Recv, Send, Usable, DataPlaces
<1>2. \A W : \A a \in BOOLEAN : Sound(W, a) /\ OwnedBy(users[t]) \subseteq W => Sound(W, a)'
  BY <1>1, KeptFor
<1> QED BY <1>1, <1>2, Calls

LEMMA ShutdownInv ==
  ASSUME ConnectionInv, NEW t \in {Acceptor, Caller}, NEW s \in Sockets, Shutdown(t, s)
  PROVE  ConnectionInv'
<1>1. /\ Idle(t) /\ s \in users[t].holds /\ s # Listener /\ UNCHANGED <<sockets, ipQueue>>
      /\ users' = [users EXCEPT ![t].at = "shutdown", ![t].on = s, ![t].read = sockets[s].bits]
  BY DEF Shutdown, Usable
<1>2. UsersOK /\ users[t] \in UserRecord /\ UserOK(t, users[t])
  BY UserIs DEF ConnectionInv
<1>3. sockets[s].bits \subseteq TcpBits /\ "PassQueued" \notin sockets[s].bits /\ "PassAccept" \notin sockets[s].bits
  <2>1. PICK a \in BOOLEAN : Sound(Owned, a)
    BY DEF ConnectionInv
  <2>2. PICK W : W = Owned
    OBVIOUS
  <2>3. s \in W /\ Sound(W, a)
    BY <1>1, <2>1, <2>2 DEF Owned, OwnedBy
  <2>4. sockets[s] \in TcpSocket /\ "PassQueued" \notin sockets[s].bits /\ "PassAccept" \notin sockets[s].bits
    BY <2>3, OwnedSocket
  <2> QED BY <2>4 DEF TcpSocket
<1>4. PICK u : u = [users[t] EXCEPT !.at = "shutdown", !.on = s, !.read = sockets[s].bits]
  OBVIOUS
<1>5. users' = [users EXCEPT ![t] = u]
  BY <1>1, <1>2, <1>4 DEF UsersOK, UserRecord
<1>6. u \in UserRecord /\ u.holds = users[t].holds /\ u.at = "shutdown" /\ u.on = s /\ u.read = sockets[s].bits
  BY <1>2, <1>3, <1>4 DEF UserRecord, DataPlaces
<1>7. UserOK(t, u)
  BY <1>1, <1>2, <1>3, <1>6 DEF UserOK, DataPlaces
<1>8. \A W : \A a \in BOOLEAN : Sound(W, a) /\ OwnedBy(users[t]) \subseteq W => Sound(W, a)'
  BY <1>1, KeptFor
<1>9. users[t].at # "ask"
  BY <1>1 DEF Idle
<1> QED BY <1>5, <1>6, <1>7, <1>8, <1>9, SameOwners

(* Steps that change one field of a socket that the user has.              *)
LEMMA DataChange ==
  ASSUME NEW W, NEW a \in BOOLEAN, Sound(W, a), NEW s \in W, NEW l, Tame(sockets[s], l),
         sockets' = [sockets EXCEPT ![s] = l], UNCHANGED ipQueue
  PROVE  Sound(W, a)'
<1>1. s \in Sockets /\ s # Listener
  BY OwnedSocket
<1> QED BY <1>1, TameSound

LEMMA OnOwned ==
  ASSUME UsersOK, NEW t \in {Acceptor, Caller}, users[t].at \in DataPlaces, NEW W, OwnedBy(users[t]) \subseteq W
  PROVE  users[t].on \in W
  BY UserIs DEF UserOK, OwnedBy

LEMMA SetTimeoutInv ==
  ASSUME ConnectionInv, NEW t \in {Acceptor, Caller}, SetTimeout(t)
  PROVE  ConnectionInv'
<1>1. UsersOK /\ users[t].at \in DataPlaces /\ \E at \in ({"idle"} \cup DataPlaces) \ {"shutdown"} : Continue(t, at)
  BY DEF SetTimeout, At, DataPlaces, ConnectionInv
<1>2. ASSUME NEW W, NEW a \in BOOLEAN, Sound(W, a), OwnedBy(users[t]) \subseteq W
      PROVE  Sound(W, a)'
  <2>1. PICK s \in W : s = users[t].on
    BY <1>1, <1>2, OnOwned
  <2>2. sockets[s] \in TcpSocket /\ sockets[s].state # "FREE"
    BY <1>2, OwnedSocket
  <2>3. PICK l : l = [sockets[s] EXCEPT !.timer = TRUE]
    OBVIOUS
  <2>4. Tame(sockets[s], l)
    BY <2>2, <2>3 DEF Tame, TcpSocket
  <2>5. sockets' = [sockets EXCEPT ![s] = l] /\ UNCHANGED ipQueue
    BY <2>1, <2>3 DEF SetTimeout
  <2> QED BY <1>2, <2>4, <2>5, DataChange
<1> QED BY <1>1, <1>2, Continues

LEMMA TakeDataInv ==
  ASSUME ConnectionInv, NEW t \in {Acceptor, Caller}, TakeData(t)
  PROVE  ConnectionInv'
<1>1. UsersOK /\ users[t].at \in DataPlaces /\ \E at \in ({"idle"} \cup DataPlaces) \ {"shutdown"} : Continue(t, at)
  BY DEF TakeData, At, DataPlaces, ConnectionInv
<1>2. ASSUME NEW W, NEW a \in BOOLEAN, Sound(W, a), OwnedBy(users[t]) \subseteq W
      PROVE  Sound(W, a)'
  <2>1. PICK s \in W : s = users[t].on
    BY <1>1, <1>2, OnOwned
  <2>2. sockets[s] \in TcpSocket /\ sockets[s].state # "FREE"
    BY <1>2, OwnedSocket
  <2>3. PICK l : l = [sockets[s] EXCEPT !.received = FALSE]
    OBVIOUS
  <2>4. Tame(sockets[s], l)
    BY <2>2, <2>3 DEF Tame, TcpSocket
  <2>5. sockets' = [sockets EXCEPT ![s] = l] /\ UNCHANGED ipQueue
    BY <2>1, <2>3 DEF TakeData
  <2> QED BY <1>2, <2>4, <2>5, DataChange
<1> QED BY <1>1, <1>2, Continues

LEMMA WriteDataInv ==
  ASSUME ConnectionInv, NEW t \in {Acceptor, Caller}, NEW last \in BOOLEAN, WriteData(t, last)
  PROVE  ConnectionInv'
<1>1. UsersOK /\ users[t].at \in DataPlaces /\ \E at \in ({"idle"} \cup DataPlaces) \ {"shutdown"} : Continue(t, at)
  BY DEF WriteData, At, DataPlaces, ConnectionInv
<1>2. ASSUME NEW W, NEW a \in BOOLEAN, Sound(W, a), OwnedBy(users[t]) \subseteq W
      PROVE  Sound(W, a)'
  <2>1. PICK s \in W : s = users[t].on
    BY <1>1, <1>2, OnOwned
  <2>2. sockets[s] \in TcpSocket /\ sockets[s].state # "FREE" /\ sockets \in [Sockets -> TcpSocket] /\ s \in Sockets
    BY <1>2, OwnedSocket
  <2>3. PICK bits : bits = IF last THEN sockets[s].bits \cup {"CloseRequested"} ELSE sockets[s].bits
    OBVIOUS
  <2>4. PICK l : l = [sockets[s] EXCEPT !.unacked = TRUE, !.unsent = TRUE, !.bits = bits]
    OBVIOUS
  <2>5. Tame(sockets[s], l)
    BY <2>2, <2>3, <2>4 DEF Tame, TcpSocket, TcpBits
  <2>6. CASE UNCHANGED sockets
    <3>1. UNCHANGED <<sockets, ipQueue>>
      BY <2>6 DEF WriteData
    <3> QED BY <1>2, <3>1, HostKept
  <2>7. CASE sockets' = [sockets EXCEPT ![s].unacked = TRUE, ![s].unsent = TRUE,
                          ![s].bits = IF last THEN @ \cup {"CloseRequested"} ELSE @]
    <3>1. sockets' = [sockets EXCEPT ![s] = l]
      BY <2>2, <2>3, <2>4, <2>7
    <3>2. UNCHANGED ipQueue
      BY DEF WriteData
    <3> QED BY <1>2, <2>5, <3>1, <3>2, DataChange
  <2> QED BY <2>1, <2>6, <2>7 DEF WriteData
<1> QED BY <1>1, <1>2, Continues

LEMMA StoreShutdownInv ==
  ASSUME ConnectionInv, NEW t \in {Acceptor, Caller}, StoreShutdown(t)
  PROVE  ConnectionInv'
<1>1. /\ users[t].at = "shutdown" /\ users' = [users EXCEPT ![t].at = "timer", ![t].read = {}]
      /\ UsersOK /\ users[t] \in UserRecord /\ UserOK(t, users[t])
  BY UserIs DEF StoreShutdown, At, ConnectionInv
<1>2. PICK u : u = [users[t] EXCEPT !.at = "timer", !.read = {}]
  OBVIOUS
<1>3. users' = [users EXCEPT ![t] = u]
  BY <1>1, <1>2 DEF UsersOK, UserRecord
<1>4. u \in UserRecord /\ u.holds = users[t].holds /\ u.at = "timer" /\ u.on = users[t].on
  BY <1>1, <1>2 DEF UserRecord, DataPlaces
<1>5. UserOK(t, u)
  BY <1>1, <1>4 DEF UserOK, DataPlaces
<1>6. ASSUME NEW W, NEW a \in BOOLEAN, Sound(W, a), OwnedBy(users[t]) \subseteq W
      PROVE  Sound(W, a)'
  <2>1. PICK s \in W : s = users[t].on
    <3>1. users[t].at \in DataPlaces
      BY <1>1 DEF DataPlaces
    <3> QED BY <1>1, <1>6, <3>1, OnOwned
  <2>2. /\ sockets[s] \in TcpSocket /\ sockets[s].state # "FREE"
        /\ "PassQueued" \notin sockets[s].bits /\ "PassAccept" \notin sockets[s].bits
    BY <1>6, OwnedSocket
  <2>3. PICK others \in {users[t].read, sockets[s].bits} : sockets' = [sockets EXCEPT ![s].bits = others \cup {"UserShutdown"}]
    BY <2>1 DEF StoreShutdown, On
  <2>4. others \subseteq TcpBits /\ "PassQueued" \notin others /\ "PassAccept" \notin others
    BY <1>1, <2>2, <2>3 DEF UserOK, UserRecord, TcpSocket
  <2>5. PICK l : l = [sockets[s] EXCEPT !.bits = others \cup {"UserShutdown"}]
    OBVIOUS
  <2>6. Tame(sockets[s], l)
    BY <2>2, <2>4, <2>5 DEF Tame, TcpSocket, TcpBits
  <2>7. sockets' = [sockets EXCEPT ![s] = l] /\ UNCHANGED ipQueue
    BY <2>3, <2>5 DEF StoreShutdown
  <2> QED BY <1>6, <2>6, <2>7, DataChange
<1> QED BY <1>1, <1>3, <1>4, <1>5, <1>6, SameOwners

(* The IP task does not change the users.                                  *)
LEMMA IpSteps ==
  ASSUME ConnectionInv, UNCHANGED users, \A W : \A a \in BOOLEAN : Sound(W, a) => Sound(W, a)'
  PROVE  ConnectionInv'
<1>1. PICK a \in BOOLEAN : (a <=> At(Acceptor, "ask")) /\ Sound(Owned, a)
  BY DEF ConnectionInv
<1>2. PICK W : W = Owned
  OBVIOUS
<1>3. Owned' = W /\ UsersOK' /\ (a <=> At(Acceptor, "ask"))'
  BY <1>1, <1>2 DEF ConnectionInv, Owned, OwnedBy, UsersOK, UserOK, At
<1>4. Sound(W, a)'
  BY <1>1, <1>2
<1>5. Sound(Owned, a)'
  BY <1>3, <1>4 DEF Sound
<1> QED BY <1>3, <1>5 DEF ConnectionInv

LEMMA WakesUpInv ==
  ASSUME ConnectionInv, NEW t \in {Acceptor, Caller}, WakesUp(t)
  PROVE  ConnectionInv'
<1>0. UsersOK /\ users[t] \in UserRecord /\ UserOK(t, users[t])
  BY UserIs DEF ConnectionInv
<1>1. users[t].at \in {"in accept", "in connect", "in recv", "in send"}
  BY DEF WakesUp, Awaited, At
<1>2. ASSUME NEW W, NEW a \in BOOLEAN, Sound(W, a), OwnedBy(users[t]) \subseteq W
      PROVE  Sound(W, a)'
  <2>1. PICK l : l = [sockets[users[t].on] EXCEPT !.group = @ \ Awaited(t)]
    OBVIOUS
  <2>2. PICK s : s = users[t].on
    OBVIOUS
  <2>3. s \in Sockets /\ sockets[s].state # "FREE" /\ sockets \in [Sockets -> TcpSocket]
    <3>1. CASE users[t].at = "in accept"
      <4>1. s = Listener
        BY <1>0, <2>2, <3>1 DEF UserOK
      <4>2. PICK h : h = Host /\ HostOK(h, W, a) /\ h.sock = sockets /\ sockets \in [Sockets -> TcpSocket]
        BY <1>2, HostIs
      <4> QED BY <4>1, <4>2, SocketsAre DEF HostOK, SocketOK
    <3>2. CASE users[t].at # "in accept"
      <4>1. users[t].at \in DataPlaces
        BY <1>1, <3>2 DEF DataPlaces
      <4>2. s \in W
        BY <1>0, <1>2, <2>2, <4>1, OnOwned
      <4> QED BY <1>2, <4>2, OwnedSocket
    <3> QED BY <3>1, <3>2
  <2>4. Tame(sockets[s], l) /\ l.remote = sockets[s].remote /\ l.timer = sockets[s].timer
    BY <2>1, <2>2, <2>3 DEF Tame, TcpSocket
  <2>5. sockets' = [sockets EXCEPT ![s] = l] /\ UNCHANGED ipQueue
    BY <2>1, <2>2 DEF WakesUp
  <2> QED BY <1>2, <2>3, <2>4, <2>5, TameSound
<1>3. PICK at : at = Again(t)
  OBVIOUS
<1>4. Continue(t, at)
  BY <1>3 DEF WakesUp
<1>5. CASE users[t].at = "in accept"
  <2>1. at = "accept"
    BY <1>3, <1>5 DEF Again, At
  <2>2. PICK u : u = [users[t] EXCEPT !.at = at]
    OBVIOUS
  <2>3. users' = [users EXCEPT ![t] = u]
    BY <1>0, <1>4, <2>2, ContinueIs
  <2>4. u \in UserRecord /\ u.holds = users[t].holds /\ u.at = "accept" /\ u.on = users[t].on /\ u.read = users[t].read
    BY <1>0, <2>1, <2>2 DEF UserRecord
  <2>5. UserOK(t, u)
    BY <1>0, <1>5, <2>4 DEF UserOK, DataPlaces
  <2>6. users[t].at # "ask"
    BY <1>5
  <2> QED BY <1>2, <2>3, <2>4, <2>5, <2>6, SameOwners
<1>6. CASE users[t].at # "in accept"
  <2>1. at \in ({"idle"} \cup DataPlaces) \ {"shutdown"} /\ users[t].at \in DataPlaces
    BY <1>1, <1>3, <1>6 DEF Again, At, DataPlaces
  <2> QED BY <1>2, <1>4, <2>1, Continues
<1> QED BY <1>5, <1>6

LEMMA ListenInv ==
  ASSUME ConnectionInv, NEW t \in {Acceptor, Caller}, Listen(t)
  PROVE  ConnectionInv'
<1>1. ASSUME NEW W, NEW a \in BOOLEAN, Sound(W, a)
      PROVE  Sound(W, a)'
  <2>1. PICK h : h = Host /\ HostOK(h, W, a) /\ h.sock = sockets /\ sockets \in [Sockets -> TcpSocket]
    BY <1>1, HostIs
  <2>2. PICK k : k = h.sock[Listener]
    OBVIOUS
  <2>3. k \in TcpSocket /\ SocketOK(Listener, k) /\ k.state = "CLOSED" /\ OfferOK(h.queue, h.sock, a)
    BY <2>1, <2>2, SocketsAre DEF Listen, HostOK, SocketOK
  <2>4. PICK l : l = Touched([k EXCEPT !.state = "LISTEN"])
    OBVIOUS
  <2>5. /\ l \in TcpSocket /\ l.state = "LISTEN" /\ l.peer = k.peer /\ l.children = k.children /\ l.bits = k.bits
        /\ l.remote = k.remote /\ l.timer = k.timer
    <3>1. PICK m : m = [k EXCEPT !.state = "LISTEN"]
      OBVIOUS
    <3>2. m \in TcpSocket /\ m.state = "LISTEN" /\ m.peer = k.peer /\ m.children = k.children /\ m.bits = k.bits
          /\ m.remote = k.remote /\ m.timer = k.timer
      BY <2>3, <3>1 DEF TcpSocket, TcpStates
    <3> QED BY <2>4, <3>1, <3>2 DEF TcpSocket, Touched
  <2>6. SocketOK(Listener, l)
    BY <2>3, <2>5, SocketsAre DEF SocketOK
  <2>7. Offers(h, a, a, h.sock[Listener], l)
    BY <2>2, <2>3, <2>5, <2>6 DEF Offers, OfferOK
  <2>8. HostOK(With(h, Listener, l), W, a)
    BY <2>1, <2>7, OffersKeeps
  <2>9. StateChange(h, Listener, "LISTEN") = With(h, Listener, l)
    <3>1. ~NowConnected(k.state) /\ ~NowConnected("LISTEN")
      BY <2>3 DEF NowConnected, AtLeastEstablished
    <3> QED BY <2>2, <2>4, <3>1 DEF StateChange
  <2> QED BY <2>1, <2>8, <2>9, HostBecomes DEF Listen
<1> QED BY <1>1, IpSteps DEF Listen

LEMMA ConnectInv ==
  ASSUME ConnectionInv, NEW t \in {Acceptor, Caller}, NEW remote \in Remotes, Connect(t, remote)
  PROVE  ConnectionInv'
<1>1. Idle(t) /\ Client \in users[t].holds /\ Client # Listener /\ Call(t, Client, "connect, timer")
  BY SocketsAre DEF Connect
<1>2. ASSUME NEW W, NEW a \in BOOLEAN, Sound(W, a), OwnedBy(users[t]) \subseteq W
      PROVE  Sound(W, a)'
  <2>1. PICK h : h = Host /\ HostOK(h, W, a) /\ h.sock = sockets /\ h.queue = ipQueue
    BY <1>2, HostIs
  <2>2. Client \in W
    BY <1>1, <1>2 DEF OwnedBy
  <2>3. /\ Client \in Sockets \ {Listener} /\ sockets[Client] \in TcpSocket /\ sockets[Client].state # "FREE"
        /\ "PassQueued" \notin sockets[Client].bits /\ "PassAccept" \notin sockets[Client].bits
    BY <1>2, <2>2, OwnedSocket
  <2>4. PICK l : l = [sockets[Client] EXCEPT !.bits = @ \ {"ConnPrepared"}, !.repeats = 0, !.remote = remote]
    OBVIOUS
  <2>5. Tame(sockets[Client], l) /\ l.bits \subseteq sockets[Client].bits
    BY <2>3, <2>4 DEF Tame, TcpSocket
  <2>6. PICK g : g = With(h, Client, l)
    OBVIOUS
  <2>7. HostOK(g, W, a) /\ g.sock[Client] = l
    BY <2>1, <2>3, <2>5, <2>6, TameHost
  <2>8. l.state # "FREE" /\ "PassQueued" \notin l.bits /\ "PassAccept" \notin l.bits /\ l.state \in TcpStates
    BY <2>3, <2>5 DEF Tame, TcpSocket
  <2>9. PICK m : m = Touched([l EXCEPT !.state = "CONNECT_SYN"])
    OBVIOUS
  <2>10. /\ m \in TcpSocket /\ m.state = "CONNECT_SYN" /\ m.bits = l.bits /\ m.peer = l.peer /\ m.timer = l.timer
         /\ m.events = l.events /\ m.group = l.group
    <3>1. PICK n : n = [l EXCEPT !.state = "CONNECT_SYN"]
      OBVIOUS
    <3>2. /\ n \in TcpSocket /\ n.state = "CONNECT_SYN" /\ n.bits = l.bits /\ n.peer = l.peer /\ n.timer = l.timer
          /\ n.events = l.events /\ n.group = l.group
      BY <2>5, <3>1 DEF Tame, TcpSocket, TcpStates
    <3> QED BY <2>9, <3>1, <3>2 DEF TcpSocket, Touched
  <2>11. Moves(g, W, a, Client, l, m)
    <3>1. SocketOK(Client, m) /\ ClosingOK(m)
      BY <2>3, <2>8, <2>10, SocketsAre DEF SocketOK, ClosingOK
    <3>2. g.sock[Listener].peer # Client
      <4>1. "PassAccept" \notin g.sock[Client].bits
        BY <2>7, <2>8
      <4> QED BY <2>7, <4>1, SocketsAre DEF HostOK, OfferOK
    <3> QED BY <2>8, <2>10, <3>1, <3>2 DEF Moves
  <2>12. HostOK(With(g, Client, m), W, a)
    BY <2>3, <2>7, <2>11, MovesKeeps
  <2>13. IsHost(StateChange(g, Client, "CONNECT_SYN"))
    BY <2>1, <2>4, <2>6 DEF Connect
  <2>14. StateChange(g, Client, "CONNECT_SYN") = With(g, Client, m)
    <3>1. ~NowConnected(l.state) /\ ~NowConnected("CONNECT_SYN")
      BY <2>1, <2>5 DEF NowConnected, AtLeastEstablished, Connect, Tame
    <3> QED BY <2>7, <2>9, <3>1 DEF StateChange
  <2> QED BY <2>12, <2>13, <2>14, HostBecomes
<1>3. PICK at \in DataPlaces \ {"shutdown"} : at = "connect, timer"
  BY DEF DataPlaces
<1> QED BY <1>1, <1>2, <1>3, Calls

(* FreeRTOS_accept takes the client that the listener refers to.           *)
LEMMA TakeClientInv ==
  ASSUME ConnectionInv, NEW t \in {Acceptor, Caller}, TakeClient(t)
  PROVE  ConnectionInv'
<1>0. UsersOK /\ users[t] \in UserRecord /\ UserOK(t, users[t])
  BY UserIs DEF ConnectionInv
<1>1. users[t].at = "accept" /\ t = Acceptor /\ users[t].on = Listener
  BY <1>0 DEF TakeClient, At, UserOK
<1>2. PICK a \in BOOLEAN : (a <=> At(Acceptor, "ask")) /\ Sound(Owned, a)
  BY DEF ConnectionInv
<1>3. PICK W : W = Owned
  OBVIOUS
<1>4. PICK h : h = Host /\ HostOK(h, W, a) /\ h.sock = sockets /\ h.queue = ipQueue /\ sockets \in [Sockets -> TcpSocket]
  BY <1>2, <1>3, HostIs
<1>5. PICK k : k = sockets[Listener]
  OBVIOUS
<1>6. k \in TcpSocket /\ SocketOK(Listener, k) /\ OfferOK(h.queue, h.sock, a) /\ Listener \in Sockets
  BY <1>4, <1>5, SocketsAre DEF HostOK
<1>7. CASE k.peer = NoSocket
  <2>1. {s \in Sockets : s = k.peer /\ "PassAccept" \in sockets[s].bits} = {}
    BY <1>7, SocketsAre
  <2>2. Continue(t, "in accept") /\ UNCHANGED ipQueue
    BY <1>5, <2>1 DEF TakeClient
  <2>3. UNCHANGED sockets
    <3>1. [k EXCEPT !.peer = NoSocket] = k
      BY <1>6, <1>7 DEF TcpSocket
    <3>2. sockets' = [s \in Sockets |-> IF s = Listener THEN k ELSE sockets[s]]
      BY <1>5, <2>1, <3>1 DEF TakeClient
    <3> QED BY <1>4, <1>5, <3>2
  <2>4. \A V : \A b \in BOOLEAN : Sound(V, b) /\ OwnedBy(users[t]) \subseteq V => Sound(V, b)'
    BY <2>2, <2>3, KeptFor
  <2>5. PICK u : u = [users[t] EXCEPT !.at = "in accept"]
    OBVIOUS
  <2>6. users' = [users EXCEPT ![t] = u]
    BY <1>0, <2>2, <2>5, ContinueIs
  <2>7. u \in UserRecord /\ u.holds = users[t].holds /\ u.at = "in accept" /\ u.on = users[t].on /\ u.read = users[t].read
    BY <1>0, <2>5 DEF UserRecord
  <2>8. UserOK(t, u)
    BY <1>0, <1>1, <2>7 DEF UserOK, DataPlaces
  <2>9. users[t].at # "ask"
    BY <1>1
  <2> QED BY <2>4, <2>6, <2>7, <2>8, <2>9, SameOwners
<1>8. CASE k.peer # NoSocket
  <2>1. PICK s \in Sockets : s = k.peer
    BY <1>4, <1>5, <1>6, <1>8 DEF OfferOK
  <2>2. "PassAccept" \in sockets[s].bits /\ s \in Children /\ s # Listener
    <3>1. "PassAccept" \in sockets[s].bits
      BY <1>4, <1>5, <1>6, <1>8, <2>1 DEF OfferOK
    <3>2. SocketOK(s, sockets[s])
      BY <1>4 DEF HostOK
    <3> QED BY <3>1, <3>2, SocketsAre DEF SocketOK
  <2>3. {v \in Sockets : v = k.peer /\ "PassAccept" \in sockets[v].bits} = {s}
    BY <2>1, <2>2
  <2>4. users' = [users EXCEPT ![t].at = "ask", ![t].on = s] /\ UNCHANGED ipQueue
    BY <1>5, <2>1, <2>3 DEF TakeClient
  <2>5. PICK l : l = [k EXCEPT !.peer = NoSocket]
    OBVIOUS
  <2>6. PICK m : m = [sockets[s] EXCEPT !.bits = @ \ {"PassAccept"}]
    OBVIOUS
  <2>7. PICK b \in BOOLEAN : b
    OBVIOUS
  <2>8. /\ l \in TcpSocket /\ l.peer = NoSocket /\ l.state = k.state /\ l.children = k.children /\ l.bits = k.bits
        /\ l.remote = k.remote /\ l.timer = k.timer
    BY <1>6, <2>5 DEF TcpSocket
  <2>9. Offers(h, a, b, h.sock[Listener], l)
    <3>1. SocketOK(Listener, l) /\ l.state # "FREE"
      BY <1>6, <2>8, SocketsAre DEF SocketOK
    <3> QED BY <1>4, <1>5, <2>7, <2>8, <3>1 DEF Offers
  <2>10. PICK g : g = With(h, Listener, l)
    OBVIOUS
  <2>11. /\ HostOK(g, W, b) /\ g.queue = h.queue /\ g.sock[Listener] = l
         /\ \A v \in Sockets \ {Listener} : g.sock[v] = h.sock[v]
    BY <1>4, <2>9, <2>10, OffersKeeps
  <2>12. g.sock[s] = sockets[s] /\ sockets[s] \in TcpSocket /\ SocketOK(s, sockets[s])
    BY <1>4, <2>2, <2>11 DEF HostOK
  <2>13. NotClosing(g.queue, s) /\ s \notin W
    <3>1. "PassAccept" \in g.sock[s].bits
      BY <2>2, <2>12
    <3>2. NotClosing(g.queue, s)
      BY <2>11, <3>1, QueuedNotClosing
    <3> QED BY <1>4, <2>2, <3>2 DEF HostOK, OwnedOK
  <2>14. m \in TcpSocket /\ m.state = sockets[s].state /\ m.bits = sockets[s].bits \ {"PassAccept"} /\ m.peer = sockets[s].peer
         /\ m.state # "FREE" /\ "PassQueued" \notin m.bits
    BY <2>2, <2>6, <2>12 DEF TcpSocket, SocketOK, AtLeastEstablished
  <2>15. Moves(g, W, b, s, g.sock[s], m)
    <3>1. SocketOK(s, m)
      BY <2>2, <2>12, <2>14 DEF SocketOK
    <3>2. g.sock[Listener].peer # s
      BY <2>8, <2>11, SocketsAre
    <3> QED BY <2>2, <2>12, <2>13, <2>14, <3>1, <3>2 DEF Moves
  <2>16. PICK f : f = With(g, s, m)
    OBVIOUS
  <2>17. HostOK(f, W, b) /\ f.queue = g.queue /\ f.sock[s] = m /\ \A v \in Sockets \ {s} : f.sock[v] = g.sock[v]
    BY <2>2, <2>11, <2>15, <2>16, MovesKeeps
  <2>18. PICK V : V = W \cup {s}
    OBVIOUS
  <2>19. HostOK(f, V, b)
    <3>1. f.sock[s].state # "FREE" /\ "PassQueued" \notin f.sock[s].bits /\ "PassAccept" \notin f.sock[s].bits /\ NotClosing(f.queue, s)
      BY <2>13, <2>14, <2>17
    <3>2. V \subseteq W \cup {s} /\ s \in Sockets \ {Listener}
      BY <2>2, <2>18
    <3> QED BY <2>17, <3>1, <3>2, OwnedChanges
  <2>20. IsHost(f)
    <3>1. sockets' = [v \in Sockets |-> IF v = Listener THEN l ELSE IF v = s THEN m ELSE sockets[v]]
      <4>1. sockets' = [v \in Sockets |->
               IF v = Listener THEN [sockets[v] EXCEPT !.peer = NoSocket]
               ELSE IF v \in {s} THEN [sockets[v] EXCEPT !.bits = @ \ {"PassAccept"}] ELSE sockets[v]]
        BY <1>5, <2>3 DEF TakeClient
      <4> QED BY <1>5, <2>5, <2>6, <4>1
    <3>2. f.sock \in [Sockets -> TcpSocket]
      BY <2>17 DEF HostOK, HostRecord
    <3>3. \A v \in Sockets : f.sock[v] = IF v = Listener THEN l ELSE IF v = s THEN m ELSE sockets[v]
      BY <1>4, <2>2, <2>11, <2>17
    <3>4. sockets' = f.sock
      BY <3>1, <3>2, <3>3
    <3> QED BY <1>4, <2>4, <2>11, <2>17, <3>4 DEF IsHost
  <2>21. Sound(V, b)'
    BY <2>19, <2>20, HostBecomes
  <2>22. PICK u : u = [users[t] EXCEPT !.at = "ask", !.on = s]
    OBVIOUS
  <2>23. users' = [users EXCEPT ![t] = u]
    BY <1>0, <2>4, <2>22 DEF UsersOK, UserRecord
  <2>24. u \in UserRecord /\ u.holds = users[t].holds /\ u.at = "ask" /\ u.on = s /\ u.read = users[t].read
    BY <1>0, <2>22 DEF UserRecord
  <2>25. UserOK(t, u)
    BY <1>0, <1>1, <2>2, <2>24 DEF UserOK, DataPlaces
  <2>26. users' \in [{Acceptor, Caller} -> UserRecord] /\ users'[Acceptor] = u /\ users'[Caller] = users[Caller]
    BY <1>0, <1>1, <2>23, <2>24, SocketsAre DEF UsersOK
  <2>27. UsersOK'
    <3>1. \A v \in {Acceptor, Caller} : UserOK(v, users'[v])
      BY <1>0, <1>1, <2>25, <2>26 DEF UsersOK
    <3> QED BY <2>26, <3>1 DEF UsersOK, UserOK, UserRecord
  <2>28. Owned' = V
    <3>1. OwnedBy(u) = OwnedBy(users[Acceptor]) \cup {s}
      BY <1>1, <2>24 DEF OwnedBy
    <3>2. Owned' = OwnedBy(users'[Acceptor]) \cup OwnedBy(users'[Caller])
      BY DEF Owned, OwnedBy
    <3> QED BY <1>3, <2>18, <2>26, <3>1, <3>2 DEF Owned
  <2>29. (b <=> At(Acceptor, "ask"))'
    BY <2>7, <2>24, <2>26 DEF At
  <2>30. Sound(Owned, b)'
    BY <2>21, <2>28 DEF Sound
  <2> QED BY <2>27, <2>29, <2>30 DEF ConnectionInv
<1> QED BY <1>7, <1>8

LEMMA AskForNextInv ==
  ASSUME ConnectionInv, NEW t \in {Acceptor, Caller}, AskForNext(t)
  PROVE  ConnectionInv'
<1>0. UsersOK /\ users[t] \in UserRecord /\ UserOK(t, users[t])
  BY UserIs DEF ConnectionInv
<1>1. users[t].at = "ask" /\ t = Acceptor /\ users[t].on \in Children
  BY <1>0 DEF AskForNext, At, UserOK
<1>2. PICK a \in BOOLEAN : (a <=> At(Acceptor, "ask")) /\ Sound(Owned, a)
  BY DEF ConnectionInv
<1>3. PICK W : W = Owned
  OBVIOUS
<1>4. PICK h : h = Host /\ HostOK(h, W, a) /\ h.sock = sockets /\ h.queue = ipQueue
  BY <1>2, <1>3, HostIs
<1>5. PICK b \in BOOLEAN : ~b
  OBVIOUS
<1>6. HostOK(Asked(h), W, b)
  BY <1>4, AskedKeeps
<1>7. IsHost(Asked(h))
  <2>1. h \in HostRecord
    BY <1>4 DEF HostOK
  <2>2. Asked(h).sock = h.sock /\ Asked(h).queue = Append(h.queue, <<"accept", Listener>>)
    BY <2>1 DEF Asked, HostRecord
  <2> QED BY <1>4, <2>2 DEF IsHost, AskForNext
<1>8. Sound(W, b)'
  BY <1>6, <1>7, HostBecomes
<1>9. PICK u : u = [users[t] EXCEPT !.at = "idle", !.holds = @ \cup {users[t].on}]
  OBVIOUS
<1>10. users' = [users EXCEPT ![t] = u]
  BY <1>0, <1>9 DEF AskForNext, UsersOK, UserRecord
<1>11. u \in UserRecord /\ u.holds = users[t].holds \cup {users[t].on} /\ u.at = "idle" /\ u.on = users[t].on /\ u.read = users[t].read
  BY <1>0, <1>1, <1>9, SocketsAre DEF UserRecord
<1>12. UserOK(t, u)
  BY <1>0, <1>1, <1>11 DEF UserOK, DataPlaces
<1>13. users' \in [{Acceptor, Caller} -> UserRecord] /\ users'[Acceptor] = u /\ users'[Caller] = users[Caller]
  BY <1>0, <1>1, <1>10, <1>11, SocketsAre DEF UsersOK
<1>14. UsersOK'
  <2>1. \A v \in {Acceptor, Caller} : UserOK(v, users'[v])
    BY <1>0, <1>1, <1>12, <1>13 DEF UsersOK
  <2> QED BY <1>13, <2>1 DEF UsersOK, UserOK, UserRecord
<1>15. Owned' = W
  <2>1. OwnedBy(u) = OwnedBy(users[Acceptor])
    BY <1>1, <1>11, SocketsAre DEF OwnedBy
  <2>2. Owned' = OwnedBy(users'[Acceptor]) \cup OwnedBy(users'[Caller])
    BY DEF Owned, OwnedBy
  <2> QED BY <1>3, <1>13, <2>1, <2>2 DEF Owned
<1>16. (b <=> At(Acceptor, "ask"))'
  BY <1>5, <1>11, <1>13 DEF At
<1>17. Sound(Owned, b)'
  BY <1>8, <1>15 DEF Sound
<1> QED BY <1>14, <1>16, <1>17 DEF ConnectionInv

LEMMA CloseSocketInv ==
  ASSUME ConnectionInv, ~ListenerCloses, NEW t \in {Acceptor, Caller}, NEW s \in Sockets, CloseSocket(t, s)
  PROVE  ConnectionInv'
<1>0. UsersOK /\ users[t] \in UserRecord /\ UserOK(t, users[t])
  BY UserIs DEF ConnectionInv
<1>1. /\ users[t].at = "idle" /\ s \in users[t].holds /\ s # Listener /\ Len(ipQueue) < EventQueueLength
      /\ ipQueue' = Append(ipQueue, <<"close", s>>) /\ UNCHANGED sockets
  BY DEF CloseSocket, Idle
<1>2. PICK a \in BOOLEAN : (a <=> At(Acceptor, "ask")) /\ Sound(Owned, a)
  BY DEF ConnectionInv
<1>3. PICK W : W = Owned
  OBVIOUS
<1>4. PICK h : h = Host /\ HostOK(h, W, a) /\ h.sock = sockets /\ h.queue = ipQueue
  BY <1>2, <1>3, HostIs
<1>5. PICK V : V = W \ {s}
  OBVIOUS
<1>6. s \in W
  BY <1>1, <1>3 DEF Owned, OwnedBy
<1>7. /\ sockets[s].state # "FREE" /\ "PassQueued" \notin sockets[s].bits /\ "PassAccept" \notin sockets[s].bits
  BY <1>2, <1>3, <1>6, OwnedSocket
<1>8. NotClosing(h.queue, s)
  <2> SUFFICES ASSUME NEW i \in 1 .. Len(h.queue), h.queue[i] = <<"close", s>> PROVE FALSE
    BY DEF NotClosing
  <2>1. h.queue[i][1] = "close" /\ h.queue[i][2] = s
    OBVIOUS
  <2> QED BY <1>4, <1>6, <2>1 DEF HostOK, ClosingsOK
<1>9. HostOK(h, V, a)
  BY <1>1, <1>4, <1>5, <1>7, OwnedChanges
<1>10. HostOK(Posted(h, <<"close", s>>), V, a) /\ Posted(h, <<"close", s>>).sock = h.sock
  <2>1. ClosingOK(h.sock[s]) /\ s \notin V
    BY <1>4, <1>5, <1>7 DEF ClosingOK
  <2> QED BY <1>1, <1>8, <1>9, <2>1, PostedKeeps
<1>11. IsHost(Posted(h, <<"close", s>>))
  <2>1. h \in HostRecord
    BY <1>4 DEF HostOK
  <2>2. Posted(h, <<"close", s>>).queue = Append(h.queue, <<"close", s>>)
    BY <1>1, <1>4, <2>1 DEF Posted, HostRecord
  <2> QED BY <1>1, <1>4, <1>10, <2>2 DEF IsHost
<1>12. Sound(V, a)'
  <2>1. PICK g : g = Posted(h, <<"close", s>>)
    OBVIOUS
  <2> QED BY <1>10, <1>11, <2>1, HostBecomes
<1>13. PICK u : u = [users[t] EXCEPT !.holds = @ \ {s}, !.on = NoSocket]
  OBVIOUS
<1>14. users' = [users EXCEPT ![t] = u]
  BY <1>0, <1>13 DEF CloseSocket, UsersOK, UserRecord
<1>15. u \in UserRecord /\ u.holds = users[t].holds \ {s} /\ u.at = "idle" /\ u.on = NoSocket /\ u.read = users[t].read
  BY <1>0, <1>1, <1>13 DEF UserRecord
<1>16. UserOK(t, u)
  BY <1>0, <1>15 DEF UserOK, DataPlaces
<1>17. users' \in [{Acceptor, Caller} -> UserRecord] /\ \A v \in {Acceptor, Caller} : users'[v] = IF v = t THEN u ELSE users[v]
  BY <1>0, <1>14, <1>15 DEF UsersOK
<1>18. UsersOK'
  <2>1. \A v \in {Acceptor, Caller} : UserOK(v, users'[v])
    BY <1>0, <1>16, <1>17 DEF UsersOK
  <2> QED BY <1>17, <2>1 DEF UsersOK, UserOK, UserRecord
<1>19. Owned' = V
  <2>1. OwnedBy(u) = OwnedBy(users[t]) \ {s}
    BY <1>1, <1>15 DEF OwnedBy
  <2>2. ASSUME NEW v \in {Acceptor, Caller}, v # t PROVE s \notin OwnedBy(users[v])
    <3>1. UserOK(v, users[v])
      BY <1>0 DEF UsersOK
    <3>2. CASE t = Acceptor
      <4>1. s \in Children /\ v = Caller /\ v # Acceptor
        BY <1>0, <1>1, <2>2, <3>2, SocketsAre DEF UserOK
      <4>2. users[v].holds \subseteq {Client} /\ users[v].at # "ask"
        BY <3>1, <4>1 DEF UserOK
      <4> QED BY <4>1, <4>2, SocketsAre DEF OwnedBy
    <3>3. CASE t # Acceptor
      <4>1. s = Client /\ v = Acceptor
        BY <1>0, <1>1, <2>2, <3>3 DEF UserOK
      <4>2. users[v].holds \subseteq {Listener} \cup Children /\ (users[v].at = "ask" => users[v].on \in Children)
        BY <3>1, <4>1 DEF UserOK
      <4> QED BY <4>1, <4>2, SocketsAre DEF OwnedBy
    <3> QED BY <3>2, <3>3
  <2>3. \A v \in {Acceptor, Caller} : OwnedBy(users'[v]) = OwnedBy(users[v]) \ {s}
    BY <1>17, <2>1, <2>2
  <2>4. Owned' = OwnedBy(users'[Acceptor]) \cup OwnedBy(users'[Caller])
    BY DEF Owned, OwnedBy
  <2> QED BY <1>3, <1>5, <2>3, <2>4 DEF Owned
<1>20. (a <=> At(Acceptor, "ask"))'
  BY <1>1, <1>2, <1>15, <1>17 DEF At
<1>21. Sound(Owned, a)'
  BY <1>12, <1>19 DEF Sound
<1> QED BY <1>18, <1>20, <1>21 DEF ConnectionInv

LEMMA NewSocketIs ==
  /\ NewSocket \in TcpSocket /\ NewSocket.state = "CLOSED" /\ NewSocket.bits = {} /\ NewSocket.remote = NoSocket
  /\ NewSocket.timer = FALSE /\ NewSocket.peer = NoSocket /\ NewSocket.children = 0
  BY DEF NewSocket, TcpSocket, TcpStates

LEMMA ConnectionInitInv ==
  ASSUME ConnectionInit
  PROVE  ConnectionInv
<1> DEFINE f == [s \in Sockets |-> IF s \in Children THEN NotASocket ELSE NewSocket]
           h == [sock |-> f, queue |-> <<>>]
<1>1. Host = h
  BY DEF ConnectionInit, Host
<1>2. f \in [Sockets -> TcpSocket] /\ f[Listener] = NewSocket /\ f[Client] = NewSocket /\ \A s \in Children : f[s] = NotASocket
  BY NotASocketIs, NewSocketIs, SocketsAre
<1>3. h \in HostRecord /\ h.sock = f /\ h.queue = <<>> /\ Len(h.queue) = 0
  BY <1>2 DEF HostRecord
<1> HIDE DEF f, h
<1>4. PICK working \in SUBSET {Acceptor, Caller} :
        users = [t \in {Acceptor, Caller} |-> [at |-> "idle", on |-> NoSocket, read |-> {},
                   holds |-> IF t \notin working THEN {} ELSE IF t = Acceptor THEN {Listener} ELSE {Client}]]
  BY DEF ConnectionInit
<1>5. UsersOK
  <2>1. ASSUME NEW t \in {Acceptor, Caller}
        PROVE  UserOK(t, users[t])
    <3>1. users[t] = [at |-> "idle", on |-> NoSocket, read |-> {},
                      holds |-> IF t \notin working THEN {} ELSE IF t = Acceptor THEN {Listener} ELSE {Client}]
      BY <1>4
    <3>2. users[t] \in UserRecord
      BY <3>1, SocketsAre DEF UserRecord
    <3>3. users[t].at = "idle"
      BY <3>1
    <3> QED BY <3>1, <3>2, <3>3 DEF UserOK, DataPlaces
  <2>2. users \in [{Acceptor, Caller} -> UserRecord]
    <3>1. \A t \in {Acceptor, Caller} : users[t] \in UserRecord
      BY <2>1 DEF UserOK
    <3>2. DOMAIN users = {Acceptor, Caller} /\ users = [t \in {Acceptor, Caller} |-> users[t]]
      BY <1>4
    <3> QED BY ONLY <3>1, <3>2
  <2> QED BY <2>1, <2>2 DEF UsersOK
<1>6. PICK W : W = Owned
  OBVIOUS
<1>7. W \subseteq {Client}
  <2>1. \A t \in {Acceptor, Caller} : OwnedBy(users[t]) \subseteq {Client}
    <3>1. \A t \in {Acceptor, Caller} : users[t].at = "idle" /\ users[t].holds \subseteq {Listener, Client}
      BY <1>4
    <3> QED BY <3>1 DEF OwnedBy
  <2> QED BY <1>6, <2>1 DEF Owned
<1>8. PICK a \in BOOLEAN : ~a
  OBVIOUS
<1>9. HostOK(h, W, a)
  <2>1. \A s \in Sockets : SocketOK(s, f[s])
    BY <1>2, NotASocketIs, NewSocketIs, SocketsAre DEF SocketOK
  <2>2. ClosingsOK(h.queue, h.sock, W)
    BY <1>3 DEF ClosingsOK
  <2>3. OwnedOK(f, W)
    BY <1>2, <1>7, NewSocketIs, SocketsAre DEF OwnedOK
  <2>4. CountOK(f)
    <3>1. Living(f) = {}
      BY <1>2, NotASocketIs DEF Living
    <3>2. Cardinality(Living(f)) = 0
      BY <3>1, FS_EmptySet
    <3> QED BY <1>2, <3>1, <3>2, NewSocketIs, ConnectionAssumption DEF CountOK
  <2>5. OfferOK(h.queue, f, a)
    <3>1. \A s \in Sockets : "PassAccept" \notin f[s].bits
      BY <1>2, NotASocketIs, NewSocketIs, SocketsAre
    <3> QED BY <1>2, <3>1, NewSocketIs DEF OfferOK
  <2> QED BY <1>3, <2>1, <2>2, <2>3, <2>4, <2>5 DEF HostOK
<1>10. Sound(Owned, a)
  BY <1>1, <1>6, <1>9 DEF Sound
<1>11. a <=> At(Acceptor, "ask")
  BY <1>4, <1>8 DEF At
<1> QED BY <1>5, <1>10, <1>11 DEF ConnectionInv

LEMMA ConnectionStep ==
  ASSUME ConnectionInv, ~ListenerCloses, [ConnectionNext]_connectionVars
  PROVE  ConnectionInv'
<1>1. ASSUME NEW remote \in Remotes, NEW p, ReceiveSyn(remote, p) PROVE ConnectionInv'
  <2>1. \A W : \A a \in BOOLEAN : Sound(W, a) => Sound(W, a)'
    BY <1>1, ReceiveSynSound
  <2> QED BY <1>1, <2>1, IpSteps DEF ReceiveSyn
<1>2. ASSUME NEW port \in {Listener, Client}, NEW remote \in Remotes, NEW p, ReceivePacket(port, remote, p) PROVE ConnectionInv'
  <2>1. \A W : \A a \in BOOLEAN : Sound(W, a) => Sound(W, a)'
    BY <1>2, ReceivePacketSound
  <2> QED BY <1>2, <2>1, IpSteps DEF ReceivePacket
<1>3. ASSUME NEW s \in Sockets, TimePasses(s) PROVE ConnectionInv'
  <2>1. \A W : \A a \in BOOLEAN : Sound(W, a) => Sound(W, a)'
    BY <1>3, TimePassesSound
  <2> QED BY <1>3, <2>1, IpSteps DEF TimePasses
<1>4. ASSUME NEW s \in Sockets, NEW sleep \in BOOLEAN, TimerCheck(s, sleep) PROVE ConnectionInv'
  <2>1. \A W : \A a \in BOOLEAN : Sound(W, a) => Sound(W, a)'
    BY <1>4, TimerCheckSound
  <2>2. UNCHANGED users
    BY <1>4 DEF TimerCheck
  <2> QED BY <2>1, <2>2, IpSteps
<1>5. ASSUME HandleClose PROVE ConnectionInv'
  <2>1. \A W : \A a \in BOOLEAN : Sound(W, a) => Sound(W, a)'
    BY <1>5, HandleCloseSound
  <2> QED BY <1>5, <2>1, IpSteps DEF HandleClose
<1>6. ASSUME CheckNewClient PROVE ConnectionInv'
  <2>1. \A W : \A a \in BOOLEAN : Sound(W, a) => Sound(W, a)'
    BY <1>6, CheckNewClientSound
  <2> QED BY <1>6, <2>1, IpSteps DEF CheckNewClient
<1>7. ASSUME NEW t \in {Acceptor, Caller}, UserStep(t) PROVE ConnectionInv'
  BY <1>7, ListenInv, AcceptInv, TakeClientInv, AskForNextInv, ConnectInv, SetTimeoutInv, CheckInv, TakeDataInv,
     StoreShutdownInv, WriteDataInv, BeginsInv, ShutdownInv, CloseSocketInv, WakesUpInv DEF UserStep
<1>8. ASSUME UNCHANGED connectionVars PROVE ConnectionInv'
  <2>1. UNCHANGED <<sockets, ipQueue>> /\ UNCHANGED users
    BY <1>8 DEF connectionVars
  <2>2. \A W : \A a \in BOOLEAN : Sound(W, a) => Sound(W, a)'
    BY <2>1, HostKept
  <2> QED BY <2>1, <2>2, IpSteps
<1>9. ASSUME ConnectionNext PROVE ConnectionInv'
  BY <1>1, <1>2, <1>3, <1>4, <1>5, <1>6, <1>7, <1>9 DEF ConnectionNext
<1> QED BY <1>8, <1>9

LEMMA InvAccounts ==
  ASSUME ConnectionInv
  PROVE  ClientsAccountedFor
<1>1. PICK a \in BOOLEAN : (a <=> At(Acceptor, "ask")) /\ Sound(Owned, a)
  BY DEF ConnectionInv
<1>2. PICK W : W = Owned
  OBVIOUS
<1>3. PICK h : /\ h = Host /\ HostOK(h, W, a) /\ h.sock = sockets /\ h.queue = ipQueue
               /\ sockets \in [Sockets -> TcpSocket] /\ ipQueue \in Seq(SocketRequests)
  BY <1>1, <1>2, HostIs
<1>4. {s \in Children : Exists(s)} = Living(sockets)
  BY DEF Living, Exists
<1>5. CountOK(sockets) /\ OfferOK(ipQueue, sockets, a)
  BY <1>3 DEF HostOK
<1>6. \A s \in Sockets : "PassAccept" \in sockets[s].bits => Port(s) = Listener
  <2>1. \A s \in Sockets : SocketOK(s, sockets[s])
    BY <1>3 DEF HostOK
  <2> QED BY <2>1, SocketsAre DEF SocketOK
<1>7. DOMAIN ipQueue = 1 .. Len(ipQueue)
  BY <1>3
<1>8. sockets[Listener].peer # NoSocket => sockets[Listener].peer \in Acceptable
  BY <1>5, <1>6 DEF OfferOK, Acceptable
<1>9. Acceptable # {} => sockets[Listener].peer # NoSocket \/ Queued(<<"accept", Listener>>) \/ At(Acceptor, "ask")
  BY <1>1, <1>5, <1>7 DEF OfferOK, Acceptable, Queued
<1> QED BY <1>4, <1>5, <1>8, <1>9 DEF ClientsAccountedFor, CountOK

(* The clients of a listening socket, for every number of sockets, tasks,  *)
(* packets, length of the queue and backlog: the listener counts exactly   *)
(* the sockets made for its clients, never more than the backlog, what it  *)
(* offers can be accepted, and a client that can be accepted is offered or *)
(* asked for, as long as the listener is not closed (prvTCPSocketCopy,     *)
(* prvTCPSetSocketCount, vTCPStateChange, FreeRTOS_accept,                 *)
(* vSocketClose).                                                          *)
THEOREM ClientsStayAccountedFor ==
  ASSUME ~ListenerCloses
  PROVE  ConnectionSpec => []ClientsAccountedFor
<1>1. ConnectionInit => ConnectionInv
  BY ConnectionInitInv
<1>2. ConnectionInv /\ [ConnectionNext]_connectionVars => ConnectionInv'
  BY ConnectionStep
<1>3. ConnectionInv => ClientsAccountedFor
  BY InvAccounts
<1> QED BY <1>1, <1>2, <1>3, PTL DEF ConnectionSpec

(***************************************************************************)
(* Nobody sleeps over what happened.                                       *)
(***************************************************************************)
(* A task that is about to give a socket that connects its time.           *)
Connecting(us, s) == \E t \in {Acceptor, Caller} : us[t].at = "connect, timer" /\ us[t].on = s

(* The IP task will look at a socket that has something to do or to tell.  *)
Attended(us, s, k) == k.state = "FREE" \/ (~Active(k.state) /\ k.events = {}) \/ k.timer \/ Connecting(us, s)

Held(s, k) == k.state \in Settled \/ (s = Client /\ k.state = "CONNECT_SYN")

(* What a user waits for, or is about to, is told when it is there.        *)
WaitOK(u, k) ==
  /\ u.at = "in accept" => k.peer = NoSocket \/ "ACCEPT" \in Word(k)
  /\ u.at = "in connect" /\ NowConnected(k.state) => "CONNECT" \in Word(k)
  /\ u.at \in {"recv", "recv, state", "in recv"} => k.state \in Settled
  /\ u.at \in {"recv, state", "in recv"} /\ k.received => "RECEIVE" \in Word(k)
  /\ u.at = "in recv" => NowConnected(k.state) \/ "CLOSED" \in Word(k)
  /\ u.at = "in send" => k.unacked \/ "SEND" \in Word(k)

AttentionOK(f, us) ==
  /\ f[Listener].events = {}
  /\ \A s \in Sockets \ {Listener} : Attended(us, s, f[s])
  /\ \A t \in {Acceptor, Caller} : (\A s \in OwnedBy(us[t]) : Held(s, f[s])) /\ WaitOK(us[t], f[us[t].on])

AttentionInv == AttentionOK(sockets, users)

(* The places where WaitOK says something.                                 *)
LEMMA WaitsNowhere ==
  ASSUME NEW u, u.at \notin {"in accept", "in connect", "recv", "recv, state", "in recv", "in send"}, NEW k
  PROVE  WaitOK(u, k)
  BY DEF WaitOK

LEMMA ToldWaits ==
  ASSUME NEW u, u.at # "in accept", NEW k, NEW l, k.state # "FREE", ~Pending(k), Told(k, l), WaitOK(u, k)
  PROVE  WaitOK(u, l)
  BY DEF WaitOK, Told

LEMMA HeardWaits ==
  ASSUME NEW u, u.at = "in accept", NEW k, NEW l, Heard(k, l), WaitOK(u, k)
  PROVE  WaitOK(u, l)
  BY DEF WaitOK, Heard

(* The sockets of the two users are not the same.                          *)
Mine(t, s) == s \in Sockets /\ (t = Acceptor <=> s # Client)

LEMMA OwnedIsMine ==
  ASSUME UsersOK, NEW t \in {Acceptor, Caller}
  PROVE  /\ \A s \in OwnedBy(users[t]) : Mine(t, s)
         /\ users[t].at \in DataPlaces => users[t].on \in OwnedBy(users[t])
         /\ users[t].at = "in accept" => t = Acceptor /\ users[t].on = Listener
<1>1. UserOK(t, users[t]) /\ users[t] \in UserRecord
  BY UserIs
<1>2. users[t].holds \subseteq Sockets
  BY <1>1 DEF UserRecord
<1>3. ASSUME NEW s \in OwnedBy(users[t]) PROVE Mine(t, s)
  <2>1. CASE t = Acceptor
    BY <1>1, <1>2, <1>3, <2>1, SocketsAre DEF UserOK, OwnedBy, Mine
  <2>2. CASE t # Acceptor
    BY <1>1, <1>2, <1>3, <2>2, SocketsAre DEF UserOK, OwnedBy, Mine
  <2> QED BY <2>1, <2>2
<1> QED BY <1>1, <1>3 DEF UserOK, OwnedBy

LEMMA InvOwns ==
  ASSUME ConnectionInv
  PROVE  /\ UsersOK /\ sockets \in [Sockets -> TcpSocket]
         /\ \A s \in Owned : s \in Sockets \ {Listener} /\ sockets[s].state # "FREE" /\ ~Pending(sockets[s])
         /\ \A s \in Sockets : SocketOK(s, sockets[s])
<1>1. PICK a \in BOOLEAN : Sound(Owned, a)
  BY DEF ConnectionInv
<1>2. PICK W : W = Owned
  OBVIOUS
<1>3. PICK h : h = Host /\ HostOK(h, W, a) /\ h.sock = sockets /\ sockets \in [Sockets -> TcpSocket]
  BY <1>1, <1>2, HostIs
<1> QED BY <1>2, <1>3 DEF ConnectionInv, HostOK, OwnedOK, Pending

(***************************************************************************)
(* The IP task works on one socket.                                        *)
(***************************************************************************)
LEMMA IpAttends ==
  ASSUME ConnectionInv, AttentionInv, UNCHANGED users, NEW s \in Sockets \ {Listener},
         \A u \in Sockets \ {s, Listener} : sockets'[u] = sockets[u],
         Heard(sockets[Listener], sockets'[Listener]),
         s \in Owned => Told(sockets[s], sockets'[s]),
         Attended(users, s, sockets'[s])
  PROVE  AttentionInv'
<1>1. /\ UsersOK /\ \A u \in Owned : u \in Sockets \ {Listener} /\ sockets[u].state # "FREE" /\ ~Pending(sockets[u])
  BY InvOwns
<1>2. AttentionOK(sockets, users)
  BY DEF AttentionInv
<1>3. sockets'[Listener].events = {}
  BY <1>2 DEF AttentionOK, Heard
<1>4. \A u \in Sockets \ {Listener} : Attended(users, u, sockets'[u])
  BY <1>2 DEF AttentionOK
<1>5. ASSUME NEW t \in {Acceptor, Caller}, NEW u \in OwnedBy(users[t])
      PROVE  Held(u, sockets'[u])
  <2>1. u \in Owned /\ Held(u, sockets[u])
    BY <1>2 DEF Owned, AttentionOK
  <2>2. CASE u = s
    BY <1>1, <2>1, <2>2 DEF Held, Told
  <2>3. CASE u # s
    BY <1>1, <2>1, <2>3
  <2> QED BY <2>2, <2>3
<1>6. ASSUME NEW t \in {Acceptor, Caller}
      PROVE  WaitOK(users[t], sockets'[users[t].on])
  <2>1. WaitOK(users[t], sockets[users[t].on])
    BY <1>2 DEF AttentionOK
  <2>2. CASE users[t].at = "in accept"
    <3>1. users[t].on = Listener
      BY <1>1, <2>2, OwnedIsMine
    <3> QED BY <2>1, <2>2, <3>1, HeardWaits
  <2>3. CASE users[t].at \in DataPlaces /\ users[t].at # "in accept"
    <3>1. users[t].on \in Owned
      BY <1>1, <2>3, OwnedIsMine DEF Owned
    <3>2. CASE users[t].on = s
      BY <1>1, <2>1, <2>3, <3>1, <3>2, ToldWaits
    <3>3. CASE users[t].on # s
      BY <1>1, <2>1, <3>1, <3>3
    <3> QED BY <3>2, <3>3
  <2>4. CASE users[t].at \notin DataPlaces /\ users[t].at # "in accept"
    BY <2>4, WaitsNowhere DEF DataPlaces
  <2> QED BY <2>2, <2>3, <2>4
<1>7. AttentionOK(sockets', users)
  BY <1>3, <1>4, <1>5, <1>6 DEF AttentionOK
<1>8. AttentionOK(sockets', users')
  BY <1>7
<1> QED BY <1>8 DEF AttentionInv, AttentionOK, Attended, Held, WaitOK, OwnedBy, Connecting, Word, Settled

(* What the IP task leaves of one socket when it has it looked at again.   *)
LEMMA SinceAttends ==
  ASSUME ConnectionInv, AttentionInv, UNCHANGED users, NEW h, h.sock = sockets, NEW g, g.sock = sockets',
         NEW s \in Sockets \ {Listener}, Since(h, g, s), Attended(users, s, g.sock[s])
  PROVE  AttentionInv'
  BY IpAttends DEF Since, Tells

LEMMA ReceiveSynAttends ==
  ASSUME ConnectionInv, AttentionInv, NEW remote \in Remotes, NEW p, ReceiveSyn(remote, p)
  PROVE  AttentionInv'
<1>0. PICK a \in BOOLEAN : Sound(Owned, a)
  BY DEF ConnectionInv
<1>1. PICK W : W = Owned
  OBVIOUS
<1>2. PICK h : h = Host /\ HostOK(h, W, a) /\ h.sock = sockets /\ h.queue = ipQueue
  BY <1>0, <1>1, HostIs
<1>3. PICK s \in Children : h.sock[s].state = "FREE" /\ IsHost(Accepted(HandleListen(h, s, remote), s, p, FALSE, FALSE))
  BY <1>2, SocketsAre DEF ReceiveSyn, Exists
<1>4. h.sock[Listener].state = "LISTEN" /\ h.sock[Listener].children < Backlog
  <2>1. Lookup(Listener, remote) = {Listener} /\ sockets[Listener].children < Backlog
    BY DEF ReceiveSyn
  <2>2. Listener \in Lookup(Listener, remote)
    BY <2>1
  <2>3. SocketOK(Listener, sockets[Listener])
    BY <1>2, SocketsAre DEF HostOK
  <2>4. sockets[Listener].state = "LISTEN"
    BY <2>2, <2>3, SocketsAre DEF Lookup, SocketOK
  <2> QED BY <1>2, <2>1, <2>4
<1>5. PICK g : g = HandleListen(h, s, remote)
  OBVIOUS
<1>6. Ready(h, g, W, a, s)
  BY <1>2, <1>3, <1>4, <1>5, HandleListenReady
<1>7. s \in Sockets \ {Listener}
  BY SocketsAre
<1>8. PICK c \in BOOLEAN : c = FALSE
  OBVIOUS
<1>9. PICK f : f = Accepted(g, s, p, c, c)
  OBVIOUS
<1>10. Since(h, f, s) /\ f.sock[s].timer
  BY <1>6, <1>7, <1>9, AcceptedReady DEF Ready
<1>11. f.sock = sockets'
  BY <1>3, <1>5, <1>8, <1>9 DEF IsHost
<1>12. Attended(users, s, f.sock[s])
  BY <1>10 DEF Attended
<1>13. UNCHANGED users
  BY DEF ReceiveSyn
<1> QED BY <1>2, <1>7, <1>10, <1>11, <1>12, <1>13, SinceAttends

LEMMA ReceivePacketAttends ==
  ASSUME ConnectionInv, AttentionInv, NEW port \in {Listener, Client}, NEW remote \in Remotes, NEW p, ReceivePacket(port, remote, p)
  PROVE  AttentionInv'
<1>0. PICK a \in BOOLEAN : Sound(Owned, a)
  BY DEF ConnectionInv
<1>1. PICK W : W = Owned
  OBVIOUS
<1>2. PICK h : h = Host /\ HostOK(h, W, a) /\ h.sock = sockets /\ h.queue = ipQueue
  BY <1>0, <1>1, HostIs
<1>3. PICK s \in Lookup(port, remote) :
        /\ sockets[s].state # "LISTEN" /\ Active(sockets[s].state)
        /\ \E g \in {Received(Host, s, p, buffer, idle) : buffer \in BufferChoices(s), idle \in Silences(s)} : IsHost(g)
  BY DEF ReceivePacket
<1>4. PICK buffer \in BufferChoices(s), idle \in Silences(s) : IsHost(Received(h, s, p, buffer, idle))
  BY <1>2, <1>3
<1>5. s \in Sockets /\ h.sock[s].state # "FREE"
  BY <1>2, <1>3, SocketsAre DEF Lookup
<1>6. s # Listener
  <2>1. SocketOK(Listener, sockets[Listener])
    BY <1>2, SocketsAre DEF HostOK
  <2> QED BY <1>3, <2>1 DEF SocketOK, Active
<1>7. Active(h.sock[s].state) /\ h.sock[s].state # "CLOSED"
  BY <1>2, <1>3 DEF Active
<1>8. Ready(h, h, W, a, s)
  BY <1>2, <1>5, <1>6, <1>7, ReadyWhenActive
<1>9. PICK g : g = Received(h, s, p, buffer, idle)
  OBVIOUS
<1>10. Since(h, g, s)
  BY <1>5, <1>6, <1>7, <1>8, <1>9, ReceivedKeeps
<1>11. Attended(users, s, g.sock[s])
  <2>1. Attended(users, s, h.sock[s])
    BY <1>2, <1>5, <1>6 DEF AttentionInv, AttentionOK
  <2> QED BY <1>5, <1>7, <1>10, <2>1 DEF Attended, Since, Tells
<1>12. g.sock = sockets' /\ UNCHANGED users
  BY <1>4, <1>9 DEF IsHost, ReceivePacket
<1> QED BY <1>2, <1>5, <1>6, <1>10, <1>11, <1>12, SinceAttends

(* vSocketWakeUpUser: what happened is told.                               *)
LEMMA WakeUpIs ==
  ASSUME NEW h, h \in HostRecord, NEW s \in Sockets
  PROVE  /\ \A u \in Sockets \ {s} : WakeUpUser(h, s).sock[u] = h.sock[u]
         /\ LET k == h.sock[s]
                l == WakeUpUser(h, s).sock[s]
            IN  /\ l.state = k.state /\ l.timer = k.timer /\ l.bits = k.bits /\ l.peer = k.peer
                /\ l.received = k.received /\ l.unacked = k.unacked /\ l.events = {} /\ Word(l) = Word(k)
<1>1. PICK l : l = [h.sock[s] EXCEPT !.group = @ \cup h.sock[s].events, !.events = {}]
  OBVIOUS
<1>2. h.sock[s] \in TcpSocket
  BY DEF HostRecord
<1>3. /\ l \in TcpSocket /\ l.state = h.sock[s].state /\ l.timer = h.sock[s].timer /\ l.bits = h.sock[s].bits /\ l.peer = h.sock[s].peer
      /\ l.received = h.sock[s].received /\ l.unacked = h.sock[s].unacked /\ l.events = {} /\ Word(l) = Word(h.sock[s])
  BY <1>1, <1>2 DEF TcpSocket, Word
<1>4. WakeUpUser(h, s) = With(h, s, l)
  BY <1>1 DEF WakeUpUser
<1> QED BY <1>3, <1>4, WithParts

(* For what is told only this counts.                                      *)
LEMMA ToldAlike ==
  ASSUME NEW k, NEW l, NEW m, Told(k, l),
         m.state = l.state /\ m.bits = l.bits /\ m.received = l.received /\ m.unacked = l.unacked /\ Word(m) = Word(l)
  PROVE  Told(k, m)
  BY DEF Told, Pending

LEMMA AlikeTold ==
  ASSUME NEW k, NEW l, NEW m, Told(k, l),
         m.state = k.state /\ m.bits = k.bits /\ m.received = k.received /\ m.unacked = k.unacked /\ Word(m) = Word(k)
  PROVE  Told(m, l)
  BY DEF Told, Pending

LEMMA HandleCloseAttends ==
  ASSUME ConnectionInv, AttentionInv, HandleClose
  PROVE  AttentionInv'
<1>0. PICK a \in BOOLEAN : Sound(Owned, a)
  BY DEF ConnectionInv
<1>1. PICK W : W = Owned
  OBVIOUS
<1>2. PICK h : h = Host /\ HostOK(h, W, a) /\ h.sock = sockets /\ h.queue = ipQueue
  BY <1>0, <1>1, HostIs
<1>3. PICK g : g = Taken(h)
  OBVIOUS
<1>4. h.queue # <<>> /\ Head(h.queue)[1] = "close" /\ IsHost(Closed(g, Head(h.queue)[2])) /\ UNCHANGED users
  BY <1>2, <1>3 DEF HandleClose, Taken
<1>5. HostOK(g, W, a) /\ g.sock = h.sock
  BY <1>2, <1>3, <1>4, TakenKeeps
<1>6. PICK s \in Sockets \ {Listener} : s = Head(h.queue)[2] /\ Closable(g, W, s)
  BY <1>2, <1>3, <1>4, ClosingHead
<1>7. PICK f : f = Closed(g, s)
  OBVIOUS
<1>8. f.sock[s] = NotASocket /\ \A u \in Sockets \ {s, Listener} : f.sock[u] = g.sock[u]
  BY <1>5, <1>6, <1>7, ClosedOthers
<1>9. Heard(g.sock[Listener], f.sock[Listener])
  BY <1>5, <1>6, <1>7, ClosedHeard
<1>10. s \notin Owned /\ f.sock = sockets'
  BY <1>1, <1>4, <1>6, <1>7 DEF Closable, IsHost
<1>11. Attended(users, s, f.sock[s])
  BY <1>8, NotASocketIs DEF Attended
<1> QED BY <1>2, <1>4, <1>5, <1>8, <1>9, <1>10, <1>11, IpAttends

LEMMA CheckNewClientAttends ==
  ASSUME ConnectionInv, AttentionInv, CheckNewClient
  PROVE  AttentionInv'
<1>0. PICK a \in BOOLEAN : Sound(Owned, a)
  BY DEF ConnectionInv
<1>1. PICK W : W = Owned
  OBVIOUS
<1>2. PICK h : h = Host /\ HostOK(h, W, a) /\ h.sock = sockets /\ h.queue = ipQueue
  BY <1>0, <1>1, HostIs
<1>3. PICK g : g = Taken(h)
  OBVIOUS
<1>4. h.queue # <<>> /\ UNCHANGED users
  BY <1>2 DEF CheckNewClient
<1>5. g.sock = h.sock /\ g \in HostRecord
  <2>1. PICK b \in BOOLEAN : b
    OBVIOUS
  <2>2. HostOK(g, W, b) /\ g.sock = h.sock
    BY <1>2, <1>3, <1>4, <2>1, TakenKeeps
  <2> QED BY <2>2 DEF HostOK
<1>6. Client \in Sockets \ {Listener} /\ Listener \in Sockets
  BY SocketsAre
<1>7. ASSUME \A u \in Sockets \ {Listener} : sockets'[u] = sockets[u], Heard(sockets[Listener], sockets'[Listener])
      PROVE  AttentionInv'
  <2>1. Told(sockets[Client], sockets'[Client]) /\ Attended(users, Client, sockets'[Client])
    BY <1>6, <1>7, SinceNow DEF Tells, AttentionInv, AttentionOK
  <2> QED BY <1>4, <1>6, <1>7, <2>1, IpAttends
<1>8. ASSUME NEW s \in Acceptable,
             IsHost(WakeUpUser(With(g, Listener, [h.sock[Listener] EXCEPT !.peer = s, !.events = @ \cup {"ACCEPT"}]), Listener))
      PROVE  AttentionInv'
  <2>1. PICK k : k = h.sock[Listener]
    OBVIOUS
  <2>2. k \in TcpSocket /\ s \in Sockets
    BY <1>2, <1>6, <2>1 DEF HostOK, HostRecord, Acceptable
  <2>3. PICK l : l = [k EXCEPT !.peer = s, !.events = @ \cup {"ACCEPT"}]
    OBVIOUS
  <2>4. l \in TcpSocket /\ l.peer = s /\ Word(l) = Word(k) \cup {"ACCEPT"}
    BY <2>2, <2>3 DEF TcpSocket, TcpEvents, Word
  <2>5. PICK f : f = With(g, Listener, l)
    OBVIOUS
  <2>6. f \in HostRecord /\ f.sock[Listener] = l /\ \A u \in Sockets \ {Listener} : f.sock[u] = g.sock[u]
    BY <1>5, <1>6, <2>4, <2>5, WithParts
  <2>7. PICK e : e = WakeUpUser(f, Listener)
    OBVIOUS
  <2>8. /\ \A u \in Sockets \ {Listener} : e.sock[u] = f.sock[u]
        /\ e.sock[Listener].events = {} /\ Word(e.sock[Listener]) = Word(f.sock[Listener])
    BY <1>6, <2>6, <2>7, WakeUpIs
  <2>9. Heard(k, e.sock[Listener])
    BY <2>4, <2>6, <2>8 DEF Heard
  <2>10. e.sock = sockets'
    BY <1>8, <2>1, <2>3, <2>5, <2>7 DEF IsHost
  <2> QED BY <1>2, <1>5, <1>7, <2>1, <2>6, <2>8, <2>9, <2>10
<1>9. ASSUME IsHost(g)
      PROVE  AttentionInv'
  <2>1. sockets' = sockets
    BY <1>2, <1>5, <1>9 DEF IsHost
  <2>2. Heard(sockets[Listener], sockets[Listener])
    BY SinceNow
  <2> QED BY <1>7, <2>1, <2>2
<1> QED BY <1>2, <1>3, <1>8, <1>9 DEF CheckNewClient, Taken

LEMMA TimePassesAttends ==
  ASSUME ConnectionInv, AttentionInv, NEW s \in Sockets, TimePasses(s)
  PROVE  AttentionInv'
<1>1. sockets \in [Sockets -> TcpSocket] /\ SocketOK(s, sockets[s])
  BY InvOwns
<1>2. PICK l : l = [sockets[s] EXCEPT !.aged = TRUE]
  OBVIOUS
<1>3. sockets' = [sockets EXCEPT ![s] = l] /\ UNCHANGED users
  BY <1>2 DEF TimePasses
<1>4. s # Listener
  BY <1>1 DEF SocketOK, TimePasses, Protected
<1>5. /\ l.state = sockets[s].state /\ l.bits = sockets[s].bits /\ l.received = sockets[s].received /\ l.unacked = sockets[s].unacked
      /\ l.events = sockets[s].events /\ l.group = sockets[s].group /\ l.timer = sockets[s].timer
  BY <1>1, <1>2 DEF TcpSocket
<1>6. sockets'[s] = l /\ \A u \in Sockets \ {s} : sockets'[u] = sockets[u]
  BY <1>1, <1>3
<1>7. Told(sockets[s], l)
  BY <1>5, SinceNow, ToldAlike DEF Tells, Word
<1>8. Attended(users, s, l)
  BY <1>4, <1>5 DEF AttentionInv, AttentionOK, Attended
<1>9. Heard(sockets[Listener], sockets'[Listener])
  BY <1>4, <1>6, SocketsAre, SinceNow
<1> QED BY <1>3, <1>4, <1>6, <1>7, <1>8, <1>9, IpAttends

LEMMA TimerCheckAttends ==
  ASSUME ConnectionInv, AttentionInv, NEW s \in Sockets, NEW sleep \in BOOLEAN, TimerCheck(s, sleep)
  PROVE  AttentionInv'
<1>0. PICK a \in BOOLEAN : Sound(Owned, a)
  BY DEF ConnectionInv
<1>1. PICK W : W = Owned
  OBVIOUS
<1>2. PICK h : h = Host /\ HostOK(h, W, a) /\ h.sock = sockets /\ h.queue = ipQueue /\ sockets \in [Sockets -> TcpSocket]
  BY <1>0, <1>1, HostIs
<1>3. /\ h.sock[s].state # "FREE" /\ h.sock[s].timer /\ h.sock[s] \in TcpSocket /\ SocketOK(s, h.sock[s]) /\ UNCHANGED users
      /\ h \in HostRecord
  BY <1>2 DEF TimerCheck, Exists, HostOK
<1>4. s # Listener /\ Listener \in Sockets
  BY <1>3, SocketsAre DEF SocketOK
<1>5. ASSUME NEW f, HostOK(f, W, a), Told(h.sock[s], f.sock[s]), Heard(h.sock[Listener], f.sock[Listener]),
             \A u \in Sockets \ {s, Listener} : f.sock[u] = h.sock[u], f.sock[s].timer \/ f.sock[s].state = "FREE",
             IsHost(f) \/ IsHost(WakeUpUser(f, s))
      PROVE  AttentionInv'
  <2>1. CASE IsHost(f)
    <3>1. f.sock = sockets'
      BY <2>1 DEF IsHost
    <3>2. Attended(users, s, f.sock[s])
      BY <1>5 DEF Attended
    <3> QED BY <1>2, <1>3, <1>4, <1>5, <3>1, <3>2, IpAttends
  <2>2. CASE IsHost(WakeUpUser(f, s))
    <3>1. PICK e : e = WakeUpUser(f, s)
      OBVIOUS
    <3>2. f \in HostRecord
      BY <1>5 DEF HostOK
    <3>3. /\ \A u \in Sockets \ {s} : e.sock[u] = f.sock[u]
          /\ e.sock[s].state = f.sock[s].state /\ e.sock[s].timer = f.sock[s].timer /\ e.sock[s].bits = f.sock[s].bits
          /\ e.sock[s].received = f.sock[s].received /\ e.sock[s].unacked = f.sock[s].unacked /\ Word(e.sock[s]) = Word(f.sock[s])
      BY <3>1, <3>2, WakeUpIs
    <3>4. Told(h.sock[s], e.sock[s])
      BY <1>5, <3>3, ToldAlike
    <3>5. e.sock = sockets'
      BY <2>2, <3>1 DEF IsHost
    <3>6. Attended(users, s, e.sock[s])
      BY <1>5, <3>3 DEF Attended
    <3>7. e.sock[Listener] = f.sock[Listener]
      BY <1>4, <3>3
    <3> QED BY <1>2, <1>3, <1>4, <1>5, <3>3, <3>4, <3>5, <3>6, <3>7, IpAttends
  <2> QED BY <1>5, <2>1, <2>2
<1>6. CASE sleep /\ IsHost(WakeUpUser(Host, s))
  <2>1. Told(h.sock[s], h.sock[s]) /\ Heard(h.sock[Listener], h.sock[Listener])
    BY SinceNow DEF Tells
  <2> QED BY <1>2, <1>3, <1>5, <1>6, <2>1
<1>7. ASSUME NEW quiet, NEW buffer, NEW idle, NEW known,
             IsHost(Woken(SocketCheck(TimeUp(Host, s), s, quiet, buffer, idle, known), s, sleep))
      PROVE  AttentionInv'
  <2>1. PICK c \in BOOLEAN : c = FALSE
    OBVIOUS
  <2>2. PICK l : l = [h.sock[s] EXCEPT !.timer = c]
    OBVIOUS
  <2>3. Tame(h.sock[s], l) /\ l.bits = h.sock[s].bits /\ l.received = h.sock[s].received /\ l.unacked = h.sock[s].unacked
        /\ Word(l) = Word(h.sock[s])
    BY <1>3, <2>2 DEF Tame, TcpSocket, Word
  <2>4. PICK g : g = With(h, s, l)
    OBVIOUS
  <2>5. HostOK(g, W, a) /\ g.sock[s] = l /\ \A u \in Sockets \ {s} : g.sock[u] = h.sock[u]
    BY <1>2, <1>4, <2>3, <2>4, TameHost
  <2>6. TimeUp(Host, s) = g
    BY <1>2, <2>1, <2>2, <2>4 DEF With, TimeUp
  <2>7. PICK f : f = SocketCheck(g, s, quiet, buffer, idle, known)
    OBVIOUS
  <2>8. HostOK(f, W, a) /\ Since(g, f, s) /\ (f.sock[s].timer \/ f.sock[s].state = "FREE")
    BY <1>3, <1>4, <2>3, <2>5, <2>7, LookedAtKeeps DEF Tame
  <2>9. Told(h.sock[s], f.sock[s])
    BY <2>3, <2>5, <2>8, AlikeTold DEF Tame, Since, Tells
  <2>10. Heard(h.sock[Listener], f.sock[Listener]) /\ \A u \in Sockets \ {s, Listener} : f.sock[u] = h.sock[u]
    BY <1>4, <2>5, <2>8 DEF Since
  <2>11. IsHost(f) \/ IsHost(WakeUpUser(f, s))
    BY <1>7, <2>6, <2>7 DEF Woken
  <2> QED BY <1>5, <2>8, <2>9, <2>10, <2>11
<1>8. CASE \E g \in {SocketCheck(TimeUp(Host, s), s, quiet, buffer, idle, known) :
                     quiet \in Silences(s), buffer \in BufferChoices(s), idle \in Silences(s), known \in ArpAnswers(s)} :
             IsHost(Woken(g, s, sleep))
  <2>1. PICK quiet \in Silences(s), buffer \in BufferChoices(s), idle \in Silences(s), known \in ArpAnswers(s) :
               IsHost(Woken(SocketCheck(TimeUp(Host, s), s, quiet, buffer, idle, known), s, sleep))
    BY <1>8
  <2> QED BY <1>7, <2>1
<1> QED BY <1>6, <1>8 DEF TimerCheck

(***************************************************************************)
(* The users do something with their own sockets.                          *)
(***************************************************************************)
LEMMA UserAttends ==
  ASSUME ConnectionInv, AttentionInv, NEW t \in {Acceptor, Caller},
         users' \in [{Acceptor, Caller} -> UserRecord], \A v \in {Acceptor, Caller} : v # t => users'[v] = users[v],
         \A s \in Sockets : ~Mine(t, s) => sockets'[s] = sockets[s],
         sockets'[Listener].events = {},
         \A s \in Sockets \ {Listener} : Mine(t, s) => Attended(users', s, sockets'[s]),
         \A s \in OwnedBy(users'[t]) : Held(s, sockets'[s]),
         WaitOK(users'[t], sockets'[users'[t].on])
  PROVE  AttentionInv'
<1>1. UsersOK /\ AttentionOK(sockets, users)
  BY InvOwns DEF AttentionInv
<1>2. ASSUME NEW v \in {Acceptor, Caller}, v # t, NEW s, Mine(v, s)
      PROVE  s \in Sockets /\ sockets'[s] = sockets[s]
  <2>1. ~Mine(t, s) /\ s \in Sockets
    BY <1>2 DEF Mine
  <2> QED BY <2>1
<1>3. ASSUME NEW s \in Sockets \ {Listener}
      PROVE  Attended(users', s, sockets'[s])
  <2>1. CASE Mine(t, s)
    BY <2>1
  <2>2. CASE ~Mine(t, s)
    <3>1. sockets'[s] = sockets[s] /\ Attended(users, s, sockets[s])
      BY <1>1, <2>2 DEF AttentionOK
    <3>2. Connecting(users, s) => Connecting(users', s)
      <4>1. SUFFICES ASSUME NEW v \in {Acceptor, Caller}, users[v].at = "connect, timer", users[v].on = s
                     PROVE  Connecting(users', s)
        BY DEF Connecting
      <4>2. Mine(v, s)
        BY <1>1, <4>1, OwnedIsMine DEF DataPlaces
      <4>3. v # t
        BY <2>2, <4>2
      <4> QED BY <4>1, <4>3 DEF Connecting
    <3> QED BY <3>1, <3>2 DEF Attended
  <2> QED BY <2>1, <2>2
<1>4. ASSUME NEW v \in {Acceptor, Caller}
      PROVE  (\A s \in OwnedBy(users'[v]) : Held(s, sockets'[s])) /\ WaitOK(users'[v], sockets'[users'[v].on])
  <2>1. CASE v = t
    BY <2>1
  <2>2. CASE v # t
    <3>1. users'[v] = users[v] /\ (\A s \in OwnedBy(users[v]) : Mine(v, s) /\ Held(s, sockets[s])) /\ WaitOK(users[v], sockets[users[v].on])
      BY <1>1, <2>2, OwnedIsMine DEF AttentionOK
    <3>2. \A s \in OwnedBy(users[v]) : Held(s, sockets'[s])
      BY <1>2, <2>2, <3>1
    <3>3. WaitOK(users[v], sockets'[users[v].on])
      <4>1. CASE users[v].at = "in accept"
        <5>1. Mine(v, users[v].on)
          BY <1>1, <4>1, OwnedIsMine, SocketsAre DEF Mine
        <5> QED BY <1>2, <2>2, <3>1, <5>1
      <4>2. CASE users[v].at \in DataPlaces
        <5>1. Mine(v, users[v].on)
          BY <1>1, <4>2, OwnedIsMine
        <5> QED BY <1>2, <2>2, <3>1, <5>1
      <4>3. CASE users[v].at \notin DataPlaces /\ users[v].at # "in accept"
        BY <4>3, WaitsNowhere DEF DataPlaces
      <4> QED BY <4>1, <4>2, <4>3
    <3> QED BY <3>1, <3>2, <3>3
  <2> QED BY <2>1, <2>2
<1>5. AttentionOK(sockets', users')
  BY <1>3, <1>4 DEF AttentionOK
<1> QED BY <1>5 DEF AttentionInv, AttentionOK, Attended, Held, WaitOK, OwnedBy, Connecting, Word, Settled

(* One of them, of which it takes no word back.                            *)
LEMMA OneAttends ==
  ASSUME ConnectionInv, AttentionInv, NEW t \in {Acceptor, Caller},
         users' \in [{Acceptor, Caller} -> UserRecord], \A v \in {Acceptor, Caller} : v # t => users'[v] = users[v],
         OwnedBy(users'[t]) \subseteq OwnedBy(users[t]),
         NEW s, Mine(t, s), NEW l, sockets' = [sockets EXCEPT ![s] = l], l.events = sockets[s].events,
         s # Listener => l.timer \/ Connecting(users', s) \/ (l.state = sockets[s].state /\ l.timer = sockets[s].timer /\ users[t].at # "connect, timer"),
         users[t].at = "connect, timer" => users[t].on = s,
         s \in OwnedBy(users[t]) /\ Held(s, sockets[s]) => Held(s, l),
         WaitOK(users'[t], sockets'[users'[t].on])
  PROVE  AttentionInv'
<1>1. UsersOK /\ AttentionOK(sockets, users) /\ sockets \in [Sockets -> TcpSocket] /\ s \in Sockets
  BY InvOwns DEF AttentionInv, Mine
<1>2. sockets'[s] = l /\ \A u \in Sockets \ {s} : sockets'[u] = sockets[u]
  BY <1>1
<1>3. \A u \in Sockets : ~Mine(t, u) => sockets'[u] = sockets[u]
  BY <1>2
<1>4. sockets'[Listener].events = {}
  <2>1. Listener \in Sockets /\ sockets[Listener].events = {}
    BY <1>1, SocketsAre DEF AttentionOK
  <2> QED BY <1>2, <2>1
<1>5. ASSUME NEW u \in Sockets \ {Listener}
      PROVE  Attended(users', u, sockets'[u])
  <2>1. Attended(users, u, sockets[u])
    BY <1>1 DEF AttentionOK
  <2>2. (u # s \/ users[t].at # "connect, timer") /\ Connecting(users, u) => Connecting(users', u)
    BY DEF Connecting
  <2>3. CASE u = s
    BY <1>2, <2>1, <2>2, <2>3 DEF Attended
  <2>4. CASE u # s
    BY <1>2, <2>1, <2>2, <2>4 DEF Attended
  <2> QED BY <2>3, <2>4
<1>6. ASSUME NEW u \in OwnedBy(users'[t])
      PROVE  Held(u, sockets'[u])
  <2>1. u \in OwnedBy(users[t]) /\ Held(u, sockets[u]) /\ u \in Sockets
    BY <1>1, OwnedIsMine DEF AttentionOK, Mine
  <2> QED BY <1>2, <2>1
<1> QED BY <1>3, <1>4, <1>5, <1>6, UserAttends

(* None of them.                                                           *)
LEMMA NoneAttends ==
  ASSUME ConnectionInv, AttentionInv, NEW t \in {Acceptor, Caller},
         users' \in [{Acceptor, Caller} -> UserRecord], \A v \in {Acceptor, Caller} : v # t => users'[v] = users[v],
         OwnedBy(users'[t]) \subseteq OwnedBy(users[t]), UNCHANGED sockets, users[t].at # "connect, timer",
         WaitOK(users'[t], sockets[users'[t].on])
  PROVE  AttentionInv'
<1>1. AttentionOK(sockets, users) /\ UsersOK
  BY InvOwns DEF AttentionInv
<1>2. ASSUME NEW s \in Sockets \ {Listener}
      PROVE  Attended(users', s, sockets'[s])
  <2>1. Connecting(users, s) => Connecting(users', s)
    BY DEF Connecting
  <2> QED BY <1>1, <2>1 DEF AttentionOK, Attended
<1>3. \A s \in OwnedBy(users'[t]) : Held(s, sockets'[s])
  BY <1>1 DEF AttentionOK
<1>4. sockets'[Listener].events = {} /\ \A s \in Sockets : sockets'[s] = sockets[s]
  BY <1>1 DEF AttentionOK
<1>5. WaitOK(users'[t], sockets'[users'[t].on])
  OBVIOUS
<1> QED BY <1>2, <1>3, <1>4, <1>5, UserAttends

(* What a user is afterwards.                                              *)
GoesOn(t, at, on) ==
  /\ users'[t].at = at /\ users'[t].on = on /\ users'[t].holds = users[t].holds
  /\ users' \in [{Acceptor, Caller} -> UserRecord] /\ \A v \in {Acceptor, Caller} : v # t => users'[v] = users[v]

LEMMA GoesOnOwns ==
  ASSUME NEW t, NEW at, NEW on, GoesOn(t, at, on), at # "ask"
  PROVE  OwnedBy(users'[t]) \subseteq OwnedBy(users[t])
  BY DEF GoesOn, OwnedBy

LEMMA ContinueGoesOn ==
  ASSUME UsersOK, NEW t \in {Acceptor, Caller}, NEW at \in {"idle", "accept", "in accept", "ask"} \cup DataPlaces, Continue(t, at)
  PROVE  GoesOn(t, at, users[t].on)
<1>1. PICK u : u = [users[t] EXCEPT !.at = at]
  OBVIOUS
<1>2. users' = [users EXCEPT ![t] = u] /\ users[t] \in UserRecord
  BY <1>1, ContinueIs, UserIs
<1>3. u \in UserRecord /\ u.holds = users[t].holds /\ u.at = at /\ u.on = users[t].on
  BY <1>1, <1>2 DEF UserRecord
<1> QED BY <1>2, <1>3 DEF GoesOn, UsersOK

LEMMA CallGoesOn ==
  ASSUME UsersOK, NEW t \in {Acceptor, Caller}, NEW at \in {"idle", "accept", "in accept", "ask"} \cup DataPlaces,
         NEW s \in Sockets, Call(t, s, at)
  PROVE  GoesOn(t, at, s)
<1>1. PICK u : u = [users[t] EXCEPT !.at = at, !.on = s]
  OBVIOUS
<1>2. users' = [users EXCEPT ![t] = u] /\ users[t] \in UserRecord
  <2>1. users[t] \in UserRecord
    BY UserIs
  <2>2. users' = [users EXCEPT ![t] = u]
    BY <1>1 DEF Call, UsersOK, UserRecord
  <2> QED BY <2>1, <2>2
<1>3. u \in UserRecord /\ u.holds = users[t].holds /\ u.at = at /\ u.on = s
  BY <1>1, <1>2 DEF UserRecord
<1> QED BY <1>2, <1>3 DEF GoesOn, UsersOK

LEMMA AcceptAttends ==
  ASSUME ConnectionInv, AttentionInv, NEW t \in {Acceptor, Caller}, Accept(t)
  PROVE  AttentionInv'
<1>1. UsersOK /\ Call(t, Listener, "accept") /\ users[t].at = "idle" /\ UNCHANGED sockets
  BY InvOwns DEF Accept, Idle
<1>2. GoesOn(t, "accept", Listener)
  BY <1>1, CallGoesOn, SocketsAre
<1>3. WaitOK(users'[t], sockets[users'[t].on])
  BY <1>2, WaitsNowhere DEF GoesOn
<1>4. OwnedBy(users'[t]) \subseteq OwnedBy(users[t])
  BY <1>2, GoesOnOwns
<1>5. users[t].at # "connect, timer"
  BY <1>1
<1> QED BY <1>1, <1>2, <1>3, <1>4, <1>5, NoneAttends DEF GoesOn

(* What the user of a socket knows of it when it looks.                    *)
LEMMA CheckConnectedAttends ==
  ASSUME ConnectionInv, AttentionInv, NEW t \in {Acceptor, Caller}, CheckConnected(t)
  PROVE  AttentionInv'
<1>1. UsersOK /\ users[t].at = "connect" /\ UNCHANGED sockets
  BY InvOwns DEF CheckConnected, At
<1>2. PICK at \in {"idle", "in connect"} : Continue(t, at) /\ (at = "in connect" => ~NowConnected(sockets[users[t].on].state))
  BY DEF CheckConnected, On
<1>3. GoesOn(t, at, users[t].on)
  BY <1>1, <1>2, ContinueGoesOn DEF DataPlaces
<1>4. WaitOK(users'[t], sockets[users'[t].on])
  BY <1>2, <1>3 DEF GoesOn, WaitOK
<1>5. OwnedBy(users'[t]) \subseteq OwnedBy(users[t])
  BY <1>3, GoesOnOwns
<1>6. users[t].at # "connect, timer"
  BY <1>1
<1> QED BY <1>1, <1>3, <1>4, <1>5, <1>6, NoneAttends DEF GoesOn

LEMMA CheckStateAttends ==
  ASSUME ConnectionInv, AttentionInv, NEW t \in {Acceptor, Caller}, CheckState(t)
  PROVE  AttentionInv'
<1>1. UsersOK /\ users[t].at = "recv, state" /\ UNCHANGED sockets /\ WaitOK(users[t], sockets[users[t].on])
  BY InvOwns DEF CheckState, At, AttentionInv, AttentionOK
<1>2. PICK at \in {"idle", "in recv"} : Continue(t, at) /\ (at = "in recv" => Active(sockets[users[t].on].state))
  BY DEF CheckState, On
<1>3. GoesOn(t, at, users[t].on)
  BY <1>1, <1>2, ContinueGoesOn DEF DataPlaces
<1>4. WaitOK(users'[t], sockets[users'[t].on])
  BY <1>1, <1>2, <1>3 DEF GoesOn, WaitOK, Active, NowConnected, Settled
<1>5. OwnedBy(users'[t]) \subseteq OwnedBy(users[t])
  BY <1>3, GoesOnOwns
<1>6. users[t].at # "connect, timer"
  BY <1>1
<1> QED BY <1>1, <1>3, <1>4, <1>5, <1>6, NoneAttends DEF GoesOn

(* A socket that is used was connected.                                    *)
LEMMA BeginsAttends ==
  ASSUME ConnectionInv, AttentionInv, NEW t \in {Acceptor, Caller}, NEW s \in Sockets, Recv(t, s) \/ Send(t, s)
  PROVE  AttentionInv'
<1>1. UsersOK /\ Usable(t, s) /\ UNCHANGED sockets /\ AttentionOK(sockets, users)
  BY InvOwns DEF Recv, Send, AttentionInv
<1>2. PICK at \in {"recv", "send"} : Call(t, s, at)
  BY DEF Recv, Send
<1>3. GoesOn(t, at, s)
  BY <1>1, <1>2, CallGoesOn DEF DataPlaces
<1>4. sockets[s].state \in Settled
  <2>1. s \in OwnedBy(users[t]) /\ sockets[s].state # "CONNECT_SYN"
    BY <1>1 DEF Usable, OwnedBy
  <2> QED BY <1>1, <2>1 DEF AttentionOK, Held
<1>5. WaitOK(users'[t], sockets[users'[t].on])
  BY <1>2, <1>3, <1>4 DEF GoesOn, WaitOK
<1>6. OwnedBy(users'[t]) \subseteq OwnedBy(users[t])
  BY <1>3, GoesOnOwns
<1>7. users[t].at # "connect, timer"
  BY <1>1 DEF Usable, Idle
<1> QED BY <1>1, <1>3, <1>5, <1>6, <1>7, NoneAttends DEF GoesOn

LEMMA ShutdownAttends ==
  ASSUME ConnectionInv, AttentionInv, NEW t \in {Acceptor, Caller}, NEW s \in Sockets, Shutdown(t, s)
  PROVE  AttentionInv'
<1>1. UsersOK /\ UNCHANGED sockets /\ users[t].at = "idle" /\ users' = [users EXCEPT ![t].at = "shutdown", ![t].on = s, ![t].read = sockets[s].bits]
      /\ sockets[s] \in TcpSocket /\ users[t] \in UserRecord
  BY InvOwns, UserIs DEF Shutdown, Usable, Idle
<1>2. PICK u : u = [users[t] EXCEPT !.at = "shutdown", !.on = s, !.read = sockets[s].bits]
  OBVIOUS
<1>3. users' = [users EXCEPT ![t] = u]
  BY <1>1, <1>2 DEF UsersOK, UserRecord
<1>4. u \in UserRecord /\ u.holds = users[t].holds /\ u.at = "shutdown" /\ u.on = s
  BY <1>1, <1>2 DEF UserRecord, DataPlaces, TcpSocket
<1>5. GoesOn(t, "shutdown", s)
  BY <1>1, <1>3, <1>4 DEF GoesOn, UsersOK
<1>6. WaitOK(users'[t], sockets[users'[t].on])
  BY <1>5, WaitsNowhere DEF GoesOn
<1>7. OwnedBy(users'[t]) \subseteq OwnedBy(users[t])
  BY <1>5, GoesOnOwns
<1>8. users[t].at # "connect, timer"
  BY <1>1
<1> QED BY <1>1, <1>5, <1>6, <1>7, <1>8, NoneAttends DEF GoesOn

(* The user t goes on, with a change of the socket of its call.            *)
LEMMA WorksOn ==
  ASSUME ConnectionInv, AttentionInv, NEW t \in {Acceptor, Caller}, users[t].at \in DataPlaces,
         NEW at \in {"idle"} \cup DataPlaces, GoesOn(t, at, users[t].on),
         NEW l, sockets' = [sockets EXCEPT ![users[t].on] = l], l.events = sockets[users[t].on].events, l.state = sockets[users[t].on].state,
         l.timer \/ (l.timer = sockets[users[t].on].timer /\ users[t].at # "connect, timer"),
         \A u : u.at = at /\ WaitOK(users[t], sockets[users[t].on]) => WaitOK(u, l)
  PROVE  AttentionInv'
<1>1. UsersOK /\ AttentionOK(sockets, users) /\ sockets \in [Sockets -> TcpSocket]
  BY InvOwns DEF AttentionInv
<1>2. PICK s : s = users[t].on
  OBVIOUS
<1>3. Mine(t, s) /\ s \in Sockets
  BY <1>1, <1>2, OwnedIsMine DEF Mine
<1>4. WaitOK(users'[t], sockets'[users'[t].on])
  BY <1>1, <1>2, <1>3 DEF AttentionOK, GoesOn
<1>5. OwnedBy(users'[t]) \subseteq OwnedBy(users[t])
  BY GoesOnOwns DEF DataPlaces
<1>6. Held(s, sockets[s]) => Held(s, l)
  BY <1>2 DEF Held
<1> QED BY <1>2, <1>3, <1>4, <1>5, <1>6, OneAttends DEF GoesOn

LEMMA SetTimeoutAttends ==
  ASSUME ConnectionInv, AttentionInv, NEW t \in {Acceptor, Caller}, SetTimeout(t)
  PROVE  AttentionInv'
<1>1. UsersOK /\ users[t].at \in DataPlaces
  BY InvOwns DEF SetTimeout, At, DataPlaces
<1>2. PICK at \in {"idle", "connect"} : Continue(t, at)
  BY DEF SetTimeout
<1>3. GoesOn(t, at, users[t].on)
  BY <1>1, <1>2, ContinueGoesOn DEF DataPlaces
<1>4. PICK k : k = sockets[users[t].on]
  OBVIOUS
<1>5. k \in TcpSocket
  BY <1>1, <1>4, OwnedIsMine, InvOwns DEF Mine
<1>6. PICK l : l = [k EXCEPT !.timer = TRUE]
  OBVIOUS
<1>7. l.timer /\ l.events = k.events /\ l.state = k.state
  BY <1>5, <1>6 DEF TcpSocket
<1>8. sockets' = [sockets EXCEPT ![users[t].on] = l]
  BY <1>4, <1>6 DEF SetTimeout
<1>9. \A u : u.at = at => WaitOK(u, l)
  BY <1>2, WaitsNowhere
<1> QED BY <1>1, <1>2, <1>3, <1>4, <1>7, <1>8, <1>9, WorksOn DEF DataPlaces

LEMMA TakeDataAttends ==
  ASSUME ConnectionInv, AttentionInv, NEW t \in {Acceptor, Caller}, TakeData(t)
  PROVE  AttentionInv'
<1>1. UsersOK /\ users[t].at = "recv" /\ users[t].at \in DataPlaces
  BY InvOwns DEF TakeData, At, DataPlaces
<1>2. PICK at \in {"idle", "recv, state"} : Continue(t, at)
  BY DEF TakeData
<1>3. GoesOn(t, at, users[t].on)
  BY <1>1, <1>2, ContinueGoesOn DEF DataPlaces
<1>4. PICK k : k = sockets[users[t].on]
  OBVIOUS
<1>5. k \in TcpSocket
  BY <1>1, <1>4, OwnedIsMine, InvOwns DEF Mine
<1>6. PICK l : l = [k EXCEPT !.received = FALSE]
  OBVIOUS
<1>7. ~l.received /\ l.events = k.events /\ l.state = k.state /\ l.timer = k.timer
  BY <1>5, <1>6 DEF TcpSocket
<1>8. sockets' = [sockets EXCEPT ![users[t].on] = l]
  BY <1>4, <1>6 DEF TakeData
<1>9. \A u : u.at = at /\ WaitOK(users[t], k) => WaitOK(u, l)
  BY <1>1, <1>2, <1>7 DEF WaitOK
<1>10. at \in {"idle"} \cup DataPlaces /\ users[t].at # "connect, timer"
  BY <1>1, <1>2 DEF DataPlaces
<1> QED BY <1>1, <1>3, <1>4, <1>7, <1>8, <1>9, <1>10, WorksOn

LEMMA WriteDataAttends ==
  ASSUME ConnectionInv, AttentionInv, NEW t \in {Acceptor, Caller}, NEW last \in BOOLEAN, WriteData(t, last)
  PROVE  AttentionInv'
<1>1. UsersOK /\ users[t].at = "send" /\ users[t].at \in DataPlaces
  BY InvOwns DEF WriteData, At, DataPlaces
<1>2. PICK k : k = sockets[users[t].on]
  OBVIOUS
<1>3. k \in TcpSocket /\ sockets \in [Sockets -> TcpSocket] /\ users[t].on \in Sockets
  BY <1>1, <1>2, OwnedIsMine, InvOwns DEF Mine
<1>4. CASE k.unacked
  <2>1. Continue(t, "in send") /\ UNCHANGED sockets
    BY <1>2, <1>4 DEF WriteData, On
  <2>2. GoesOn(t, "in send", users[t].on)
    BY <1>1, <2>1, ContinueGoesOn DEF DataPlaces
  <2>3. WaitOK(users'[t], sockets[users'[t].on])
    BY <1>2, <1>4, <2>2 DEF GoesOn, WaitOK
  <2>4. OwnedBy(users'[t]) \subseteq OwnedBy(users[t])
    BY <2>2, GoesOnOwns
  <2>5. users[t].at # "connect, timer"
    BY <1>1
  <2> QED BY <2>1, <2>2, <2>3, <2>4, <2>5, NoneAttends DEF GoesOn
<1>5. CASE ~k.unacked
  <2>1. PICK s : s = users[t].on
    OBVIOUS
  <2>2. PICK bits : bits = IF last THEN k.bits \cup {"CloseRequested"} ELSE k.bits
    OBVIOUS
  <2>3. PICK l : l = [k EXCEPT !.unacked = TRUE, !.unsent = TRUE, !.bits = bits]
    OBVIOUS
  <2>4. l.events = k.events /\ l.state = k.state /\ l.timer = k.timer
    BY <1>3, <2>3 DEF TcpSocket
  <2>5. Continue(t, "timer") /\ sockets' = [sockets EXCEPT ![s].unacked = TRUE, ![s].unsent = TRUE,
                          ![s].bits = IF last THEN @ \cup {"CloseRequested"} ELSE @]
    BY <1>2, <1>5, <2>1 DEF WriteData, On
  <2>6. sockets' = [sockets EXCEPT ![s] = l]
    BY <1>2, <1>3, <2>1, <2>2, <2>3, <2>5
  <2>7. GoesOn(t, "timer", s)
    BY <1>1, <2>1, <2>5, ContinueGoesOn DEF DataPlaces
  <2>8. \A u : u.at = "timer" => WaitOK(u, l)
    BY WaitsNowhere
  <2>9. "timer" \in {"idle"} \cup DataPlaces /\ users[t].at # "connect, timer"
    BY <1>1 DEF DataPlaces
  <2> QED BY <1>1, <1>2, <2>1, <2>4, <2>6, <2>7, <2>8, <2>9, WorksOn
<1> QED BY <1>4, <1>5

LEMMA StoreShutdownAttends ==
  ASSUME ConnectionInv, AttentionInv, NEW t \in {Acceptor, Caller}, StoreShutdown(t)
  PROVE  AttentionInv'
<1>1. /\ users[t].at = "shutdown" /\ users' = [users EXCEPT ![t].at = "timer", ![t].read = {}]
      /\ UsersOK /\ users[t] \in UserRecord /\ users[t].at \in DataPlaces
  BY InvOwns, UserIs DEF StoreShutdown, At, DataPlaces
<1>2. PICK u : u = [users[t] EXCEPT !.at = "timer", !.read = {}]
  OBVIOUS
<1>3. users' = [users EXCEPT ![t] = u]
  BY <1>1, <1>2 DEF UsersOK, UserRecord
<1>4. u \in UserRecord /\ u.holds = users[t].holds /\ u.at = "timer" /\ u.on = users[t].on
  BY <1>1, <1>2 DEF UserRecord, DataPlaces
<1>5. GoesOn(t, "timer", users[t].on)
  BY <1>1, <1>3, <1>4 DEF GoesOn, UsersOK
<1>6. PICK k : k = sockets[users[t].on]
  OBVIOUS
<1>7. k \in TcpSocket
  BY <1>1, <1>6, OwnedIsMine, InvOwns DEF Mine
<1>8. PICK others : sockets' = [sockets EXCEPT ![users[t].on].bits = others \cup {"UserShutdown"}]
  BY DEF StoreShutdown
<1>9. PICK l : l = [k EXCEPT !.bits = others \cup {"UserShutdown"}]
  OBVIOUS
<1>10. l.events = k.events /\ l.state = k.state /\ l.timer = k.timer
  BY <1>7, <1>9 DEF TcpSocket
<1>11. sockets' = [sockets EXCEPT ![users[t].on] = l]
  BY <1>6, <1>8, <1>9
<1>12. \A v : v.at = "timer" => WaitOK(v, l)
  BY WaitsNowhere
<1>13. "timer" \in {"idle"} \cup DataPlaces /\ users[t].at # "connect, timer"
  BY <1>1 DEF DataPlaces
<1> QED BY <1>1, <1>5, <1>6, <1>10, <1>11, <1>12, <1>13, WorksOn

(* Who waited is woken, and looks again.                                   *)
LEMMA WakesUpAttends ==
  ASSUME ConnectionInv, AttentionInv, NEW t \in {Acceptor, Caller}, WakesUp(t)
  PROVE  AttentionInv'
<1>1. UsersOK /\ AttentionOK(sockets, users) /\ sockets \in [Sockets -> TcpSocket]
  BY InvOwns DEF AttentionInv
<1>2. PICK at : at = Again(t)
  OBVIOUS
<1>3. /\ users[t].at \in {"in accept", "in connect", "in recv", "in send"} /\ at \in {"accept", "connect", "recv", "send"}
      /\ (users[t].at = "in recv" <=> at = "recv") /\ at \in {"idle", "accept", "in accept", "ask"} \cup DataPlaces
  BY <1>2 DEF WakesUp, Awaited, Again, At, DataPlaces
<1>4. GoesOn(t, at, users[t].on)
  BY <1>1, <1>2, <1>3, ContinueGoesOn DEF WakesUp
<1>5. PICK s : s = users[t].on
  OBVIOUS
<1>6. Mine(t, s) /\ s \in Sockets
  <2>1. CASE users[t].at = "in accept"
    BY <1>1, <1>5, <2>1, OwnedIsMine, SocketsAre DEF Mine
  <2>2. CASE users[t].at # "in accept"
    BY <1>1, <1>3, <1>5, <2>2, OwnedIsMine DEF Mine, DataPlaces
  <2> QED BY <2>1, <2>2
<1>7. PICK k : k = sockets[s]
  OBVIOUS
<1>8. PICK l : l = [k EXCEPT !.group = @ \ Awaited(t)]
  OBVIOUS
<1>9. l.events = k.events /\ l.state = k.state /\ l.timer = k.timer
  BY <1>1, <1>6, <1>7, <1>8 DEF TcpSocket
<1>10. sockets' = [sockets EXCEPT ![s] = l]
  BY <1>5, <1>7, <1>8 DEF WakesUp
<1>11. WaitOK(users[t], k)
  BY <1>1, <1>5, <1>7 DEF AttentionOK
<1>12. WaitOK(users'[t], sockets'[users'[t].on])
  <2>1. users'[t].at = at /\ sockets'[users'[t].on] = l
    BY <1>1, <1>4, <1>5, <1>6, <1>10 DEF GoesOn
  <2>2. CASE at = "recv"
    BY <1>3, <1>9, <1>11, <2>1, <2>2 DEF WaitOK
  <2>3. CASE at # "recv"
    BY <1>3, <2>1, <2>3, WaitsNowhere
  <2> QED BY <2>2, <2>3
<1>13. OwnedBy(users'[t]) \subseteq OwnedBy(users[t])
  BY <1>3, <1>4, GoesOnOwns
<1>14. Held(s, sockets[s]) => Held(s, l)
  BY <1>7, <1>9 DEF Held
<1>15. users[t].at # "connect, timer"
  BY <1>3
<1> QED BY <1>4, <1>6, <1>7, <1>9, <1>10, <1>12, <1>13, <1>14, <1>15, OneAttends DEF GoesOn

LEMMA ListenAttends ==
  ASSUME ConnectionInv, AttentionInv, NEW t \in {Acceptor, Caller}, Listen(t)
  PROVE  AttentionInv'
<1>1. UsersOK /\ AttentionOK(sockets, users) /\ sockets \in [Sockets -> TcpSocket] /\ SocketOK(Listener, sockets[Listener])
  BY InvOwns, SocketsAre DEF AttentionInv
<1>2. users[t].at = "idle" /\ UNCHANGED users /\ UserOK(t, users[t]) /\ Listener \in users[t].holds
  BY <1>1, UserIs DEF Listen, Idle
<1>3. Mine(t, Listener)
  BY <1>2, SocketsAre DEF UserOK, Mine
<1>4. PICK k : k = sockets[Listener]
  OBVIOUS
<1>5. k \in TcpSocket /\ k.state = "CLOSED"
  BY <1>1, <1>4, SocketsAre DEF Listen, SocketOK
<1>6. PICK l : l = Touched([k EXCEPT !.state = "LISTEN"])
  OBVIOUS
<1>7. l.events = k.events
  BY <1>5, <1>6 DEF Touched, TcpSocket
<1>8. sockets' = [sockets EXCEPT ![Listener] = l]
  <2>1. ~NowConnected(k.state) /\ ~NowConnected("LISTEN")
    BY <1>5 DEF NowConnected, AtLeastEstablished
  <2>2. PICK h : h = Host
    OBVIOUS
  <2>3. h.sock = sockets /\ h = [sock |-> sockets, queue |-> ipQueue]
    BY <2>2 DEF Host
  <2>4. StateChange(h, Listener, "LISTEN") = With(h, Listener, l)
    BY <1>4, <1>6, <2>1, <2>3 DEF StateChange
  <2>5. With(h, Listener, l).sock = [sockets EXCEPT ![Listener] = l]
    BY <2>3 DEF With
  <2>6. IsHost(StateChange(h, Listener, "LISTEN"))
    BY <2>2 DEF Listen
  <2> QED BY <2>4, <2>5, <2>6 DEF IsHost
<1>9. WaitOK(users'[t], sockets'[users'[t].on])
  BY <1>2, WaitsNowhere
<1>10. users' \in [{Acceptor, Caller} -> UserRecord] /\ \A v \in {Acceptor, Caller} : users'[v] = users[v]
  BY <1>1, <1>2 DEF UsersOK
<1>11. Listener \notin OwnedBy(users[t])
  BY <1>2 DEF OwnedBy
<1>12. OwnedBy(users'[t]) \subseteq OwnedBy(users[t])
  BY <1>10
<1>13. users[t].at # "connect, timer"
  BY <1>2
<1> QED BY <1>3, <1>4, <1>7, <1>8, <1>9, <1>10, <1>11, <1>12, <1>13, OneAttends

LEMMA ConnectAttends ==
  ASSUME ConnectionInv, AttentionInv, NEW t \in {Acceptor, Caller}, NEW remote \in Remotes, Connect(t, remote)
  PROVE  AttentionInv'
<1>1. UsersOK /\ AttentionOK(sockets, users) /\ sockets \in [Sockets -> TcpSocket] /\ Client \in Sockets /\ Client # Listener
  BY InvOwns, SocketsAre DEF AttentionInv
<1>2. users[t].at = "idle" /\ UserOK(t, users[t]) /\ Client \in users[t].holds
  BY <1>1, UserIs DEF Connect, Idle
<1>3. Mine(t, Client)
  <2>1. Client \in OwnedBy(users[t])
    BY <1>1, <1>2 DEF OwnedBy
  <2> QED BY <1>1, <2>1, OwnedIsMine
<1>4. GoesOn(t, "connect, timer", Client)
  BY <1>1, CallGoesOn DEF Connect, DataPlaces
<1>5. PICK k : k = sockets[Client]
  OBVIOUS
<1>6. k \in TcpSocket /\ k.state \in {"CLOSED", "CLOSE_WAIT"}
  BY <1>1, <1>5 DEF Connect
<1>7. PICK m : m = [k EXCEPT !.bits = @ \ {"ConnPrepared"}, !.repeats = 0, !.remote = remote]
  OBVIOUS
<1>8. m \in TcpSocket /\ m.events = k.events /\ m.state = k.state
  BY <1>6, <1>7 DEF TcpSocket
<1>9. PICK n : n = [m EXCEPT !.state = "CONNECT_SYN"]
  OBVIOUS
<1>10. n \in TcpSocket /\ n.events = k.events /\ n.state = "CONNECT_SYN"
  BY <1>8, <1>9 DEF TcpSocket, TcpStates
<1>11. PICK l : l = Touched(n)
  OBVIOUS
<1>12. l.events = k.events /\ l.state = "CONNECT_SYN"
  BY <1>10, <1>11 DEF TcpSocket, Touched
<1>13. sockets' = [sockets EXCEPT ![Client] = l]
  <2>1. ~NowConnected(m.state) /\ ~NowConnected("CONNECT_SYN")
    BY <1>6, <1>8 DEF NowConnected, AtLeastEstablished
  <2>2. PICK h : h = With(Host, Client, m)
    OBVIOUS
  <2>3. h.sock = [sockets EXCEPT ![Client] = m] /\ h = [sock |-> [sockets EXCEPT ![Client] = m], queue |-> ipQueue]
    BY <2>2 DEF Host, With
  <2>4. h.sock[Client] = m
    BY <1>1, <2>3
  <2>5. StateChange(h, Client, "CONNECT_SYN") = With(h, Client, l)
    BY <1>9, <1>11, <2>1, <2>4 DEF StateChange
  <2>6. With(h, Client, l).sock = [sockets EXCEPT ![Client] = l]
    <3>1. With(h, Client, l).sock = [h.sock EXCEPT ![Client] = l]
      BY <2>3 DEF With
    <3>2. [[sockets EXCEPT ![Client] = m] EXCEPT ![Client] = l] = [sockets EXCEPT ![Client] = l]
      BY <1>1
    <3> QED BY <2>3, <3>1, <3>2
  <2>7. IsHost(StateChange(h, Client, "CONNECT_SYN"))
    BY <1>5, <1>7, <2>2 DEF Connect
  <2> QED BY <2>5, <2>6, <2>7 DEF IsHost
<1>14. WaitOK(users'[t], sockets'[users'[t].on])
  BY <1>4, WaitsNowhere DEF GoesOn
<1>15. OwnedBy(users'[t]) \subseteq OwnedBy(users[t])
  BY <1>4, GoesOnOwns
<1>16. Connecting(users', Client)
  BY <1>4 DEF GoesOn, Connecting
<1>17. Held(Client, l)
  BY <1>12 DEF Held
<1>18. users[t].at # "connect, timer"
  BY <1>2
<1> QED BY <1>3, <1>4, <1>5, <1>12, <1>13, <1>14, <1>15, <1>16, <1>17, <1>18, OneAttends DEF GoesOn

(* FreeRTOS_accept takes a client that was connected.                      *)
LEMMA TakeClientAttends ==
  ASSUME ConnectionInv, AttentionInv, NEW t \in {Acceptor, Caller}, TakeClient(t)
  PROVE  AttentionInv'
<1>1. UsersOK /\ AttentionOK(sockets, users) /\ sockets \in [Sockets -> TcpSocket]
      /\ \A s \in Sockets : SocketOK(s, sockets[s])
  BY InvOwns DEF AttentionInv
<1>2. users[t].at = "accept" /\ t = Acceptor /\ users[t].on = Listener /\ users[t] \in UserRecord
  BY <1>1, UserIs DEF TakeClient, At, UserOK
<1>3. PICK found : found = sockets[Listener].peer
  OBVIOUS
<1>4. PICK passed : passed = {s \in Sockets : s = found /\ "PassAccept" \in sockets[s].bits}
  OBVIOUS
<1>5. /\ sockets' = [s \in Sockets |->
          IF s = Listener THEN [sockets[s] EXCEPT !.peer = NoSocket]
          ELSE IF s \in passed THEN [sockets[s] EXCEPT !.bits = @ \ {"PassAccept"}] ELSE sockets[s]]
      /\ IF passed = {} THEN Continue(t, "in accept")
                        ELSE users' = [users EXCEPT ![t].at = "ask", ![t].on = found]
  BY <1>3, <1>4 DEF TakeClient
<1>6. ASSUME NEW s \in Sockets
      PROVE  /\ sockets'[s].state = sockets[s].state /\ sockets'[s].events = sockets[s].events /\ sockets'[s].timer = sockets[s].timer
             /\ s = Listener => sockets'[s].peer = NoSocket
             /\ s # Listener /\ s \notin passed => sockets'[s] = sockets[s]
  <2>1. sockets[s] \in TcpSocket
    BY <1>1
  <2>2. CASE s = Listener
    BY <1>5, <2>1, <2>2 DEF TcpSocket
  <2>3. CASE s # Listener /\ s \in passed
    BY <1>5, <2>1, <2>3 DEF TcpSocket
  <2>4. CASE s # Listener /\ s \notin passed
    BY <1>5, <2>4
  <2> QED BY <2>2, <2>3, <2>4
<1>7. ASSUME NEW s \in passed
      PROVE  s \in Children /\ sockets[s].state \in Settled /\ s = found
  BY <1>1, <1>4 DEF SocketOK, Settled
<1>8. \A s \in Sockets : ~Mine(t, s) => sockets'[s] = sockets[s]
  BY <1>2, <1>6, <1>7, SocketsAre DEF Mine
<1>9. sockets'[Listener].events = {} /\ sockets'[Listener].peer = NoSocket
  BY <1>1, <1>6, SocketsAre DEF AttentionOK
<1>10. /\ users' \in [{Acceptor, Caller} -> UserRecord] /\ \A v \in {Acceptor, Caller} : v # t => users'[v] = users[v]
       /\ users'[t].at \in {"in accept", "ask"} /\ (users'[t].at = "in accept" => users'[t].on = Listener)
       /\ OwnedBy(users'[t]) \subseteq OwnedBy(users[t]) \cup passed
  <2>1. CASE passed = {}
    <3>1. GoesOn(t, "in accept", Listener)
      BY <1>1, <1>2, <1>5, <2>1, ContinueGoesOn
    <3> QED BY <2>1, <3>1, GoesOnOwns DEF GoesOn
  <2>2. CASE passed # {}
    <3>1. found \in passed /\ found \in Children /\ found \in Sockets
      BY <1>7, <2>2, SocketsAre
    <3>2. PICK u : u = [users[t] EXCEPT !.at = "ask", !.on = found]
      OBVIOUS
    <3>3. users' = [users EXCEPT ![t] = u]
      BY <1>1, <1>5, <2>2, <3>2 DEF UsersOK, UserRecord
    <3>4. u \in UserRecord /\ u.holds = users[t].holds /\ u.at = "ask" /\ u.on = found
      BY <1>2, <3>1, <3>2 DEF UserRecord
    <3>5. users'[t] = u
      BY <1>1, <3>3 DEF UsersOK
    <3> QED BY <1>1, <3>1, <3>3, <3>4, <3>5 DEF UsersOK, OwnedBy
  <2> QED BY <2>1, <2>2
<1>11. ASSUME NEW s \in Sockets \ {Listener}
       PROVE  Attended(users', s, sockets'[s])
  <2>1. Attended(users, s, sockets[s])
    BY <1>1 DEF AttentionOK
  <2>2. Connecting(users, s) => Connecting(users', s)
    BY <1>2, <1>10 DEF Connecting
  <2> QED BY <1>6, <2>1, <2>2 DEF Attended
<1>12. ASSUME NEW s \in OwnedBy(users'[t])
       PROVE  Held(s, sockets'[s])
  <2>1. CASE s \in passed
    BY <1>6, <1>7, <2>1, SocketsAre DEF Held
  <2>2. CASE s \in OwnedBy(users[t])
    BY <1>1, <1>6, <2>2, OwnedIsMine DEF AttentionOK, Held, Mine
  <2> QED BY <1>10, <2>1, <2>2
<1>13. WaitOK(users'[t], sockets'[users'[t].on])
  <2>1. CASE users'[t].at = "in accept"
    BY <1>9, <1>10, <2>1 DEF WaitOK
  <2>2. CASE users'[t].at = "ask"
    BY <2>2, WaitsNowhere
  <2> QED BY <1>10, <2>1, <2>2
<1> QED BY <1>8, <1>9, <1>10, <1>11, <1>12, <1>13, UserAttends

LEMMA AskForNextAttends ==
  ASSUME ConnectionInv, AttentionInv, NEW t \in {Acceptor, Caller}, AskForNext(t)
  PROVE  AttentionInv'
<1>1. UsersOK /\ users[t] \in UserRecord /\ users[t].at = "ask" /\ UNCHANGED sockets /\ users[t].on \in Sockets
  <2>1. UsersOK /\ users[t].at = "ask" /\ UNCHANGED sockets
    BY InvOwns DEF AskForNext, At
  <2> QED BY <2>1, UserIs, SocketsAre DEF UserOK
<1>2. PICK u : u = [users[t] EXCEPT !.at = "idle", !.holds = @ \cup {users[t].on}]
  OBVIOUS
<1>3. users' = [users EXCEPT ![t] = u]
  BY <1>1, <1>2 DEF AskForNext, UsersOK, UserRecord
<1>4. u \in UserRecord /\ u.holds = users[t].holds \cup {users[t].on} /\ u.at = "idle"
  BY <1>1, <1>2 DEF UserRecord
<1>5. users' \in [{Acceptor, Caller} -> UserRecord] /\ users'[t] = u /\ \A v \in {Acceptor, Caller} : v # t => users'[v] = users[v]
  BY <1>1, <1>3, <1>4 DEF UsersOK
<1>6. OwnedBy(users'[t]) \subseteq OwnedBy(users[t])
  BY <1>1, <1>4, <1>5 DEF OwnedBy
<1>7. WaitOK(users'[t], sockets[users'[t].on])
  BY <1>4, <1>5, WaitsNowhere
<1>8. users[t].at # "connect, timer"
  BY <1>1
<1> QED BY <1>1, <1>5, <1>6, <1>7, <1>8, NoneAttends

LEMMA CloseSocketAttends ==
  ASSUME ConnectionInv, AttentionInv, NEW t \in {Acceptor, Caller}, NEW s \in Sockets, CloseSocket(t, s)
  PROVE  AttentionInv'
<1>1. UsersOK /\ users[t] \in UserRecord /\ users[t].at = "idle" /\ UNCHANGED sockets
  BY InvOwns, UserIs DEF CloseSocket, Idle
<1>2. PICK u : u = [users[t] EXCEPT !.holds = @ \ {s}, !.on = NoSocket]
  OBVIOUS
<1>3. users' = [users EXCEPT ![t] = u]
  BY <1>1, <1>2 DEF CloseSocket, UsersOK, UserRecord
<1>4. u \in UserRecord /\ u.holds = users[t].holds \ {s} /\ u.at = "idle"
  BY <1>1, <1>2 DEF UserRecord
<1>5. users' \in [{Acceptor, Caller} -> UserRecord] /\ users'[t] = u /\ \A v \in {Acceptor, Caller} : v # t => users'[v] = users[v]
  BY <1>1, <1>3, <1>4 DEF UsersOK
<1>6. OwnedBy(users'[t]) \subseteq OwnedBy(users[t])
  BY <1>4, <1>5 DEF OwnedBy
<1>7. WaitOK(users'[t], sockets[users'[t].on])
  BY <1>4, <1>5, WaitsNowhere
<1>8. users[t].at # "connect, timer"
  BY <1>1
<1> QED BY <1>1, <1>5, <1>6, <1>7, <1>8, NoneAttends

LEMMA AttentionInit ==
  ASSUME ConnectionInit
  PROVE  AttentionInv
<1>1. \A s \in Sockets : sockets[s] = IF s \in Children THEN NotASocket ELSE NewSocket
  BY DEF ConnectionInit
<1>2. /\ NotASocket.state = "FREE" /\ NewSocket.state = "CLOSED" /\ NewSocket.events = {}
  BY NotASocketIs, NewSocketIs DEF NewSocket
<1>3. \A t \in {Acceptor, Caller} : users[t].at = "idle" /\ users[t].holds \subseteq {Listener, Client}
  BY DEF ConnectionInit
<1>4. sockets[Listener].events = {} /\ sockets[Client].state = "CLOSED"
  BY <1>1, <1>2, SocketsAre
<1>5. \A s \in Sockets \ {Listener} : Attended(users, s, sockets[s])
  BY <1>1, <1>2 DEF Attended, Active
<1>6. ASSUME NEW t \in {Acceptor, Caller}
      PROVE  (\A s \in OwnedBy(users[t]) : Held(s, sockets[s])) /\ WaitOK(users[t], sockets[users[t].on])
  <2>1. OwnedBy(users[t]) \subseteq {Client}
    BY <1>3 DEF OwnedBy
  <2>2. \A s \in OwnedBy(users[t]) : Held(s, sockets[s])
    BY <1>4, <2>1 DEF Held, Settled
  <2> QED BY <1>3, <2>2, WaitsNowhere
<1> QED BY <1>4, <1>5, <1>6 DEF AttentionInv, AttentionOK

LEMMA AttentionStep ==
  ASSUME ConnectionInv, AttentionInv, [ConnectionNext]_connectionVars
  PROVE  AttentionInv'
<1>1. ASSUME NEW t \in {Acceptor, Caller}, UserStep(t) PROVE AttentionInv'
  BY <1>1, ListenAttends, AcceptAttends, TakeClientAttends, AskForNextAttends, ConnectAttends, SetTimeoutAttends, CheckConnectedAttends,
     CheckStateAttends, TakeDataAttends, StoreShutdownAttends, WriteDataAttends, BeginsAttends, ShutdownAttends, CloseSocketAttends,
     WakesUpAttends DEF UserStep
<1>2. ASSUME UNCHANGED connectionVars PROVE AttentionInv'
  <2>1. sockets' = sockets /\ users' = users
    BY <1>2 DEF connectionVars
  <2>2. AttentionOK(sockets', users')
    BY <2>1 DEF AttentionInv
  <2> QED BY <2>2 DEF AttentionInv, AttentionOK, Attended, Held, WaitOK, OwnedBy, Connecting, Word, Settled
<1>3. ASSUME ConnectionNext PROVE AttentionInv'
  BY <1>1, <1>3, ReceiveSynAttends, ReceivePacketAttends, TimePassesAttends, TimerCheckAttends, HandleCloseAttends,
     CheckNewClientAttends DEF ConnectionNext
<1> QED BY <1>2, <1>3

LEMMA InvPays ==
  ASSUME ConnectionInv, AttentionInv
  PROVE  AttentionPaid
<1>1. UsersOK /\ AttentionOK(sockets, users) /\ SocketOK(Listener, sockets[Listener])
  BY InvOwns, SocketsAre DEF AttentionInv
<1>2. ASSUME NEW s \in Sockets, Exists(s), Protected(sockets[s].state) \/ sockets[s].events # {}
      PROVE  sockets[s].timer \/ \E t \in {Acceptor, Caller} : At(t, "connect, timer") /\ users[t].on = s
  <2>1. s # Listener
    BY <1>1, <1>2 DEF AttentionOK, SocketOK, Protected
  <2>2. Attended(users, s, sockets[s])
    BY <1>1, <2>1 DEF AttentionOK
  <2> QED BY <1>2, <2>2 DEF Attended, Exists, Protected, Active, Connecting, At
<1>3. ASSUME NEW t \in {Acceptor, Caller}, Due(t)
      PROVE  Awaited(t) \cap (On(t).group \cup On(t).events) # {}
  <2>1. WaitOK(users[t], On(t))
    BY <1>1 DEF AttentionOK, On
  <2>2. CASE At(t, "in accept") /\ sockets[Listener].peer # NoSocket
    <3>1. On(t) = sockets[Listener]
      BY <1>1, <2>2, OwnedIsMine DEF At, On
    <3> QED BY <2>1, <2>2, <3>1 DEF WaitOK, Word, Awaited, At
  <2>3. CASE At(t, "in connect") /\ NowConnected(On(t).state)
    BY <2>1, <2>3 DEF WaitOK, Word, Awaited, At
  <2>4. CASE At(t, "in recv") /\ (On(t).received \/ ~Active(On(t).state))
    BY <2>1, <2>4 DEF WaitOK, Word, Awaited, At, Active, NowConnected, AtLeastEstablished
  <2>5. CASE At(t, "in send") /\ ~On(t).unacked
    BY <2>1, <2>5 DEF WaitOK, Word, Awaited, At
  <2> QED BY <1>3, <2>2, <2>3, <2>4, <2>5 DEF Due
<1> QED BY <1>2, <1>3 DEF AttentionPaid

(* Nobody sleeps over what happened, for every number of sockets, tasks,   *)
(* packets and events: whenever there is something to do for a socket, or  *)
(* to tell its user, then usTimeout is not zero or is about to be set; and *)
(* a task that sleeps in accept, connect, recv or send while what it waits *)
(* for is there has been told, or will be (prvTCPNextTimeout,              *)
(* vTCPStateChange, xTCPTimerCheck, vSocketWakeUpUser).                    *)
THEOREM AttentionIsPaid ==
  ASSUME ~ListenerCloses
  PROVE  ConnectionSpec => []AttentionPaid
<1>1. ConnectionInit => ConnectionInv /\ AttentionInv
  BY ConnectionInitInv, AttentionInit
<1>2. (ConnectionInv /\ AttentionInv) /\ [ConnectionNext]_connectionVars => (ConnectionInv /\ AttentionInv)'
  BY ConnectionStep, AttentionStep
<1>3. ConnectionInv /\ AttentionInv => AttentionPaid
  BY InvPays
<1> QED BY <1>1, <1>2, <1>3, PTL DEF ConnectionSpec

(***************************************************************************)
(* Checksums.  A one's complement sum knows a number but for multiples of  *)
(* HalfBase - 1, and whether it is 0.                                      *)
(***************************************************************************)
MaxHalf == HalfBase - 1

Same(x, y) == (x = 0 <=> y = 0) /\ \E k \in Int : x = y + k * MaxHalf

LEMMA Bases ==
  /\ ByteBase \in Nat /\ ByteBase >= 2 /\ ByteBase % 2 = 0
  /\ HalfBase \in Nat /\ HalfBase = ByteBase * ByteBase /\ HalfBase >= 2 * ByteBase
  /\ WordBase \in Nat /\ WordBase = HalfBase * HalfBase /\ WordBase >= 4 * HalfBase
  /\ MaxHalf \in Nat /\ MaxHalf >= 3 /\ HalfBase = MaxHalf + 1
  /\ MaxQuads \in Nat /\ 10 * HalfBase + MaxQuads <= WordBase
<1>1. /\ ByteBase \in Nat /\ ByteBase % 2 = 0 /\ MaxQuads \in Nat
      /\ 10 * HalfBase + MaxQuads <= WordBase
  BY ChecksumAssumption
<1>2. ByteBase # 0
  BY ChecksumAssumption
<1>3. ByteBase >= 2
  BY <1>1, <1>2
<1>4. \A b \in Nat : b >= 2 => b * b \in Nat /\ b * b >= 2 * b
  OBVIOUS
<1>5. HalfBase \in Nat /\ HalfBase >= 2 * ByteBase
  BY <1>1, <1>3, <1>4 DEF HalfBase
<1>6. \A b \in Nat : b >= 4 => b * b \in Nat /\ b * b >= 4 * b
  OBVIOUS
<1>7. WordBase \in Nat /\ WordBase >= 4 * HalfBase
  <2>1. HalfBase >= 4
    BY <1>1, <1>3, <1>5
  <2> QED BY <1>5, <1>6, <2>1 DEF WordBase
<1> QED BY <1>1, <1>3, <1>5, <1>7 DEF MaxHalf, HalfBase, WordBase

LEMMA Adding ==
  ASSUME NEW x \in Nat, NEW y \in Nat, NEW z \in Nat
  PROVE  x + y \in Nat /\ x + y + z \in Nat /\ x + (y + z) = x + y + z
  OBVIOUS

(* Multiples.                                                              *)
LEMMA BelowSquare ==
  ASSUME NEW b \in Nat, NEW x \in 0 .. b - 1
  PROVE  b * x \in Nat /\ b * x <= b * b - b
<1>1. \A c, y \in Nat : y <= c - 1 => c * y <= c * c - c /\ c * y \in Nat
  OBVIOUS
<1> QED BY <1>1

LEMMA MultiplesAdd ==
  ASSUME NEW k \in Int, NEW l \in Int, NEW m \in Int
  PROVE  /\ (k + l) * m = k * m + l * m
         /\ (k - l) * m = k * m - l * m
         /\ (-k) * m = -(k * m)
         /\ k * m \in Int
         /\ k * (l * m) = (k * l) * m
  OBVIOUS

LEMMA SameIsEqual ==
  ASSUME NEW x \in Nat PROVE Same(x, x)
<1>1. x = x + 0 * MaxHalf
  BY Bases
<1> QED BY <1>1 DEF Same

LEMMA SameTurns ==
  ASSUME NEW x \in Nat, NEW y \in Nat, Same(x, y)
  PROVE  Same(y, x)
<1>1. PICK k \in Int : x = y + k * MaxHalf
  BY DEF Same
<1>2. y = x + (-k) * MaxHalf
  BY <1>1, Bases, MultiplesAdd
<1>3. -k \in Int
  OBVIOUS
<1> QED BY <1>2, <1>3 DEF Same

LEMMA SameFollows ==
  ASSUME NEW x \in Nat, NEW y \in Nat, NEW z \in Nat, Same(x, y), Same(y, z)
  PROVE  Same(x, z)
<1>1. PICK k \in Int : x = y + k * MaxHalf
  BY DEF Same
<1>2. PICK l \in Int : y = z + l * MaxHalf
  BY DEF Same
<1>3. x = z + (k + l) * MaxHalf
  BY <1>1, <1>2, Bases, MultiplesAdd
<1> QED BY <1>3 DEF Same

LEMMA SameAdds ==
  ASSUME NEW x \in Nat, NEW y \in Nat, NEW u \in Nat, NEW v \in Nat, Same(x, y), Same(u, v)
  PROVE  Same(x + u, y + v)
<1>1. PICK k \in Int : x = y + k * MaxHalf
  BY DEF Same
<1>2. PICK l \in Int : u = v + l * MaxHalf
  BY DEF Same
<1>3. x + u = y + v + (k + l) * MaxHalf
  BY <1>1, <1>2, Bases, MultiplesAdd
<1>4. x + u = 0 <=> y + v = 0
  BY DEF Same
<1> QED BY <1>3, <1>4 DEF Same

LEMMA SameTimes ==
  ASSUME NEW x \in Nat, NEW y \in Nat, Same(x, y)
  PROVE  Same(ByteBase * x, ByteBase * y)
<1>1. PICK k \in Int : x = y + k * MaxHalf
  BY DEF Same
<1>2. ByteBase * x = ByteBase * y + (ByteBase * k) * MaxHalf
  BY <1>1, Bases, MultiplesAdd
<1>3. ByteBase * k \in Int
  BY Bases
<1>4. \A b, z \in Nat : b >= 2 => (b * z = 0 <=> z = 0)
  OBVIOUS
<1> QED BY <1>2, <1>3, <1>4, Bases DEF Same

(* A multiple of HalfBase - 1, or of HalfBase, more.                       *)
LEMMA SameBut ==
  ASSUME NEW x \in Nat, NEW y \in Nat, NEW k \in Nat, x = y + k * MaxHalf, y # 0 \/ k = 0
  PROVE  Same(x, y)
<1>1. k * MaxHalf \in Nat
  BY Bases
<1>2. k = 0 => k * MaxHalf = 0
  BY Bases
<1> QED BY <1>1, <1>2 DEF Same

LEMMA TwoBytesOver ==
  ASSUME NEW x \in Nat
  PROVE  HalfBase * x \in Nat /\ Same(HalfBase * x, x)
<1>1. HalfBase * x = x + x * MaxHalf
  BY Bases
<1>2. HalfBase * x \in Nat
  BY Bases
<1> QED BY <1>1, <1>2, SameBut

LEMMA SameAmongHalves ==
  ASSUME NEW x \in 0 .. MaxHalf, NEW y \in 0 .. MaxHalf, Same(x, y)
  PROVE  x = y
<1>1. PICK k \in Int : x = y + k * MaxHalf
  BY DEF Same
<1>2. \A j \in Int, m \in Nat : m >= 3 => /\ j > 1 => j * m > m
                                          /\ j < -1 => j * m < -m
  OBVIOUS
<1>3. k \in {-1, 0, 1}
  BY <1>1, <1>2, Bases
<1> QED BY <1>1, <1>3, Bases DEF Same

LEMMA Divided ==
  ASSUME NEW x \in Nat, NEW m \in Nat, m >= 1
  PROVE  /\ x \div m \in Nat /\ x % m \in 0 .. m - 1
         /\ x = m * (x \div m) + (x % m)
         /\ \A q \in Nat : x < m * q => x \div m < q
<1>1. x \div m \in Int /\ x % m \in 0 .. m - 1 /\ x = m * (x \div m) + (x % m)
  OBVIOUS
<1>2. \A q, r \in Int : q < r => m * q <= m * r - m
  <2>1. \A q, r \in Int : q < r => \E e \in Nat : r = q + 1 + e
    <3>1. \A q, r \in Int : q < r => r - q - 1 \in Nat /\ r = q + 1 + (r - q - 1)
      OBVIOUS
    <3> QED BY <3>1
  <2>2. \A q \in Int, e \in Nat : m * (q + 1 + e) = m * q + m + m * e /\ m * e \in Nat /\ m * q \in Int
    OBVIOUS
  <2>3. ASSUME NEW q \in Int, NEW r \in Int, q < r PROVE m * q <= m * r - m
    <3>1. PICK e \in Nat : r = q + 1 + e
      BY <2>1, <2>3
    <3> QED BY <2>2, <3>1
  <2> QED BY <2>3
<1>3. \A q \in Int : m * q \in Int
  OBVIOUS
<1>4. x \div m >= 0
  <2>1. ~(x \div m < 0)
    <3> SUFFICES ASSUME x \div m < 0 PROVE FALSE
      BY <1>1
    <3>1. m * (x \div m) <= m * 0 - m
      BY <1>1, <1>2
    <3> QED BY <1>1, <1>3, <3>1
  <2> QED BY <1>1, <2>1
<1>5. ASSUME NEW q \in Nat, x < m * q PROVE x \div m < q
  <2> SUFFICES ASSUME ~(x \div m < q) PROVE FALSE
    OBVIOUS
  <2>1. x \div m = q \/ q < x \div m
    BY <1>1
  <2>2. m * q <= m * (x \div m)
    <3>1. CASE x \div m = q
      BY <3>1, <1>3
    <3>2. CASE q < x \div m
      BY <1>1, <1>2, <1>3, <3>2
    <3> QED BY <2>1, <3>1, <3>2
  <2> QED BY <1>1, <1>3, <1>5, <2>2
<1> QED BY <1>1, <1>4, <1>5

LEMMA Folding ==
  ASSUME NEW x \in Nat
  PROVE  /\ FoldedOnce(x) \in Nat /\ Same(FoldedOnce(x), x)
         /\ x < WordBase => FoldedOnce(x) <= 2 * MaxHalf
         /\ x <= 2 * MaxHalf => FoldedOnce(x) <= MaxHalf
<1> DEFINE q == x \div HalfBase
           r == x % HalfBase
<1>1. /\ q \in Nat /\ r \in 0 .. HalfBase - 1 /\ x = HalfBase * q + r
      /\ \A k \in Nat : x < HalfBase * k => q < k
  <2>1. HalfBase \in Nat /\ HalfBase >= 1
    BY Bases
  <2> QED BY <2>1, Divided
<1>2. FoldedOnce(x) = r + q
  BY DEF FoldedOnce
<1> HIDE DEF q, r
<1>3. Same(HalfBase * q, q) /\ HalfBase * q \in Nat
  BY <1>1, TwoBytesOver
<1>4. Same(HalfBase * q + r, q + r)
  BY <1>1, <1>3, SameIsEqual, SameAdds
<1>5. Same(FoldedOnce(x), x) /\ FoldedOnce(x) \in Nat
  BY <1>1, <1>2, <1>4, SameTurns
<1>6. ASSUME x < WordBase PROVE FoldedOnce(x) <= 2 * MaxHalf
  <2>1. q < HalfBase
    BY <1>1, <1>6, Bases
  <2> QED BY <1>1, <1>2, <2>1, Bases
<1>7. ASSUME x <= 2 * MaxHalf PROVE FoldedOnce(x) <= MaxHalf
  <2>1. x < HalfBase * 2
    BY <1>7, Bases
  <2>2. q = 0 \/ q = 1
    BY <1>1, <2>1
  <2>3. HalfBase * 1 = HalfBase
    BY Bases
  <2> QED BY <1>1, <1>2, <1>7, <2>2, <2>3, Bases
<1> QED BY <1>5, <1>6, <1>7

(* Three foldings leave nothing to carry.                                  *)
LEMMA FoldedHalf ==
  ASSUME NEW x \in Nat, x < WordBase
  PROVE  LET h == FoldedOnce(FoldedOnce(x)) IN h \in 0 .. MaxHalf /\ Same(h, x)
<1>1. FoldedOnce(x) \in Nat /\ Same(FoldedOnce(x), x) /\ FoldedOnce(x) <= 2 * MaxHalf
  BY Folding
<1>2. /\ FoldedOnce(FoldedOnce(x)) \in Nat /\ FoldedOnce(FoldedOnce(x)) <= MaxHalf
      /\ Same(FoldedOnce(FoldedOnce(x)), FoldedOnce(x))
  BY <1>1, Folding
<1> QED BY <1>1, <1>2, SameFollows, Bases

LEMMA Swapping ==
  ASSUME NEW h \in 0 .. MaxHalf
  PROVE  Swapped(h) \in 0 .. MaxHalf /\ Same(Swapped(h), ByteBase * h)
<1> DEFINE q == h \div ByteBase
           r == h % ByteBase
<1>1. h \in Nat /\ h < HalfBase
  BY Bases
<1>2. q \in 0 .. ByteBase - 1 /\ r \in 0 .. ByteBase - 1 /\ h = ByteBase * q + r
  <2>1. ByteBase \in Nat /\ ByteBase >= 1 /\ h < ByteBase * ByteBase
    BY <1>1, Bases
  <2>2. /\ q \in Nat /\ r \in 0 .. ByteBase - 1 /\ h = ByteBase * q + r
        /\ \A k \in Nat : h < ByteBase * k => q < k
    BY <1>1, <2>1, Divided
  <2>3. q < ByteBase
    BY <2>1, <2>2
  <2> QED BY <2>1, <2>2, <2>3
<1>3. Swapped(h) = r * ByteBase + q
  BY DEF Swapped
<1> HIDE DEF q, r
<1>4. \A b \in Nat, x \in Nat : x <= b - 1 => x * b <= b * b - b /\ x * b \in Nat
  OBVIOUS
<1>5. r * ByteBase <= HalfBase - ByteBase /\ r * ByteBase \in Nat
  BY <1>2, <1>4, Bases
<1>6. Swapped(h) \in 0 .. MaxHalf
  BY <1>2, <1>3, <1>5, Bases
<1>7. ByteBase * h = HalfBase * q + r * ByteBase
  BY <1>2, Bases
<1>8. Same(HalfBase * q, q) /\ HalfBase * q \in Nat
  BY <1>2, TwoBytesOver
<1>9. Same(HalfBase * q + r * ByteBase, q + r * ByteBase)
  BY <1>2, <1>5, <1>8, SameIsEqual, SameAdds
<1>10. ByteBase * h \in Nat
  BY <1>1, Bases
<1> QED BY <1>2, <1>3, <1>5, <1>6, <1>7, <1>9, <1>10, SameTurns

(***************************************************************************)
(* What the processor loads.                                               *)
(***************************************************************************)
LEMMA HalfLoaded ==
  ASSUME NEW d \in Seq(Byte), NEW i \in 1 .. Len(d) - 1
  PROVE  HalfAt(d, i) \in 0 .. MaxHalf
<1>1. d[i] \in 0 .. ByteBase - 1 /\ d[i + 1] \in 0 .. ByteBase - 1
  <2>1. i \in 1 .. Len(d) /\ i + 1 \in 1 .. Len(d)
    OBVIOUS
  <2>2. d[i] \in Byte /\ d[i + 1] \in Byte
    BY <2>1
  <2> QED BY <2>2 DEF Byte
<1>2. PICK x \in Nat, y \in Nat : x = d[i] /\ y = ByteBase * d[i + 1] /\ x <= ByteBase - 1 /\ y <= HalfBase - ByteBase
  <2>1. ByteBase * d[i + 1] \in Nat /\ ByteBase * d[i + 1] <= ByteBase * ByteBase - ByteBase
    BY <1>1, BelowSquare, Bases
  <2> QED BY <1>1, <2>1, Bases
<1>3. HalfAt(d, i) = x + y
  BY <1>2 DEF HalfAt
<1> QED BY <1>2, <1>3, Bases

LEMMA WordLoaded ==
  ASSUME NEW d \in Seq(Byte), NEW i \in 1 .. Len(d) - 3
  PROVE  /\ WordAt(d, i) \in 0 .. WordBase - 1
         /\ Same(WordAt(d, i), HalfAt(d, i) + HalfAt(d, i + 2))
<1>1. HalfAt(d, i) \in 0 .. MaxHalf /\ HalfAt(d, i + 2) \in 0 .. MaxHalf
  <2>1. i \in 1 .. Len(d) - 1 /\ i + 2 \in 1 .. Len(d) - 1
    OBVIOUS
  <2> QED BY <2>1, HalfLoaded
<1>2. \A b, x \in Nat : x <= b - 1 => b * x <= b * b - b /\ b * x \in Nat
  OBVIOUS
<1>3. HalfBase * HalfAt(d, i + 2) <= WordBase - HalfBase /\ HalfBase * HalfAt(d, i + 2) \in Nat
  BY <1>1, <1>2, Bases
<1>4. Same(HalfBase * HalfAt(d, i + 2), HalfAt(d, i + 2))
  BY <1>1, TwoBytesOver
<1>5. Same(HalfAt(d, i), HalfAt(d, i))
  BY <1>1, SameIsEqual
<1>6. Same(HalfAt(d, i) + HalfBase * HalfAt(d, i + 2), HalfAt(d, i) + HalfAt(d, i + 2))
  BY <1>1, <1>3, <1>4, <1>5, SameAdds
<1> QED BY <1>1, <1>3, <1>6, Bases DEF WordAt

Accumulator == [sum : 0 .. WordBase - 1, carry : Nat]

(* A carry counts 1, as what it carries does.                              *)
LEMMA WordAdded ==
  ASSUME NEW acc \in Accumulator, NEW w \in 0 .. WordBase - 1
  PROVE  LET new == AddWord(acc, w) IN
           /\ new \in Accumulator /\ new.carry <= acc.carry + 1
           /\ Same(new.sum + new.carry, acc.sum + acc.carry + w)
<1> DEFINE new == AddWord(acc, w)
           x == acc.sum + w
<1>1. acc.sum \in 0 .. WordBase - 1 /\ acc.carry \in Nat /\ x \in Nat
  BY Bases DEF Accumulator
<1>2. new.sum = x % WordBase /\ new.carry = acc.carry + IF x % WordBase < acc.sum THEN 1 ELSE 0
  BY DEF AddWord
<1>3. x % WordBase = IF x < WordBase THEN x ELSE x - WordBase
  <2>1. x < 2 * WordBase
    BY <1>1, Bases
  <2>2. \A y, m \in Nat : m >= 1 /\ y < m => y % m = y
    OBVIOUS
  <2>3. \A y, m \in Nat : m >= 1 /\ y >= m /\ y < 2 * m => y % m = y - m
    <3> SUFFICES ASSUME NEW y \in Nat, NEW m \in Nat, m >= 1, y >= m, y < 2 * m
                 PROVE  y % m = y - m
      OBVIOUS
    <3>1. /\ y \div m \in Nat /\ y % m \in 0 .. m - 1 /\ y = m * (y \div m) + (y % m)
          /\ \A q \in Nat : y < m * q => y \div m < q
      BY Divided
    <3>2. y \div m < 2
      BY <3>1
    <3>3. y \div m = 0 \/ y \div m = 1
      BY <3>1, <3>2
    <3>4. m * 0 = 0 /\ m * 1 = m
      OBVIOUS
    <3> QED BY <3>1, <3>3, <3>4
  <2>4. x \in Nat /\ WordBase \in Nat /\ WordBase >= 1
    BY <1>1, Bases
  <2> HIDE DEF x
  <2>5. CASE x < WordBase
    BY <2>2, <2>4, <2>5
  <2>6. CASE x >= WordBase
    <3>1. x % WordBase = x - WordBase
      BY <2>1, <2>3, <2>4, <2>6
    <3> QED BY <2>4, <2>6, <3>1
  <2> QED BY <2>4, <2>5, <2>6
<1>4. new \in Accumulator /\ new.carry <= acc.carry + 1
  <2>1. new.sum \in 0 .. WordBase - 1
    BY <1>1, <1>2, <1>3, Bases
  <2>2. new.carry \in Nat /\ new.carry <= acc.carry + 1
    BY <1>1, <1>2
  <2>3. new = [sum |-> new.sum, carry |-> new.carry]
    BY DEF AddWord
  <2> QED BY <2>1, <2>2, <2>3 DEF Accumulator
<1>5. CASE x < WordBase
  <2>1. new.sum + new.carry = acc.sum + acc.carry + w
    BY <1>1, <1>2, <1>3, <1>5
  <2> QED BY <1>1, <1>4, <2>1, SameIsEqual
<1>6. CASE x >= WordBase
  <2>1. new.sum = x - WordBase /\ new.carry = acc.carry + 1
    BY <1>1, <1>2, <1>3, <1>6, Bases
  <2>2. WordBase = 1 + (HalfBase + 1) * MaxHalf
    BY Bases
  <2>3. acc.sum + acc.carry + w = new.sum + new.carry + (HalfBase + 1) * MaxHalf
    BY <1>1, <2>1, <2>2, Bases
  <2>4. new.sum \in Nat /\ new.carry \in Nat /\ new.sum + new.carry # 0
    BY <1>1, <1>6, <2>1, Bases
  <2>5. Same(acc.sum + acc.carry + w, new.sum + new.carry)
    <3> HIDE DEF new
    <3>1. HalfBase + 1 \in Nat /\ acc.sum + acc.carry + w \in Nat /\ new.sum + new.carry \in Nat
      BY <1>1, <2>4, Bases
    <3> QED BY <2>3, <2>4, <3>1, SameBut
  <2> QED BY <1>1, <1>4, <2>4, <2>5, SameTurns
<1> QED BY <1>1, <1>4, <1>5, <1>6, Bases

(***************************************************************************)
(* Sums over the data.                                                     *)
(***************************************************************************)
LEMMA Counting ==
  ASSUME NEW n \in Nat, NEW S, 0 \in S, \A k \in 0 .. n - 1 : k \in S => k + 1 \in S
  PROVE  \A k \in 0 .. n : k \in S
<1> DEFINE Bad == {k \in 0 .. n : k \notin S}
<1>1. SUFFICES ASSUME Bad # {} PROVE FALSE
  OBVIOUS
<1>2. PICK k \in Bad : \A l \in Bad : k <= l
  <2>1. Bad \in SUBSET Nat
    OBVIOUS
  <2> HIDE DEF Bad
  <2> QED BY <1>1, <2>1, LeastExists
<1>3. k \in 0 .. n /\ k \notin S /\ k # 0
  OBVIOUS
<1>4. k - 1 \in 0 .. n - 1 /\ k - 1 \notin Bad
  BY <1>2, <1>3
<1> QED BY <1>3, <1>4

(* A function that is defined by steps from 0 to n exists.                 *)
StepsIn(F, n, V) == \A k \in 1 .. n : \A v \in V : F[k][v] \in V
Led(f, n, z, F) == \A k \in 0 .. n : f[k] = IF k = 0 THEN z ELSE F[k][f[k - 1]]

LEMMA StepsLead ==
  ASSUME NEW n \in Nat, NEW V, NEW z \in V, NEW F, StepsIn(F, n, V)
  PROVE  \E f \in [0 .. n -> V] : Led(f, n, z, F)
<1> USE DEF StepsIn
<1> DEFINE Leads(f, m) == Led(f, m, z, F)
           S == {m \in 0 .. n : \E f \in [0 .. m -> V] : Leads(f, m)}
<1>1. 0 \in S
  <2> DEFINE f == [k \in 0 .. 0 |-> z]
  <2>1. f \in [0 .. 0 -> V] /\ Leads(f, 0)
    BY DEF Led
  <2>2. 0 \in 0 .. n
    OBVIOUS
  <2> HIDE DEF f, Leads
  <2> QED BY <2>1, <2>2
<1>2. ASSUME NEW m \in 0 .. n - 1, m \in S PROVE m + 1 \in S
  <2>1. PICK f \in [0 .. m -> V] : Leads(f, m)
    BY <1>2
  <2> DEFINE g == [k \in 0 .. m + 1 |-> IF k = m + 1 THEN F[m + 1][f[m]] ELSE f[k]]
  <2>2. m + 1 \in 1 .. n /\ m \in 0 .. m /\ m + 1 \in 0 .. n
    OBVIOUS
  <2>3. F[m + 1][f[m]] \in V
    BY <2>2
  <2>4. g \in [0 .. m + 1 -> V]
    <3>1. \A k \in 0 .. m + 1 : k = m + 1 \/ k \in 0 .. m
      OBVIOUS
    <3> QED BY <2>3, <3>1
  <2>5. ASSUME NEW k \in 0 .. m + 1 PROVE g[k] = IF k = 0 THEN z ELSE F[k][g[k - 1]]
    <3>1. CASE k = m + 1
      <4>1. k - 1 = m /\ k # 0 /\ m \in 0 .. m + 1 /\ m # m + 1
        BY <3>1
      <4>2. g[m] = f[m] /\ g[k] = F[m + 1][f[m]]
        BY <3>1, <4>1
      <4> QED BY <3>1, <4>1, <4>2
    <3>2. CASE k # m + 1
      <4>1. k \in 0 .. m /\ (k # 0 => k - 1 \in 0 .. m + 1 /\ k - 1 # m + 1)
        BY <3>2
      <4>2. g[k] = f[k] /\ (k # 0 => g[k - 1] = f[k - 1])
        BY <3>2, <4>1
      <4>3. f[k] = IF k = 0 THEN z ELSE F[k][f[k - 1]]
        BY <2>1, <4>1 DEF Led
      <4> QED BY <4>2, <4>3
    <3> QED BY <3>1, <3>2
  <2>6. Leads(g, m + 1)
    <3> HIDE DEF g
    <3> QED BY <2>5 DEF Led
  <2> HIDE DEF g, Leads
  <2> QED BY <2>2, <2>4, <2>6
<1>3. n \in S
  <2>1. \A k \in 0 .. n - 1 : k \in S => k + 1 \in S
    BY <1>2
  <2>2. n \in 0 .. n
    OBVIOUS
  <2> HIDE DEF S
  <2> QED BY <1>1, <2>1, <2>2, Counting
<1> QED BY <1>3

(* What a byte counts where the sum of the halfwords is taken in network   *)
(* order.                                                                  *)
Place(k) == IF k % 2 = 1 THEN ByteBase ELSE 1

Sums(f, d) ==
  /\ f \in [0 .. Len(d) -> Nat] /\ f[0] = 0
  /\ \A k \in 1 .. Len(d) : f[k] = f[k - 1] + Place(k) * d[k]

LEMMA BytesCount ==
  ASSUME NEW d \in Seq(Byte), NEW k \in 1 .. Len(d)
  PROVE  d[k] \in 0 .. ByteBase - 1 /\ Place(k) \in Nat /\ Place(k) * d[k] \in Nat
<1>1. d[k] \in Byte
  OBVIOUS
<1>2. Place(k) \in Nat
  BY Bases DEF Place
<1> QED BY <1>1, <1>2 DEF Byte

LEMMA BigEndianSums ==
  ASSUME NEW d \in Seq(Byte)
  PROVE  \E f : Sums(f, d) /\ BigEndian(d) = f[Len(d)]
<1> DEFINE n == Len(d)
           Body(f) == [k \in 0 .. n |-> IF k = 0 THEN 0 ELSE f[k - 1] + (IF k % 2 = 1 THEN ByteBase ELSE 1) * d[k]]
           F == [k \in 1 .. n |-> [v \in Nat |-> v + Place(k) * d[k]]]
           s == CHOOSE f : f = Body(f)
<1>1. \A k \in 1 .. n : Place(k) * d[k] \in Nat
  BY BytesCount
<1>2. \A k \in 1 .. n : \A v \in Nat : F[k][v] = v + Place(k) * d[k] /\ F[k][v] \in Nat
  BY <1>1
<1>3. \E f : f = Body(f)
  <2>1. PICK f \in [0 .. n -> Nat] : Led(f, n, 0, F)
    <3>1. n \in Nat /\ 0 \in Nat
      OBVIOUS
    <3>2. StepsIn(F, n, Nat)
      BY <1>2 DEF StepsIn
    <3> HIDE DEF F, n
    <3> QED BY <3>1, <3>2, StepsLead
  <2>2. ASSUME NEW k \in 0 .. n
        PROVE  f[k] = IF k = 0 THEN 0 ELSE f[k - 1] + Place(k) * d[k]
    <3>1. k # 0 => k \in 1 .. n /\ k - 1 \in 0 .. n
      OBVIOUS
    <3>2. k # 0 => F[k][f[k - 1]] = f[k - 1] + Place(k) * d[k]
      <4> HIDE DEF F
      <4> QED BY <1>2, <3>1
    <3> HIDE DEF F
    <3> QED BY <2>1, <3>2 DEF Led
  <2>3. f = Body(f)
    BY <2>2 DEF Place
  <2> QED BY <2>3
<1>4. s = Body(s)
  BY <1>3
<1>5. BigEndian(d) = s[n]
  BY DEF BigEndian
<1> HIDE DEF s, F
<1>6. s[0] = 0
  BY <1>4
<1>7. ASSUME NEW k \in 1 .. n PROVE s[k] = s[k - 1] + Place(k) * d[k]
  <2>1. k \in 0 .. n /\ k # 0
    OBVIOUS
  <2> QED BY <1>4, <2>1 DEF Place
<1>8. \A k \in 0 .. n : s[k] \in Nat
  <2> DEFINE S == {k \in 0 .. n : s[k] \in Nat}
  <2>1. 0 \in S /\ n \in Nat
    BY <1>6
  <2>2. ASSUME NEW k \in 0 .. n - 1, k \in S PROVE k + 1 \in S
    <3>1. k + 1 \in 1 .. n /\ (k + 1) - 1 = k
      OBVIOUS
    <3>2. s[k + 1] = s[k] + Place(k + 1) * d[k + 1]
      BY <1>7, <3>1
    <3> QED BY <1>1, <2>2, <3>1, <3>2
  <2>3. \A k \in 0 .. n : k \in S
    <3>1. \A k \in 0 .. n - 1 : k \in S => k + 1 \in S
      BY <2>2
    <3> HIDE DEF S
    <3> QED BY <2>1, <3>1, Counting
  <2> QED BY <2>3
<1>9. s \in [0 .. n -> Nat]
  <2>1. s = [k \in 0 .. n |-> s[k]]
    BY <1>4
  <2> QED BY <1>8, <2>1
<1> QED BY <1>5, <1>6, <1>7, <1>9 DEF Sums

(* Changing a byte changes the sum by what the byte counts.                *)
LEMMA ByteChanged ==
  ASSUME NEW d \in Seq(Byte), NEW j \in 1 .. Len(d), NEW y \in Byte
  PROVE  LET e == [d EXCEPT ![j] = y] IN
           /\ e \in Seq(Byte) /\ Len(e) = Len(d)
           /\ BigEndian(d) \in Nat
           /\ BigEndian(e) = BigEndian(d) + Place(j) * y - Place(j) * d[j]
<1> DEFINE e == [d EXCEPT ![j] = y]
           n == Len(d)
<1>1. e \in Seq(Byte) /\ Len(e) = n /\ n \in Nat /\ \A k \in 1 .. n : e[k] = IF k = j THEN y ELSE d[k]
  OBVIOUS
<1> HIDE DEF e
<1>2. PICK f : Sums(f, d) /\ BigEndian(d) = f[n]
  BY BigEndianSums
<1>3. PICK g : Sums(g, e) /\ BigEndian(e) = g[n]
  BY <1>1, BigEndianSums
<1>4. /\ Place(j) * y \in Nat /\ Place(j) * d[j] \in Nat
      /\ \A k \in 1 .. n : Place(k) * d[k] \in Nat
  <2>1. e[j] = y
    BY <1>1
  <2> QED BY <1>1, <2>1, BytesCount
<1> DEFINE Off(k) == IF k >= j THEN Place(j) * y - Place(j) * d[j] ELSE 0
           S == {k \in 0 .. n : g[k] = f[k] + Off(k)}
<1>5. 0 \in S
  BY <1>1, <1>2, <1>3 DEF Sums
<1>6. ASSUME NEW k \in 0 .. n - 1, k \in S PROVE k + 1 \in S
  <2>1. k + 1 \in 1 .. n /\ k + 1 \in 0 .. n /\ k \in 0 .. n /\ (k + 1) - 1 = k
    BY <1>1
  <2>2. f[k + 1] = f[k] + Place(k + 1) * d[k + 1] /\ f[k] \in Nat
    BY <1>2, <2>1 DEF Sums
  <2>3. g[k + 1] = g[k] + Place(k + 1) * e[k + 1]
    BY <1>1, <1>3, <2>1 DEF Sums
  <2>4. g[k] = f[k] + Off(k)
    BY <1>6
  <2>5. CASE k + 1 = j
    <3>1. e[k + 1] = y /\ Off(k) = 0 /\ Off(k + 1) = Place(j) * y - Place(j) * d[j]
      BY <1>1, <2>1, <2>5
    <3> QED BY <1>4, <2>1, <2>2, <2>3, <2>4, <2>5, <3>1
  <2>6. CASE k + 1 # j
    <3>1. e[k + 1] = d[k + 1] /\ Off(k) = Off(k + 1) /\ Off(k) \in Int
      BY <1>1, <1>4, <2>1, <2>6
    <3>2. Place(k + 1) * d[k + 1] \in Nat
      BY <1>4, <2>1
    <3> HIDE DEF Off
    <3>3. g[k + 1] = f[k + 1] + Off(k + 1)
      BY <2>2, <2>3, <2>4, <3>1, <3>2
    <3> QED BY <2>1, <3>3
  <2> QED BY <2>5, <2>6
<1>7. n \in S
  <2>1. (\A k \in 0 .. n - 1 : k \in S => k + 1 \in S) /\ n \in 0 .. n
    BY <1>1, <1>6
  <2> HIDE DEF S, n
  <2> QED BY <1>1, <1>5, <2>1, Counting
<1>8. BigEndian(d) \in Nat
  BY <1>1, <1>2 DEF Sums
<1>9. g[n] = f[n] + Off(n) /\ n >= j
  BY <1>1, <1>7
<1> QED BY <1>1, <1>2, <1>3, <1>4, <1>8, <1>9 DEF e

(***************************************************************************)
(* y counts the bytes up to the m-th and s, in network order if it is      *)
(* multiplied by c.                                                        *)
(***************************************************************************)
Counts(y, c, s, f, m) == y \in Nat /\ Same(c * y, s + f[m])

Turns == {1, ByteBase}

LEMMA SameTurned ==
  ASSUME NEW c \in Turns, NEW x \in Nat, NEW y \in Nat, Same(x, y)
  PROVE  c \in Nat /\ c * x \in Nat /\ c * y \in Nat /\ Same(c * x, c * y)
<1>1. CASE c = 1
  BY <1>1
<1>2. CASE c = ByteBase
  BY <1>2, Bases, SameTimes
<1> QED BY <1>1, <1>2 DEF Turns

LEMMA CountsSame ==
  ASSUME NEW c \in Turns, NEW s \in Nat, NEW f, NEW m, f[m] \in Nat,
         NEW x \in Nat, NEW y, Counts(y, c, s, f, m), Same(x, y)
  PROVE  Counts(x, c, s, f, m)
<1>1. c * x \in Nat /\ c * y \in Nat /\ Same(c * x, c * y)
  BY SameTurned DEF Counts
<1>2. s + f[m] \in Nat
  OBVIOUS
<1> QED BY <1>1, <1>2, SameFollows DEF Counts

LEMMA HalfCounts ==
  ASSUME NEW d \in Seq(Byte), NEW f, Sums(f, d), NEW i \in 1 .. Len(d) - 1
  PROVE  /\ f[i - 1] \in Nat /\ f[i + 1] \in Nat
         /\ Place(i) * HalfAt(d, i) \in Nat
         /\ Same(f[i - 1] + Place(i) * HalfAt(d, i), f[i + 1])
<1>1. /\ i \in 1 .. Len(d) /\ i + 1 \in 1 .. Len(d) /\ (i + 1) - 1 = i
      /\ i - 1 \in 0 .. Len(d) /\ i \in 0 .. Len(d) /\ i + 1 \in 0 .. Len(d)
  OBVIOUS
<1>2. d[i] \in Nat /\ d[i + 1] \in Nat
  BY <1>1, BytesCount
<1>3. f[i - 1] \in Nat /\ f[i] \in Nat /\ f[i + 1] \in Nat
  BY <1>1 DEF Sums
<1>4. f[i] = f[i - 1] + Place(i) * d[i] /\ f[i + 1] = f[i] + Place(i + 1) * d[i + 1]
  BY <1>1 DEF Sums
<1>5. Place(i) \in Nat /\ Place(i) * d[i] \in Nat /\ HalfAt(d, i) \in Nat
  BY <1>1, BytesCount, HalfLoaded
<1>6. Place(i) * HalfAt(d, i) \in Nat
  BY <1>5
<1>7. CASE i % 2 = 1
  <2>1. Place(i) = ByteBase /\ Place(i + 1) = 1
    BY <1>7 DEF Place
  <2>2. Place(i) * HalfAt(d, i) = Place(i) * d[i] + HalfBase * d[i + 1]
    <3>1. PICK b \in Nat, x \in Nat, y \in Nat : b = ByteBase /\ x = d[i] /\ y = d[i + 1]
      BY <1>2, Bases
    <3>2. b * (x + b * y) = b * x + (b * b) * y
      OBVIOUS
    <3>3. ByteBase * (d[i] + ByteBase * d[i + 1]) = ByteBase * d[i] + (ByteBase * ByteBase) * d[i + 1]
      BY <3>1, <3>2
    <3> QED BY <2>1, <3>3 DEF HalfAt, HalfBase
  <2>3. HalfBase * d[i + 1] \in Nat /\ Same(HalfBase * d[i + 1], d[i + 1])
    BY <1>2, TwoBytesOver
  <2>4. f[i - 1] + Place(i) * d[i] \in Nat
    BY <1>3, <1>5
  <2>5. Same(f[i - 1] + Place(i) * d[i] + HalfBase * d[i + 1], f[i - 1] + Place(i) * d[i] + d[i + 1])
    BY <1>2, <2>3, <2>4, SameIsEqual, SameAdds
  <2>6. /\ f[i - 1] + Place(i) * HalfAt(d, i) = f[i - 1] + Place(i) * d[i] + HalfBase * d[i + 1]
        /\ f[i + 1] = f[i - 1] + Place(i) * d[i] + d[i + 1]
    <3>1. f[i - 1] + Place(i) * HalfAt(d, i) = f[i - 1] + Place(i) * d[i] + HalfBase * d[i + 1]
      <4>1. PICK p \in Nat, q \in Nat, r \in Nat : p = f[i - 1] /\ q = Place(i) * d[i] /\ r = HalfBase * d[i + 1]
        BY <1>3, <1>5, <2>3
      <4>2. p + (q + r) = p + q + r
        OBVIOUS
      <4> QED BY <2>2, <4>1, <4>2
    <3>2. f[i + 1] = f[i] + d[i + 1]
      BY <1>2, <1>4, <2>1
    <3> QED BY <1>4, <3>1, <3>2
  <2> QED BY <1>3, <1>6, <2>5, <2>6
<1>8. CASE i % 2 # 1
  <2>1. Place(i) = 1 /\ Place(i + 1) = ByteBase
    BY <1>8 DEF Place
  <2>2. f[i - 1] + Place(i) * HalfAt(d, i) = f[i + 1]
    <3>1. PICK p \in Nat, x \in Nat, y \in Nat : p = f[i - 1] /\ x = d[i] /\ y = ByteBase * d[i + 1]
      BY <1>2, <1>3, Bases
    <3>2. HalfAt(d, i) = x + y
      BY <3>1 DEF HalfAt
    <3>3. f[i + 1] = f[i] + y /\ f[i] = p + 1 * x /\ Place(i) * HalfAt(d, i) = 1 * (x + y)
      BY <1>4, <2>1, <3>1, <3>2
    <3>4. p + 1 * (x + y) = p + 1 * x + y
      OBVIOUS
    <3> QED BY <3>1, <3>3, <3>4
  <2> QED BY <1>3, <1>6, <2>2, SameIsEqual
<1> QED BY <1>7, <1>8

LEMMA CountsHalf ==
  ASSUME NEW d \in Seq(Byte), NEW f, Sums(f, d), NEW i \in 1 .. Len(d) - 1, NEW s \in Nat,
         NEW y, Counts(y, Place(i), s, f, i - 1)
  PROVE  Counts(y + HalfAt(d, i), Place(i), s, f, i + 1)
<1> DEFINE c == Place(i)
           h == HalfAt(d, i)
<1>1. h \in Nat /\ c \in Turns /\ c \in Nat /\ y \in Nat
  BY HalfLoaded, Bases DEF Place, Turns, Counts
<1>2. f[i - 1] \in Nat /\ f[i + 1] \in Nat /\ c * h \in Nat /\ Same(f[i - 1] + c * h, f[i + 1])
  BY HalfCounts
<1>3. Same(c * y, s + f[i - 1]) /\ c * y \in Nat
  BY <1>1 DEF Counts
<1> HIDE DEF c, h
<1>4. Same(c * y + c * h, s + f[i - 1] + c * h)
  <2>1. Same(c * h, c * h) /\ s + f[i - 1] \in Nat
    BY <1>2, SameIsEqual
  <2> QED BY <1>2, <1>3, <2>1, SameAdds
<1>5. Same(s + (f[i - 1] + c * h), s + f[i + 1])
  <2>1. Same(s, s) /\ f[i - 1] + c * h \in Nat
    BY <1>2, SameIsEqual
  <2> QED BY <1>2, <2>1, SameAdds
<1>6. c * (y + h) = c * y + c * h /\ s + f[i - 1] + c * h = s + (f[i - 1] + c * h)
  BY <1>1, <1>2
<1>7. c * (y + h) \in Nat /\ s + (f[i - 1] + c * h) \in Nat /\ s + f[i + 1] \in Nat
  <2>1. y + h \in Nat
    BY <1>1
  <2>2. c * (y + h) \in Nat
    BY <1>1, <2>1
  <2>3. s + (f[i - 1] + c * h) \in Nat /\ s + f[i + 1] \in Nat
    BY <1>2, Adding, Zenon
  <2> QED BY <2>2, <2>3
<1>8. Same(c * (y + h), s + f[i + 1])
  BY <1>4, <1>5, <1>6, <1>7, SameFollows
<1> QED BY <1>1, <1>8 DEF Counts, c, h

LEMMA CountsWord ==
  ASSUME NEW d \in Seq(Byte), NEW f, Sums(f, d), NEW i \in 1 .. Len(d) - 3, NEW s \in Nat,
         NEW y, Counts(y, Place(i), s, f, i - 1), NEW x \in Nat, Same(x, y + WordAt(d, i))
  PROVE  Counts(x, Place(i), s, f, i + 3)
<1> DEFINE h == HalfAt(d, i)
           g == HalfAt(d, i + 2)
<1>1. /\ i \in 1 .. Len(d) - 1 /\ i + 2 \in 1 .. Len(d) - 1 /\ (i + 2) - 1 = i + 1
      /\ (i + 2) + 1 = i + 3 /\ Place(i + 2) = Place(i)
  BY DEF Place
<1>2. h \in Nat /\ g \in Nat /\ y \in Nat /\ WordAt(d, i) \in Nat /\ Same(WordAt(d, i), h + g)
  BY <1>1, HalfLoaded, WordLoaded DEF Counts
<1>3. Counts(y + h, Place(i), s, f, i + 1)
  BY <1>1, CountsHalf
<1>4. Counts(y + h + g, Place(i), s, f, i + 3)
  <2>1. Counts(y + h, Place(i + 2), s, f, (i + 2) - 1)
    BY <1>1, <1>3
  <2>2. Counts(y + h + g, Place(i + 2), s, f, (i + 2) + 1)
    <3> HIDE DEF h
    <3> QED BY <1>1, <2>1, CountsHalf
  <2> QED BY <1>1, <2>2
<1> HIDE DEF h, g
<1>5. Same(x, y + h + g)
  <2>1. Same(y, y)
    BY <1>2, SameIsEqual
  <2>2. Same(y + WordAt(d, i), y + (h + g)) /\ y + (h + g) = y + h + g
    BY <1>2, <2>1, SameAdds
  <2>3. y + WordAt(d, i) \in Nat /\ y + h + g \in Nat
    BY <1>2
  <2> QED BY <2>2, <2>3, SameFollows
<1>6. f[i + 3] \in Nat /\ Place(i) \in Turns
  BY DEF Sums, Place, Turns
<1> QED BY <1>4, <1>5, <1>6, CountsSame

(* A last byte counts as the first one of a halfword does.                 *)
LEMMA CountsByte ==
  ASSUME NEW d \in Seq(Byte), NEW f, Sums(f, d), NEW i \in 1 .. Len(d), NEW s \in Nat,
         NEW y, Counts(y, Place(i), s, f, i - 1)
  PROVE  Counts(y + d[i], Place(i), s, f, i)
<1> DEFINE c == Place(i)
<1>1. d[i] \in Nat /\ c \in Nat /\ c * d[i] \in Nat /\ y \in Nat
  BY BytesCount DEF Counts
<1>2. f[i] = f[i - 1] + c * d[i] /\ f[i - 1] \in Nat
  BY DEF Sums
<1>3. Same(c * y, s + f[i - 1]) /\ c * y \in Nat
  BY <1>1 DEF Counts
<1> HIDE DEF c
<1>4. Same(c * d[i], c * d[i]) /\ s + f[i - 1] \in Nat
  BY <1>1, <1>2, SameIsEqual, Adding, Zenon
<1>5. Same(c * y + c * d[i], s + f[i - 1] + c * d[i])
  BY <1>1, <1>3, <1>4, SameAdds
<1>6. c * (y + d[i]) = c * y + c * d[i]
  BY <1>1
<1>7. s + f[i - 1] + c * d[i] = s + f[i]
  BY <1>1, <1>2
<1> QED BY <1>1, <1>5, <1>6, <1>7 DEF Counts, c

(***************************************************************************)
(* The two loops.                                                          *)
(***************************************************************************)
SummedAlong(a, d, first, words, sum) ==
  /\ a[0] = [sum |-> sum, carry |-> 0] /\ Summed(d, first, words, sum) = a[words]
  /\ \A k \in 1 .. words : a[k] = AddWord(a[k - 1], WordAt(d, first + 4 * (k - 1)))

LEMMA SummedSteps ==
  ASSUME NEW d \in Seq(Byte), NEW first \in Nat \ {0}, NEW words \in Nat,
         first + 4 * words <= Len(d) + 1, NEW sum \in 0 .. WordBase - 1
  PROVE  \E a \in [0 .. words -> Accumulator] : SummedAlong(a, d, first, words, sum)
<1> DEFINE w(k) == WordAt(d, first + 4 * (k - 1))
           z == [sum |-> sum, carry |-> 0]
           Body(a) == [k \in 0 .. words |-> IF k = 0 THEN z ELSE AddWord(a[k - 1], w(k))]
           F == [k \in 1 .. words |-> [v \in Accumulator |-> AddWord(v, w(k))]]
           acc == CHOOSE a : a = Body(a)
<1>1. \A k \in 1 .. words : w(k) \in 0 .. WordBase - 1
  <2> SUFFICES ASSUME NEW k \in 1 .. words PROVE w(k) \in 0 .. WordBase - 1
    OBVIOUS
  <2>1. first + 4 * (k - 1) \in 1 .. Len(d) - 3
    OBVIOUS
  <2> QED BY <2>1, WordLoaded
<1>2. z \in Accumulator
  BY DEF Accumulator
<1> HIDE DEF w, z
<1>3. \A k \in 1 .. words : \A v \in Accumulator : F[k][v] = AddWord(v, w(k)) /\ AddWord(v, w(k)) \in Accumulator
  BY <1>1, WordAdded
<1>4. \E a : a = Body(a)
  <2>1. PICK a \in [0 .. words -> Accumulator] : Led(a, words, z, F)
    <3>1. StepsIn(F, words, Accumulator)
      <4> HIDE DEF F
      <4> QED BY <1>3 DEF StepsIn
    <3> HIDE DEF F
    <3> QED BY <1>2, <3>1, StepsLead
  <2>2. ASSUME NEW k \in 0 .. words
        PROVE  a[k] = IF k = 0 THEN z ELSE AddWord(a[k - 1], w(k))
    <3>1. k # 0 => k \in 1 .. words /\ k - 1 \in 0 .. words
      OBVIOUS
    <3>2. k # 0 => F[k][a[k - 1]] = AddWord(a[k - 1], w(k))
      <4> HIDE DEF F
      <4> QED BY <1>3, <3>1
    <3> HIDE DEF F
    <3> QED BY <2>1, <3>2 DEF Led
  <2>3. a = Body(a)
    BY <2>2
  <2> QED BY <2>3
<1>5. acc = Body(acc)
  BY <1>4
<1>6. Summed(d, first, words, sum) = acc[words]
  BY DEF Summed, z, w
<1> HIDE DEF acc, F
<1>7. acc[0] = z
  BY <1>5
<1>8. ASSUME NEW k \in 1 .. words PROVE acc[k] = AddWord(acc[k - 1], w(k))
  <2>1. k \in 0 .. words /\ k # 0
    OBVIOUS
  <2> QED BY <1>5, <2>1
<1>9. \A k \in 0 .. words : acc[k] \in Accumulator
  <2> DEFINE S == {k \in 0 .. words : acc[k] \in Accumulator}
  <2>1. 0 \in S
    BY <1>2, <1>7
  <2>2. ASSUME NEW k \in 0 .. words - 1, k \in S PROVE k + 1 \in S
    <3>1. k + 1 \in 1 .. words /\ (k + 1) - 1 = k
      OBVIOUS
    <3>2. acc[k + 1] = AddWord(acc[k], w(k + 1))
      BY <1>8, <3>1
    <3>3. acc[k + 1] \in Accumulator
      BY <1>3, <2>2, <3>1, <3>2
    <3> QED BY <3>1, <3>3
  <2>3. \A k \in 0 .. words : k \in S
    <3>1. \A k \in 0 .. words - 1 : k \in S => k + 1 \in S
      BY <2>2
    <3> HIDE DEF S
    <3> QED BY <2>1, <3>1, Counting
  <2> QED BY <2>3
<1>10. acc \in [0 .. words -> Accumulator]
  <2>1. acc = [k \in 0 .. words |-> acc[k]]
    BY <1>5
  <2> QED BY <1>9, <2>1
<1> QED BY <1>6, <1>7, <1>8, <1>10 DEF SummedAlong, z, w

LEMMA SummedCounts ==
  ASSUME NEW d \in Seq(Byte), NEW f, Sums(f, d), NEW first \in Nat \ {0}, NEW words \in Nat,
         first + 4 * words <= Len(d) + 1, NEW sum \in 0 .. WordBase - 1,
         NEW s \in Nat, NEW t \in Nat, Counts(sum + t, Place(first), s, f, first - 1)
  PROVE  LET r == Summed(d, first, words, sum) IN
           /\ r.sum \in 0 .. WordBase - 1 /\ r.carry \in 0 .. words
           /\ Counts(r.sum + r.carry + t, Place(first), s, f, first - 1 + 4 * words)
<1>0. PICK a \in [0 .. words -> Accumulator] : SummedAlong(a, d, first, words, sum)
  BY SummedSteps
<1>1. /\ a[0] = [sum |-> sum, carry |-> 0] /\ Summed(d, first, words, sum) = a[words]
      /\ \A k \in 1 .. words : a[k] = AddWord(a[k - 1], WordAt(d, first + 4 * (k - 1)))
  BY <1>0 DEF SummedAlong
<1> DEFINE Right(k) == /\ a[k].carry <= k
                       /\ Counts(a[k].sum + a[k].carry + t, Place(first), s, f, first - 1 + 4 * k)
           S == {k \in 0 .. words : Right(k)}
<1>2. \A k \in 0 .. words : a[k].sum \in 0 .. WordBase - 1 /\ a[k].carry \in Nat
  BY DEF Accumulator
<1>3. 0 \in S
  <2>1. a[0].sum = sum /\ a[0].carry = 0
    BY <1>1
  <2>2. sum + 0 + t = sum + t /\ first - 1 + 4 * 0 = first - 1 /\ 0 \in 0 .. words
    BY Bases
  <2> QED BY <2>1, <2>2
<1>4. ASSUME NEW k \in 0 .. words - 1, k \in S PROVE k + 1 \in S
  <2> DEFINE i == first + 4 * k
             w == WordAt(d, i)
  <2>1. k \in 0 .. words /\ k + 1 \in 1 .. words /\ k + 1 \in 0 .. words /\ (k + 1) - 1 = k
    OBVIOUS
  <2>2. i \in 1 .. Len(d) - 3 /\ Place(i) = Place(first) /\ i - 1 = first - 1 + 4 * k
        /\ i + 3 = first - 1 + 4 * (k + 1)
    BY DEF Place
  <2>3. w \in 0 .. WordBase - 1 /\ w \in Nat
    BY <2>2, WordLoaded
  <2> HIDE DEF i, w
  <2>4. PICK old \in Accumulator, new \in Accumulator :
          old = a[k] /\ new = a[k + 1] /\ new = AddWord(old, w)
    BY <1>1, <2>1 DEF i, w
  <2>5. PICK x \in Nat, y \in Nat, p \in Nat, q \in Nat :
          x = old.sum /\ y = new.sum /\ p = old.carry /\ q = new.carry
    <3>1. old.sum \in 0 .. WordBase - 1 /\ new.sum \in 0 .. WordBase - 1 /\ old.carry \in Nat /\ new.carry \in Nat
      BY DEF Accumulator
    <3>2. old.sum \in Nat /\ new.sum \in Nat
      BY <3>1, Bases
    <3> QED BY <3>1, <3>2
  <2>6. q <= p + 1 /\ Same(y + q, x + p + w)
    BY <2>3, <2>4, <2>5, WordAdded
  <2>7. Counts(x + p + t, Place(i), s, f, i - 1) /\ p <= k
    BY <1>4, <2>2, <2>4, <2>5
  <2>8. Same(y + q + t, x + p + t + w)
    <3>1. Same(t, t)
      BY SameIsEqual
    <3>2. y + q \in Nat /\ x + p + w \in Nat
      BY <2>3
    <3>3. Same(y + q + t, x + p + w + t)
      BY <2>6, <3>1, <3>2, SameAdds
    <3>4. x + p + w + t = x + p + t + w
      BY <2>3
    <3> QED BY <3>3, <3>4
  <2>9. Counts(y + q + t, Place(i), s, f, i + 3)
    <3>1. y + q + t \in Nat /\ Same(y + q + t, x + p + t + WordAt(d, i))
      BY <2>8 DEF w
    <3> QED BY <2>2, <2>7, <3>1, CountsWord
  <2>10. q <= k + 1
    BY <2>6, <2>7
  <2> QED BY <2>1, <2>2, <2>4, <2>5, <2>9, <2>10
<1>5. words \in S
  <2>1. (\A k \in 0 .. words - 1 : k \in S => k + 1 \in S) /\ words \in 0 .. words
    BY <1>4
  <2> HIDE DEF S
  <2> QED BY <1>3, <2>1, Counting
<1> QED BY <1>1, <1>2, <1>5

LEMMA AddedSteps ==
  ASSUME NEW d \in Seq(Byte), NEW first \in Nat \ {0}, NEW halves \in Nat,
         first + 2 * halves <= Len(d) + 1
  PROVE  \E a \in [0 .. halves -> Nat] :
           /\ a[0] = 0 /\ Added(d, first, halves) = a[halves]
           /\ \A k \in 1 .. halves : a[k] = a[k - 1] + HalfAt(d, first + 2 * (k - 1))
<1> DEFINE h(k) == HalfAt(d, first + 2 * (k - 1))
           Body(a) == [k \in 0 .. halves |-> IF k = 0 THEN 0 ELSE a[k - 1] + h(k)]
           F == [k \in 1 .. halves |-> [v \in Nat |-> v + h(k)]]
           acc == CHOOSE a : a = Body(a)
<1>1. \A k \in 1 .. halves : h(k) \in Nat
  <2> SUFFICES ASSUME NEW k \in 1 .. halves PROVE h(k) \in Nat
    OBVIOUS
  <2>1. first + 2 * (k - 1) \in 1 .. Len(d) - 1
    OBVIOUS
  <2> QED BY <2>1, HalfLoaded
<1> HIDE DEF h
<1>3. \A k \in 1 .. halves : \A v \in Nat : F[k][v] = v + h(k) /\ v + h(k) \in Nat
  BY <1>1
<1>4. \E a : a = Body(a)
  <2>1. PICK a \in [0 .. halves -> Nat] : Led(a, halves, 0, F)
    <3>1. StepsIn(F, halves, Nat) /\ 0 \in Nat
      <4> HIDE DEF F
      <4> QED BY <1>3 DEF StepsIn
    <3> HIDE DEF F
    <3> QED BY <3>1, StepsLead
  <2>2. ASSUME NEW k \in 0 .. halves
        PROVE  a[k] = IF k = 0 THEN 0 ELSE a[k - 1] + h(k)
    <3>1. k # 0 => k \in 1 .. halves /\ k - 1 \in 0 .. halves
      OBVIOUS
    <3>2. k # 0 => F[k][a[k - 1]] = a[k - 1] + h(k)
      <4> HIDE DEF F
      <4> QED BY <1>3, <3>1
    <3> HIDE DEF F
    <3> QED BY <2>1, <3>2 DEF Led
  <2>3. a = Body(a)
    BY <2>2
  <2> QED BY <2>3
<1>5. acc = Body(acc)
  BY <1>4
<1>6. Added(d, first, halves) = acc[halves]
  BY DEF Added, h
<1> HIDE DEF acc, F
<1>7. acc[0] = 0
  BY <1>5
<1>8. ASSUME NEW k \in 1 .. halves PROVE acc[k] = acc[k - 1] + h(k)
  <2>1. k \in 0 .. halves /\ k # 0
    OBVIOUS
  <2> QED BY <1>5, <2>1
<1>9. \A k \in 0 .. halves : acc[k] \in Nat
  <2> DEFINE S == {k \in 0 .. halves : acc[k] \in Nat}
  <2>1. 0 \in S
    BY <1>7
  <2>2. ASSUME NEW k \in 0 .. halves - 1, k \in S PROVE k + 1 \in S
    <3>1. k + 1 \in 1 .. halves /\ (k + 1) - 1 = k
      OBVIOUS
    <3>2. acc[k + 1] = acc[k] + h(k + 1) /\ h(k + 1) \in Nat
      BY <1>1, <1>8, <3>1
    <3> QED BY <2>2, <3>1, <3>2
  <2>3. \A k \in 0 .. halves : k \in S
    <3>1. \A k \in 0 .. halves - 1 : k \in S => k + 1 \in S
      BY <2>2
    <3> HIDE DEF S
    <3> QED BY <2>1, <3>1, Counting
  <2> QED BY <2>3
<1>10. acc \in [0 .. halves -> Nat]
  <2>1. acc = [k \in 0 .. halves |-> acc[k]]
    BY <1>5
  <2> QED BY <1>9, <2>1
<1> QED BY <1>6, <1>7, <1>8, <1>10 DEF h

LEMMA AddedCounts ==
  ASSUME NEW d \in Seq(Byte), NEW f, Sums(f, d), NEW first \in Nat \ {0}, NEW halves \in 0 .. 7,
         first + 2 * halves <= Len(d) + 1,
         NEW s \in Nat, NEW y, Counts(y, Place(first), s, f, first - 1)
  PROVE  LET r == Added(d, first, halves) IN
           r \in 0 .. 7 * MaxHalf /\ Counts(y + r, Place(first), s, f, first - 1 + 2 * halves)
<1>0. halves \in Nat
  OBVIOUS
<1>1. PICK a \in [0 .. halves -> Nat] :
        /\ a[0] = 0 /\ Added(d, first, halves) = a[halves]
        /\ \A k \in 1 .. halves : a[k] = a[k - 1] + HalfAt(d, first + 2 * (k - 1))
  BY <1>0, AddedSteps
<1> DEFINE Right(k) == a[k] <= k * MaxHalf /\ Counts(y + a[k], Place(first), s, f, first - 1 + 2 * k)
           S == {k \in 0 .. halves : Right(k)}
<1>2. y \in Nat
  BY DEF Counts
<1>3. 0 \in S
  <2>1. y + 0 = y /\ first - 1 + 2 * 0 = first - 1 /\ 0 \in 0 .. halves /\ 0 * MaxHalf = 0
    BY <1>2, Bases
  <2> QED BY <1>1, <2>1
<1>4. ASSUME NEW k \in 0 .. halves - 1, k \in S PROVE k + 1 \in S
  <2> DEFINE i == first + 2 * k
             h == HalfAt(d, i)
  <2>1. k \in 0 .. halves /\ k + 1 \in 1 .. halves /\ k + 1 \in 0 .. halves /\ (k + 1) - 1 = k
    OBVIOUS
  <2>2. i \in 1 .. Len(d) - 1 /\ Place(i) = Place(first) /\ i - 1 = first - 1 + 2 * k
        /\ i + 1 = first - 1 + 2 * (k + 1)
    BY DEF Place
  <2>3. h \in 0 .. MaxHalf
    BY <2>2, HalfLoaded
  <2>4. a[k + 1] = a[k] + h /\ a[k] \in Nat
    BY <1>1, <2>1
  <2>5. Counts(y + a[k], Place(i), s, f, i - 1) /\ a[k] <= k * MaxHalf
    BY <1>4, <2>2
  <2>6. Counts(y + a[k] + h, Place(i), s, f, i + 1)
    <3> HIDE DEF i
    <3> QED BY <2>2, <2>5, CountsHalf
  <2> HIDE DEF h
  <2>7. y + a[k + 1] = y + a[k] + h
    BY <1>2, <2>3, <2>4
  <2>8. a[k + 1] <= (k + 1) * MaxHalf
    <3>1. (k + 1) * MaxHalf = k * MaxHalf + MaxHalf /\ k * MaxHalf \in Nat
      BY Bases
    <3>2. PICK u \in Nat, v \in Nat, o \in Nat, m \in Nat : u = a[k] /\ v = k * MaxHalf /\ o = h /\ m = MaxHalf
      BY <2>3, <2>4, <3>1, Bases
    <3>3. u <= v /\ o <= m
      BY <2>3, <2>5, <3>2
    <3>4. a[k + 1] = u + o /\ (k + 1) * MaxHalf = v + m
      BY <2>4, <3>1, <3>2
    <3> QED BY <3>3, <3>4
  <2> QED BY <2>1, <2>2, <2>6, <2>7, <2>8
<1>5. halves \in S
  <2>1. (\A k \in 0 .. halves - 1 : k \in S => k + 1 \in S) /\ halves \in 0 .. halves
    BY <1>4
  <2> HIDE DEF S
  <2> QED BY <1>0, <1>3, <2>1, Counting
<1>6. a[halves] \in Nat /\ halves * MaxHalf <= 7 * MaxHalf
  BY Bases
<1>7. a[halves] <= 7 * MaxHalf
  BY <1>5, <1>6, Bases
<1> QED BY <1>1, <1>5, <1>6, <1>7, Bases

LEMMA SwappedBack ==
  ASSUME NEW h \in 0 .. MaxHalf
  PROVE  /\ Swapped(h) \in 0 .. MaxHalf /\ Same(ByteBase * Swapped(h), h)
         /\ Swapped(Swapped(h)) \in 0 .. MaxHalf /\ Same(Swapped(Swapped(h)), h)
<1>1. Swapped(h) \in 0 .. MaxHalf /\ Same(Swapped(h), ByteBase * h) /\ h \in Nat
  BY Swapping
<1>2. /\ Swapped(Swapped(h)) \in 0 .. MaxHalf
      /\ Same(Swapped(Swapped(h)), ByteBase * Swapped(h))
  BY <1>1, Swapping
<1>3. /\ ByteBase * h \in Nat /\ ByteBase * Swapped(h) \in Nat
      /\ ByteBase * (ByteBase * h) = HalfBase * h
  BY <1>1, Bases
<1>4. HalfBase * h \in Nat /\ Same(HalfBase * h, h)
  BY <1>1, TwoBytesOver
<1>5. Same(ByteBase * Swapped(h), ByteBase * (ByteBase * h))
  BY <1>1, <1>3, SameTimes
<1>6. Same(ByteBase * Swapped(h), h)
  BY <1>1, <1>3, <1>4, <1>5, SameFollows
<1>7. Same(Swapped(Swapped(h)), h)
  BY <1>1, <1>2, <1>3, <1>6, SameFollows
<1> QED BY <1>1, <1>2, <1>6, <1>7

(* The bytes in front of the words, and how many words there are.          *)
LEMMA LeadingIs ==
  ASSUME NEW n \in Nat, n <= 4 * MaxQuads + 5, NEW from \in 0 .. 3
  PROVE  LET odd == Skew(from, n)
             lead == Leading(from, n)
             blocks == 4 * ((n - lead) \div 16)
             rest == (n - lead) % 16
         IN  /\ odd \in {0, 1} /\ lead \in {odd, odd + 2} /\ lead <= n
             /\ odd = 1 => from % 2 = 1 /\ n >= 1
             /\ from % 2 = 1 /\ n >= 1 => odd = 1
             /\ blocks \in 0 .. MaxQuads + 1
             /\ rest \in 0 .. 15 /\ lead + 4 * blocks + rest = n
<1>1. MaxQuads \in Nat
  BY Bases
<1> DEFINE odd == Skew(from, n)
           lead == Leading(from, n)
<1>2. /\ odd \in {0, 1} /\ lead \in {odd, odd + 2} /\ lead <= n
      /\ odd = 1 => from % 2 = 1 /\ n >= 1
      /\ from % 2 = 1 /\ n >= 1 => odd = 1
  BY DEF Skew, Leading
<1> HIDE DEF odd, lead
<1>3. n - lead \in Nat /\ lead \in Nat
  BY <1>2
<1>4. /\ (n - lead) \div 16 \in Nat /\ (n - lead) % 16 \in 0 .. 15
      /\ n - lead = 16 * ((n - lead) \div 16) + ((n - lead) % 16)
  BY <1>3
<1>5. 4 * ((n - lead) \div 16) \in 0 .. MaxQuads + 1
  BY <1>1, <1>3, <1>4
<1>6. lead + 4 * (4 * ((n - lead) \div 16)) + ((n - lead) % 16) = n
  BY <1>3, <1>4
<1> QED BY <1>2, <1>4, <1>5, <1>6 DEF odd, lead

(* The sum before the words are added.                                     *)
LEMMA StartCounts ==
  ASSUME NEW d \in Seq(Byte), NEW f, Sums(f, d), NEW odd \in {0, 1}, NEW lead \in {odd, odd + 2},
         lead <= Len(d), NEW s \in 0 .. MaxHalf, odd = 1 => s = 0
  PROVE  LET sum0 == Swapped(s) + IF lead >= 2 THEN HalfAt(d, lead - 1) ELSE 0
             t == IF odd = 1 THEN ByteBase * d[1] ELSE 0
         IN  /\ sum0 \in 0 .. 2 * MaxHalf /\ t \in 0 .. MaxHalf - (ByteBase - 1)
             /\ Counts(sum0 + t, Place(odd + 1), s, f, lead)
<1> DEFINE w == Swapped(s)
           t == IF odd = 1 THEN ByteBase * d[1] ELSE 0
           h == IF lead >= 2 THEN HalfAt(d, lead - 1) ELSE 0
           c == Place(odd + 1)
<1>1. w \in 0 .. MaxHalf /\ Same(ByteBase * w, s)
  BY SwappedBack
<1>2. w \in Nat /\ t \in 0 .. MaxHalf - (ByteBase - 1) /\ t \in Nat
  <2>1. odd = 1 => d[1] \in 0 .. ByteBase - 1
    <3>1. odd = 1 => 1 \in 1 .. Len(d)
      OBVIOUS
    <3> QED BY <3>1, BytesCount
  <2>2. \A b, x \in Nat : x <= b - 1 => b * x <= b * b - b /\ b * x \in Nat
    OBVIOUS
  <2>3. odd = 1 => ByteBase * d[1] <= HalfBase - ByteBase /\ ByteBase * d[1] \in Nat
    BY <2>1, <2>2, Bases
  <2> HIDE DEF w
  <2> QED BY <1>1, <2>3, Bases
<1>3. Counts(w + t, c, s, f, odd)
  <2>1. CASE odd = 0
    <3>1. t = 0 /\ c = ByteBase /\ f[0] = 0 /\ w + t = w /\ s + f[0] = s
      BY <1>2, <2>1 DEF Sums, Place
    <3> HIDE DEF w, t
    <3> QED BY <1>1, <1>2, <2>1, <3>1 DEF Counts
  <2>2. CASE odd = 1
    <3>1. 1 \in 1 .. Len(d) /\ 1 - 1 = 0
      BY <2>2
    <3>2. f[1] = f[0] + Place(1) * d[1] /\ f[0] = 0 /\ f[1] \in Nat
      BY <3>1 DEF Sums
    <3>3. Place(1) = ByteBase /\ c = 1
      BY <2>2 DEF Place
    <3>4. t = ByteBase * d[1] /\ t \in Nat
      BY <1>2, <2>2
    <3>5. f[1] = t
      BY <3>2, <3>3, <3>4
    <3>6. w = 0
      <4>1. s = 0
        BY <2>2
      <4>2. Same(ByteBase * w, 0)
        BY <1>1, <4>1
      <4>3. ByteBase * w = 0
        BY <4>2 DEF Same
      <4>4. \A b, x \in Nat : b >= 2 /\ b * x = 0 => x = 0
        OBVIOUS
      <4> HIDE DEF w
      <4> QED BY <1>2, <4>3, <4>4, Bases
    <3>7. Same(t, t)
      BY <3>4, SameIsEqual
    <3> HIDE DEF w, t, c
    <3>8. c * (w + t) = t /\ s + f[odd] = t /\ w + t \in Nat
      BY <2>2, <3>3, <3>4, <3>5, <3>6
    <3> QED BY <3>7, <3>8 DEF Counts
  <2> QED BY <2>1, <2>2
<1>4. CASE lead = odd
  <2>1. h = 0 /\ w + h + t = w + t
    BY <1>2, <1>4
  <2> QED BY <1>1, <1>2, <1>3, <1>4, <2>1, Bases
<1>5. CASE lead = odd + 2
  <2>1. /\ lead - 1 \in 1 .. Len(d) - 1 /\ (lead - 1) - 1 = odd /\ (lead - 1) + 1 = lead
        /\ lead - 1 = odd + 1 /\ lead >= 2
    BY <1>5
  <2>2. h = HalfAt(d, lead - 1) /\ h \in 0 .. MaxHalf
    BY <2>1, HalfLoaded
  <2> HIDE DEF w, t
  <2>3. Counts(w + t + HalfAt(d, lead - 1), c, s, f, lead)
    <3>1. Counts(w + t, Place(lead - 1), s, f, (lead - 1) - 1)
      BY <1>3, <2>1
    <3>2. s \in Nat
      OBVIOUS
    <3>3. Counts(w + t + HalfAt(d, lead - 1), Place(lead - 1), s, f, (lead - 1) + 1)
      BY <2>1, <3>1, <3>2, CountsHalf
    <3> QED BY <2>1, <3>3
  <2> HIDE DEF h
  <2>4. w + t + h = w + h + t /\ w + h \in 0 .. 2 * MaxHalf
    BY <1>1, <1>2, <2>2, Bases
  <2> QED BY <1>2, <2>2, <2>3, <2>4 DEF w, t, h
<1> QED BY <1>4, <1>5

(* The rest of the data, and the foldings.                                 *)
LEMMA RestCounts ==
  ASSUME NEW d \in Seq(Byte), NEW f, Sums(f, d), NEW done \in Nat, NEW rest \in 0 .. 15,
         done + rest = Len(d), NEW s \in Nat, NEW t \in 0 .. MaxHalf - (ByteBase - 1),
         NEW r, r.sum \in 0 .. WordBase - 1, r.carry \in 0 .. MaxQuads + 1,
         Counts(r.sum + r.carry + t, Place(done + 1), s, f, done)
  PROVE  LET term == t + (IF rest % 2 = 1 THEN d[Len(d)] ELSE 0)
             sum == FoldedOnce(FoldedOnce(FoldedOnce(r.sum) + r.carry + Added(d, done + 1, rest \div 2) + term))
         IN  sum \in 0 .. MaxHalf /\ Counts(sum, Place(done + 1), s, f, Len(d))
<1> DEFINE n == Len(d)
           c == Place(done + 1)
           last == IF rest % 2 = 1 THEN d[n] ELSE 0
           halves == rest \div 2
           a == Added(d, done + 1, halves)
<1>1. /\ n \in Nat /\ MaxQuads \in Nat /\ MaxHalf \in Nat /\ ByteBase \in Nat /\ ByteBase >= 2
      /\ done \in 0 .. n /\ c \in Turns
  <2>1. n \in Nat /\ done \in 0 .. n
    OBVIOUS
  <2>2. MaxQuads \in Nat /\ MaxHalf \in Nat /\ ByteBase \in Nat /\ ByteBase >= 2
    BY Bases
  <2>3. c \in Turns
    BY DEF Place, Turns
  <2> QED BY <2>1, <2>2, <2>3
<1>2. PICK x \in Nat, y \in Nat : x = r.sum /\ y = r.carry /\ x < WordBase /\ y <= MaxQuads + 1
  BY Bases
<1>3. t \in Nat
  BY Bases
<1>4. FoldedOnce(x) \in Nat /\ Same(FoldedOnce(x), x) /\ FoldedOnce(x) <= 2 * MaxHalf
  BY <1>2, Folding
<1> DEFINE z == FoldedOnce(x) + y + t
<1>5. z \in Nat /\ Counts(z, c, s, f, done)
  <2>1. Same(y + t, y + t) /\ y + t \in Nat
    BY <1>3, SameIsEqual
  <2>2. Same(FoldedOnce(x) + (y + t), x + (y + t))
    BY <1>4, <2>1, SameAdds
  <2>3. FoldedOnce(x) + (y + t) = z /\ x + (y + t) = x + y + t /\ z \in Nat /\ x + y + t \in Nat
    <3>1. PICK u \in Nat : u = FoldedOnce(x)
      BY <1>4
    <3>2. u + (y + t) = u + y + t /\ x + (y + t) = x + y + t /\ u + y + t \in Nat /\ x + y + t \in Nat
      BY <1>3, Adding
    <3> QED BY <3>1, <3>2
  <2>4. Counts(x + y + t, c, s, f, done) /\ f[done] \in Nat
    BY <1>1, <1>2 DEF Sums
  <2> HIDE DEF z, c
  <2> QED BY <1>1, <2>2, <2>3, <2>4, CountsSame
<1>6. halves \in 0 .. 7 /\ rest = 2 * halves + (rest % 2) /\ rest % 2 \in {0, 1}
  OBVIOUS
<1> HIDE DEF halves, z
<1>7. a \in 0 .. 7 * MaxHalf /\ Counts(z + a, c, s, f, done + 2 * halves)
  <2>1. done + 1 \in Nat \ {0} /\ (done + 1) - 1 = done /\ done + 1 + 2 * halves <= n + 1
    BY <1>1, <1>6
  <2>2. Counts(z, Place(done + 1), s, f, (done + 1) - 1)
    BY <1>5, <2>1
  <2>3. a \in 0 .. 7 * MaxHalf /\ Counts(z + a, Place(done + 1), s, f, (done + 1) - 1 + 2 * halves)
    <3> HIDE DEF n
    <3> QED BY <1>6, <2>1, <2>2, AddedCounts DEF n
  <2> QED BY <2>1, <2>3
<1> HIDE DEF a
<1>8. last \in 0 .. ByteBase - 1 /\ Counts(z + a + last, c, s, f, n)
  <2>1. CASE rest % 2 = 1
    <3>1. n \in 1 .. n /\ n - 1 = done + 2 * halves /\ Place(n) = c /\ last = d[n]
      <4>1. PICK h \in 0 .. 7 : h = halves /\ rest = 2 * h + 1
        BY <1>6, <2>1
      <4>2. n = done + 2 * h + 1
        BY <1>1, <4>1
      <4>3. Place(n) = c
        BY <4>1, <4>2 DEF Place
      <4> QED BY <1>1, <2>1, <4>1, <4>2, <4>3
    <3>2. Counts(z + a, Place(n), s, f, n - 1)
      BY <1>7, <3>1
    <3>3. Counts(z + a + d[n], Place(n), s, f, n) /\ d[n] \in 0 .. ByteBase - 1
      BY <3>1, <3>2, CountsByte, BytesCount
    <3> QED BY <3>1, <3>3
  <2>2. CASE rest % 2 # 1
    <3>1. last = 0 /\ n = done + 2 * halves /\ z + a + 0 = z + a
      BY <1>1, <1>5, <1>6, <1>7, <2>2
    <3> QED BY <1>1, <1>7, <3>1
  <2> QED BY <2>1, <2>2
<1> HIDE DEF last
<1> DEFINE all == FoldedOnce(x) + y + a + (t + last)
<1>9. all = z + a + last /\ all \in Nat /\ all < WordBase
  <2>0. PICK g \in Nat, h \in Nat, l \in Nat : g = FoldedOnce(x) /\ h = a /\ l = last
    BY <1>1, <1>4, <1>7, <1>8
  <2>1. all = z + a + last /\ all \in Nat
    <3>1. all = g + y + h + (t + l) /\ z = g + y + t
      BY <2>0 DEF z
    <3>2. g + y + h + (t + l) = g + y + t + h + l /\ g + y + t + h + l \in Nat
      BY <1>3
    <3> HIDE DEF all
    <3> QED BY <2>0, <3>1, <3>2
  <2>2. all <= 2 * MaxHalf + MaxQuads + 1 + 7 * MaxHalf + MaxHalf
    <3>1. g <= 2 * MaxHalf /\ h <= 7 * MaxHalf /\ l <= ByteBase - 1 /\ t <= MaxHalf - (ByteBase - 1)
      BY <1>1, <1>4, <1>7, <1>8, <2>0
    <3>2. all = g + y + h + (t + l)
      BY <2>0
    <3>3. ASSUME NEW m \in Nat, NEW b \in Nat, NEW q \in Nat, NEW u \in Nat,
                 g <= 2 * m, h <= 7 * m, l <= b - 1, u <= m - (b - 1), y <= q + 1
          PROVE  g + y + h + (u + l) <= 2 * m + q + 1 + 7 * m + m
      BY <3>3
    <3> HIDE DEF all
    <3> QED BY <1>1, <1>2, <1>3, <3>1, <3>2, <3>3
  <2> HIDE DEF all
  <2> QED BY <2>1, <2>2, Bases
<1> HIDE DEF all
<1> DEFINE sum == FoldedOnce(FoldedOnce(all))
<1>10. sum \in 0 .. MaxHalf /\ Same(sum, all)
  BY <1>9, FoldedHalf
<1>11. Counts(sum, c, s, f, n)
  <2>1. sum \in Nat /\ f[n] \in Nat /\ Counts(all, c, s, f, n)
    <3>1. f[n] \in Nat
      BY <1>1 DEF Sums
    <3>2. sum \in Nat
      BY <1>10
    <3> QED BY <1>8, <1>9, <3>1, <3>2
  <2> HIDE DEF sum, c
  <2> QED BY <1>1, <1>10, <2>1, CountsSame
<1> QED BY <1>2, <1>10, <1>11 DEF all, a, halves, last

(* usGenerateChecksum computes the one's complement sum.                   *)
LEMMA ChecksumSums ==
  ASSUME NEW d \in Seq(Byte), Len(d) <= 4 * MaxQuads + 5, NEW from \in 0 .. 3,
         NEW s \in 0 .. MaxHalf, s = 0 \/ from % 2 = 0
  PROVE  /\ usGenerateChecksum(s, d, from) \in 0 .. MaxHalf
         /\ BigEndian(d) \in Nat
         /\ Same(usGenerateChecksum(s, d, from), s + BigEndian(d))
<1> DEFINE n == Len(d)
           odd == Skew(from, n)
           lead == Leading(from, n)
           sum0 == Swapped(s) + IF lead >= 2 THEN HalfAt(d, lead - 1) ELSE 0
           blocks == 4 * ((n - lead) \div 16)
           acc == Summed(d, lead + 1, blocks, sum0)
           rest == (n - lead) % 16
           done == lead + 4 * blocks
           t == IF odd = 1 THEN ByteBase * d[1] ELSE 0
           term == t + (IF rest % 2 = 1 THEN d[n] ELSE 0)
           sum == FoldedOnce(FoldedOnce(FoldedOnce(acc.sum) + acc.carry + Added(d, done + 1, rest \div 2) + term))
           c == Place(odd + 1)
<1>1. usGenerateChecksum(s, d, from) = Swapped(IF from % 2 = 1 THEN Swapped(sum) ELSE sum)
  BY DEF usGenerateChecksum
<1>2. n \in Nat /\ s \in Nat
  OBVIOUS
<1>3. /\ odd \in {0, 1} /\ lead \in {odd, odd + 2} /\ lead <= n
      /\ odd = 1 => from % 2 = 1 /\ n >= 1
      /\ from % 2 = 1 /\ n >= 1 => odd = 1
      /\ blocks \in 0 .. MaxQuads + 1
      /\ rest \in 0 .. 15 /\ lead + 4 * blocks + rest = n
  BY <1>2, LeadingIs
<1>4. PICK f : Sums(f, d) /\ BigEndian(d) = f[n]
  BY BigEndianSums
<1> HIDE DEF n, odd, lead, blocks, rest
<1>5. odd = 1 => s = 0
  BY <1>3
<1>6. /\ sum0 \in 0 .. 2 * MaxHalf /\ t \in 0 .. MaxHalf - (ByteBase - 1)
      /\ Counts(sum0 + t, c, s, f, lead)
  <2>1. lead <= Len(d)
    BY <1>3 DEF n
  <2> QED BY <1>3, <1>4, <1>5, <2>1, StartCounts
<1> HIDE DEF sum0, t, c
<1>7. /\ acc.sum \in 0 .. WordBase - 1 /\ acc.carry \in 0 .. blocks
      /\ Counts(acc.sum + acc.carry + t, c, s, f, done)
  <2>1. /\ lead + 1 \in Nat \ {0} /\ blocks \in Nat /\ lead + 1 + 4 * blocks <= Len(d) + 1
        /\ (lead + 1) - 1 = lead /\ Place(lead + 1) = c
    <3>1. lead \in Nat /\ lead + 1 \in Nat \ {0} /\ blocks \in Nat /\ (lead + 1) - 1 = lead
      BY <1>3, Bases
    <3>2. lead + 1 + 4 * blocks <= Len(d) + 1
      BY <1>2, <1>3, <3>1 DEF n
    <3>3. Place(lead + 1) = c
      BY <1>3 DEF c, Place
    <3> QED BY <3>1, <3>2, <3>3
  <2>2. sum0 \in 0 .. WordBase - 1 /\ t \in Nat
    BY <1>6, Bases
  <2>3. Counts(sum0 + t, Place(lead + 1), s, f, (lead + 1) - 1)
    BY <1>6, <2>1
  <2>4. /\ acc.sum \in 0 .. WordBase - 1 /\ acc.carry \in 0 .. blocks
        /\ Counts(acc.sum + acc.carry + t, Place(lead + 1), s, f, (lead + 1) - 1 + 4 * blocks)
    BY <1>2, <1>4, <2>1, <2>2, <2>3, SummedCounts
  <2> QED BY <2>1, <2>4
<1> HIDE DEF acc
<1>8. sum \in 0 .. MaxHalf /\ Counts(sum, c, s, f, n)
  <2>1. done \in Nat /\ done + rest = Len(d) /\ Place(done + 1) = c
    <3>1. done \in Nat
      BY <1>3, Bases
    <3>2. done + rest = Len(d)
      BY <1>3 DEF n
    <3>3. Place(done + 1) = c
      BY <1>3, Bases DEF c, Place
    <3> QED BY <3>1, <3>2, <3>3
  <2>2. acc.carry \in 0 .. MaxQuads + 1
    BY <1>3, <1>7, Bases
  <2>3. Counts(acc.sum + acc.carry + t, Place(done + 1), s, f, done)
    BY <1>7, <2>1
  <2> HIDE DEF done
  <2>4. sum \in 0 .. MaxHalf /\ Counts(sum, Place(done + 1), s, f, Len(d))
    BY <1>2, <1>3, <1>4, <1>6, <1>7, <2>1, <2>2, <2>3, RestCounts DEF n
  <2> QED BY <2>1, <2>4 DEF n
<1> HIDE DEF sum
<1>9. f[n] \in Nat /\ s + f[n] \in Nat /\ sum \in Nat
  BY <1>2, <1>4, <1>8 DEF Sums, n
<1>10. CASE from % 2 # 1
  <2>1. c = ByteBase
    BY <1>3, <1>10 DEF c, Place
  <2>2. Swapped(sum) \in 0 .. MaxHalf /\ Same(Swapped(sum), ByteBase * sum)
    BY <1>8, Swapping
  <2>3. Same(ByteBase * sum, s + f[n])
    BY <1>8, <2>1 DEF Counts
  <2>4. ByteBase * sum \in Nat /\ Swapped(sum) \in Nat
    BY <1>9, <2>2, Bases
  <2>5. Same(Swapped(sum), s + f[n])
    BY <1>9, <2>2, <2>3, <2>4, SameFollows
  <2> QED BY <1>1, <1>4, <1>9, <1>10, <2>2, <2>5
<1>11. CASE from % 2 = 1
  <2>1. Swapped(Swapped(sum)) \in 0 .. MaxHalf /\ Same(Swapped(Swapped(sum)), sum)
    BY <1>8, SwappedBack
  <2>2. Same(sum, s + f[n])
    <3>1. CASE n >= 1
      <4>1. c = 1
        BY <1>3, <1>11, <3>1 DEF c, Place
      <4>2. c * sum = sum
        BY <1>9, <4>1
      <4> QED BY <1>8, <4>2 DEF Counts
    <3>2. CASE n = 0
      <4>1. s + f[n] = 0
        BY <1>4, <1>11, <3>2 DEF Sums
      <4>2. c \in Nat /\ c >= 1
        BY Bases DEF c, Place
      <4>3. c * sum = 0
        BY <1>8, <4>1 DEF Counts, Same
      <4>4. \A b, x \in Nat : b >= 1 /\ b * x = 0 => x = 0
        OBVIOUS
      <4>5. sum = 0
        BY <1>9, <4>2, <4>3, <4>4
      <4> QED BY <4>1, <4>5, SameIsEqual
    <3> QED BY <1>2, <3>1, <3>2
  <2>3. Same(Swapped(Swapped(sum)), s + f[n])
    BY <1>9, <2>1, <2>2, SameFollows
  <2> QED BY <1>1, <1>4, <1>9, <1>11, <2>1, <2>3
<1> QED BY <1>10, <1>11

LEMMA OnesSumIs ==
  ASSUME NEW x \in Nat
  PROVE  OnesSum(x) \in 0 .. MaxHalf /\ Same(OnesSum(x), x)
<1>1. MaxHalf \in Nat /\ MaxHalf >= 1 /\ HalfBase - 1 = MaxHalf
  BY Bases DEF MaxHalf
<1>2. CASE x = 0
  BY <1>1, <1>2, SameIsEqual DEF OnesSum
<1>3. CASE x # 0
  <2> DEFINE q == (x - 1) \div MaxHalf
             r == (x - 1) % MaxHalf
  <2>1. x - 1 \in Nat
    BY <1>3
  <2>2. q \in Nat /\ r \in 0 .. MaxHalf - 1 /\ x - 1 = MaxHalf * q + r
    <3> HIDE DEF MaxHalf
    <3> QED BY <1>1, <2>1, Divided
  <2>3. OnesSum(x) = 1 + r
    BY <1>1, <1>3 DEF OnesSum
  <2> HIDE DEF q, r
  <2>4. x = (1 + r) + q * MaxHalf
    BY <1>1, <2>2
  <2>5. Same(x, 1 + r)
    BY <2>2, <2>4, SameBut
  <2> QED BY <1>1, <2>2, <2>3, <2>5, SameTurns
<1> QED BY <1>2, <1>3

(***************************************************************************)
(* A packet that carries its checksum.                                     *)
(***************************************************************************)
LEMMA PlacedCounts ==
  ASSUME NEW z \in Seq(Byte), Len(z) >= 2, z[1] = 0, z[2] = 0, NEW v \in 0 .. MaxHalf
  PROVE  LET e == Placed(z, 1, v) IN
           /\ e \in Seq(Byte) /\ Len(e) = Len(z) /\ Field(e, 1) = v
           /\ \A k \in 3 .. Len(z) : e[k] = z[k]
           /\ BigEndian(z) \in Nat /\ BigEndian(e) = BigEndian(z) + v
<1> DEFINE q == v \div ByteBase
           r == v % ByteBase
           d == [z EXCEPT ![1] = q]
           e == [d EXCEPT ![2] = r]
<1>1. q \in Byte /\ r \in Byte /\ v = ByteBase * q + r
  <2>1. ByteBase \in Nat /\ ByteBase >= 1 /\ v < ByteBase * ByteBase /\ v \in Nat
    BY Bases
  <2>2. /\ q \in Nat /\ r \in 0 .. ByteBase - 1 /\ v = ByteBase * q + r
        /\ \A k \in Nat : v < ByteBase * k => q < k
    BY <2>1, Divided
  <2>3. q < ByteBase
    BY <2>1, <2>2
  <2> QED BY <2>1, <2>2, <2>3 DEF Byte
<1>2. Placed(z, 1, v) = e
  BY DEF Placed
<1>3. 1 \in 1 .. Len(z) /\ 2 \in 1 .. Len(z) /\ Place(1) = ByteBase /\ Place(2) = 1
  BY DEF Place
<1> HIDE DEF q, r
<1>4. /\ d \in Seq(Byte) /\ Len(d) = Len(z) /\ BigEndian(z) \in Nat
      /\ BigEndian(d) = BigEndian(z) + Place(1) * q - Place(1) * z[1]
  BY <1>1, <1>3, ByteChanged
<1>5. d[2] = 0 /\ d[1] = q /\ \A k \in 3 .. Len(z) : d[k] = z[k]
  BY <1>3
<1> HIDE DEF d
<1>6. /\ e \in Seq(Byte) /\ Len(e) = Len(d) /\ BigEndian(d) \in Nat
      /\ BigEndian(e) = BigEndian(d) + Place(2) * r - Place(2) * d[2]
  <2>1. 2 \in 1 .. Len(d)
    BY <1>3, <1>4
  <2> QED BY <1>1, <1>4, <2>1, ByteChanged
<1>7. e[1] = q /\ e[2] = r /\ \A k \in 3 .. Len(z) : e[k] = z[k]
  BY <1>3, <1>4, <1>5
<1> HIDE DEF e
<1>8. q \in Nat /\ r \in Nat /\ ByteBase \in Nat /\ ByteBase * q \in Nat
  <2>1. q \in Nat /\ r \in Nat
    BY <1>1, Bases DEF Byte
  <2> QED BY <2>1, Bases
<1>9. BigEndian(d) = BigEndian(z) + ByteBase * q
  BY <1>3, <1>4, <1>8
<1>10. BigEndian(e) = BigEndian(d) + r
  BY <1>3, <1>5, <1>6, <1>8
<1>11. BigEndian(e) = BigEndian(z) + v
  BY <1>1, <1>4, <1>8, <1>9, <1>10
<1>12. Field(e, 1) = v
  BY <1>1, <1>7, <1>8 DEF Field
<1> QED BY <1>2, <1>4, <1>6, <1>7, <1>11, <1>12

LEMMA PlacedNothing ==
  ASSUME NEW z \in Seq(Byte), Len(z) >= 2, z[1] = 0, z[2] = 0
  PROVE  Placed(z, 1, 0) = z
<1>1. 0 \div ByteBase = 0 /\ 0 % ByteBase = 0
  <2>1. ByteBase \in Nat /\ ByteBase >= 1
    BY Bases
  <2> QED BY <2>1
<1>2. Placed(z, 1, 0) = [z EXCEPT ![1] = 0, ![2] = 0]
  <2>1. Placed(z, 1, 0) = [z EXCEPT ![1] = 0 \div ByteBase, ![1 + 1] = 0 % ByteBase]
    BY DEF Placed
  <2>2. 1 + 1 = 2
    OBVIOUS
  <2> QED BY <1>1, <2>1, <2>2, Zenon
<1> QED BY <1>2

(* What is received is accepted if its sum leaves nothing.                 *)
Whole(p) == p.protocol \in {"UDP", "TCP"} /\ p.complete = TRUE /\ p.lengthInRange = TRUE
Unchecked(p) == p.protocol = "UDP" /\ Field(p.data, p.field) = 0
SumOf(p) == usGenerateChecksum(p.pseudo, p.data, p.from)
Passes(p) == usGenerateProtocolChecksum(p, FALSE) = CorrectCrc

LEMMA AcceptedIf ==
  ASSUME NEW p, Whole(p), SumOf(p) \in 0 .. MaxHalf
  PROVE  Passes(p) <=> Unchecked(p) \/ SumOf(p) = 0 \/ SumOf(p) = MaxHalf
<1> DEFINE g == SumOf(p)
<1>1. Inverted(g) = MaxHalf - g /\ HalfBase - 1 = MaxHalf /\ MaxHalf \in Nat
  BY Bases DEF Inverted, MaxHalf
<1> DEFINE free == Unchecked(p)
           result == IF MaxHalf - g = 0 THEN MaxHalf ELSE MaxHalf - g
<1>2. usGenerateProtocolChecksum(p, FALSE) = IF free THEN CorrectCrc ELSE [code |-> "crc", sum |-> result]
  <2> DEFINE i == Inverted(g)
  <2>1. i = Inverted(usGenerateChecksum(p.pseudo, p.data, p.from))
    BY DEF SumOf
  <2>2. result = IF i = 0 THEN HalfBase - 1 ELSE i
    BY <1>1
  <2> HIDE DEF i, g, result
  <2>3. usGenerateProtocolChecksum(p, FALSE) =
          IF free THEN CorrectCrc ELSE [code |-> "crc", sum |-> IF i = 0 THEN HalfBase - 1 ELSE i]
    BY <2>1 DEF usGenerateProtocolChecksum, Whole, Unchecked
  <2> QED BY <2>2, <2>3
<1>3. CorrectCrc = [code |-> "crc", sum |-> MaxHalf]
  BY <1>1 DEF CorrectCrc
<1>4. [code |-> "crc", sum |-> result] = CorrectCrc <=> result = MaxHalf
  BY <1>3
<1>5. result = MaxHalf <=> g = 0 \/ g = MaxHalf
  BY <1>1
<1> HIDE DEF result, g, free
<1> USE DEF Passes
<1>6. CASE free
  BY <1>2, <1>6 DEF free, g
<1>7. CASE ~free
  <2>1. usGenerateProtocolChecksum(p, FALSE) = [code |-> "crc", sum |-> result]
    BY <1>2, <1>7
  <2> QED BY <1>4, <1>5, <1>7, <2>1 DEF free, g
<1> QED BY <1>6, <1>7

(* A changed byte never counts a multiple of HalfBase - 1 more or less.    *)
LEMMA FlipCounts ==
  ASSUME NEW w \in Turns, NEW x \in Byte, NEW k \in Int
  PROVE  w * (ByteBase - 1 - x) - w * x # k * MaxHalf
<1> SUFFICES ASSUME w * (ByteBase - 1 - x) - w * x = k * MaxHalf PROVE FALSE
  OBVIOUS
<1>1. PICK b \in Nat, y \in Nat : b = ByteBase /\ y = ByteBase - 1 - x /\ x = b - 1 - y /\ x \in Nat
  BY Bases DEF Byte
<1>2. b >= 2 /\ b % 2 = 0 /\ MaxHalf = b * b - 1 /\ MaxHalf \in Nat
  BY <1>1, Bases DEF MaxHalf, HalfBase
<1>3. w * y - w * x = k * MaxHalf
  BY <1>1
<1>4. w * y \in 0 .. b * b - b /\ w * x \in 0 .. b * b - b /\ (w * y = w * x => x = y)
  <2>1. CASE w = 1
    <3>1. b - 1 <= b * b - b
      BY <1>2
    <3> QED BY <1>1, <2>1, <3>1
  <2>2. CASE w = b
    <3>1. \A c, u \in Nat : u <= c - 1 => c * u <= c * c - c /\ c * u \in Nat
      OBVIOUS
    <3>2. \A c, u, v \in Nat : c >= 2 /\ c * u = c * v => u = v
      OBVIOUS
    <3>3. b * y <= b * b - b /\ b * x <= b * b - b /\ b * y \in Nat /\ b * x \in Nat
      BY <1>1, <3>1
    <3> QED BY <1>1, <1>2, <2>2, <3>2, <3>3
  <2> QED BY <1>1, <2>1, <2>2 DEF Turns
<1>5. k * MaxHalf < MaxHalf /\ -MaxHalf < k * MaxHalf
  <2>1. b * b \in Nat /\ b * b - b < MaxHalf
    BY <1>1, <1>2
  <2> QED BY <1>2, <1>3, <1>4, <2>1
<1>6. k = 0
  <2>1. \A j \in Int, m \in Nat : m >= 3 => (j >= 1 => j * m >= m) /\ (j <= -1 => j * m <= -m)
    OBVIOUS
  <2> QED BY <1>2, <1>5, <2>1, Bases
<1>7. w * y = w * x
  <2>1. k * MaxHalf = 0
    BY <1>2, <1>6
  <2> QED BY <1>3, <1>4, <2>1
<1>8. x = y
  BY <1>4, <1>7
<1> QED BY <1>1, <1>2, <1>8

ChecksumInv ==
  /\ packet \in Seq(Byte) /\ Len(packet) <= 4 * MaxQuads + 3
  /\ start \in 0 .. 3 /\ seed \in 0 .. MaxHalf
  /\ seed = 0 \/ start % 2 = 0

(* The checksum of what is sent, and the packet that carries it.           *)
LEMMA SentIsAccepted ==
  ASSUME ChecksumInv, start % 2 = 0, NEW protocol \in {"UDP", "TCP"}
  PROVE  LET c == usGenerateProtocolChecksum(Carrying(protocol, 0), TRUE).sum
             sent == Carrying(protocol, c)
         IN  /\ usGenerateProtocolChecksum(sent, FALSE) = CorrectCrc
             /\ \A i \in DOMAIN packet :
                  LET flipped == [sent EXCEPT !.data[i + 2] = ByteBase - 1 - @]
                  IN  usGenerateProtocolChecksum(flipped, FALSE) # CorrectCrc
<1> DEFINE z == <<0, 0>> \o packet
           c == usGenerateProtocolChecksum(Carrying(protocol, 0), TRUE).sum
           sent == Carrying(protocol, c)
           e == Placed(z, 1, c)
           n == Len(z)
           b == BigEndian(z)
<1>1. /\ packet \in Seq(Byte) /\ Len(packet) <= 4 * MaxQuads + 3 /\ start \in 0 .. 3
      /\ seed \in 0 .. MaxHalf /\ MaxHalf \in Nat /\ MaxHalf >= 3 /\ HalfBase - 1 = MaxHalf
      /\ MaxQuads \in Nat /\ seed \in Nat
  BY Bases DEF ChecksumInv, MaxHalf
<1>2. z \in Seq(Byte) /\ n = Len(packet) + 2 /\ n >= 2 /\ n <= 4 * MaxQuads + 5 /\ z[1] = 0 /\ z[2] = 0
  <2>1. 0 \in Byte
    BY Bases DEF Byte
  <2>2. <<0, 0>> \in Seq(Byte) /\ Len(<<0, 0>>) = 2
    BY <2>1
  <2>3. z \in Seq(Byte) /\ n = Len(packet) + 2 /\ n >= 2 /\ z[1] = 0 /\ z[2] = 0
    BY <1>1, <2>2
  <2>4. n <= 4 * MaxQuads + 5
    BY <1>1, <2>3
  <2> QED BY <2>3, <2>4
<1> HIDE DEF z
<1> DEFINE g == usGenerateChecksum(seed, z, start)
<1>3. g \in 0 .. MaxHalf /\ b \in Nat /\ Same(g, seed + b)
  BY <1>1, <1>2, ChecksumSums
<1> HIDE DEF g, b
<1>4. c \in 0 .. MaxHalf /\ (c = MaxHalf - g \/ (g = MaxHalf /\ c = MaxHalf)) /\ (protocol = "UDP" => c # 0)
  <2> DEFINE p == Carrying(protocol, 0)
  <2>1. /\ p.protocol = protocol /\ p.pseudo = seed /\ p.from = start /\ p.field = 1
        /\ p.complete = TRUE /\ p.lengthInRange = TRUE /\ p.data = z
    BY <1>2, PlacedNothing DEF Carrying, z
  <2> HIDE DEF p
  <2>2. Placed(p.data, p.field, 0) = z
    BY <1>2, <2>1, PlacedNothing
  <2>3. Inverted(g) = MaxHalf - g
    BY <1>1 DEF Inverted
  <2>4. c = IF MaxHalf - g = 0 /\ p.protocol = "UDP" THEN MaxHalf ELSE MaxHalf - g
    <3>1. usGenerateProtocolChecksum(p, TRUE) =
            [code |-> "crc", sum |-> IF Inverted(g) = 0 /\ p.protocol = "UDP" THEN HalfBase - 1 ELSE Inverted(g)]
      BY <2>1, <2>2 DEF usGenerateProtocolChecksum, g
    <3>2. c = usGenerateProtocolChecksum(p, TRUE).sum
      BY DEF p
    <3> HIDE DEF c
    <3>3. c = IF Inverted(g) = 0 /\ p.protocol = "UDP" THEN HalfBase - 1 ELSE Inverted(g)
      <4>1. PICK v : v = IF Inverted(g) = 0 /\ p.protocol = "UDP" THEN HalfBase - 1 ELSE Inverted(g)
        OBVIOUS
      <4>2. [code |-> "crc", sum |-> v].sum = v
        OBVIOUS
      <4> QED BY <3>1, <3>2, <4>1, <4>2, Zenon
    <3> QED BY <1>1, <2>3, <3>3
  <2> HIDE DEF c
  <2> QED BY <1>1, <1>3, <2>1, <2>4
<1> HIDE DEF c
<1>5. /\ e \in Seq(Byte) /\ Len(e) = n /\ Field(e, 1) = c
      /\ \A k \in 3 .. n : e[k] = z[k]
      /\ BigEndian(e) = b + c
  BY <1>2, <1>4, PlacedCounts DEF b
<1>6. sent = [protocol |-> protocol, pseudo |-> seed, from |-> start, field |-> 1, complete |-> TRUE,
              lengthInRange |-> TRUE, data |-> e]
  BY DEF Carrying, z
<1> DEFINE h == usGenerateChecksum(seed, e, start)
<1> HIDE DEF e, sent
<1>7. h \in 0 .. MaxHalf /\ Same(h, seed + (b + c))
  BY <1>1, <1>2, <1>5, ChecksumSums
<1> HIDE DEF h
<1>8. h = MaxHalf /\ Same(MaxHalf, seed + (b + c))
  <2>1. c \in Nat /\ g \in Nat /\ b \in Nat /\ h \in Nat /\ seed + b \in Nat /\ g + c \in Nat /\ seed + (b + c) \in Nat
        /\ seed + b + c = seed + (b + c)
    BY <1>1, <1>3, <1>4, <1>7
  <2>2. Same(g + c, seed + b + c)
    BY <1>3, <2>1, SameIsEqual, SameAdds
  <2>3. Same(g + c, MaxHalf)
    <3>1. CASE c = MaxHalf - g
      <4>1. g + c = MaxHalf
        BY <1>1, <2>1, <3>1
      <4> QED BY <1>1, <4>1, SameIsEqual
    <3>2. CASE g = MaxHalf /\ c = MaxHalf
      <4>1. g + c = MaxHalf + 1 * MaxHalf /\ MaxHalf # 0 /\ 1 \in Nat
        BY <1>1, <3>2
      <4> QED BY <1>1, <2>1, <4>1, SameBut
    <3> QED BY <1>4, <3>1, <3>2
  <2>4. Same(MaxHalf, seed + (b + c))
    BY <1>1, <2>1, <2>2, <2>3, SameTurns, SameFollows
  <2>5. Same(h, MaxHalf)
    BY <1>1, <1>7, <2>1, <2>4, SameTurns, SameFollows
  <2>6. MaxHalf \in 0 .. MaxHalf
    BY <1>1
  <2> QED BY <1>7, <2>4, <2>5, <2>6, SameAmongHalves
<1>9. usGenerateProtocolChecksum(sent, FALSE) = CorrectCrc
  <2>1. /\ sent.protocol = protocol /\ sent.pseudo = seed /\ sent.from = start
        /\ sent.complete = TRUE /\ sent.lengthInRange = TRUE /\ sent.data = e
    BY <1>6
  <2>2. h = SumOf(sent) /\ Whole(sent)
    BY <2>1 DEF h, SumOf, Whole
  <2>3. Passes(sent)
    BY <1>7, <1>8, <2>2, AcceptedIf
  <2> QED BY <2>3 DEF Passes
<1>10. ASSUME NEW i \in DOMAIN packet
       PROVE  usGenerateProtocolChecksum([sent EXCEPT !.data[i + 2] = ByteBase - 1 - @], FALSE) # CorrectCrc
  <2> DEFINE j == i + 2
             x == e[j]
             y == ByteBase - 1 - x
             d == [e EXCEPT ![j] = y]
             p == [sent EXCEPT !.data[i + 2] = ByteBase - 1 - @]
             w == Place(j)
             f == usGenerateChecksum(seed, d, start)
  <2>1. j \in 1 .. Len(e) /\ j >= 3
    <3>1. i \in 1 .. Len(packet)
      BY <1>1
    <3> QED BY <1>1, <1>2, <1>5, <3>1
  <2>2. x \in Byte /\ y \in Byte
    <3>1. x \in Byte
      BY <1>5, <2>1
    <3> QED BY <3>1, Bases DEF Byte
  <2>3. /\ p.protocol = protocol /\ p.pseudo = seed /\ p.from = start /\ p.field = 1
        /\ p.complete = TRUE /\ p.lengthInRange = TRUE /\ p.data = d
    BY <1>6
  <2>4. Field(d, 1) = c
    <3>1. d[1] = e[1] /\ d[2] = e[2]
      BY <1>2, <1>5, <2>1
    <3> QED BY <1>5, <3>1 DEF Field
  <2> HIDE DEF x, y, p, j
  <2>5. /\ d \in Seq(Byte) /\ Len(d) = n /\ BigEndian(e) \in Nat
        /\ BigEndian(d) = BigEndian(e) + w * y - w * x
    BY <1>5, <2>1, <2>2, ByteChanged DEF x
  <2> HIDE DEF d
  <2>6. f \in 0 .. MaxHalf /\ BigEndian(d) \in Nat /\ Same(f, seed + BigEndian(d))
    BY <1>1, <1>2, <2>5, ChecksumSums
  <2> HIDE DEF f
  <2>7. f = SumOf(p) /\ Whole(p)
    BY <2>3 DEF f, SumOf, Whole
  <2> SUFFICES ASSUME usGenerateProtocolChecksum(p, FALSE) = CorrectCrc PROVE FALSE
    BY DEF p
  <2>8. f = 0 \/ f = MaxHalf
    <3>1. Unchecked(p) \/ f = 0 \/ f = MaxHalf
      <4>1. Passes(p)
        BY DEF Passes
      <4> QED BY <2>6, <2>7, <4>1, AcceptedIf
    <3> QED BY <1>4, <2>3, <2>4, <3>1 DEF Unchecked
  <2>9. PICK k \in Int : seed + BigEndian(d) = k * MaxHalf
    <3>1. PICK k \in Int : f = seed + BigEndian(d) + k * MaxHalf
      BY <2>6 DEF Same
    <3>2. seed + BigEndian(d) = (0 - k) * MaxHalf \/ seed + BigEndian(d) = (1 - k) * MaxHalf
      <4>1. (0 - k) * MaxHalf = -(k * MaxHalf) /\ (1 - k) * MaxHalf = MaxHalf - k * MaxHalf /\ k * MaxHalf \in Int
        BY <1>1
      <4>2. PICK m \in Int, b2 \in Nat : m = k * MaxHalf /\ b2 = BigEndian(d)
        BY <2>6, <4>1
      <4>3. f = seed + b2 + m
        BY <3>1, <4>2
      <4>4. seed + b2 = -m \/ seed + b2 = MaxHalf - m
        <5>1. PICK top \in Nat : top = MaxHalf /\ (f = 0 \/ f = top)
          BY <1>1, <2>8
        <5>2. PICK o \in Nat : o = seed
          BY <1>1
        <5>3. f = o + b2 + m
          BY <4>3, <5>2
        <5>4. o + b2 = -m \/ o + b2 = top - m
          BY <5>1, <5>3
        <5> QED BY <5>1, <5>2, <5>4
      <4> QED BY <4>1, <4>2, <4>4
    <3> QED BY <3>2
  <2>10. PICK l \in Int : seed + BigEndian(e) = l * MaxHalf
    <3>1. PICK l \in Int : MaxHalf = seed + BigEndian(e) + l * MaxHalf
      BY <1>5, <1>8 DEF Same
    <3>2. (1 - l) * MaxHalf = MaxHalf - l * MaxHalf /\ l * MaxHalf \in Int
      BY <1>1
    <3>3. seed + BigEndian(e) = (1 - l) * MaxHalf
      BY <1>1, <2>5, <3>1, <3>2
    <3> QED BY <3>3
  <2>11. w \in Turns /\ w \in Nat
    BY Bases DEF Turns, Place
  <2> HIDE DEF w
  <2>12. w * y \in Nat /\ w * x \in Nat
    <3>1. x \in Nat /\ y \in Nat
      BY <2>2, Bases DEF Byte
    <3> QED BY <2>11, <3>1
  <2>13. w * y - w * x = (k - l) * MaxHalf
    <3>1. (k - l) * MaxHalf = k * MaxHalf - l * MaxHalf /\ k * MaxHalf \in Int /\ l * MaxHalf \in Int
      BY <1>1
    <3>2. PICK m \in Int, o \in Int, u \in Nat, v \in Nat, b1 \in Nat, b2 \in Nat :
            /\ m = k * MaxHalf /\ o = l * MaxHalf /\ u = w * y /\ v = w * x
            /\ b1 = BigEndian(e) /\ b2 = BigEndian(d)
      BY <2>5, <2>6, <2>12, <3>1
    <3>3. b2 = b1 + u - v /\ seed + b2 = m /\ seed + b1 = o
      BY <2>5, <2>9, <2>10, <3>2
    <3>4. u - v = m - o
      BY <1>1, <3>3
    <3> QED BY <3>1, <3>2, <3>4
  <2>14. k - l \in Int
    OBVIOUS
  <2> QED BY <2>2, <2>11, <2>13, <2>14, FlipCounts DEF y
<1> QED BY <1>9, <1>10 DEF sent, c

LEMMA ChecksumInitInv ==
  ChecksumInit => ChecksumInv
<1>1. MaxQuads \in Nat /\ MaxHalf = HalfBase - 1
  BY Bases DEF MaxHalf
<1> QED BY <1>1, ChecksumAssumption DEF ChecksumInit, ChecksumInv

LEMMA ChecksumNextInv ==
  ChecksumInv /\ [ChecksumNext]_sumVars => ChecksumInv'
<1> SUFFICES ASSUME ChecksumInv, [ChecksumNext]_sumVars PROVE ChecksumInv'
  OBVIOUS
<1>1. MaxQuads \in Nat /\ packet \in Seq(Byte) /\ Len(packet) \in Nat
  BY Bases DEF ChecksumInv
<1>2. ASSUME NEW q \in Quads, Len(packet) < 4 * MaxQuads, packet' = packet \o q, UNCHANGED <<start, seed>>
      PROVE  ChecksumInv'
  <2>1. q \in [1 .. 4 -> Byte]
    BY ChecksumAssumption
  <2>2. q \in Seq(Byte) /\ Len(q) = 4
    <3>1. 4 \in Nat
      OBVIOUS
    <3>2. q \in Seq(Byte)
      <4>1. Seq(Byte) = UNION {[1 .. n -> Byte] : n \in Nat}
        BY SeqDef
      <4> QED BY <2>1, <3>1, <4>1, Zenon
    <3>3. DOMAIN q = 1 .. 4
      BY <2>1
    <3> QED BY <3>1, <3>2, <3>3, LenProperties
  <2>3. packet' \in Seq(Byte) /\ Len(packet') = Len(packet) + 4
    <3>1. packet \o q \in Seq(Byte) /\ Len(packet \o q) = Len(packet) + Len(q)
      BY <1>1, <2>2, ConcatProperties
    <3> QED BY <1>2, <2>2, <3>1
  <2>4. Len(packet') <= 4 * MaxQuads + 3
    <3>1. PICK m \in Nat : m = Len(packet)
      BY <1>1
    <3> QED BY <1>1, <1>2, <2>3, <3>1
  <2> QED BY <1>2, <2>3, <2>4 DEF ChecksumInv
<1>3. ASSUME NEW x \in Tails, Len(packet) % 4 < 3, packet' = Append(packet, x), UNCHANGED <<start, seed>>
      PROVE  ChecksumInv'
  <2>1. x \in Byte
    BY ChecksumAssumption
  <2>2. packet' \in Seq(Byte) /\ Len(packet') = Len(packet) + 1
    BY <1>1, <1>3, <2>1
  <2>3. Len(packet') <= 4 * MaxQuads + 3
    <3>1. PICK m \in Nat : m = Len(packet)
      BY <1>1
    <3>2. m <= 4 * MaxQuads + 3 /\ m % 4 < 3
      BY <1>3, <3>1 DEF ChecksumInv
    <3>3. m # 4 * MaxQuads + 3
      BY <1>1, <3>2
    <3> QED BY <1>1, <2>2, <3>1, <3>2, <3>3
  <2> QED BY <1>3, <2>2, <2>3 DEF ChecksumInv
<1>4. CASE UNCHANGED sumVars
  BY <1>4 DEF ChecksumInv, sumVars
<1> QED BY <1>2, <1>3, <1>4 DEF ChecksumNext, Longer

(* A checksum is the one's complement sum of the halfwords in network      *)
(* order, whatever the address of the data is, what is sent with its       *)
(* checksum is accepted, and no longer when a byte of it was changed       *)
(* (usGenerateChecksum, usGenerateProtocolChecksum).                       *)
THEOREM ChecksumsAreRight == ChecksumSpec => []ChecksumsRight
<1>1. ChecksumInv => ChecksumsRight
  <2> SUFFICES ASSUME ChecksumInv PROVE ChecksumsRight
    OBVIOUS
  <2>1. usGenerateChecksum(seed, packet, start) = OnesSum(seed + BigEndian(packet))
    <3>1. /\ packet \in Seq(Byte) /\ Len(packet) <= 4 * MaxQuads + 5 /\ start \in 0 .. 3
          /\ seed \in 0 .. MaxHalf /\ (seed = 0 \/ start % 2 = 0) /\ seed \in Nat
      BY Bases DEF ChecksumInv
    <3> DEFINE g == usGenerateChecksum(seed, packet, start)
               x == seed + BigEndian(packet)
    <3>2. g \in 0 .. MaxHalf /\ x \in Nat /\ Same(g, x)
      <4>1. g \in 0 .. MaxHalf /\ BigEndian(packet) \in Nat /\ Same(g, x)
        BY <3>1, ChecksumSums
      <4> HIDE DEF g
      <4> QED BY <3>1, <4>1
    <3> HIDE DEF g, x
    <3>3. OnesSum(x) \in 0 .. MaxHalf /\ Same(OnesSum(x), x)
      BY <3>2, OnesSumIs
    <3>4. Same(g, OnesSum(x))
      BY <3>2, <3>3, SameTurns, SameFollows
    <3>5. g = OnesSum(x)
      BY <3>2, <3>3, <3>4, SameAmongHalves
    <3> QED BY <3>5 DEF g, x
  <2> QED BY <2>1, SentIsAccepted DEF ChecksumsRight
<1> QED BY <1>1, ChecksumInitInv, ChecksumNextInv, PTL DEF ChecksumSpec
=============================================================================
