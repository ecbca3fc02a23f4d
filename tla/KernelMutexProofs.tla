------------------------- MODULE KernelMutexProofs -------------------------
(***************************************************************************)
(* Proofs about KernelMutex, for every number of tasks and mutexes, nested *)
(* and recursive, with every pattern of block times: the counts of what is *)
(* held are right, and a task that holds nothing runs at its own priority. *)
(* The two are proved together: that an inherited priority is given back   *)
(* rests on the count being one when the last mutex is given, and that it  *)
(* is never lent to a task without mutexes rests on the holder of a mutex  *)
(* that is not free being counted.                                         *)
(*                                                                         *)
(* Then the types, and what holds with one mutex and any tasks, priorities *)
(* and block times: the ready lists are exact, the holder runs at what its *)
(* waiters lend and no more, and priority inversion is bounded.  With two  *)
(* mutexes TLC finds a counterexample to each of the three, which is why   *)
(* these theorems say Mutexes = {m}.                                       *)
(***************************************************************************)
EXTENDS KernelMutex, FiniteSetTheorems, SequenceTheorems, TLAPS

Types ==
  /\ xMutexHolder \in [Mutexes -> Tasks \cup {NoTask}]
  /\ uxMessagesWaiting \in [Mutexes -> {0, 1}]
  /\ uxRecursiveCallCount \in [Mutexes -> Nat]
  /\ uxMutexesHeld \in [Tasks -> Nat]
  /\ uxPriority = [t \in Tasks |-> uxPriority[t]]
  /\ call \in [Tasks -> Call]

MutexInv == Types /\ HolderAndCounts /\ InheritanceEnds

LEMMA HeldIsFinite == \A t : IsFiniteSet(Held(t))
<1> TAKE t
<1>1. Held(t) \subseteq Mutexes
  BY DEF Held
<1>. QED
  BY <1>1, TasksAssumption, FS_Subset

LEMMA MutexInvInit == MutexInit => MutexInv
<1> SUFFICES ASSUME MutexInit PROVE MutexInv
  OBVIOUS
<1> USE TasksAssumption, PriorityAssumption DEF MutexInit
<1>1. Types
  BY DEF Types, Call
<1>2. \A t \in Tasks : Held(t) = {}
  BY DEF Held, Holds
<1>3. HolderAndCounts
  <2>1. \A t \in Tasks : uxMutexesHeld[t] = Cardinality(Held(t))
    BY <1>2, FS_EmptySet
  <2>. QED
    BY <2>1 DEF HolderAndCounts, Free
<1>4. InheritanceEnds
  BY DEF InheritanceEnds
<1>. QED
  BY <1>1, <1>3, <1>4 DEF MutexInv

(* A step that changes no mutex and no priority.                           *)
LEMMA OthersKeep ==
  ASSUME MutexInv, UNCHANGED <<mutex, tcb>>, call' \in [Tasks -> Call]
  PROVE  MutexInv'
<1>1. \A t : Held(t)' = Held(t)
  BY DEF Held, Holds, mutex
<1>2. \A m : Free(m)' = Free(m)
  BY DEF Free, mutex
<1>. QED
  BY <1>1, <1>2 DEF MutexInv, Types, HolderAndCounts, InheritanceEnds, mutex, tcb

(* A step that changes only how often a recursive mutex is held.           *)
LEMMA CountKeeps ==
  ASSUME MutexInv, NEW m \in Recursive, ~Free(m),
         UNCHANGED <<xMutexHolder, uxMessagesWaiting, tcb, call>>,
         NEW n \in Nat \ {0},
         uxRecursiveCallCount' = [uxRecursiveCallCount EXCEPT ![m] = n]
  PROVE  MutexInv'
<1>1. \A t : Held(t)' = Held(t)
  BY DEF Held, Holds
<1>2. \A k : Free(k)' = Free(k)
  BY DEF Free
<1>3. Types'
  BY DEF MutexInv, Types, tcb
<1>4. HolderAndCounts'
  BY <1>1, <1>2, TasksAssumption DEF MutexInv, Types, HolderAndCounts, tcb
<1>5. InheritanceEnds'
  BY <1>1 DEF MutexInv, InheritanceEnds, tcb
<1>. QED
  BY <1>3, <1>4, <1>5 DEF MutexInv

(* A step that changes only the priority of a task that holds a mutex.     *)
LEMMA LendingKeeps ==
  ASSUME MutexInv, NEW h \in Tasks, NEW p, Held(h) # {},
         UNCHANGED <<mutex, uxMutexesHeld>>, call' \in [Tasks -> Call],
         uxPriority' = [uxPriority EXCEPT ![h] = p]
  PROVE  MutexInv'
<1>1. \A t : Held(t)' = Held(t)
  BY DEF Held, Holds, mutex
<1>2. \A m : Free(m)' = Free(m)
  BY DEF Free, mutex
<1>3. Types'
  BY DEF MutexInv, Types, mutex
<1>4. HolderAndCounts'
  BY <1>1, <1>2 DEF MutexInv, HolderAndCounts, mutex
<1>5. InheritanceEnds'
  BY <1>1 DEF MutexInv, Types, InheritanceEnds
<1>. QED
  BY <1>3, <1>4, <1>5 DEF MutexInv

(* The holder of a mutex that is not free is a task that holds one.        *)
LEMMA HolderHolds ==
  ASSUME MutexInv, NEW m \in Mutexes, xMutexHolder[m] # NoTask
  PROVE  xMutexHolder[m] \in Tasks /\ Held(xMutexHolder[m]) # {}
BY DEF MutexInv, Types, Held, Holds

LEMMA ObtainKeeps ==
  ASSUME MutexInv, NEW t \in Tasks, Obtain(t)
  PROVE  MutexInv'
<1> DEFINE m == Wanted(t)
<1>1. m \in Mutexes
  BY DEF MutexInv, Types, Call, Wanted
<1>2. /\ Free(m)
      /\ uxMessagesWaiting' = [uxMessagesWaiting EXCEPT ![m] = @ - 1]
      /\ xMutexHolder' = [xMutexHolder EXCEPT ![m] = t]
      /\ uxRecursiveCallCount' = [uxRecursiveCallCount EXCEPT
                                    ![m] = IF m \in Recursive THEN @ + 1 ELSE @]
      /\ uxMutexesHeld' = [uxMutexesHeld EXCEPT ![t] = @ + 1]
      /\ UNCHANGED <<uxPriority, call>>
  BY DEF Obtain
<1> HIDE DEF m
<1>3. uxMessagesWaiting[m] = 1 /\ xMutexHolder[m] = NoTask
  BY <1>1, <1>2 DEF MutexInv, Types, HolderAndCounts, Free
<1>4. m \notin Held(t) /\ Held(t)' = Held(t) \cup {m}
  BY <1>1, <1>2, <1>3, TasksAssumption DEF MutexInv, Types, Held, Holds
<1>5. \A u \in Tasks \ {t} : Held(u)' = Held(u)
  BY <1>1, <1>2, <1>3, TasksAssumption DEF MutexInv, Types, Held, Holds
<1>6. Types'
  BY <1>1, <1>2, <1>3 DEF MutexInv, Types
<1>7. Cardinality(Held(t)') = Cardinality(Held(t)) + 1
  BY <1>4, HeldIsFinite, FS_AddElement
<1>8. \A u \in Tasks : uxMutexesHeld'[u] = Cardinality(Held(u)')
  BY <1>2, <1>5, <1>7 DEF MutexInv, Types, HolderAndCounts
<1>9. /\ \A k \in Mutexes : Free(k)' <=> (xMutexHolder'[k] = NoTask)
      /\ \A k \in Recursive : Free(k)' <=> (uxRecursiveCallCount'[k] = 0)
  BY <1>1, <1>2, <1>3, TasksAssumption DEF MutexInv, Types, HolderAndCounts, Free
<1>10. InheritanceEnds'
  BY <1>2, <1>4, <1>5 DEF MutexInv, InheritanceEnds
<1>. QED
  BY <1>6, <1>8, <1>9, <1>10 DEF MutexInv, HolderAndCounts

LEMMA GiveKeeps ==
  ASSUME MutexInv, NEW t \in Tasks, Give(t)
  PROVE  MutexInv'
<1> DEFINE kept == IF Disinherits(t) THEN uxBasePriority[t] ELSE uxPriority[t]
<1>1. PICK m \in Mutexes :
        /\ Holds(t, m)
        /\ uxRecursiveCallCount' = [uxRecursiveCallCount EXCEPT ![m] = 0]
        /\ xMutexHolder' = [xMutexHolder EXCEPT ![m] = NoTask]
        /\ uxMessagesWaiting' = [uxMessagesWaiting EXCEPT ![m] = @ + 1]
        /\ uxMutexesHeld' = [uxMutexesHeld EXCEPT ![t] = @ - 1]
        /\ uxPriority' = [uxPriority EXCEPT ![t] = kept]
  BY DEF Give
<1>2. call' = call
  BY DEF Give, local
<1>3. xMutexHolder[m] = t /\ uxMessagesWaiting[m] = 0
  BY <1>1, TasksAssumption DEF MutexInv, Types, HolderAndCounts, Free, Holds
<1>4. m \in Held(t) /\ Held(t)' = Held(t) \ {m}
  BY <1>1, <1>3, TasksAssumption DEF MutexInv, Types, Held, Holds
<1>5. \A u \in Tasks \ {t} : Held(u)' = Held(u)
  BY <1>1, <1>3, TasksAssumption DEF MutexInv, Types, Held, Holds
<1>6. /\ Cardinality(Held(t)') = Cardinality(Held(t)) - 1
      /\ Cardinality(Held(t)) \in Nat
      /\ Cardinality(Held(t)') \in Nat
      /\ Held(t)' = {} => Cardinality(Held(t)') = 0
  <2>1. IsFiniteSet(Held(t)) /\ IsFiniteSet(Held(t) \ {m})
    BY HeldIsFinite, FS_RemoveElement
  <2>2. Cardinality(Held(t) \ {m}) = Cardinality(Held(t)) - 1
    BY <1>4, <2>1, FS_RemoveElement
  <2>. QED
    BY <1>4, <2>1, <2>2, FS_CardinalityType, FS_EmptySet
<1>7. uxMutexesHeld[t] = Cardinality(Held(t))
  BY DEF MutexInv, HolderAndCounts
<1>8. Types'
  <2>1. uxMutexesHeld' \in [Tasks -> Nat]
    BY <1>1, <1>6, <1>7 DEF MutexInv, Types
  <2>2. /\ uxMessagesWaiting' \in [Mutexes -> {0, 1}]
        /\ uxRecursiveCallCount' \in [Mutexes -> Nat]
        /\ xMutexHolder' \in [Mutexes -> Tasks \cup {NoTask}]
    BY <1>1, <1>3 DEF MutexInv, Types
  <2>. QED
    BY <1>1, <1>2, <2>1, <2>2 DEF MutexInv, Types
<1>9. \A u \in Tasks : uxMutexesHeld'[u] = Cardinality(Held(u)')
  BY <1>1, <1>5, <1>6, <1>7 DEF MutexInv, Types, HolderAndCounts
<1>10. /\ \A k \in Mutexes : Free(k)' <=> (xMutexHolder'[k] = NoTask)
       /\ \A k \in Recursive : Free(k)' <=> (uxRecursiveCallCount'[k] = 0)
  BY <1>1, <1>3, TasksAssumption DEF MutexInv, Types, HolderAndCounts, Free
<1>11. Held(t)' = {} => uxPriority'[t] = uxBasePriority[t]
  <2> HAVE Held(t)' = {}
  <2>1. uxMutexesHeld[t] = 1
    BY <1>6, <1>7
  <2>2. uxPriority'[t] = kept
    BY <1>1 DEF MutexInv, Types
  <2>. QED
    BY <2>1, <2>2 DEF Disinherits
<1>12. InheritanceEnds'
  BY <1>1, <1>5, <1>11 DEF MutexInv, Types, InheritanceEnds
<1>. QED
  BY <1>8, <1>9, <1>10, <1>12 DEF MutexInv, HolderAndCounts

LEMMA BlockKeeps ==
  ASSUME MutexInv, NEW t \in Tasks, BlockOnMutex(t)
  PROVE  MutexInv'
<1> DEFINE h == xMutexHolder[Wanted(t)]
           raised == IF Lends(t, h) THEN uxPriority[t] ELSE uxPriority[h]
<1>1. Wanted(t) \in Mutexes
  BY DEF MutexInv, Types, Call, Wanted
<1>2. h # NoTask
  BY <1>1 DEF BlockOnMutex, MutexInv, HolderAndCounts
<1>3. h \in Tasks /\ Held(h) # {}
  BY <1>1, <1>2, HolderHolds
<1>4. uxPriority' = [uxPriority EXCEPT ![h] = raised]
  BY DEF BlockOnMutex
<1>5. UNCHANGED <<mutex, uxMutexesHeld>> /\ call' \in [Tasks -> Call]
  BY DEF BlockOnMutex, MutexInv, Types
<1> HIDE DEF h, raised
<1>. QED
  BY <1>3, <1>4, <1>5, LendingKeeps

LEMMA DisinheritAfterTimeoutKeeps ==
  ASSUME MutexInv, NEW t \in Tasks, DisinheritAfterTimeout(t)
  PROVE  MutexInv'
<1> DEFINE m == Wanted(t)
           h == xMutexHolder[m]
           p == PriorityToUse(m, h)
<1>1. m \in Mutexes
  BY DEF MutexInv, Types, Call, Wanted
<1>2. UNCHANGED <<mutex, uxMutexesHeld>> /\ call' \in [Tasks -> Call]
  BY DEF DisinheritAfterTimeout, MutexInv, Types
<1>3. CASE h # NoTask /\ uxPriority' = [uxPriority EXCEPT ![h] = p]
  <2>1. h \in Tasks /\ Held(h) # {}
    BY <1>1, <1>3, HolderHolds
  <2> HIDE DEF h, p
  <2>. QED
    BY <1>2, <1>3, <2>1, LendingKeeps
<1>4. CASE UNCHANGED uxPriority
  BY <1>2, <1>4, OthersKeep DEF tcb
<1>. QED
  BY <1>3, <1>4 DEF DisinheritAfterTimeout

LEMMA MutexInvNext == MutexInv /\ [MutexNext]_mutexVars => MutexInv'
<1> SUFFICES ASSUME MutexInv, [MutexNext]_mutexVars PROVE MutexInv'
  OBVIOUS
<1> USE DEF mutex, tcb, local
<1>1. ASSUME NEW t \in Tasks, BeginTake(t) PROVE MutexInv'
  <2>1. PICK c \in MutexRequests[t] : call' = [call EXCEPT ![t] = c]
    BY <1>1 DEF BeginTake
  <2>2. call' \in [Tasks -> Call]
    BY <2>1, RequestsAssumption DEF MutexInv, Types
  <2>. QED
    BY <1>1, <2>2, OthersKeep DEF BeginTake
<1>2. ASSUME NEW t \in Tasks, TakeAgain(t) PROVE MutexInv'
  <2>1. PICK m \in Recursive :
          /\ Holds(t, m)
          /\ uxRecursiveCallCount' = [uxRecursiveCallCount EXCEPT ![m] = @ + 1]
    BY <1>2 DEF TakeAgain
  <2>2. m \in Mutexes /\ ~Free(m)
    BY <2>1, TasksAssumption DEF Holds, MutexInv, HolderAndCounts
  <2>3. uxRecursiveCallCount[m] + 1 \in Nat \ {0}
    BY <2>2 DEF MutexInv, Types
  <2>. QED
    BY <1>2, <2>1, <2>2, <2>3, CountKeeps DEF TakeAgain
<1>3. ASSUME NEW t \in Tasks, GiveInner(t) PROVE MutexInv'
  <2>1. PICK m \in Recursive :
          /\ Holds(t, m)
          /\ uxRecursiveCallCount[m] > 1
          /\ uxRecursiveCallCount' = [uxRecursiveCallCount EXCEPT ![m] = @ - 1]
    BY <1>3 DEF GiveInner
  <2>2. m \in Mutexes /\ ~Free(m)
    BY <2>1, TasksAssumption DEF Holds, MutexInv, HolderAndCounts
  <2>3. uxRecursiveCallCount[m] - 1 \in Nat \ {0}
    BY <2>1, <2>2 DEF MutexInv, Types
  <2>. QED
    BY <1>3, <2>1, <2>2, <2>3, CountKeeps DEF GiveInner
<1>4. ASSUME NEW t \in Tasks, NotFree(t) \/ TimedOut(t) \/ Delay(t) PROVE MutexInv'
  BY <1>4, OthersKeep DEF NotFree, TimedOut, Delay, MutexInv, Types
<1>5. ASSUME NEW t \in Tasks, LookAgain(t) PROVE MutexInv'
  <2>1. call' \in [Tasks -> Call]
    BY <1>5 DEF LookAgain, MutexInv, Types, Call
  <2>. QED
    BY <1>5, <2>1, OthersKeep DEF LookAgain
<1>6. CASE IncrementTick
  BY <1>6, OthersKeep DEF IncrementTick, MutexInv, Types
<1>7. CASE UNCHANGED mutexVars
  BY <1>7, OthersKeep DEF mutexVars, MutexInv, Types
<1>. QED
  BY <1>1, <1>2, <1>3, <1>4, <1>5, <1>6, <1>7, ObtainKeeps, GiveKeeps, BlockKeeps,
     DisinheritAfterTimeoutKeeps DEF MutexNext, Take

(* In every reachable state the counts of what is held are exact: of each  *)
(* mutex, of the nesting of a recursive one, and of each task.             *)
THEOREM CountsAreExact == MutexSpec => []HolderAndCounts
<1>1. MutexInv => HolderAndCounts
  BY DEF MutexInv
<1>. QED
  BY <1>1, MutexInvInit, MutexInvNext, PTL DEF MutexSpec

(* No task keeps an inherited priority once it has given its last mutex,   *)
(* in whatever order mutexes were taken and given, and whoever timed out.  *)
THEOREM InheritanceIsReturned == MutexSpec => []InheritanceEnds
<1>1. MutexInv => InheritanceEnds
  BY DEF MutexInv
<1>. QED
  BY <1>1, MutexInvInit, MutexInvNext, PTL DEF MutexSpec

(***************************************************************************)
(* The event list: what vListInsert and uxListRemove do to it.  What       *)
(* WithoutTasks computes is shown by least counterexample.                 *)
(*                                                                         *)
(* Every set of natural numbers that is not empty has a least member: the  *)
(* initial segments of its members are ordered by inclusion, which is well *)
(* founded.                                                                *)
(***************************************************************************)
LEMMA LeastExists ==
  ASSUME NEW S \in SUBSET Nat, S # {}
  PROVE  \E x \in S : \A y \in S : x <= y
<1> DEFINE T == {1 .. x : x \in S}
<1>1. T \subseteq FiniteSubsetsOf(Nat) /\ T # {}
  <2>1. \A x \in S : (1 .. x) \in SUBSET Nat /\ IsFiniteSet(1 .. x)
    BY FS_Interval
  <2> QED BY <2>1 DEF FiniteSubsetsOf
<1>2. PICK t \in T : \A u \in T : ~(<<u, t>> \in StrictSubsetOrdering(Nat))
  <2>1. IsWellFoundedOn(StrictSubsetOrdering(Nat), FiniteSubsetsOf(Nat))
    BY FS_StrictSubsetOrderingWellFounded
  <2> HIDE DEF T
  <2> QED BY <1>1, <2>1, WFMin
<1>3. PICK x \in S : t = 1 .. x
  BY <1>2
<1>4. ASSUME NEW y \in S, ~(x <= y) PROVE FALSE
  <2>1. x \in Nat /\ y \in Nat
    OBVIOUS
  <2>2. (1 .. y) \subseteq (1 .. x) /\ x \in 1 .. x /\ x \notin 1 .. y
    BY <1>4, <2>1
  <2>3. <<1 .. y, 1 .. x>> \in StrictSubsetOrdering(Nat)
    BY <2>1, <2>2 DEF StrictSubsetOrdering
  <2> QED BY <1>2, <1>3, <1>4, <2>3
<1> QED BY <1>4

(* The function by which WithoutTasks is defined exists.                   *)
Keep(s, E, f, i) ==
  IF i = 0 THEN <<>> ELSE IF s[i] \in E THEN f[i - 1] ELSE Append(f[i - 1], s[i])

LEMMA KeepExists ==
  ASSUME NEW s, NEW E, NEW n \in Nat
  PROVE  \E f : f = [i \in 0 .. n |-> Keep(s, E, f, i)]
<1> DEFINE Bad == {m \in Nat : ~\E f : f = [i \in 0 .. m |-> Keep(s, E, f, i)]}
<1>1. SUFFICES Bad = {}
  OBVIOUS
<1>2. SUFFICES ASSUME Bad # {} PROVE FALSE
  OBVIOUS
<1>3. PICK m \in Bad : \A k \in Bad : m <= k
  <2>1. Bad \in SUBSET Nat
    OBVIOUS
  <2> HIDE DEF Bad
  <2> QED BY <1>2, <2>1, LeastExists
<1>4. m \in Nat
  OBVIOUS
<1>5. CASE m = 0
  <2> DEFINE f == [i \in 0 .. 0 |-> <<>>]
  <2>1. f = [i \in 0 .. 0 |-> Keep(s, E, f, i)]
    BY DEF Keep
  <2> QED BY <1>5, <2>1
<1>6. CASE m # 0
  <2>1. m - 1 \in Nat /\ m - 1 \notin Bad
    BY <1>3, <1>4, <1>6
  <2>2. PICK f : f = [i \in 0 .. m - 1 |-> Keep(s, E, f, i)]
    BY <2>1
  <2> DEFINE g == [i \in 0 .. m |-> IF i = m THEN Keep(s, E, f, m) ELSE f[i]]
  <2>3. \A i \in 0 .. m : g[i] = Keep(s, E, g, i)
    <3> SUFFICES ASSUME NEW i \in 0 .. m PROVE g[i] = Keep(s, E, g, i)
      OBVIOUS
    <3>1. i # 0 => i - 1 \in 0 .. m - 1 /\ i - 1 \in 0 .. m /\ i - 1 # m
      BY <1>4
    <3>2. i # 0 => g[i - 1] = f[i - 1]
      BY <3>1
    <3>3. Keep(s, E, g, i) = Keep(s, E, f, i)
      BY <3>2 DEF Keep
    <3>4. CASE i = m
      BY <3>3, <3>4
    <3>5. CASE i # m
      <4>1. i \in 0 .. m - 1
        BY <1>4, <3>5
      <4>2. f[i] = Keep(s, E, f, i)
        BY <2>2, <4>1
      <4> QED BY <3>3, <3>5, <4>2
    <3> QED BY <3>4, <3>5
  <2>4. g = [i \in 0 .. m |-> g[i]]
    OBVIOUS
  <2> HIDE DEF g
  <2>5. g = [i \in 0 .. m |-> Keep(s, E, g, i)]
    BY <2>3, <2>4
  <2> QED BY <2>5
<1> QED BY <1>5, <1>6

LEMMA WithoutIsKeep ==
  ASSUME NEW s, NEW E, Len(s) \in Nat
  PROVE  \E f : f = [i \in 0 .. Len(s) |-> Keep(s, E, f, i)] /\ WithoutTasks(s, E) = f[Len(s)]
<1> DEFINE f == CHOOSE f : f = [i \in 0 .. Len(s) |-> Keep(s, E, f, i)]
<1>1. f = [i \in 0 .. Len(s) |-> Keep(s, E, f, i)]
  BY KeepExists
<1>2. WithoutTasks(s, E) = f[Len(s)]
  BY DEF WithoutTasks, Keep
<1> QED BY <1>1, <1>2

(* The tasks of a list.                                                    *)
Members(s) == {s[i] : i \in DOMAIN s}

(* The list r has tasks of the list s, in the same order.                  *)
PartOf(r, s) ==
  \A k, l \in DOMAIN r : k < l =>
    \E i, j \in DOMAIN s : i < j /\ r[k] = s[i] /\ r[l] = s[j]

(* What is left of a list: the same tasks but for those of E, in the same  *)
(* order.                                                                  *)
LEMMA WithoutKeeps ==
  ASSUME NEW S, NEW s \in Seq(S), NEW E
  PROVE  LET r == WithoutTasks(s, E) IN
           /\ r \in Seq(S)
           /\ Members(r) = Members(s) \ E
           /\ PartOf(r, s)
<1> DEFINE n == Len(s)
<1>1. n \in Nat /\ DOMAIN s = 1 .. n /\ \A i \in 1 .. n : s[i] \in S
  OBVIOUS
<1>2. PICK f : f = [i \in 0 .. n |-> Keep(s, E, f, i)] /\ WithoutTasks(s, E) = f[n]
  BY <1>1, WithoutIsKeep
<1> DEFINE Right(m) == /\ f[m] \in Seq(S)
                       /\ \A k \in 1 .. Len(f[m]) : f[m][k] \notin E /\ \E i \in 1 .. m : f[m][k] = s[i]
                       /\ \A i \in 1 .. m : s[i] \notin E => \E k \in 1 .. Len(f[m]) : f[m][k] = s[i]
                       /\ \A k, l \in 1 .. Len(f[m]) : k < l =>
                            \E i, j \in 1 .. m : i < j /\ f[m][k] = s[i] /\ f[m][l] = s[j]
           Bad == {m \in 0 .. n : ~Right(m)}
<1>3. Right(0)
  <2>1. f[0] = <<>>
    BY <1>1, <1>2 DEF Keep
  <2> QED BY <2>1
<1>4. ASSUME NEW m \in 1 .. n, Right(m - 1) PROVE Right(m)
  <2> DEFINE p == f[m - 1]
             r == f[m]
  <2>1. m \in Nat /\ m - 1 \in 0 .. n /\ m \in 0 .. n /\ m # 0 /\ s[m] \in S
    BY <1>1
  <2>2. r = IF s[m] \in E THEN p ELSE Append(p, s[m])
    BY <1>2, <2>1 DEF Keep
  <2>3. /\ p \in Seq(S) /\ Len(p) \in Nat
        /\ \A k \in 1 .. Len(p) : p[k] \notin E /\ \E i \in 1 .. m - 1 : p[k] = s[i]
        /\ \A i \in 1 .. m - 1 : s[i] \notin E => \E k \in 1 .. Len(p) : p[k] = s[i]
        /\ \A k, l \in 1 .. Len(p) : k < l => \E i, j \in 1 .. m - 1 : i < j /\ p[k] = s[i] /\ p[l] = s[j]
    BY <1>4
  <2> HIDE DEF p, r, Right, n
  <2>4. 1 .. m = (1 .. m - 1) \cup {m} /\ m \notin 1 .. m - 1
    BY <2>1
  <2>5. CASE s[m] \in E
    <3>1. r = p
      BY <2>2, <2>5
    <3>2. \A i \in 1 .. m : s[i] \notin E => \E k \in 1 .. Len(p) : p[k] = s[i]
      BY <2>3, <2>4, <2>5
    <3>3. \A k \in 1 .. Len(p) : p[k] \notin E /\ \E i \in 1 .. m : p[k] = s[i]
      BY <2>3, <2>4
    <3>4. \A k, l \in 1 .. Len(p) : k < l => \E i, j \in 1 .. m : i < j /\ p[k] = s[i] /\ p[l] = s[j]
      <4> TAKE k, l \in 1 .. Len(p)
      <4> HAVE k < l
      <4>1. PICK i \in 1 .. m - 1, j \in 1 .. m - 1 : i < j /\ p[k] = s[i] /\ p[l] = s[j]
        BY <2>3
      <4> QED BY <2>4, <4>1
    <3>5. f[m] = p
      BY <3>1 DEF r
    <3> QED BY <2>3, <3>2, <3>3, <3>4, <3>5 DEF Right
  <2>6. CASE s[m] \notin E
    <3>1. /\ r \in Seq(S) /\ Len(r) = Len(p) + 1 /\ r[Len(p) + 1] = s[m]
          /\ \A k \in 1 .. Len(p) : r[k] = p[k]
      BY <2>1, <2>2, <2>3, <2>6
    <3>2. 1 .. Len(r) = (1 .. Len(p)) \cup {Len(p) + 1}
      BY <2>3, <3>1
    <3>3. \A k \in 1 .. Len(r) : r[k] \notin E /\ \E i \in 1 .. m : r[k] = s[i]
      <4> TAKE k \in 1 .. Len(r)
      <4>1. CASE k \in 1 .. Len(p)
        <5>1. r[k] = p[k] /\ p[k] \notin E
          BY <2>3, <3>1, <4>1
        <5>2. PICK i \in 1 .. m - 1 : p[k] = s[i]
          BY <2>3, <4>1
        <5> QED BY <2>4, <5>1, <5>2
      <4>2. CASE k = Len(p) + 1
        BY <2>4, <2>6, <3>1, <4>2
      <4> QED BY <3>2, <4>1, <4>2
    <3>4. \A i \in 1 .. m : s[i] \notin E => \E k \in 1 .. Len(r) : r[k] = s[i]
      <4> TAKE i \in 1 .. m
      <4> HAVE s[i] \notin E
      <4>1. CASE i = m
        BY <3>1, <3>2, <4>1
      <4>2. CASE i \in 1 .. m - 1
        <5>1. PICK k \in 1 .. Len(p) : p[k] = s[i]
          BY <2>3, <4>2
        <5> QED BY <3>1, <3>2, <5>1
      <4> QED BY <2>4, <4>1, <4>2
    <3>5. ASSUME NEW k \in 1 .. Len(r), NEW l \in 1 .. Len(r), k < l
          PROVE  \E i, j \in 1 .. m : i < j /\ r[k] = s[i] /\ r[l] = s[j]
      <4>1. k \in 1 .. Len(p)
        BY <2>3, <3>1, <3>5
      <4>2. CASE l \in 1 .. Len(p)
        <5>1. PICK i \in 1 .. m - 1, j \in 1 .. m - 1 : i < j /\ p[k] = s[i] /\ p[l] = s[j]
          BY <2>3, <3>5, <4>1, <4>2
        <5> QED BY <2>4, <3>1, <4>1, <4>2, <5>1
      <4>3. CASE l = Len(p) + 1
        <5>1. PICK i \in 1 .. m - 1 : p[k] = s[i]
          BY <2>3, <4>1
        <5>2. i < m
          BY <2>1
        <5> QED BY <2>4, <3>1, <4>1, <4>3, <5>1, <5>2
      <4> QED BY <3>2, <4>2, <4>3
    <3> QED BY <3>1, <3>3, <3>4, <3>5 DEF Right, r
  <2> QED BY <2>5, <2>6
<1>5. Bad = {}
  <2> SUFFICES ASSUME Bad # {} PROVE FALSE
    OBVIOUS
  <2>1. PICK m \in Bad : \A k \in Bad : m <= k
    <3>1. Bad \in SUBSET Nat
      BY <1>1
    <3> HIDE DEF Bad
    <3> QED BY <3>1, LeastExists
  <2>2. m \in 0 .. n /\ ~Right(m)
    OBVIOUS
  <2> HIDE DEF Right
  <2>3. m # 0
    BY <1>3, <2>2
  <2>4. m \in 1 .. n /\ m - 1 \in 0 .. n /\ ~(m <= m - 1)
    BY <1>1, <2>2, <2>3
  <2>5. Right(m - 1)
    BY <2>1, <2>4
  <2> QED BY <1>4, <2>2, <2>4, <2>5
<1>6. Right(n)
  <2>1. n \in 0 .. n
    BY <1>1
  <2> HIDE DEF Right
  <2> QED BY <1>5, <2>1
<1> DEFINE r == WithoutTasks(s, E)
<1>7. /\ r \in Seq(S) /\ DOMAIN r = 1 .. Len(r)
      /\ \A k \in DOMAIN r : r[k] \notin E /\ \E i \in DOMAIN s : r[k] = s[i]
      /\ \A i \in DOMAIN s : s[i] \notin E => \E k \in DOMAIN r : r[k] = s[i]
      /\ \A k, l \in DOMAIN r : k < l =>
            \E i, j \in DOMAIN s : i < j /\ r[k] = s[i] /\ r[l] = s[j]
  <2>1. r = f[n]
    BY <1>2
  <2>2. DOMAIN f[n] = 1 .. Len(f[n])
    BY <1>6
  <2>3. /\ f[n] \in Seq(S)
        /\ \A k \in 1 .. Len(f[n]) : f[n][k] \notin E /\ \E i \in 1 .. n : f[n][k] = s[i]
        /\ \A i \in 1 .. n : s[i] \notin E => \E k \in 1 .. Len(f[n]) : f[n][k] = s[i]
        /\ \A k, l \in 1 .. Len(f[n]) : k < l =>
             \E i, j \in 1 .. n : i < j /\ f[n][k] = s[i] /\ f[n][l] = s[j]
    BY <1>6
  <2>4. DOMAIN s = 1 .. n
    BY <1>1
  <2> HIDE DEF r, n, Right
  <2>5. r \in Seq(S) /\ DOMAIN r = 1 .. Len(r)
    BY <2>1, <2>2, <2>3
  <2>6. \A k \in DOMAIN r : r[k] \notin E /\ \E i \in DOMAIN s : r[k] = s[i]
    BY <2>1, <2>2, <2>3, <2>4
  <2>7. \A i \in DOMAIN s : s[i] \notin E => \E k \in DOMAIN r : r[k] = s[i]
    BY <2>1, <2>2, <2>3, <2>4
  <2>8. ASSUME NEW k \in DOMAIN r, NEW l \in DOMAIN r, k < l
        PROVE  \E i, j \in DOMAIN s : i < j /\ r[k] = s[i] /\ r[l] = s[j]
    <3>1. PICK i \in 1 .. n, j \in 1 .. n : i < j /\ f[n][k] = s[i] /\ f[n][l] = s[j]
      <4>1. k \in 1 .. Len(f[n]) /\ l \in 1 .. Len(f[n])
        BY <2>1, <2>2
      <4> QED BY <2>3, <2>8, <4>1
    <3> QED BY <2>1, <2>4, <3>1
  <2> QED BY <2>5, <2>6, <2>7, <2>8
<1> HIDE DEF r
<1>8. PartOf(r, s)
  BY <1>7 DEF PartOf
<1>9. Members(r) = Members(s) \ E
  BY <1>7 DEF Members
<1> QED BY <1>7, <1>8, <1>9 DEF r

(* A task joins the list behind those of no lower priority that it finds   *)
(* at its beginning.                                                       *)
LEMMA InsertedAt ==
  ASSUME NEW s \in Seq(Tasks), NEW t \in Tasks
  PROVE  \E n \in 0 .. Len(s) :
           /\ Inserted(s, t) = SubSeq(s, 1, n) \o <<t>> \o SubSeq(s, n + 1, Len(s))
           /\ \A i \in 1 .. n : uxPriority[s[i]] >= uxPriority[t]
           /\ n < Len(s) => ~(uxPriority[s[n + 1]] >= uxPriority[t])
<1> DEFINE Before(k) == \A j \in 1 .. k : uxPriority[s[j]] >= uxPriority[t]
           ahead == {i \in 1 .. Len(s) : Before(i)}
           After == {k \in 1 .. Len(s) : ~(uxPriority[s[k]] >= uxPriority[t])}
<1>1. Len(s) \in Nat /\ DOMAIN s = 1 .. Len(s)
  OBVIOUS
<1>2. \E n \in 0 .. Len(s) : /\ ahead = 1 .. n /\ \A i \in 1 .. n : uxPriority[s[i]] >= uxPriority[t]
                             /\ n < Len(s) => ~(uxPriority[s[n + 1]] >= uxPriority[t])
  <2>1. CASE After = {}
    <3>1. \A i \in 1 .. Len(s) : uxPriority[s[i]] >= uxPriority[t]
      BY <2>1
    <3>2. ahead = 1 .. Len(s)
      BY <1>1, <3>1
    <3> QED BY <1>1, <3>1, <3>2
  <2>2. CASE After # {}
    <3>1. PICK k \in After : \A j \in After : k <= j
      <4>1. After \in SUBSET Nat
        BY <1>1
      <4> HIDE DEF After
      <4> QED BY <2>2, <4>1, LeastExists
    <3>2. k \in 1 .. Len(s) /\ k \in Nat /\ k - 1 \in 0 .. Len(s) /\ k - 1 + 1 = k /\ k - 1 < Len(s)
      BY <1>1
    <3>3. \A i \in 1 .. k - 1 : i \in 1 .. Len(s) /\ ~(k <= i)
      BY <1>1, <3>2
    <3>4. \A i \in 1 .. k - 1 : uxPriority[s[i]] >= uxPriority[t]
      BY <3>1, <3>3
    <3>5. \A i \in 1 .. Len(s) : Before(i) <=> i <= k - 1
      <4> TAKE i \in 1 .. Len(s)
      <4>1. CASE i <= k - 1
        <5>1. \A j \in 1 .. i : j \in 1 .. k - 1
          BY <1>1, <3>2, <4>1
        <5> QED BY <3>4, <4>1, <5>1
      <4>2. CASE ~(i <= k - 1)
        <5>1. k \in 1 .. i
          BY <1>1, <3>2, <4>2
        <5> QED BY <3>1, <4>2, <5>1
      <4> QED BY <4>1, <4>2
    <3> HIDE DEF Before
    <3>6. ahead = 1 .. k - 1
      BY <1>1, <3>2, <3>5
    <3> QED BY <3>1, <3>2, <3>4, <3>6
  <2> QED BY <2>1, <2>2
<1>3. PICK n \in 0 .. Len(s) :
        /\ ahead = 1 .. n /\ \A i \in 1 .. n : uxPriority[s[i]] >= uxPriority[t]
        /\ n < Len(s) => ~(uxPriority[s[n + 1]] >= uxPriority[t])
  BY <1>2
<1>4. Cardinality(ahead) = n
  <2>1. n \in Nat /\ (n = 0 \/ 1 <= n)
    BY <1>1
  <2>2. Cardinality(1 .. n) = IF 1 > n THEN 0 ELSE n - 1 + 1
    BY <2>1, FS_Interval
  <2>3. Cardinality(1 .. n) = n
    BY <2>1, <2>2
  <2> HIDE DEF ahead
  <2> QED BY <1>3, <2>3
<1>5. Inserted(s, t) = SubSeq(s, 1, n) \o <<t>> \o SubSeq(s, n + 1, Len(s))
  BY <1>4 DEF Inserted
<1> HIDE DEF ahead
<1> QED BY <1>3, <1>5

(* Two tasks of the list r with t in it: of the list s before, in the same *)
(* order, or one of them is t.                                             *)
Follows(s, t, r, k, l) ==
  \/ \E i, j \in DOMAIN s : i < j /\ r[k] = s[i] /\ r[l] = s[j]
  \/ \E i \in DOMAIN s : r[k] = s[i] /\ r[l] = t /\ uxPriority[s[i]] >= uxPriority[t]
  \/ \E i, j \in DOMAIN s : /\ r[k] = t /\ r[l] = s[j] /\ i <= j
                            /\ ~(uxPriority[s[i]] >= uxPriority[t])

LEMMA InsertedKeeps ==
  ASSUME NEW s \in Seq(Tasks), NEW t \in Tasks
  PROVE  LET r == Inserted(s, t) IN
           /\ r \in Seq(Tasks)
           /\ Members(r) = Members(s) \cup {t}
           /\ \A k, l \in DOMAIN r : k < l => Follows(s, t, r, k, l)
<1>1. PICK n \in 0 .. Len(s) :
        /\ Inserted(s, t) = SubSeq(s, 1, n) \o <<t>> \o SubSeq(s, n + 1, Len(s))
        /\ \A i \in 1 .. n : uxPriority[s[i]] >= uxPriority[t]
        /\ n < Len(s) => ~(uxPriority[s[n + 1]] >= uxPriority[t])
  BY InsertedAt
<1>2. Len(s) \in Nat /\ n \in Nat /\ n <= Len(s) /\ DOMAIN s = 1 .. Len(s)
  OBVIOUS
<1> DEFINE r == Inserted(s, t)
           L == Len(s)
<1>3. /\ SubSeq(s, 1, n) \in Seq(Tasks) /\ Len(SubSeq(s, 1, n)) = n
      /\ \A i \in 1 .. n : SubSeq(s, 1, n)[i] = s[i]
      /\ SubSeq(s, n + 1, L) \in Seq(Tasks) /\ Len(SubSeq(s, n + 1, L)) = L - n
      /\ \A i \in 1 .. L - n : SubSeq(s, n + 1, L)[i] = s[n + i]
  <2>1. \A i \in 1 .. L : s[i] \in Tasks
    BY <1>2
  <2> DEFINE a == SubSeq(s, 1, n)
             b == SubSeq(s, n + 1, L)
  <2>2. a = [i \in 1 .. n |-> s[i]]
    <3>1. a = [i \in 1 .. n - 1 + 1 |-> s[1 + i - 1]]
      BY <1>2 DEF SubSeq
    <3>2. 1 .. n - 1 + 1 = 1 .. n /\ \A i \in 1 .. n : 1 + i - 1 = i
      BY <1>2
    <3> HIDE DEF a
    <3> QED BY <3>1, <3>2
  <2>3. b = [i \in 1 .. L - n |-> s[n + i]]
    <3>1. b = [i \in 1 .. L - (n + 1) + 1 |-> s[n + 1 + i - 1]]
      BY <1>2 DEF SubSeq
    <3>2. 1 .. L - (n + 1) + 1 = 1 .. L - n /\ \A i \in 1 .. L - n : n + 1 + i - 1 = n + i
      BY <1>2
    <3> HIDE DEF b
    <3> QED BY <3>1, <3>2
  <2>4. L - n \in Nat /\ \A i \in 1 .. L - n : n + i \in 1 .. L
    BY <1>2
  <2>5. \A i \in 1 .. n : i \in 1 .. L
    BY <1>2
  <2>6. a \in Seq(Tasks) /\ Len(a) = n
    <3>1. a \in [1 .. n -> Tasks]
      BY <2>1, <2>2, <2>5
    <3> HIDE DEF a
    <3> QED BY <1>2, <3>1
  <2>7. b \in Seq(Tasks) /\ Len(b) = L - n
    <3>1. b \in [1 .. L - n -> Tasks]
      BY <2>1, <2>3, <2>4
    <3> DEFINE d == L - n
    <3>2. d \in Nat /\ b \in [1 .. d -> Tasks]
      BY <2>4, <3>1
    <3> HIDE DEF b, d
    <3>3. b \in Seq(Tasks) /\ Len(b) = d
      BY <3>2
    <3> QED BY <3>3 DEF d
  <2>8. \A i \in 1 .. n : a[i] = s[i]
    <3> HIDE DEF a
    <3> QED BY <2>2
  <2>9. \A i \in 1 .. L - n : b[i] = s[n + i]
    <3> HIDE DEF b
    <3> QED BY <2>3
  <2> QED BY <2>6, <2>7, <2>8, <2>9
<1>4. /\ r \in Seq(Tasks) /\ Len(r) = L + 1 /\ DOMAIN r = 1 .. L + 1
      /\ \A i \in 1 .. n : r[i] = s[i]
      /\ r[n + 1] = t
      /\ \A i \in n + 2 .. L + 1 : r[i] = s[i - 1]
  <2> DEFINE a == SubSeq(s, 1, n)
             b == SubSeq(s, n + 1, L)
             c == a \o <<t>>
  <2>0. a \in Seq(Tasks) /\ Len(a) = n /\ \A i \in 1 .. n : a[i] = s[i]
    BY <1>3
  <2>2. r = c \o b
    BY <1>1
  <2>1. /\ c \in Seq(Tasks) /\ Len(c) = n + 1 /\ c[n + 1] = t
        /\ \A i \in 1 .. n : c[i] = s[i]
    <3>1. c = Append(a, t)
      <4> HIDE DEF a
      <4> QED BY <2>0
    <3> HIDE DEF a, c
    <3> QED BY <1>2, <2>0, <3>1
  <2>3. b \in Seq(Tasks) /\ Len(b) = L - n /\ \A i \in 1 .. L - n : b[i] = s[n + i]
    BY <1>3
  <2> HIDE DEF a, b, c, r
  <2>4. /\ r \in Seq(Tasks) /\ Len(r) = n + 1 + (L - n)
        /\ \A i \in 1 .. Len(c) : r[i] = c[i]
        /\ \A i \in Len(c) + 1 .. Len(c) + Len(b) : r[i] = b[i - Len(c)]
    <3>1. /\ r \in Seq(Tasks) /\ Len(r) = Len(c) + Len(b)
          /\ \A i \in 1 .. Len(c) + Len(b) : r[i] = IF i <= Len(c) THEN c[i] ELSE b[i - Len(c)]
      BY <2>1, <2>2, <2>3, ConcatProperties
    <3>2. Len(c) \in Nat /\ Len(b) \in Nat
      BY <2>1, <2>3
    <3>3. \A i \in 1 .. Len(c) : i \in 1 .. Len(c) + Len(b) /\ i <= Len(c)
      BY <3>2
    <3>4. \A i \in Len(c) + 1 .. Len(c) + Len(b) : i \in 1 .. Len(c) + Len(b) /\ ~(i <= Len(c))
      BY <3>2
    <3> QED BY <1>2, <2>1, <2>3, <3>1, <3>3, <3>4
  <2>5. \A i \in n + 2 .. L + 1 : r[i] = s[i - 1]
    <3> TAKE i \in n + 2 .. L + 1
    <3>1. i \in Len(c) + 1 .. Len(c) + Len(b) /\ i - Len(c) \in 1 .. L - n /\ n + (i - Len(c)) = i - 1
      BY <1>2, <2>1, <2>3
    <3> QED BY <2>3, <2>4, <3>1
  <2>6. \A i \in 1 .. n : r[i] = s[i]
    <3> TAKE i \in 1 .. n
    <3>1. i \in 1 .. Len(c)
      BY <1>2, <2>1
    <3> QED BY <2>1, <2>4, <3>1
  <2>7. r[n + 1] = t
    <3>1. n + 1 \in 1 .. Len(c)
      BY <1>2, <2>1
    <3> QED BY <2>1, <2>4, <3>1
  <2>8. r \in Seq(Tasks) /\ Len(r) = L + 1 /\ DOMAIN r = 1 .. L + 1
    <3>1. n + 1 + (L - n) = L + 1
      BY <1>2
    <3> QED BY <2>4, <3>1
  <2> QED BY <2>5, <2>6, <2>7, <2>8
<1> HIDE DEF r
<1>5. \A i \in 1 .. L : i <= n \/ (i + 1 \in n + 2 .. L + 1 /\ i + 1 - 1 = i)
  BY <1>2
<1>6. \A k \in 1 .. L + 1 : \/ k \in 1 .. n /\ k \in 1 .. L
                            \/ k = n + 1
                            \/ k \in n + 2 .. L + 1 /\ k - 1 \in 1 .. L /\ k - 1 \in n + 1 .. L
  BY <1>2
<1>7. Members(r) = Members(s) \cup {t}
  <2>1. \A k \in 1 .. L + 1 : r[k] = t \/ \E i \in 1 .. L : r[k] = s[i]
    BY <1>4, <1>6
  <2>2. \A i \in 1 .. L : \E k \in 1 .. L + 1 : r[k] = s[i]
    <3> TAKE i \in 1 .. L
    <3>1. CASE i <= n
      <4>1. i \in 1 .. n /\ i \in 1 .. L + 1
        BY <1>2, <3>1
      <4>2. r[i] = s[i]
        BY <1>4, <4>1
      <4> QED BY <4>1, <4>2
    <3>2. CASE ~(i <= n)
      <4>1. i + 1 \in n + 2 .. L + 1 /\ i + 1 \in 1 .. L + 1 /\ i + 1 - 1 = i
        BY <1>2, <3>2
      <4>2. r[i + 1] = s[i + 1 - 1]
        BY <1>4, <4>1
      <4>3. r[i + 1] = s[i]
        BY <4>1, <4>2
      <4> QED BY <4>1, <4>3
    <3> QED BY <3>1, <3>2
  <2>3. n + 1 \in 1 .. L + 1
    BY <1>2
  <2>4. r[n + 1] = t /\ DOMAIN r = 1 .. L + 1 /\ DOMAIN s = 1 .. L
    BY <1>2, <1>4
  <2>5. \A x : (\E k \in 1 .. L + 1 : r[k] = x) <=> (x = t \/ \E i \in 1 .. L : s[i] = x)
    BY <2>1, <2>2, <2>3, <2>4
  <2> HIDE DEF L
  <2> QED BY <2>4, <2>5 DEF Members
<1>8. ASSUME NEW k \in 1 .. L + 1, NEW l \in 1 .. L + 1, k < l
      PROVE  \/ \E i, j \in 1 .. L : i < j /\ r[k] = s[i] /\ r[l] = s[j]
             \/ \E i \in 1 .. L : r[k] = s[i] /\ r[l] = t /\ uxPriority[s[i]] >= uxPriority[t]
             \/ \E i, j \in 1 .. L : /\ r[k] = t /\ r[l] = s[j] /\ i <= j
                                     /\ ~(uxPriority[s[i]] >= uxPriority[t])
  <2>1. CASE k \in 1 .. n /\ l \in 1 .. n
    BY <1>2, <1>4, <1>8, <2>1
  <2>2. CASE k \in 1 .. n /\ l = n + 1
    BY <1>1, <1>2, <1>4, <2>2
  <2>3. CASE k \in 1 .. n /\ l \in n + 2 .. L + 1
    <3>1. k \in 1 .. L /\ l - 1 \in 1 .. L /\ k < l - 1
      BY <1>2, <2>3
    <3> QED BY <1>4, <2>3, <3>1
  <2>4. CASE k = n + 1
    <3>1. l \in n + 2 .. L + 1 /\ l - 1 \in 1 .. L /\ n + 1 \in 1 .. L /\ n + 1 <= l - 1 /\ n < L
      BY <1>2, <1>8, <2>4
    <3> QED BY <1>1, <1>4, <2>4, <3>1
  <2>5. CASE k \in n + 2 .. L + 1
    <3>1. l \in n + 2 .. L + 1 /\ k - 1 \in 1 .. L /\ l - 1 \in 1 .. L /\ k - 1 < l - 1
      BY <1>2, <1>8, <2>5
    <3> QED BY <1>4, <2>5, <3>1
  <2> QED BY <1>2, <1>6, <1>8, <2>1, <2>2, <2>3, <2>4, <2>5
<1>9. DOMAIN r = 1 .. L + 1 /\ DOMAIN s = 1 .. L /\ r \in Seq(Tasks)
  BY <1>2, <1>4
<1> HIDE DEF L
<1>10. \A k, l \in DOMAIN r : k < l => Follows(s, t, r, k, l)
  <2> TAKE k, l \in DOMAIN r
  <2> HAVE k < l
  <2>1. k \in 1 .. L + 1 /\ l \in 1 .. L + 1
    BY <1>9
  <2>2. CASE \E i, j \in 1 .. L : i < j /\ r[k] = s[i] /\ r[l] = s[j]
    BY <1>9, <2>2 DEF Follows
  <2>3. CASE \E i \in 1 .. L : r[k] = s[i] /\ r[l] = t /\ uxPriority[s[i]] >= uxPriority[t]
    BY <1>9, <2>3 DEF Follows
  <2>4. CASE \E i, j \in 1 .. L : /\ r[k] = t /\ r[l] = s[j] /\ i <= j
                                 /\ ~(uxPriority[s[i]] >= uxPriority[t])
    BY <1>9, <2>4 DEF Follows
  <2> QED BY <1>8, <2>1, <2>2, <2>3, <2>4
<1> QED BY <1>7, <1>9, <1>10 DEF r

(***************************************************************************)
(* The types of the rest of the state.                                     *)
(***************************************************************************)
ReadyType == [lists : [Priorities -> SUBSET Tasks], top : SUBSET Priorities]

LEMMA PrioritiesAreNumbers ==
  /\ Priorities \subseteq Nat
  /\ \A t \in Tasks : uxBasePriority[t] \in Priorities /\ uxBasePriority[t] \in Nat
BY PriorityAssumption DEF Priorities

(* The operations on the ready lists leave them well formed.               *)
LEMMA RemovedType ==
  ASSUME NEW r \in ReadyType, NEW t, NEW p \in Priorities
  PROVE  Removed(r, t, p) \in ReadyType
<1> DEFINE L == [r.lists EXCEPT ![p] = @ \ {t}]
           T == IF r.lists[p] \subseteq {t} THEN r.top \ {p} ELSE r.top
<1>1. r.lists \in [Priorities -> SUBSET Tasks] /\ r.top \in SUBSET Priorities
  BY DEF ReadyType
<1>2. L \in [Priorities -> SUBSET Tasks] /\ T \in SUBSET Priorities
  BY <1>1
<1>3. Removed(r, t, p) = [lists |-> L, top |-> T]
  BY DEF Removed
<1> HIDE DEF L, T
<1> QED BY <1>2, <1>3 DEF ReadyType

LEMMA AddedType ==
  ASSUME NEW r \in ReadyType, NEW t \in Tasks, NEW p \in Priorities
  PROVE  Added(r, t, p) \in ReadyType
<1> DEFINE L == [r.lists EXCEPT ![p] = @ \cup {t}]
           T == r.top \cup {p}
<1>1. r.lists \in [Priorities -> SUBSET Tasks] /\ r.top \in SUBSET Priorities
  BY DEF ReadyType
<1>2. L \in [Priorities -> SUBSET Tasks] /\ T \in SUBSET Priorities
  BY <1>1
<1>3. Added(r, t, p) = [lists |-> L, top |-> T]
  BY DEF Added
<1> HIDE DEF L, T
<1> QED BY <1>2, <1>3 DEF ReadyType

LEMMA MovedType ==
  ASSUME NEW r \in ReadyType, NEW t \in Tasks, NEW p \in Priorities, NEW q \in Priorities
  PROVE  Moved(r, t, p, q) \in ReadyType /\ MovedDown(r, t, p, q) \in ReadyType
<1>1. Moved(r, t, p, q) \in ReadyType
  BY RemovedType, AddedType DEF Moved
<1> DEFINE L == [r.lists EXCEPT ![p] = @ \ {t}]
           T == IF r.lists[p] = {t} THEN r.top \ {q} ELSE r.top
           s == [lists |-> L, top |-> T]
<1>2. r.lists \in [Priorities -> SUBSET Tasks] /\ r.top \in SUBSET Priorities
  BY DEF ReadyType
<1>3. L \in [Priorities -> SUBSET Tasks] /\ T \in SUBSET Priorities
  BY <1>2
<1>4. s \in ReadyType
  <2> HIDE DEF L, T
  <2> QED BY <1>3 DEF ReadyType
<1>5. MovedDown(r, t, p, q) = IF t \in r.lists[p] THEN Added(s, t, q) ELSE r
  BY DEF MovedDown
<1> HIDE DEF s
<1> QED BY <1>1, <1>4, <1>5, AddedType

LEMMA SelectType ==
  ASSUME NEW r \in ReadyType, Select(r)
  PROVE  pxCurrentTCB' \in Tasks \cup {NoTask}
<1>1. PICK p \in Priorities : pxCurrentTCB' \in IF r.lists[p] = {} THEN {NoTask} ELSE r.lists[p]
  BY DEF Select
<1>2. r.lists[p] \subseteq Tasks
  BY DEF ReadyType
<1> QED BY <1>1, <1>2

LEMMA TypeInit == MutexInit => TypeOK
<1> SUFFICES ASSUME MutexInit PROVE TypeOK
  OBVIOUS
<1> DEFINE L == [p \in Priorities |-> {t \in Tasks : uxBasePriority[t] = p}]
<1>1. ready = [lists |-> L, top |-> Priorities]
  BY DEF MutexInit
<1>2. L \in [Priorities -> SUBSET Tasks]
  OBVIOUS
<1>3. ready \in ReadyType
  <2> HIDE DEF L
  <2> QED BY <1>1, <1>2 DEF ReadyType
<1>4. PICK m \in Mutexes : call = [t \in Tasks |-> [mutex |-> m, ticks |-> "zero"]]
  BY DEF MutexInit
<1>5. call \in [Tasks -> Call]
  BY <1>4 DEF Call
<1>6. uxPriority \in [Tasks -> Priorities]
  BY PriorityAssumption DEF MutexInit, Priorities
<1>7. pxCurrentTCB \in Tasks
  BY DEF MutexInit
<1>8. xTasksWaitingToReceive \in [Mutexes -> Seq(Tasks)]
  BY DEF MutexInit
<1> QED BY <1>3, <1>5, <1>6, <1>7, <1>8 DEF MutexInit, TypeOK, ReadyType, Labels
(* Every step keeps them; MutexInvNext shows what it leaves of the mutexes.*)
LEMMA TypeNext == MutexInv /\ MutexInv' /\ TypeOK /\ [MutexNext]_mutexVars => TypeOK'
<1> SUFFICES ASSUME MutexInv, MutexInv', TypeOK, [MutexNext]_mutexVars PROVE TypeOK'
  OBVIOUS
<1> DEFINE Mutual == /\ xMutexHolder \in [Mutexes -> Tasks \cup {NoTask}]
                     /\ uxMessagesWaiting \in [Mutexes -> {0, 1}]
                     /\ uxRecursiveCallCount \in [Mutexes -> Nat]
                     /\ uxMutexesHeld \in [Tasks -> Nat]
                     /\ call \in [Tasks -> Call]
           Queued == /\ xTasksWaitingToReceive \in [Mutexes -> Seq(Tasks)]
                     /\ uxPriority \in [Tasks -> Priorities]
                     /\ ready \in ReadyType
                     /\ pxCurrentTCB \in Tasks \cup {NoTask}
           Own == /\ pc \in [Tasks -> Labels]
                  /\ expired \in [Tasks -> BOOLEAN]
                  /\ xInheritanceOccurred \in [Tasks -> BOOLEAN]
<1>a. Mutual' /\ Mutual /\ Queued /\ Own
  BY DEF MutexInv, Types, TypeOK, ReadyType
<1>b. SUFFICES Queued' /\ Own'
  BY <1>a DEF TypeOK, ReadyType
<1>1. ASSUME NEW t \in Tasks, BeginTake(t) \/ LookAgain(t) \/ TimedOut(t) \/ Obtain(t)
      PROVE  Queued' /\ Own'
  <2>1. \E l \in Labels : pc' = [pc EXCEPT ![t] = l]
    BY <1>1 DEF BeginTake, LookAgain, TimedOut, Obtain, Goto, Labels
  <2>2. expired' = expired \/ expired' = [expired EXCEPT ![t] = FALSE]
    BY <1>1 DEF BeginTake, LookAgain, TimedOut, Obtain
  <2>3. \/ xInheritanceOccurred' = xInheritanceOccurred
        \/ xInheritanceOccurred' = [xInheritanceOccurred EXCEPT ![t] = FALSE]
    BY <1>1 DEF BeginTake, LookAgain, TimedOut, Obtain
  <2>4. Own'
    <3>1. pc' \in [Tasks -> Labels]
      BY <1>a, <2>1
    <3>2. expired' \in [Tasks -> BOOLEAN]
      BY <1>a, <2>2
    <3>3. xInheritanceOccurred' \in [Tasks -> BOOLEAN]
      BY <1>a, <2>3
    <3> QED BY <3>1, <3>2, <3>3
  <2>5. UNCHANGED <<xTasksWaitingToReceive, uxPriority, ready, pxCurrentTCB>>
    BY <1>1 DEF BeginTake, LookAgain, TimedOut, Obtain, tcb
  <2> QED BY <1>a, <2>4, <2>5
<1>2. ASSUME NEW t \in Tasks, TakeAgain(t) \/ GiveInner(t)
      PROVE  Queued' /\ Own'
  <2>1. UNCHANGED <<xTasksWaitingToReceive, tcb, ready, pxCurrentTCB, local>>
    BY <1>2 DEF TakeAgain, GiveInner
  <2> QED BY <1>a, <2>1 DEF tcb, local
<1>3. ASSUME NEW t \in Tasks, NotFree(t) PROVE Queued' /\ Own'
  <2>1. /\ \E l \in Labels : pc' = [pc EXCEPT ![t] = l]
        /\ pxCurrentTCB' \in Tasks \cup {NoTask}
    BY <1>3 DEF NotFree, Goto, Labels
  <2>2. UNCHANGED <<xTasksWaitingToReceive, tcb, ready, expired, xInheritanceOccurred>>
    BY <1>3 DEF NotFree
  <2> QED BY <1>a, <2>1, <2>2 DEF tcb
<1>4. ASSUME NEW t \in Tasks, Delay(t) PROVE Queued' /\ Own'
  <2>1. ready' \in ReadyType
    BY <1>4, <1>a, RemovedType DEF Delay
  <2>2. pxCurrentTCB' \in Tasks \cup {NoTask}
    BY <1>4, <2>1, SelectType DEF Delay
  <2>3. pc' = [pc EXCEPT ![t] = "delayed"]
    BY <1>4 DEF Delay, Goto
  <2>4. UNCHANGED <<xTasksWaitingToReceive, tcb, expired, xInheritanceOccurred>>
    BY <1>4 DEF Delay
  <2> QED BY <1>a, <2>1, <2>2, <2>3, <2>4 DEF tcb, Labels
<1>5. ASSUME NEW t \in Tasks, BlockOnMutex(t) PROVE Queued' /\ Own'
  <2> DEFINE m == Wanted(t)
             h == xMutexHolder[m]
             raised == IF Lends(t, h) THEN uxPriority[t] ELSE uxPriority[h]
  <2>1. m \in Mutexes
    BY <1>a DEF Wanted, Call
  <2>2. h \in Tasks
    BY <1>5, <1>a, <2>1 DEF BlockOnMutex, MutexInv, HolderAndCounts
  <2>3. raised \in Priorities /\ uxPriority[h] \in Priorities /\ uxPriority[t] \in Priorities
    BY <1>a, <2>2
  <2>4. /\ uxPriority' = [uxPriority EXCEPT ![h] = raised]
        /\ xTasksWaitingToReceive' = [xTasksWaitingToReceive EXCEPT ![m] = Inserted(@, t)]
        /\ ready' = Removed(Moved(ready, h, uxPriority[h], raised), t, uxPriority[t])
    BY <1>5 DEF BlockOnMutex
  <2>5. Inserted(xTasksWaitingToReceive[m], t) \in Seq(Tasks)
    BY <1>a, <2>1, InsertedKeeps
  <2> HIDE DEF m, h, raised
  <2>6. ready' \in ReadyType
    BY <1>a, <2>2, <2>3, <2>4, MovedType, RemovedType
  <2>7. pxCurrentTCB' \in Tasks \cup {NoTask}
    BY <1>5, <2>6, SelectType DEF BlockOnMutex
  <2>8. /\ xTasksWaitingToReceive' \in [Mutexes -> Seq(Tasks)]
        /\ uxPriority' \in [Tasks -> Priorities]
    BY <1>a, <2>1, <2>3, <2>4, <2>5
  <2>9. Own'
    BY <1>5, <1>a DEF BlockOnMutex, Goto, Labels
  <2> QED BY <2>6, <2>7, <2>8, <2>9
<1>6. ASSUME NEW t \in Tasks, DisinheritAfterTimeout(t) PROVE Queued' /\ Own'
  <2> DEFINE m == Wanted(t)
             h == xMutexHolder[m]
             p == PriorityToUse(m, h)
  <2>1. m \in Mutexes
    BY <1>a DEF Wanted, Call
  <2>2. Own' /\ UNCHANGED <<xTasksWaitingToReceive, pxCurrentTCB>>
    BY <1>6, <1>a DEF DisinheritAfterTimeout, Goto, Labels
  <2>3. CASE UNCHANGED <<uxPriority, ready>>
    BY <1>a, <2>2, <2>3
  <2>4. CASE /\ h # NoTask
             /\ uxPriority' = [uxPriority EXCEPT ![h] = p]
             /\ ready' = MovedDown(ready, h, uxPriority[h], p)
    <3>1. h \in Tasks
      BY <1>a, <2>1, <2>4
    <3>2. p \in Priorities
      <4>1. CASE xTasksWaitingToReceive[m] = <<>>
        BY <3>1, <4>1, PrioritiesAreNumbers DEF PriorityToUse, HighestWaiting
      <4>2. CASE xTasksWaitingToReceive[m] # <<>>
        <5>1. Head(xTasksWaitingToReceive[m]) \in Tasks
          BY <1>a, <2>1, <4>2
        <5> QED BY <1>a, <3>1, <4>2, <5>1, PrioritiesAreNumbers DEF PriorityToUse, HighestWaiting
      <4> QED BY <4>1, <4>2
    <3> HIDE DEF h, p
    <3>3. ready' \in ReadyType /\ uxPriority' \in [Tasks -> Priorities]
      BY <1>a, <2>4, <3>1, <3>2, MovedType
    <3> QED BY <1>a, <2>2, <3>3
  <2> QED BY <1>6, <2>3, <2>4 DEF DisinheritAfterTimeout
<1>7. ASSUME NEW t \in Tasks, Give(t) PROVE Queued' /\ Own'
  <2> DEFINE kept == IF Disinherits(t) THEN uxBasePriority[t] ELSE uxPriority[t]
             down == Moved(ready, t, uxPriority[t], kept)
  <2>1. PICK m \in Mutexes :
           LET w == xTasksWaitingToReceive[m] IN
           /\ uxPriority' = [uxPriority EXCEPT ![t] = kept]
           /\ IF w = <<>>
              THEN /\ ready' = down
                   /\ UNCHANGED xTasksWaitingToReceive
                   /\ SwitchIf(Disinherits(t), ready')
              ELSE /\ ready' = Added(down, Head(w), uxPriority[Head(w)])
                   /\ xTasksWaitingToReceive' = [xTasksWaitingToReceive EXCEPT ![m] = Tail(w)]
                   /\ SwitchIf(YieldsTo(Head(w), t, kept), ready')
    BY <1>7 DEF Give
  <2>2. kept \in Priorities
    BY <1>a, PrioritiesAreNumbers
  <2>3. down \in ReadyType
    BY <1>a, <2>2, MovedType
  <2>4. Own'
    BY <1>7, <1>a DEF Give, local
  <2>5. uxPriority' \in [Tasks -> Priorities]
    BY <1>a, <2>1, <2>2
  <2> HIDE DEF down, kept
  <2> DEFINE w == xTasksWaitingToReceive[m]
  <2>6. ready' \in ReadyType /\ xTasksWaitingToReceive' \in [Mutexes -> Seq(Tasks)]
    <3>1. CASE w = <<>>
      BY <1>a, <2>1, <2>3, <3>1
    <3>2. CASE w # <<>>
      <4>1. Head(w) \in Tasks /\ Tail(w) \in Seq(Tasks)
        BY <1>a, <3>2
      <4>2. uxPriority[Head(w)] \in Priorities
        BY <1>a, <4>1
      <4>3. /\ ready' = Added(down, Head(w), uxPriority[Head(w)])
            /\ xTasksWaitingToReceive' = [xTasksWaitingToReceive EXCEPT ![m] = Tail(w)]
        BY <2>1, <3>2
      <4> HIDE DEF w
      <4> QED BY <1>a, <2>3, <4>1, <4>2, <4>3, AddedType
    <3> QED BY <3>1, <3>2
  <2>7. Select(ready') \/ UNCHANGED pxCurrentTCB
    BY <2>1 DEF SwitchIf
  <2>8. pxCurrentTCB' \in Tasks \cup {NoTask}
    BY <1>a, <2>6, <2>7, SelectType
  <2> QED BY <2>4, <2>5, <2>6, <2>8
<1>8. CASE IncrementTick
  <2>1. PICK E \in SUBSET {t \in Tasks : Timed(t)} :
       LET woken == {t \in E : OffList(t)}
           lists == [p \in Priorities |->
                       ready.lists[p] \cup {t \in woken : uxPriority[t] = p}]
           mine  == uxPriority[pxCurrentTCB]
       IN  /\ ready' = [lists |-> lists,
                        top |-> ready.top \cup {uxPriority[t] : t \in woken}]
           /\ pc' = [t \in Tasks |-> IF t \in E /\ pc[t] = "delayed" THEN "run" ELSE pc[t]]
           /\ expired' = [t \in Tasks |-> expired[t] \/ (t \in E /\ pc[t] # "delayed")]
           /\ xTasksWaitingToReceive' =
                [m \in Mutexes |-> WithoutTasks(xTasksWaitingToReceive[m], E)]
           /\ SwitchIf(\/ \E t \in woken : uxPriority[t] >= mine
                       \/ Cardinality(lists[mine]) > 1, ready')
    BY <1>8 DEF IncrementTick
  <2> DEFINE woken == {t \in E : OffList(t)}
             lists == [p \in Priorities |->
                         ready.lists[p] \cup {t \in woken : uxPriority[t] = p}]
             top == ready.top \cup {uxPriority[t] : t \in woken}
  <2>2. lists \in [Priorities -> SUBSET Tasks] /\ top \in SUBSET Priorities
    BY <1>a DEF ReadyType
  <2>3. ready' = [lists |-> lists, top |-> top]
    BY <2>1
  <2>4. ready' \in ReadyType
    <3> HIDE DEF lists, top
    <3> QED BY <2>2, <2>3 DEF ReadyType
  <2>5. \A m \in Mutexes : WithoutTasks(xTasksWaitingToReceive[m], E) \in Seq(Tasks)
    BY <1>a, WithoutKeeps
  <2>6. xTasksWaitingToReceive' \in [Mutexes -> Seq(Tasks)]
    BY <2>1, <2>5
  <2>7. Select(ready') \/ UNCHANGED pxCurrentTCB
    BY <2>1 DEF SwitchIf
  <2>8. pxCurrentTCB' \in Tasks \cup {NoTask}
    BY <1>a, <2>4, <2>7, SelectType
  <2>9. /\ pc' = [t \in Tasks |-> IF t \in E /\ pc[t] = "delayed" THEN "run" ELSE pc[t]]
        /\ expired' = [t \in Tasks |-> expired[t] \/ (t \in E /\ pc[t] # "delayed")]
        /\ UNCHANGED <<uxPriority, xInheritanceOccurred>>
    BY <1>8, <2>1 DEF IncrementTick, tcb
  <2>10. Own'
    BY <1>a, <2>9 DEF Labels
  <2> HIDE DEF Own
  <2> QED BY <1>a, <2>4, <2>6, <2>8, <2>9, <2>10
<1>9. CASE UNCHANGED mutexVars
  BY <1>9, <1>a DEF mutexVars, local, tcb
<1> QED BY <1>1, <1>2, <1>3, <1>4, <1>5, <1>6, <1>7, <1>8, <1>9 DEF MutexNext, Take

(* The types of all the state, whatever the mutexes, the tasks and their   *)
(* block times: no list, no priority and no choice of the next task leaves *)
(* the sets they are taken from.                                           *)
THEOREM StateIsTyped == MutexSpec => []TypeOK
BY MutexInvInit, MutexInvNext, TypeInit, TypeNext, PTL DEF MutexSpec

(***************************************************************************)
(* One mutex, m.  The ready lists r are exact for the tasks of A and the   *)
(* priorities f.                                                           *)
(***************************************************************************)
ListsExact(r, f, A) ==
  /\ r \in ReadyType
  /\ r.top = {p \in Priorities : r.lists[p] # {}}
  /\ \A p \in Priorities : r.lists[p] = {t \in A : f[t] = p}

LEMMA RemovedExact ==
  ASSUME NEW r, NEW f \in [Tasks -> Priorities], NEW A \in SUBSET Tasks,
         ListsExact(r, f, A), NEW t \in A
  PROVE  ListsExact(Removed(r, t, f[t]), f, A \ {t})
<1> DEFINE p == f[t]
           s == Removed(r, t, p)
<1>1. p \in Priorities
  OBVIOUS
<1>2. s \in ReadyType
  BY <1>1, RemovedType DEF ListsExact
<1>3. r.lists \in [Priorities -> SUBSET Tasks]
  BY DEF ListsExact, ReadyType
<1>4. \A q \in Priorities : s.lists[q] = IF q = p THEN r.lists[p] \ {t} ELSE r.lists[q]
  BY <1>3 DEF Removed
<1>5. s.top = IF r.lists[p] \subseteq {t} THEN r.top \ {p} ELSE r.top
  BY DEF Removed
<1> HIDE DEF s
<1>6. \A q \in Priorities : s.lists[q] = {u \in A \ {t} : f[u] = q}
  <2> TAKE q \in Priorities
  <2>1. r.lists[q] = {u \in A : f[u] = q}
    BY DEF ListsExact
  <2>2. CASE q = p
    BY <1>1, <1>4, <2>1, <2>2
  <2>3. CASE q # p
    <3>1. t \notin r.lists[q]
      BY <2>1, <2>3
    <3>2. s.lists[q] = r.lists[q]
      BY <1>4, <2>3
    <3> QED BY <2>1, <3>1, <3>2
  <2> QED BY <2>2, <2>3
<1>7. s.top = {q \in Priorities : s.lists[q] # {}}
  <2>1. r.top = {q \in Priorities : r.lists[q] # {}}
    BY DEF ListsExact
  <2> HIDE DEF p
  <2>2. CASE r.lists[p] \subseteq {t}
    BY <1>1, <1>4, <1>5, <2>1, <2>2
  <2>3. CASE ~(r.lists[p] \subseteq {t})
    BY <1>1, <1>4, <1>5, <2>1, <2>3
  <2> QED BY <2>2, <2>3
<1> QED BY <1>2, <1>6, <1>7 DEF ListsExact, s

LEMMA AddedExact ==
  ASSUME NEW r, NEW f \in [Tasks -> Priorities], NEW A \in SUBSET Tasks,
         ListsExact(r, f, A), NEW t \in Tasks
  PROVE  ListsExact(Added(r, t, f[t]), f, A \cup {t})
<1> DEFINE p == f[t]
           s == Added(r, t, p)
<1>1. p \in Priorities
  OBVIOUS
<1>2. s \in ReadyType
  BY <1>1, AddedType DEF ListsExact
<1>3. r.lists \in [Priorities -> SUBSET Tasks]
  BY DEF ListsExact, ReadyType
<1>4. \A q \in Priorities : s.lists[q] = IF q = p THEN r.lists[p] \cup {t} ELSE r.lists[q]
  BY <1>3 DEF Added
<1>5. s.top = r.top \cup {p}
  BY DEF Added
<1> HIDE DEF s
<1>6. \A q \in Priorities : s.lists[q] = {u \in A \cup {t} : f[u] = q}
  <2> TAKE q \in Priorities
  <2>1. r.lists[q] = {u \in A : f[u] = q}
    BY DEF ListsExact
  <2>2. CASE q = p
    BY <1>1, <1>4, <2>1, <2>2
  <2>3. CASE q # p
    <3>2. s.lists[q] = r.lists[q]
      BY <1>4, <2>3
    <3> QED BY <2>1, <2>3, <3>2
  <2> QED BY <2>2, <2>3
<1>7. s.top = {q \in Priorities : s.lists[q] # {}}
  <2>1. r.top = {q \in Priorities : r.lists[q] # {}}
    BY DEF ListsExact
  <2> HIDE DEF p
  <2> QED BY <1>1, <1>4, <1>5, <2>1
<1> QED BY <1>2, <1>6, <1>7 DEF ListsExact, s

(* The lists depend on the priorities of the tasks of A alone.             *)
LEMMA OthersPriorities ==
  ASSUME NEW r, NEW f \in [Tasks -> Priorities], NEW A \in SUBSET Tasks,
         ListsExact(r, f, A), NEW t \in Tasks \ A, NEW p \in Priorities
  PROVE  ListsExact(r, [f EXCEPT ![t] = p], A)
<1> DEFINE g == [f EXCEPT ![t] = p]
<1>1. \A u \in A : g[u] = f[u]
  OBVIOUS
<1> HIDE DEF g
<1> QED BY <1>1 DEF ListsExact, g

LEMMA MovedExact ==
  ASSUME NEW r, NEW f \in [Tasks -> Priorities], NEW A \in SUBSET Tasks,
         ListsExact(r, f, A), NEW t \in Tasks, NEW p \in Priorities
  PROVE  ListsExact(Moved(r, t, f[t], p), [f EXCEPT ![t] = p], A)
<1> DEFINE g == [f EXCEPT ![t] = p]
           s == Removed(r, t, f[t])
<1>1. t \in r.lists[f[t]] <=> t \in A
  BY DEF ListsExact
<1>2. CASE t \notin A
  BY <1>1, <1>2, OthersPriorities DEF Moved
<1>3. CASE t \in A
  <2>1. ListsExact(s, f, A \ {t})
    BY <1>3, RemovedExact
  <2> HIDE DEF s
  <2>2. ListsExact(s, g, A \ {t})
    BY <2>1, OthersPriorities
  <2>3. g \in [Tasks -> Priorities] /\ g[t] = p
    OBVIOUS
  <2> HIDE DEF g
  <2>4. ListsExact(Added(s, t, g[t]), g, (A \ {t}) \cup {t})
    BY <2>2, <2>3, AddedExact
  <2>5. (A \ {t}) \cup {t} = A
    BY <1>3
  <2>6. Moved(r, t, f[t], p) = Added(s, t, p)
    BY <1>1, <1>3 DEF Moved, s
  <2> QED BY <2>3, <2>4, <2>5, <2>6 DEF g
<1> QED BY <1>2, <1>3

(* A withdrawal resets the bit of the wrong list, to no harm as long as    *)
(* the list that loses the holder is not empty.                            *)
LEMMA MovedDownExact ==
  ASSUME NEW r, NEW f \in [Tasks -> Priorities], NEW A \in SUBSET Tasks,
         ListsExact(r, f, A), NEW t \in Tasks, NEW p \in Priorities,
         r.lists[f[t]] # {t}
  PROVE  ListsExact(MovedDown(r, t, f[t], p), [f EXCEPT ![t] = p], A)
<1>1. CASE t \notin r.lists[f[t]]
  <2>1. MovedDown(r, t, f[t], p) = Moved(r, t, f[t], p)
    BY <1>1 DEF Moved, MovedDown
  <2> QED BY <2>1, MovedExact
<1>2. CASE t \in r.lists[f[t]]
  <2>1. Removed(r, t, f[t]) = [lists |-> [r.lists EXCEPT ![f[t]] = @ \ {t}], top |-> r.top]
    BY <1>2 DEF Removed
  <2>2. MovedDown(r, t, f[t], p) = Moved(r, t, f[t], p)
    BY <1>2, <2>1 DEF Moved, MovedDown
  <2> QED BY <2>2, MovedExact
<1> QED BY <1>1, <1>2

(* With exact lists, the task that is selected is one of A of the highest  *)
(* priority among them.                                                    *)
LEMMA SelectsHighest ==
  ASSUME NEW r, NEW f \in [Tasks -> Priorities], NEW A \in SUBSET Tasks,
         ListsExact(r, f, A), Select(r)
  PROVE  pxCurrentTCB' \in A /\ \A t \in A : f[t] <= f[pxCurrentTCB']
<1>1. PICK p \in Priorities :
        /\ Highest(p, r)
        /\ pxCurrentTCB' \in IF r.lists[p] = {} THEN {NoTask} ELSE r.lists[p]
  BY DEF Select
<1>2. r.lists[p] # {}
  BY <1>1 DEF Highest, ListsExact
<1>3. pxCurrentTCB' \in A /\ f[pxCurrentTCB'] = p
  BY <1>1, <1>2 DEF ListsExact
<1>4. ASSUME NEW t \in A PROVE f[t] <= p
  <2>1. t \in r.lists[f[t]] /\ f[t] \in Priorities
    BY DEF ListsExact
  <2>2. f[t] \in r.top
    BY <2>1 DEF ListsExact
  <2> QED BY <1>1, <2>2 DEF Highest
<1> QED BY <1>3, <1>4

(***************************************************************************)
(* The inductive invariant, of one mutex m.                                *)
(***************************************************************************)
Awake(m) == {t \in Tasks : pc[t] # "delayed" /\ t \notin Waiting(m)}

(* Tasks that wait are at the place where they look at the mutex, and not  *)
(* late; the holder is between two calls.                                  *)
Places(m) ==
  /\ \A t \in Waiting(m) : pc[t] = "head" /\ ~expired[t]
  /\ xMutexHolder[m] # NoTask => pc[xMutexHolder[m]] \in {"run", "delayed"}

(* No task waits twice, and they wait in the order of their priorities.    *)
InOrder(m) ==
  LET w == xTasksWaitingToReceive[m] IN
    \A i, j \in DOMAIN w : i < j => /\ w[i] # w[j]
                                    /\ uxBasePriority[w[j]] <= uxBasePriority[w[i]]

(* A task that has timed out and will withdraw what it lent: its last look *)
(* found the mutex taken.                                                  *)
WillWithdraw(m) == {t \in Withdrawing(m) : ~(pc[t] = "head" /\ call[t].ticks = "zero")}

AboveBase == \A t \in Tasks : uxBasePriority[t] <= uxPriority[t]

(* What the holder h runs at, and that its lenders know.                   *)
Lent(m, h) ==
  /\ \A t \in Waiting(m) : uxBasePriority[t] <= uxPriority[h]
  /\ \E t \in {h} \cup Waiting(m) \cup WillWithdraw(m) : uxPriority[h] = uxBasePriority[t]
  /\ \A t \in Waiting(m) : uxBasePriority[h] < uxBasePriority[t] => xInheritanceOccurred[t]

(* The task that a give has woken and that has not looked at the mutex:    *)
(* none that still waits is above it.                                      *)
WokenFirst(m, w) == pc[w] = "head" /\ \A t \in Waiting(m) : uxBasePriority[t] <= uxBasePriority[w]

Woken(m) == xMutexHolder[m] = NoTask /\ Waiting(m) # {} => \E w \in Awake(m) : WokenFirst(m, w)

(* Who runs, c, against the woken task or the holder.                      *)
Runs(m, c) ==
  /\ c \in Awake(m)
  /\ xMutexHolder[m] = NoTask /\ Waiting(m) # {} =>
       \E w \in Awake(m) : WokenFirst(m, w) /\ uxBasePriority[w] <= uxPriority[c]
  /\ xMutexHolder[m] \in Awake(m) => \A t \in Waiting(m) : uxBasePriority[t] <= uxPriority[c]

Loans(m) == AboveBase /\ (xMutexHolder[m] # NoTask => Lent(m, xMutexHolder[m]))

Running(m) == Woken(m) /\ (pxCurrentTCB # NoTask => Runs(m, pxCurrentTCB))

OneInv(m) ==
  /\ ListsExact(ready, uxPriority, Awake(m))
  /\ Places(m)
  /\ InOrder(m)
  /\ Loans(m)
  /\ Running(m)

LEMMA OneFacts ==
  ASSUME NEW m, Mutexes = {m}, TypeOK, MutexInv, OneInv(m)
  PROVE  /\ \A t \in Tasks : t # xMutexHolder[m] => uxPriority[t] = uxBasePriority[t]
         /\ xMutexHolder[m] # NoTask =>
              /\ xMutexHolder[m] \in Tasks
              /\ uxMutexesHeld[xMutexHolder[m]] = 1
              /\ xMutexHolder[m] \notin Waiting(m)
         /\ \A t \in Tasks : Wanted(t) = m
         /\ Free(m) <=> xMutexHolder[m] = NoTask
         /\ Waiting(m) \subseteq Tasks
         /\ Awake(m) \subseteq Tasks
         /\ \A t \in Tasks : uxPriority[t] \in Nat /\ uxBasePriority[t] \in Nat
<1> DEFINE h == xMutexHolder[m]
<1>1. \A t \in Tasks : t # h => uxPriority[t] = uxBasePriority[t]
  <2>1. \A t \in Tasks : t # h => Held(t) = {}
    BY DEF Held, Holds
  <2> QED BY <2>1 DEF MutexInv, InheritanceEnds
<1>2. h \in Tasks \cup {NoTask}
  BY DEF TypeOK
<1>3. h # NoTask => uxMutexesHeld[h] = 1
  <2> HAVE h # NoTask
  <2>1. Held(h) = {m}
    BY DEF Held, Holds
  <2>2. uxMutexesHeld[h] = Cardinality(Held(h))
    BY <1>2 DEF MutexInv, HolderAndCounts
  <2> QED BY <2>1, <2>2, FS_Singleton
<1>4. \A t \in Tasks : Wanted(t) = m
  BY DEF Wanted, TypeOK, Call
<1>5. Free(m) <=> h = NoTask
  BY DEF MutexInv, HolderAndCounts
<1>6. Waiting(m) \subseteq Tasks /\ Awake(m) \subseteq Tasks
  <2>1. xTasksWaitingToReceive[m] \in Seq(Tasks)
    BY DEF TypeOK
  <2> QED BY <2>1 DEF Waiting, Awake
<1>7. h # NoTask => h \notin Waiting(m)
  BY DEF OneInv, Places
<1>8. \A t \in Tasks : uxPriority[t] \in Nat /\ uxBasePriority[t] \in Nat
  BY PrioritiesAreNumbers DEF TypeOK
<1> QED BY <1>1, <1>2, <1>3, <1>4, <1>5, <1>6, <1>7, <1>8

LEMMA OneInit ==
  ASSUME NEW m, Mutexes = {m}, MutexInit, TypeOK
  PROVE  OneInv(m)
<1>1. Waiting(m) = {} /\ xTasksWaitingToReceive[m] = <<>> /\ xMutexHolder[m] = NoTask
  BY DEF MutexInit, Waiting
<1>2. Awake(m) = Tasks
  BY <1>1 DEF MutexInit, Awake
<1>3. ListsExact(ready, uxPriority, Awake(m))
  <2>1. ready \in ReadyType
    BY DEF TypeOK, ReadyType
  <2> DEFINE L == [p \in Priorities |-> {t \in Tasks : uxBasePriority[t] = p}]
  <2>2. ready.lists = L /\ ready.top = Priorities /\ uxPriority = uxBasePriority
    BY DEF MutexInit
  <2>3. \A p \in Priorities : L[p] # {}
    BY DEF Priorities
  <2> QED BY <1>2, <2>1, <2>2, <2>3 DEF ListsExact
<1>4. Places(m) /\ InOrder(m)
  BY <1>1 DEF Places, InOrder
<1>5. Loans(m)
  BY <1>1, PrioritiesAreNumbers DEF Loans, AboveBase, MutexInit
<1>6. Running(m)
  BY <1>1, <1>2, TasksAssumption DEF Running, Woken, Runs, MutexInit
<1> QED BY <1>3, <1>4, <1>5, <1>6 DEF OneInv

(* Whoever is selected from exact lists runs above those that wait, as     *)
(* long as the holder or the task that a give has woken does.              *)
LEMMA SelectedRuns ==
  ASSUME NEW m, Mutexes = {m}, TypeOK', MutexInv',
         ListsExact(ready', uxPriority', Awake(m)'),
         AboveBase', xMutexHolder'[m] # NoTask => Lent(m, xMutexHolder[m])',
         Woken(m)', Select(ready')
  PROVE  Running(m)'
<1> DEFINE c == pxCurrentTCB'
           h == xMutexHolder'[m]
<1>1. uxPriority' \in [Tasks -> Priorities] /\ Awake(m)' \in SUBSET Tasks
  BY DEF TypeOK, Awake
<1>2. c \in Awake(m)' /\ \A t \in Awake(m)' : uxPriority'[t] <= uxPriority'[c]
  BY <1>1, SelectsHighest
<1>3. \A t \in Tasks : uxPriority'[t] \in Nat /\ uxBasePriority[t] \in Nat
  BY <1>1, PrioritiesAreNumbers
<1>4. Waiting(m)' \subseteq Tasks
  <2>1. xTasksWaitingToReceive'[m] \in Seq(Tasks)
    BY DEF TypeOK
  <2> QED BY <2>1 DEF Waiting
<1>5. ASSUME h = NoTask, Waiting(m)' # {}
      PROVE  \E w \in Awake(m)' : WokenFirst(m, w)' /\ uxBasePriority[w] <= uxPriority'[c]
  <2>1. PICK w \in Awake(m)' : WokenFirst(m, w)'
    BY <1>5 DEF Woken
  <2>2. uxBasePriority[w] <= uxPriority'[w] /\ uxPriority'[w] <= uxPriority'[c]
    BY <1>1, <1>2, <2>1 DEF AboveBase
  <2>3. uxBasePriority[w] <= uxPriority'[c]
    BY <1>1, <1>2, <1>3, <2>2
  <2> QED BY <2>1, <2>3
<1>6. ASSUME h \in Awake(m)', NEW t \in Waiting(m)'
      PROVE  uxBasePriority[t] <= uxPriority'[c]
  <2>1. h # NoTask /\ h \in Tasks
    BY <1>1, <1>6, TasksAssumption
  <2>2. uxBasePriority[t] <= uxPriority'[h]
    BY <2>1 DEF Lent
  <2>3. uxPriority'[h] <= uxPriority'[c]
    BY <1>2, <1>6
  <2> QED BY <1>1, <1>2, <1>3, <1>4, <2>1, <2>2, <2>3
<1>7. Runs(m, pxCurrentTCB)'
  BY <1>2, <1>5, <1>6 DEF Runs
<1> QED BY <1>7 DEF Running

(***************************************************************************)
(* The steps.  One of the running task t that changes only its own place,  *)
(* call and notes.                                                         *)
(***************************************************************************)
LEMMA LocalKeeps ==
  ASSUME NEW m, Mutexes = {m}, TypeOK, MutexInv, OneInv(m), TypeOK', MutexInv',
         NEW t \in Tasks, pxCurrentTCB = t,
         UNCHANGED <<xMutexHolder, xTasksWaitingToReceive, uxPriority, ready>>,
         pxCurrentTCB' \in {t, NoTask},
         \A u \in Tasks \ {t} : /\ pc'[u] = pc[u]
                                /\ call'[u] = call[u]
                                /\ expired'[u] = expired[u]
                                /\ xInheritanceOccurred'[u] = xInheritanceOccurred[u],
         pc'[t] # "delayed",
         t = xMutexHolder[m] => pc'[t] = pc[t],
         xMutexHolder[m] = NoTask => pc[t] # "head",
         xMutexHolder[m] # NoTask =>
           \/ t \in WillWithdraw(m) => t \in WillWithdraw(m)'
           \/ \E u \in {xMutexHolder[m]} \cup Waiting(m) :
                uxPriority[xMutexHolder[m]] = uxBasePriority[u]
  PROVE  OneInv(m)'
<1> DEFINE h == xMutexHolder[m]
<1> USE OneFacts
<1>1. t \in Awake(m) /\ t # NoTask
  BY TasksAssumption DEF OneInv, Running, Runs
<1>2. Waiting(m)' = Waiting(m) /\ \A u \in Waiting(m) : u \in Tasks \ {t}
  BY <1>1 DEF Waiting, Awake
<1>3. Awake(m)' = Awake(m)
  BY <1>1, <1>2 DEF Awake
<1>4. ListsExact(ready', uxPriority', Awake(m)')
  BY <1>3 DEF OneInv
<1>5. Places(m)'
  BY <1>1, <1>2 DEF OneInv, Places
<1>6. InOrder(m)'
  BY DEF OneInv, InOrder
<1>7. AboveBase'
  BY DEF OneInv, Loans, AboveBase
<1>8. ASSUME h # NoTask PROVE Lent(m, h)'
  <2>1. Lent(m, h)
    BY <1>8 DEF OneInv, Loans
  <2>2. \A u \in WillWithdraw(m) : u # t => u \in WillWithdraw(m)'
    BY DEF WillWithdraw, Withdrawing, Wanted
  <2>3. \E u \in {h} \cup Waiting(m) \cup WillWithdraw(m)' : uxPriority[h] = uxBasePriority[u]
    BY <1>8, <2>1, <2>2 DEF Lent
  <2> QED BY <1>2, <2>1, <2>3 DEF Lent
<1>9. \A w \in Tasks : h = NoTask /\ WokenFirst(m, w) => WokenFirst(m, w)'
  BY <1>2 DEF WokenFirst
<1>10. Running(m)'
  <2>1. Woken(m)'
    BY <1>2, <1>3, <1>9 DEF OneInv, Running, Woken
  <2>2. Runs(m, t)
    BY <1>1 DEF OneInv, Running
  <2>3. \A c : c = t => Runs(m, c)'
    BY <1>2, <1>3, <1>9, <2>2 DEF Runs
  <2> QED BY <2>1, <2>3 DEF Running
<1> QED BY <1>4, <1>5, <1>6, <1>7, <1>8, <1>10 DEF OneInv, Loans

(* The steps that change nothing that others look at.                      *)
LEMMA LocalSteps ==
  ASSUME NEW m, Mutexes = {m}, TypeOK, MutexInv, OneInv(m), TypeOK', MutexInv',
         NEW t \in Tasks,
         \/ BeginTake(t) \/ TakeAgain(t) \/ GiveInner(t) \/ NotFree(t)
         \/ LookAgain(t) \/ TimedOut(t)
  PROVE  OneInv(m)'
<1> DEFINE h == xMutexHolder[m]
<1> USE OneFacts DEF At, Goto, mutex, tcb, local
<1>a. TypeOK
  OBVIOUS
<1>b. h # NoTask => pc[h] \in {"run", "delayed"}
  BY DEF OneInv, Places
<1>1. CASE BeginTake(t)
  <2>1. PICK c \in MutexRequests[t] : ~Holds(t, c.mutex) /\ call' = [call EXCEPT ![t] = c]
    BY <1>1 DEF BeginTake
  <2>2. t # h
    BY <2>1, RequestsAssumption DEF Holds, Call
  <2>3. pxCurrentTCB = t /\ pc[t] = "run" /\ pc' = [pc EXCEPT ![t] = "head"]
    BY <1>1 DEF BeginTake
  <2>4. t \notin WillWithdraw(m)
    BY <2>3 DEF WillWithdraw, Withdrawing
  <2>5. /\ UNCHANGED <<xMutexHolder, xTasksWaitingToReceive, uxPriority, ready, pxCurrentTCB>>
        /\ expired' = [expired EXCEPT ![t] = FALSE]
        /\ xInheritanceOccurred' = [xInheritanceOccurred EXCEPT ![t] = FALSE]
    BY <1>1 DEF BeginTake
  <2>6. /\ pc'[t] # "delayed"
        /\ \A u \in Tasks \ {t} : /\ pc'[u] = pc[u] /\ call'[u] = call[u] /\ expired'[u] = expired[u]
                                  /\ xInheritanceOccurred'[u] = xInheritanceOccurred[u]
    BY <2>1, <2>3, <2>5 DEF TypeOK
  <2> QED BY <2>2, <2>3, <2>4, <2>5, <2>6, LocalKeeps
<1>2. CASE TakeAgain(t) \/ GiveInner(t)
  <2>1. /\ pxCurrentTCB = t /\ pc[t] = "run"
        /\ UNCHANGED <<xMutexHolder, xTasksWaitingToReceive, uxPriority, ready, pxCurrentTCB,
                       pc, call, expired, xInheritanceOccurred>>
    BY <1>2 DEF TakeAgain, GiveInner
  <2>2. t \notin WillWithdraw(m)
    BY <2>1 DEF WillWithdraw, Withdrawing
  <2> QED BY <2>1, <2>2, LocalKeeps
<1>3. CASE NotFree(t)
  <2>1. /\ pxCurrentTCB = t /\ pc[t] = "head" /\ h # NoTask
        /\ pc' = [pc EXCEPT ![t] = IF call[t].ticks = "zero" THEN "run" ELSE "suspend"]
        /\ pxCurrentTCB' \in {t, NoTask}
        /\ UNCHANGED <<xMutexHolder, xTasksWaitingToReceive, uxPriority, ready,
                       call, expired, xInheritanceOccurred>>
    BY <1>3 DEF NotFree
  <2>2. pc'[t] = (IF call[t].ticks = "zero" THEN "run" ELSE "suspend")
        /\ \A u \in Tasks \ {t} : pc'[u] = pc[u]
    BY <2>1 DEF TypeOK
  <2>3. t \in WillWithdraw(m) => t \in WillWithdraw(m)'
    BY <2>1, <2>2 DEF WillWithdraw, Withdrawing, Wanted
  <2>4. pc'[t] # "delayed" /\ t # h
    BY <1>b, <2>1, <2>2
  <2> QED BY <2>1, <2>2, <2>3, <2>4, LocalKeeps
<1>4. CASE LookAgain(t)
  <2>1. /\ pxCurrentTCB = t /\ pc[t] = "suspend"
        /\ call' = [call EXCEPT ![t].ticks = IF expired[t] THEN "zero" ELSE @]
        /\ pc' = [pc EXCEPT ![t] = IF expired[t] THEN "late" ELSE "head"]
        /\ UNCHANGED <<xMutexHolder, xTasksWaitingToReceive, uxPriority, ready, pxCurrentTCB,
                       expired, xInheritanceOccurred>>
    BY <1>4 DEF LookAgain
  <2>2. /\ pc'[t] = (IF expired[t] THEN "late" ELSE "head")
        /\ \A u \in Tasks \ {t} : pc'[u] = pc[u] /\ call'[u] = call[u]
        /\ call'[t].mutex = call[t].mutex
    BY <2>1 DEF TypeOK, Call
  <2>3. t \in WillWithdraw(m) => t \in WillWithdraw(m)'
    BY <2>1, <2>2 DEF WillWithdraw, Withdrawing, Wanted
  <2>4. pc'[t] # "delayed" /\ t # h
    BY <1>b, <2>1, <2>2, TasksAssumption
  <2> QED BY <2>1, <2>2, <2>3, <2>4, LocalKeeps
<1>5. CASE TimedOut(t)
  <2>1. /\ pxCurrentTCB = t /\ pc[t] = "late"
        /\ pc' = [pc EXCEPT ![t] = IF Free(m) THEN "head"
                                   ELSE IF xInheritanceOccurred[t] THEN "disinherit" ELSE "run"]
        /\ UNCHANGED <<xMutexHolder, xTasksWaitingToReceive, uxPriority, ready, pxCurrentTCB,
                       call, expired, xInheritanceOccurred>>
    BY <1>5 DEF TimedOut
  <2>2. /\ pc'[t] = (IF Free(m) THEN "head" ELSE IF xInheritanceOccurred[t] THEN "disinherit" ELSE "run")
        /\ \A u \in Tasks \ {t} : pc'[u] = pc[u]
    BY <2>1 DEF TypeOK
  <2>3. h # NoTask => (t \in WillWithdraw(m) => t \in WillWithdraw(m)')
    BY <2>1, <2>2 DEF WillWithdraw, Withdrawing, Wanted
  <2>4. pc'[t] # "delayed" /\ t # h
    BY <1>b, <2>1, <2>2, TasksAssumption
  <2> QED BY <2>1, <2>2, <2>3, <2>4, LocalKeeps
<1> QED BY <1>1, <1>2, <1>3, <1>4, <1>5

LEMMA ObtainKeepsOne ==
  ASSUME NEW m, Mutexes = {m}, TypeOK, MutexInv, OneInv(m), TypeOK', MutexInv',
         NEW t \in Tasks, Obtain(t)
  PROVE  OneInv(m)'
<1> USE OneFacts DEF At, Goto, mutex, tcb, local
<1>1. /\ pxCurrentTCB = t /\ pc[t] = "head" /\ xMutexHolder[m] = NoTask
      /\ pc' = [pc EXCEPT ![t] = "run"]
      /\ xMutexHolder' = [xMutexHolder EXCEPT ![m] = t]
      /\ UNCHANGED <<xTasksWaitingToReceive, uxPriority, ready, pxCurrentTCB, call, expired,
                     xInheritanceOccurred>>
  BY DEF Obtain
<1>2. /\ xMutexHolder'[m] = t /\ t # NoTask
      /\ pc'[t] = "run" /\ \A u \in Tasks \ {t} : pc'[u] = pc[u]
  BY <1>1, TasksAssumption DEF TypeOK
<1>3. t \in Awake(m) /\ Runs(m, t)
  BY <1>1, <1>2 DEF OneInv, Running, Runs
<1>4. Waiting(m)' = Waiting(m) /\ \A u \in Waiting(m) : u \in Tasks \ {t}
  BY <1>1, <1>3 DEF Waiting, Awake
<1>5. Awake(m)' = Awake(m)
  BY <1>1, <1>2, <1>3, <1>4 DEF Awake
<1>6. ListsExact(ready', uxPriority', Awake(m)')
  BY <1>1, <1>5 DEF OneInv
<1>7. Places(m)'
  BY <1>1, <1>2, <1>4 DEF OneInv, Places
<1>8. InOrder(m)'
  BY <1>1 DEF OneInv, InOrder
<1>9. AboveBase'
  BY <1>1 DEF OneInv, Loans, AboveBase
<1>10. uxPriority[t] = uxBasePriority[t]
  BY <1>1, <1>2
<1>11. ASSUME NEW u \in Waiting(m) PROVE uxBasePriority[u] <= uxPriority[t]
  <2>1. PICK w \in Awake(m) : WokenFirst(m, w) /\ uxBasePriority[w] <= uxPriority[t]
    BY <1>1, <1>3 DEF Runs
  <2>2. uxBasePriority[u] <= uxBasePriority[w]
    BY <2>1 DEF WokenFirst
  <2>3. w \in Tasks /\ u \in Tasks
    OBVIOUS
  <2> QED BY <2>1, <2>2, <2>3
<1>12. Lent(m, t)'
  <2>1. \A u \in Waiting(m) : ~(uxBasePriority[t] < uxBasePriority[u])
    BY <1>10, <1>11, <1>4
  <2> QED BY <1>1, <1>4, <1>10, <1>11, <2>1 DEF Lent
<1>13. Running(m)'
  <2>1. Woken(m)' /\ Runs(m, t)'
    BY <1>1, <1>2, <1>3, <1>4, <1>5, <1>11 DEF Woken, Runs
  <2> QED BY <1>1, <2>1 DEF Running
<1> QED BY <1>2, <1>6, <1>7, <1>8, <1>9, <1>12, <1>13 DEF OneInv, Loans

LEMMA DelayKeepsOne ==
  ASSUME NEW m, Mutexes = {m}, TypeOK, MutexInv, OneInv(m), TypeOK', MutexInv',
         NEW t \in Tasks, Delay(t)
  PROVE  OneInv(m)'
<1> DEFINE h == xMutexHolder[m]
<1> USE OneFacts DEF At, Goto, mutex, tcb, local
<1>1. /\ pxCurrentTCB = t /\ pc[t] = "run"
      /\ pc' = [pc EXCEPT ![t] = "delayed"]
      /\ ready' = Removed(ready, t, uxPriority[t])
      /\ Select(ready')
      /\ UNCHANGED <<xMutexHolder, xTasksWaitingToReceive, uxPriority, call, expired,
                     xInheritanceOccurred>>
  BY DEF Delay
<1>2. pc'[t] = "delayed" /\ \A u \in Tasks \ {t} : pc'[u] = pc[u]
  BY <1>1 DEF TypeOK
<1>3. t \in Awake(m) /\ t # NoTask
  BY <1>1, TasksAssumption DEF OneInv, Running, Runs
<1>4. Waiting(m)' = Waiting(m) /\ \A u \in Waiting(m) : u \in Tasks \ {t}
  BY <1>1, <1>3 DEF Waiting, Awake
<1>5. Awake(m)' = Awake(m) \ {t}
  BY <1>2, <1>3, <1>4 DEF Awake
<1>6. ListsExact(ready', uxPriority', Awake(m)')
  <2>1. uxPriority \in [Tasks -> Priorities] /\ Awake(m) \in SUBSET Tasks
    BY DEF TypeOK
  <2>2. ListsExact(Removed(ready, t, uxPriority[t]), uxPriority, Awake(m) \ {t})
    BY <1>3, <2>1, RemovedExact DEF OneInv
  <2> QED BY <1>1, <1>5, <2>2
<1>7. Places(m)'
  BY <1>1, <1>2, <1>4 DEF OneInv, Places
<1>8. InOrder(m)'
  BY <1>1 DEF OneInv, InOrder
<1>9. AboveBase'
  BY <1>1 DEF OneInv, Loans, AboveBase
<1>10. ASSUME h # NoTask PROVE Lent(m, h)'
  <2>1. Lent(m, h)
    BY <1>10 DEF OneInv, Loans
  <2>2. \A u \in WillWithdraw(m) : u \in WillWithdraw(m)'
    BY <1>1, <1>2 DEF WillWithdraw, Withdrawing, Wanted
  <2>3. \E u \in {h} \cup Waiting(m) \cup WillWithdraw(m)' : uxPriority[h] = uxBasePriority[u]
    BY <2>1, <2>2 DEF Lent
  <2> QED BY <1>1, <1>4, <2>1, <2>3 DEF Lent
<1>11. Woken(m)'
  <2> SUFFICES ASSUME h = NoTask, Waiting(m) # {} PROVE \E w \in Awake(m)' : WokenFirst(m, w)'
    BY <1>1, <1>4 DEF Woken
  <2>1. PICK w \in Awake(m) : WokenFirst(m, w)
    BY DEF OneInv, Running, Woken
  <2>2. w # t
    BY <1>1, <2>1 DEF WokenFirst
  <2> QED BY <1>2, <1>4, <1>5, <2>1, <2>2 DEF WokenFirst
<1>12. Running(m)'
  BY <1>1, <1>6, <1>9, <1>10, <1>11, SelectedRuns
<1> QED BY <1>1, <1>6, <1>7, <1>8, <1>9, <1>10, <1>12 DEF OneInv, Loans

LEMMA BlockKeepsOne ==
  ASSUME NEW m, Mutexes = {m}, TypeOK, MutexInv, OneInv(m), TypeOK', MutexInv',
         NEW t \in Tasks, BlockOnMutex(t)
  PROVE  OneInv(m)'
<1> DEFINE h == xMutexHolder[m]
           raised == IF Lends(t, h) THEN uxPriority[t] ELSE uxPriority[h]
           s == xTasksWaitingToReceive[m]
           r == Inserted(s, t)
<1> USE OneFacts DEF At, Goto, mutex, tcb, local
<1>0. Wanted(t) = m /\ h # NoTask /\ h \in Tasks /\ h \notin Waiting(m)
  BY DEF BlockOnMutex
<1>1. /\ pxCurrentTCB = t /\ pc[t] = "suspend" /\ ~expired[t]
      /\ pc' = [pc EXCEPT ![t] = "head"]
      /\ uxPriority' = [uxPriority EXCEPT ![h] = raised]
      /\ xInheritanceOccurred' = [xInheritanceOccurred EXCEPT
                                    ![t] = uxBasePriority[h] < uxPriority[t]]
      /\ xTasksWaitingToReceive' = [xTasksWaitingToReceive EXCEPT ![m] = r]
      /\ ready' = Removed(Moved(ready, h, uxPriority[h], raised), t, uxPriority[t])
      /\ Select(ready')
      /\ UNCHANGED <<xMutexHolder, call, expired>>
  BY <1>0 DEF BlockOnMutex
<1>2. /\ pc'[t] = "head" /\ \A u \in Tasks \ {t} : pc'[u] = pc[u]
      /\ xInheritanceOccurred'[t] = (uxBasePriority[h] < uxPriority[t])
      /\ \A u \in Tasks \ {t} : xInheritanceOccurred'[u] = xInheritanceOccurred[u]
      /\ uxPriority'[h] = raised
      /\ \A u \in Tasks \ {h} : uxPriority'[u] = uxPriority[u]
      /\ xTasksWaitingToReceive'[m] = r
  <2> HIDE DEF h, raised, r
  <2> QED BY <1>0, <1>1 DEF TypeOK
<1>3. t \in Awake(m) /\ t # NoTask /\ t # h /\ t \notin Waiting(m)
  BY <1>0, <1>1, TasksAssumption DEF OneInv, Running, Runs, Places, Awake
<1>4. uxPriority[t] = uxBasePriority[t]
  BY <1>3
<1>5. s \in Seq(Tasks) /\ DOMAIN s = 1 .. Len(s)
  BY DEF TypeOK
<1>6. /\ r \in Seq(Tasks)
      /\ Members(r) = Members(s) \cup {t}
      /\ \A k, l \in DOMAIN r : k < l => Follows(s, t, r, k, l)
  <2> HIDE DEF s
  <2> QED BY <1>5, InsertedKeeps
<1> HIDE DEF r
<1>7. Waiting(m)' = Waiting(m) \cup {t}
  <2>1. Waiting(m)' = Members(r)
    BY <1>2 DEF Waiting, Members
  <2>2. Waiting(m) = Members(s)
    BY DEF Waiting, Members
  <2> HIDE DEF s
  <2> QED BY <1>6, <2>1, <2>2
<1>8. Awake(m)' = Awake(m) \ {t}
  BY <1>2, <1>3, <1>7 DEF Awake
<1>9. ListsExact(ready', uxPriority', Awake(m)')
  <2>1. uxPriority \in [Tasks -> Priorities] /\ Awake(m) \in SUBSET Tasks
    BY DEF TypeOK
  <2>2. raised \in Priorities
    BY <1>0, <2>1
  <2> DEFINE mv == Moved(ready, h, uxPriority[h], raised)
  <2> HIDE DEF raised, h
  <2>3. ListsExact(mv, uxPriority', Awake(m))
    BY <1>0, <1>1, <2>1, <2>2, MovedExact DEF OneInv
  <2>4. uxPriority' \in [Tasks -> Priorities] /\ uxPriority'[t] = uxPriority[t]
    BY <1>2, <1>3 DEF TypeOK
  <2>5. ready' = Removed(mv, t, uxPriority'[t])
    BY <1>1, <2>4
  <2> HIDE DEF mv
  <2>6. ListsExact(Removed(mv, t, uxPriority'[t]), uxPriority', Awake(m) \ {t})
    BY <1>3, <2>1, <2>3, <2>4, RemovedExact
  <2> QED BY <1>8, <2>5, <2>6
<1>10. Places(m)'
  <2>1. \A u \in Waiting(m)' : pc'[u] = "head" /\ ~expired'[u]
    <3> TAKE u \in Waiting(m)'
    <3>1. CASE u = t
      BY <1>1, <1>2, <3>1
    <3>2. CASE u # t
      <4>1. u \in Waiting(m) /\ u \in Tasks \ {t}
        BY <1>7, <3>2
      <4> QED BY <1>1, <1>2, <4>1 DEF OneInv, Places
    <3> QED BY <3>1, <3>2
  <2>2. xMutexHolder'[m] = h /\ pc'[h] = pc[h]
    BY <1>0, <1>1, <1>2, <1>3
  <2> QED BY <1>0, <2>1, <2>2 DEF OneInv, Places
<1>11. InOrder(m)'
  <2>1. \A i, j \in DOMAIN s : i < j => s[i] # s[j] /\ uxBasePriority[s[j]] <= uxBasePriority[s[i]]
    BY DEF OneInv, InOrder
  <2>2. \A i \in DOMAIN s : /\ s[i] \in Waiting(m) /\ s[i] \in Tasks /\ s[i] # t
                            /\ uxPriority[s[i]] = uxBasePriority[s[i]]
    BY <1>0, <1>3, <1>5 DEF Waiting
  <2>3. SUFFICES ASSUME NEW k \in DOMAIN r, NEW l \in DOMAIN r, k < l
                 PROVE  r[k] # r[l] /\ uxBasePriority[r[l]] <= uxBasePriority[r[k]]
    BY <1>2 DEF InOrder
  <2> HIDE DEF s
  <2>4. CASE \E i, j \in DOMAIN s : i < j /\ r[k] = s[i] /\ r[l] = s[j]
    BY <2>1, <2>4
  <2>5. CASE \E i \in DOMAIN s : r[k] = s[i] /\ r[l] = t /\ uxPriority[s[i]] >= uxPriority[t]
    BY <1>4, <2>2, <2>5
  <2>6. CASE \E i, j \in DOMAIN s : /\ r[k] = t /\ r[l] = s[j] /\ i <= j
                                    /\ ~(uxPriority[s[i]] >= uxPriority[t])
    <3>1. PICK i \in DOMAIN s, j \in DOMAIN s :
                 /\ r[k] = t /\ r[l] = s[j] /\ i <= j /\ ~(uxPriority[s[i]] >= uxPriority[t])
      BY <2>6
    <3>2. uxBasePriority[s[j]] <= uxBasePriority[s[i]]
      <4>1. i \in Nat /\ j \in Nat
        BY <1>5
      <4>2. i = j \/ i < j
        BY <3>1, <4>1
      <4> QED BY <2>1, <2>2, <4>2
    <3>3. s[i] \in Tasks /\ s[j] \in Tasks /\ s[j] # t /\ uxPriority[s[i]] = uxBasePriority[s[i]]
      BY <2>2
    <3>4. uxBasePriority[s[j]] <= uxBasePriority[t]
      BY <1>4, <3>1, <3>2, <3>3
    <3> QED BY <3>1, <3>3, <3>4
  <2> QED BY <1>6, <2>3, <2>4, <2>5, <2>6 DEF Follows
<1>12. Lent(m, h)
  BY <1>0 DEF OneInv, Loans
<1>13. /\ uxPriority[t] <= raised /\ uxPriority[h] <= raised
       /\ raised = uxPriority[t] \/ raised = uxPriority[h]
  BY <1>0 DEF Lends
<1> HIDE DEF raised, s
<1>14. raised \in Nat /\ uxPriority[h] \in Nat /\ uxPriority[t] \in Nat
  BY <1>0, <1>13
<1>15. AboveBase'
  <2> SUFFICES ASSUME NEW u \in Tasks PROVE uxBasePriority[u] <= uxPriority'[u]
    BY DEF AboveBase
  <2>1. uxBasePriority[u] <= uxPriority[u]
    BY DEF OneInv, Loans, AboveBase
  <2>2. CASE u = h
    BY <1>2, <1>13, <1>14, <2>1, <2>2
  <2>3. CASE u # h
    BY <1>2, <2>1, <2>3
  <2> QED BY <2>2, <2>3
<1>16. \A u \in Waiting(m)' : uxBasePriority[u] <= uxPriority'[h]
  <2> TAKE u \in Waiting(m)'
  <2>1. CASE u = t
    BY <1>2, <1>4, <1>13, <2>1
  <2>2. CASE u # t
    <3>1. u \in Waiting(m) /\ u \in Tasks
      BY <1>7, <2>2
    <3>2. uxBasePriority[u] <= uxPriority[h]
      BY <1>12, <3>1 DEF Lent
    <3> QED BY <1>2, <1>13, <1>14, <3>1, <3>2
  <2> QED BY <2>1, <2>2
<1>17. \E u \in {h} \cup Waiting(m)' \cup WillWithdraw(m)' : uxPriority'[h] = uxBasePriority[u]
  <2>1. CASE raised = uxPriority[t]
    BY <1>2, <1>4, <1>7, <2>1
  <2>2. CASE raised = uxPriority[h]
    <3>1. PICK u \in {h} \cup Waiting(m) \cup WillWithdraw(m) : uxPriority[h] = uxBasePriority[u]
      BY <1>12 DEF Lent
    <3>2. u \in WillWithdraw(m) => u \in WillWithdraw(m)'
      BY <1>1, <1>2 DEF WillWithdraw, Withdrawing, Wanted
    <3> QED BY <1>2, <1>7, <2>2, <3>1, <3>2
  <2> QED BY <1>13, <2>1, <2>2
<1>18. \A u \in Waiting(m)' : uxBasePriority[h] < uxBasePriority[u] => xInheritanceOccurred'[u]
  <2> TAKE u \in Waiting(m)'
  <2>1. CASE u = t
    BY <1>2, <1>4, <2>1
  <2>2. CASE u # t
    <3>1. u \in Waiting(m) /\ u \in Tasks \ {t}
      BY <1>7, <2>2
    <3> QED BY <1>2, <1>12, <3>1 DEF Lent
  <2> QED BY <2>1, <2>2
<1>19. Lent(m, h)'
  BY <1>1, <1>16, <1>17, <1>18 DEF Lent
<1>20. Woken(m)' /\ xMutexHolder'[m] = h
  BY <1>0, <1>1 DEF Woken
<1>21. Running(m)'
  BY <1>1, <1>9, <1>15, <1>19, <1>20, SelectedRuns
<1> QED BY <1>9, <1>10, <1>11, <1>15, <1>19, <1>20, <1>21 DEF OneInv, Loans

(* A withdrawal that changes the priority leaves the holder what it owes   *)
(* to its own priority and to the first that waits; the one that withdraws *)
(* (or another that will) is in the list that the holder leaves.           *)
LEMMA DisinheritKeepsOne ==
  ASSUME NEW m, Mutexes = {m}, TypeOK, MutexInv, OneInv(m), TypeOK', MutexInv',
         NEW t \in Tasks, DisinheritAfterTimeout(t)
  PROVE  OneInv(m)'
<1> DEFINE h == xMutexHolder[m]
           s == xTasksWaitingToReceive[m]
           p == PriorityToUse(m, h)
<1> USE OneFacts DEF At, Goto, mutex, tcb, local
<1>0. Wanted(t) = m
  OBVIOUS
<1>1. /\ pxCurrentTCB = t /\ pc[t] = "disinherit"
      /\ pc' = [pc EXCEPT ![t] = "run"]
      /\ IF h # NoTask /\ uxPriority[h] # p /\ uxMutexesHeld[h] = 1
         THEN /\ uxPriority' = [uxPriority EXCEPT ![h] = p]
              /\ ready' = MovedDown(ready, h, uxPriority[h], p)
         ELSE UNCHANGED <<uxPriority, ready>>
      /\ UNCHANGED <<xMutexHolder, xTasksWaitingToReceive, pxCurrentTCB, call, expired,
                     xInheritanceOccurred>>
  BY <1>0 DEF DisinheritAfterTimeout
<1>2. pc'[t] = "run" /\ \A u \in Tasks \ {t} : pc'[u] = pc[u]
  BY <1>1 DEF TypeOK
<1>3. t # h /\ t # NoTask /\ t \in Awake(m) /\ t \notin Waiting(m)
  BY <1>1, TasksAssumption DEF OneInv, Places, Running, Runs, Awake
<1>4. s \in Seq(Tasks) /\ Waiting(m) = {s[i] : i \in DOMAIN s} /\ DOMAIN s = 1 .. Len(s)
  BY DEF TypeOK, Waiting
(* What is left to the holder.                                             *)
<1>5. h # NoTask => /\ p \in Nat
                    /\ uxBasePriority[h] <= p
                    /\ \A u \in Waiting(m) : uxBasePriority[u] <= p
                    /\ \E u \in {h} \cup Waiting(m) : p = uxBasePriority[u]
                    /\ p <= uxPriority[h]
  <2> HAVE h # NoTask
  <2>1. h \in Tasks /\ Lent(m, h) /\ uxBasePriority[h] <= uxPriority[h]
    BY DEF OneInv, Loans, AboveBase
  <2>2. CASE s = <<>>
    <3>1. p = uxBasePriority[h]
      BY <2>1, <2>2 DEF PriorityToUse, HighestWaiting
    <3>2. Waiting(m) = {}
      BY <1>4, <2>2
    <3> HIDE DEF p
    <3> QED BY <2>1, <3>1, <3>2
  <2>3. CASE s # <<>>
    <3> DEFINE w == Head(s)
    <3>1. w = s[1] /\ 1 \in DOMAIN s /\ w \in Waiting(m) /\ w \in Tasks
      BY <1>4, <2>3
    <3>2. w # h /\ uxPriority[w] = uxBasePriority[w]
      BY <3>1
    <3>3. p = IF uxBasePriority[h] < uxBasePriority[w] THEN uxBasePriority[w] ELSE uxBasePriority[h]
      BY <2>3, <3>2 DEF PriorityToUse, HighestWaiting
    <3>4. \A u \in Waiting(m) : uxBasePriority[u] <= uxBasePriority[w]
      <4> TAKE u \in Waiting(m)
      <4>1. PICK i \in 1 .. Len(s) : u = s[i]
        BY <1>4
      <4>2. CASE i = 1
        BY <3>1, <4>1, <4>2
      <4>3. CASE i # 1
        <5>1. 1 < i
          BY <1>4, <4>3
        <5> QED BY <1>4, <3>1, <4>1, <5>1 DEF OneInv, InOrder
      <4> QED BY <4>2, <4>3
    <3>5. uxBasePriority[w] <= uxPriority[h]
      BY <2>1, <3>1 DEF Lent
    <3> HIDE DEF p, w, s
    <3>6. \A u \in Waiting(m) : uxBasePriority[u] \in Nat
      OBVIOUS
    <3>7. uxBasePriority[w] \in Nat /\ uxBasePriority[h] \in Nat
      BY <2>1, <3>1
    <3>8. \A u \in Waiting(m) : uxBasePriority[u] <= p
      <4> TAKE u \in Waiting(m)
      <4> QED BY <3>3, <3>4, <3>6, <3>7
    <3> QED BY <2>1, <3>1, <3>3, <3>5, <3>7, <3>8
  <2> QED BY <2>2, <2>3
<1>6. Waiting(m)' = Waiting(m) /\ Awake(m)' = Awake(m)
  <2>1. Waiting(m)' = Waiting(m)
    BY <1>1 DEF Waiting
  <2> QED BY <1>1, <1>2, <1>3, <2>1 DEF Awake
<1>7. Places(m)'
  BY <1>1, <1>2, <1>3, <1>6 DEF OneInv, Places
<1>8. InOrder(m)'
  BY <1>1 DEF OneInv, InOrder
<1>9. \A w \in Tasks : xMutexHolder[m] = NoTask /\ WokenFirst(m, w) => WokenFirst(m, w)'
  BY <1>1, <1>2, <1>6 DEF WokenFirst
<1>10. Runs(m, t) /\ uxPriority'[t] = uxPriority[t] => Running(m)'
  BY <1>1, <1>6, <1>9 DEF OneInv, Running, Woken, Runs
<1>11. Runs(m, t)
  BY <1>1, <1>3 DEF OneInv, Running
<1>12. CASE ~(h # NoTask /\ uxPriority[h] # p /\ uxMutexesHeld[h] = 1)
  <2>1. UNCHANGED <<uxPriority, ready>>
    BY <1>1, <1>12
  <2>2. ListsExact(ready', uxPriority', Awake(m)') /\ AboveBase' /\ Running(m)'
    BY <1>6, <1>10, <1>11, <2>1 DEF OneInv, Loans, AboveBase
  <2>3. ASSUME h # NoTask PROVE Lent(m, h)'
    <3>1. uxPriority[h] = p
      BY <1>12, <2>3
    <3>2. \E u \in {h} \cup Waiting(m) : uxPriority[h] = uxBasePriority[u]
      BY <1>5, <2>3, <3>1
    <3>3. Lent(m, h)
      BY <2>3 DEF OneInv, Loans
    <3> QED BY <1>1, <1>6, <2>1, <3>2, <3>3 DEF Lent
  <2> QED BY <1>1, <1>7, <1>8, <2>2, <2>3 DEF OneInv, Loans
<1>13. CASE h # NoTask /\ uxPriority[h] # p /\ uxMutexesHeld[h] = 1
  <2>1. /\ uxPriority' = [uxPriority EXCEPT ![h] = p]
        /\ ready' = MovedDown(ready, h, uxPriority[h], p)
    BY <1>1, <1>13
  <2>2. h \in Tasks /\ Lent(m, h)
    BY <1>13 DEF OneInv, Loans
  <2> HIDE DEF p, h
  <2>3. uxPriority'[h] = p /\ \A u \in Tasks \ {h} : uxPriority'[u] = uxPriority[u]
    BY <2>1, <2>2 DEF TypeOK
  <2>4. p \in Priorities
    BY <2>2, <2>3 DEF TypeOK
  (* The list it leaves holds a task that will withdraw.                   *)
  <2>5. ready.lists[uxPriority[h]] # {h}
    <3>1. PICK u \in {h} \cup Waiting(m) \cup WillWithdraw(m) : uxPriority[h] = uxBasePriority[u]
      BY <2>2 DEF Lent
    <3>2. u # h
      <4> SUFFICES ASSUME u = h PROVE FALSE
        OBVIOUS
      <4>1. uxBasePriority[h] <= p /\ p <= uxPriority[h] /\ uxPriority[h] = uxBasePriority[h]
        BY <1>5, <1>13, <3>1
      <4> QED BY <1>5, <1>13, <2>2, <4>1
    <3>3. u \notin Waiting(m)
      <4> SUFFICES ASSUME u \in Waiting(m) PROVE FALSE
        OBVIOUS
      <4>1. uxBasePriority[u] <= p /\ p <= uxPriority[h]
        BY <1>5, <1>13
      <4> QED BY <1>5, <1>13, <2>2, <3>1, <4>1
    <3>4. u \in WillWithdraw(m)
      BY <3>1, <3>2, <3>3
    <3>5. u \in Tasks /\ pc[u] # "delayed"
      BY <3>4 DEF WillWithdraw, Withdrawing
    <3>6. u \in Awake(m) /\ uxPriority[u] = uxPriority[h]
      BY <3>1, <3>2, <3>3, <3>5 DEF Awake, h
    <3>7. uxPriority[h] \in Priorities
      BY <2>2 DEF TypeOK
    <3>8. u \in ready.lists[uxPriority[h]]
      BY <3>6, <3>7 DEF OneInv, ListsExact
    <3> QED BY <3>2, <3>8
  <2>6. ListsExact(ready', uxPriority', Awake(m)')
    <3>1. uxPriority \in [Tasks -> Priorities] /\ Awake(m) \in SUBSET Tasks
      BY DEF TypeOK
    <3>2. ListsExact(MovedDown(ready, h, uxPriority[h], p), [uxPriority EXCEPT ![h] = p], Awake(m))
      BY <2>2, <2>4, <2>5, <3>1, MovedDownExact DEF OneInv
    <3> QED BY <1>6, <2>1, <3>2
  <2>7. AboveBase'
    BY <1>5, <1>13, <2>2, <2>3 DEF OneInv, Loans, AboveBase
  <2>8. Lent(m, h)'
    <3>1. \A u \in Waiting(m) : uxBasePriority[u] <= p
      BY <1>5, <1>13
    <3>2. \E u \in {h} \cup Waiting(m) : p = uxBasePriority[u]
      BY <1>5, <1>13
    <3>3. h' = h
      BY <1>1 DEF h
    <3>4. \A u \in Waiting(m)' : uxBasePriority[h] < uxBasePriority[u] => xInheritanceOccurred'[u]
      BY <1>1, <1>6, <2>2 DEF Lent
    <3>5. /\ \A u \in Waiting(m)' : uxBasePriority[u] <= uxPriority'[h]
          /\ \E u \in {h} \cup Waiting(m)' \cup WillWithdraw(m)' : uxPriority'[h] = uxBasePriority[u]
      BY <1>6, <2>3, <3>1, <3>2
    <3> QED BY <3>3, <3>4, <3>5 DEF Lent
  <2>9. uxPriority'[t] = uxPriority[t]
    BY <1>3, <2>3
  <2> QED BY <1>1, <1>7, <1>8, <1>10, <1>11, <2>6, <2>7, <2>8, <2>9 DEF OneInv, Loans, h
<1> QED BY <1>12, <1>13

LEMMA GiveKeepsOne ==
  ASSUME NEW m, Mutexes = {m}, TypeOK, MutexInv, OneInv(m), TypeOK', MutexInv',
         NEW t \in Tasks, Give(t)
  PROVE  OneInv(m)'
<1> DEFINE kept == uxBasePriority[t]
           s == xTasksWaitingToReceive[m]
           down == Moved(ready, t, uxPriority[t], kept)
<1> USE OneFacts DEF local
<1>a. TypeOK
  OBVIOUS
<1>1. /\ xMutexHolder[m] = t /\ pxCurrentTCB = t /\ pc[t] = "run"
      /\ UNCHANGED <<pc, call, expired, xInheritanceOccurred>>
  BY DEF Give, Holds, At
<1>2. t # NoTask /\ uxMutexesHeld[t] = 1
  BY <1>1, TasksAssumption
<1>3. (IF Disinherits(t) THEN uxBasePriority[t] ELSE uxPriority[t]) = kept
  BY <1>2 DEF Disinherits
<1>4. /\ xMutexHolder' = [xMutexHolder EXCEPT ![m] = NoTask]
      /\ uxPriority' = [uxPriority EXCEPT ![t] = kept]
      /\ IF s = <<>>
         THEN /\ ready' = down
              /\ UNCHANGED xTasksWaitingToReceive
              /\ SwitchIf(Disinherits(t), ready')
         ELSE /\ ready' = Added(down, Head(s), uxPriority[Head(s)])
              /\ xTasksWaitingToReceive' = [xTasksWaitingToReceive EXCEPT ![m] = Tail(s)]
              /\ SwitchIf(YieldsTo(Head(s), t, kept), ready')
  <2> HIDE DEF kept
  <2> QED BY <1>3 DEF Give
<1>5. /\ xMutexHolder'[m] = NoTask
      /\ uxPriority'[t] = uxBasePriority[t] /\ \A u \in Tasks \ {t} : uxPriority'[u] = uxPriority[u]
  BY <1>4 DEF TypeOK
<1>6. t \in Awake(m) /\ t \notin Waiting(m)
  BY <1>1, <1>2 DEF OneInv, Running, Runs, Awake
<1>7. s \in Seq(Tasks) /\ DOMAIN s = 1 .. Len(s) /\ Waiting(m) = {s[i] : i \in DOMAIN s}
  BY DEF TypeOK, Waiting
<1>8. kept \in Priorities /\ kept \in Nat
  BY PrioritiesAreNumbers
<1>9. uxPriority \in [Tasks -> Priorities] /\ Awake(m) \in SUBSET Tasks
      /\ uxPriority' \in [Tasks -> Priorities]
  BY DEF TypeOK
<1>10. ListsExact(down, uxPriority', Awake(m))
  BY <1>4, <1>8, <1>9, MovedExact DEF OneInv
<1> HIDE DEF down, kept
<1>11. AboveBase'
  BY <1>5 DEF OneInv, Loans, AboveBase
<1>12. CASE s = <<>>
  <2>1. ready' = down /\ xTasksWaitingToReceive' = xTasksWaitingToReceive
        /\ (Select(ready') \/ pxCurrentTCB' = t)
    BY <1>1, <1>4, <1>12 DEF SwitchIf
  <2>2. Waiting(m) = {} /\ Waiting(m)' = {} /\ Awake(m)' = Awake(m)
    BY <1>1, <1>7, <1>12, <2>1 DEF Waiting, Awake
  <2>3. ListsExact(ready', uxPriority', Awake(m)')
    BY <1>10, <2>1, <2>2
  <2>4. Places(m)' /\ InOrder(m)' /\ Woken(m)'
    BY <1>5, <2>1, <2>2 DEF OneInv, Places, InOrder, Woken
  <2>5. pxCurrentTCB' = t => Running(m)'
    BY <1>6, <2>2, <2>4 DEF Running, Runs
  <2>6. Select(ready') => Running(m)'
    BY <1>5, <1>11, <2>3, <2>4, SelectedRuns
  <2> QED BY <1>5, <1>11, <2>1, <2>3, <2>4, <2>5, <2>6 DEF OneInv, Loans
<1>13. CASE s # <<>>
  <2> DEFINE z == Tail(s)
  <2>0. PICK w \in Tasks : w = Head(s)
    BY <1>7, <1>13
  <2>1. /\ ready' = Added(down, w, uxPriority[w])
        /\ xTasksWaitingToReceive' = [xTasksWaitingToReceive EXCEPT ![m] = z]
        /\ SwitchIf(YieldsTo(w, t, kept), ready')
    BY <1>4, <1>13, <2>0
  <2>2. /\ w = s[1] /\ 1 \in DOMAIN s /\ w \in Waiting(m) /\ w \in Tasks
        /\ z \in Seq(Tasks) /\ DOMAIN z = 1 .. Len(s) - 1
        /\ \A i \in 1 .. Len(s) - 1 : z[i] = s[i + 1]
    BY <1>7, <1>13, <2>0
  <2>3. Len(s) \in Nat /\ \A i \in 1 .. Len(s) - 1 : i + 1 \in 1 .. Len(s) /\ 1 < i + 1
    BY <1>7
  <2>4. \A i, j \in DOMAIN s : i < j => s[i] # s[j] /\ uxBasePriority[s[j]] <= uxBasePriority[s[i]]
    BY DEF OneInv, InOrder
  <2>5. xTasksWaitingToReceive'[m] = z
    BY <2>1, <2>2 DEF TypeOK
  <2> HIDE DEF z, s
  <2>6. Waiting(m)' = {z[i] : i \in 1 .. Len(s) - 1}
    <3>1. Waiting(m)' = {z[i] : i \in DOMAIN z}
      BY <2>5 DEF Waiting
    <3> QED BY <2>2, <3>1
  <2>7. \A i \in 1 .. Len(s) - 1 : /\ z[i] \in Waiting(m) /\ z[i] # w
                                   /\ uxBasePriority[z[i]] <= uxBasePriority[w]
    <3> TAKE i \in 1 .. Len(s) - 1
    <3>1. i + 1 \in DOMAIN s /\ 1 \in DOMAIN s /\ 1 < i + 1 /\ z[i] = s[i + 1]
      BY <1>7, <2>2, <2>3
    <3>2. s[i + 1] \in Waiting(m)
      BY <1>7, <3>1
    <3>3. s[1] # s[i + 1] /\ uxBasePriority[s[i + 1]] <= uxBasePriority[s[1]]
      BY <2>4, <3>1
    <3> QED BY <2>2, <3>1, <3>2, <3>3
  <2>8. \A u \in Waiting(m) : u = w \/ u \in Waiting(m)'
    <3> TAKE u \in Waiting(m)
    <3>1. PICK i \in 1 .. Len(s) : u = s[i]
      BY <1>7
    <3>2. CASE i = 1
      BY <2>2, <3>1, <3>2
    <3>3. CASE i # 1
      <4>1. i - 1 \in 1 .. Len(s) - 1 /\ i - 1 + 1 = i
        BY <2>3, <3>3
      <4>2. z[i - 1] = s[i]
        BY <2>2, <4>1
      <4> QED BY <2>6, <3>1, <4>1, <4>2
    <3> QED BY <3>2, <3>3
  <2>9. Waiting(m)' = Waiting(m) \ {w}
    BY <2>6, <2>7, <2>8
  <2>10. pc[w] = "head" /\ ~expired[w] /\ w # t /\ uxPriority[w] = uxBasePriority[w]
    BY <1>1, <1>2, <1>6, <2>2 DEF OneInv, Places
  <2>11. Awake(m)' = Awake(m) \cup {w}
    BY <1>1, <2>2, <2>9, <2>10 DEF Awake
  <2>12. ListsExact(ready', uxPriority', Awake(m)')
    <3>1. uxPriority'[w] = uxPriority[w]
      BY <1>5, <2>2, <2>10
    <3>2. ListsExact(Added(down, w, uxPriority'[w]), uxPriority', Awake(m) \cup {w})
      BY <1>9, <1>10, <2>2, AddedExact
    <3> QED BY <2>1, <2>11, <3>1, <3>2
  <2>13. Places(m)'
    BY <1>1, <1>5, <2>9 DEF OneInv, Places
  <2>14. InOrder(m)'
    <3> SUFFICES ASSUME NEW i \in 1 .. Len(s) - 1, NEW j \in 1 .. Len(s) - 1, i < j
                 PROVE  z[i] # z[j] /\ uxBasePriority[z[j]] <= uxBasePriority[z[i]]
      BY <2>2, <2>5 DEF InOrder
    <3>1. i + 1 \in 1 .. Len(s) /\ j + 1 \in 1 .. Len(s) /\ i + 1 < j + 1
      BY <2>3
    <3>2. z[i] = s[i + 1] /\ z[j] = s[j + 1]
      BY <2>2
    <3>3. s[i + 1] # s[j + 1] /\ uxBasePriority[s[j + 1]] <= uxBasePriority[s[i + 1]]
      BY <1>7, <2>4, <3>1
    <3> QED BY <3>2, <3>3
  <2>15. w \in Awake(m)' /\ WokenFirst(m, w)'
    <3>1. \A u \in Waiting(m)' : uxBasePriority[u] <= uxBasePriority[w]
      BY <2>6, <2>7
    <3>2. pc'[w] = "head"
      BY <1>1, <2>10
    <3> QED BY <2>11, <3>1, <3>2 DEF WokenFirst
  <2>16. Woken(m)'
    BY <2>15 DEF Woken
  <2>17. CASE Select(ready')
    <3>1. Running(m)'
      BY <1>5, <1>11, <2>12, <2>16, <2>17, SelectedRuns
    <3> QED BY <1>5, <1>11, <2>12, <2>13, <2>14, <3>1 DEF OneInv, Loans
  <2>18. CASE pxCurrentTCB' = t /\ ~YieldsTo(w, t, kept)
    <3>1. uxBasePriority[w] <= uxPriority'[t]
      BY <1>5, <2>2, <2>10, <2>18 DEF YieldsTo, kept
    <3>2. t \in Awake(m)'
      BY <1>6, <2>11
    <3>3. xMutexHolder'[m] \notin Awake(m)'
      BY <1>5, TasksAssumption DEF Awake
    <3>4. Runs(m, t)'
      BY <1>5, <2>15, <3>1, <3>2, <3>3 DEF Runs
    <3>5. Running(m)'
      BY <2>16, <2>18, <3>4 DEF Running
    <3> QED BY <1>5, <1>11, <2>12, <2>13, <2>14, <3>5 DEF OneInv, Loans
  <2> QED BY <1>1, <2>1, <2>17, <2>18 DEF SwitchIf
<1> QED BY <1>12, <1>13

(* A task whose wait ends with the tick has lent its priority if it is     *)
(* above the holder, and will withdraw it.                                 *)
LEMMA TickKeepsOne ==
  ASSUME NEW m, Mutexes = {m}, TypeOK, MutexInv, OneInv(m), TypeOK', MutexInv',
         IncrementTick
  PROVE  OneInv(m)'
<1> DEFINE h == xMutexHolder[m]
           s == xTasksWaitingToReceive[m]
<1> USE OneFacts DEF mutex, tcb
<1>a. TypeOK
  OBVIOUS
<1>1. PICK E \in SUBSET {t \in Tasks : Timed(t)} :
       LET woken == {t \in E : OffList(t)}
           lists == [p \in Priorities |->
                       ready.lists[p] \cup {t \in woken : uxPriority[t] = p}]
           mine  == uxPriority[pxCurrentTCB]
       IN  /\ ready' = [lists |-> lists,
                        top |-> ready.top \cup {uxPriority[t] : t \in woken}]
           /\ pc' = [t \in Tasks |-> IF t \in E /\ pc[t] = "delayed" THEN "run" ELSE pc[t]]
           /\ expired' = [t \in Tasks |-> expired[t] \/ (t \in E /\ pc[t] # "delayed")]
           /\ xTasksWaitingToReceive' =
                [k \in Mutexes |-> WithoutTasks(xTasksWaitingToReceive[k], E)]
           /\ SwitchIf(\/ \E t \in woken : uxPriority[t] >= mine
                       \/ Cardinality(lists[mine]) > 1, ready')
  BY DEF IncrementTick
<1> DEFINE woken == {t \in E : OffList(t)}
           lists == [p \in Priorities |->
                       ready.lists[p] \cup {t \in woken : uxPriority[t] = p}]
           top == ready.top \cup {uxPriority[t] : t \in woken}
           z == WithoutTasks(s, E)
<1>2. /\ ready' = [lists |-> lists, top |-> top]
      /\ xTasksWaitingToReceive' = [k \in Mutexes |-> WithoutTasks(xTasksWaitingToReceive[k], E)]
      /\ pxCurrentTCB # NoTask
      /\ UNCHANGED <<xMutexHolder, uxPriority, call, xInheritanceOccurred>>
      /\ Select(ready') \/ (pxCurrentTCB' = pxCurrentTCB
                            /\ ~\E t \in woken : uxPriority[t] >= uxPriority[pxCurrentTCB])
  BY <1>1 DEF IncrementTick, SwitchIf
<1>3. \A t \in Tasks : /\ pc'[t] = IF t \in E /\ pc[t] = "delayed" THEN "run" ELSE pc[t]
                       /\ expired'[t] = (expired[t] \/ (t \in E /\ pc[t] # "delayed"))
  BY <1>1
<1>4. \A t \in E : /\ t \in Tasks
                   /\ \/ pc[t] = "delayed"
                      \/ pc[t] \in {"head", "suspend"} /\ call[t].ticks = "finite" /\ ~expired[t]
  BY DEF Timed
<1>5. xTasksWaitingToReceive'[m] = z
  BY <1>2
<1>6. s \in Seq(Tasks) /\ DOMAIN s = 1 .. Len(s) /\ Waiting(m) = Members(s)
  BY DEF TypeOK, Waiting, Members
<1>7. /\ Members(z) = Members(s) \ E
      /\ PartOf(z, s)
  <2> HIDE DEF s
  <2>1. Members(z) = Members(s) \ E
    BY <1>6, WithoutKeeps
  <2>2. PartOf(z, s)
    BY <1>6, WithoutKeeps
  <2> QED BY <2>1, <2>2
<1> HIDE DEF z
<1>8. Waiting(m)' = Waiting(m) \ E
  <2>1. Waiting(m)' = Members(z)
    BY <1>5 DEF Waiting, Members
  <2> HIDE DEF s
  <2> QED BY <1>6, <1>7, <2>1
<1>9. \A t \in Waiting(m) : t \in Tasks /\ pc[t] = "head" /\ ~expired[t] /\ t # h
  <2>1. h # NoTask => h \notin Waiting(m)
    OBVIOUS
  <2>2. Waiting(m) \subseteq Tasks
    OBVIOUS
  <2> QED BY <2>1, <2>2, TasksAssumption DEF OneInv, Places
<1>10. \A t \in Tasks : OffList(t) <=> t \notin Awake(m)
  <2> TAKE t \in Tasks
  <2>1. uxPriority[t] \in Priorities
    BY DEF TypeOK
  <2>2. ready.lists[uxPriority[t]] = {u \in Awake(m) : uxPriority[u] = uxPriority[t]}
    BY <2>1 DEF OneInv, ListsExact
  <2> QED BY <2>2 DEF OffList
<1>11. Awake(m)' = Awake(m) \cup woken
  <2>1. ASSUME NEW t \in Tasks PROVE t \in Awake(m)' <=> (t \in Awake(m) \/ t \in woken)
    <3>1. t \in woken <=> t \in E /\ t \notin Awake(m)
      BY <1>10
    <3>2. pc'[t] # "delayed" <=> (pc[t] # "delayed" \/ t \in E)
      BY <1>3
    <3>3. t \in Waiting(m) => pc[t] = "head"
      BY <1>9
    <3>4. t \in Awake(m)' <=> pc'[t] # "delayed" /\ t \notin Waiting(m)'
      BY DEF Awake
    <3>5. t \in Awake(m) <=> pc[t] # "delayed" /\ t \notin Waiting(m)
      BY DEF Awake
    <3> QED BY <1>4, <1>8, <3>1, <3>2, <3>3, <3>4, <3>5
  <2>2. Awake(m)' \subseteq Tasks /\ Awake(m) \subseteq Tasks /\ woken \subseteq Tasks
    BY DEF Awake
  <2> HIDE DEF woken
  <2> QED BY <2>1, <2>2
<1>12. ListsExact(ready', uxPriority', Awake(m)')
  <2>1. ready' \in ReadyType /\ ready'.lists = lists /\ ready'.top = top
    BY <1>2 DEF TypeOK, ReadyType
  <2>2. \A p \in Priorities : lists[p] = {t \in Awake(m)' : uxPriority[t] = p}
    <3> TAKE p \in Priorities
    <3>1. lists[p] = ready.lists[p] \cup {t \in woken : uxPriority[t] = p}
      OBVIOUS
    <3>2. ready.lists[p] = {t \in Awake(m) : uxPriority[t] = p}
      BY DEF OneInv, ListsExact
    <3> HIDE DEF woken, lists
    <3> QED BY <1>11, <3>1, <3>2
  <2>3. top = {p \in Priorities : lists[p] # {}}
    <3>1. ready.top = {p \in Priorities : ready.lists[p] # {}}
      BY DEF OneInv, ListsExact
    <3>2. \A t \in woken : t \in Tasks /\ uxPriority[t] \in Priorities
      BY DEF TypeOK
    <3>3. \A p \in Priorities : lists[p] = ready.lists[p] \cup {t \in woken : uxPriority[t] = p}
      OBVIOUS
    <3> HIDE DEF woken, lists
    <3> QED BY <3>1, <3>2, <3>3 DEF top
  <2> HIDE DEF lists, top
  <2> QED BY <1>2, <2>1, <2>2, <2>3 DEF ListsExact
<1> HIDE DEF lists, top
<1>13. Places(m)'
  <2>1. \A t \in Waiting(m)' : pc'[t] = "head" /\ ~expired'[t]
    BY <1>3, <1>8, <1>9
  <2>2. h # NoTask => h \in Tasks /\ pc[h] \in {"run", "delayed"}
    BY DEF OneInv, Places
  <2>3. h # NoTask => pc'[h] \in {"run", "delayed"}
    BY <1>3, <2>2
  <2> QED BY <1>2, <2>1, <2>3 DEF Places
<1>14. InOrder(m)'
  <2>1. \A i, j \in DOMAIN s : i < j => s[i] # s[j] /\ uxBasePriority[s[j]] <= uxBasePriority[s[i]]
    BY DEF OneInv, InOrder
  <2> HIDE DEF s
  <2> QED BY <1>5, <1>7, <2>1 DEF InOrder, PartOf
<1>15. AboveBase'
  BY <1>2 DEF OneInv, Loans, AboveBase
<1>16. ASSUME h # NoTask PROVE Lent(m, h)'
  <2>1. Lent(m, h) /\ h \in Tasks /\ uxBasePriority[h] <= uxPriority[h]
    BY <1>16 DEF OneInv, Loans, AboveBase
  <2>2. h' = h
    BY <1>2
  <2>3. PICK u \in {h} \cup Waiting(m) \cup WillWithdraw(m) : uxPriority[h] = uxBasePriority[u]
    BY <2>1 DEF Lent
  <2>7. \E v \in {h} \cup Waiting(m)' \cup WillWithdraw(m)' : uxPriority[h] = uxBasePriority[v]
    <3>4. CASE u \in {h} \cup Waiting(m)'
      BY <2>3, <3>4
    <3>5. CASE u \in Waiting(m) /\ u \in E /\ u # h
      <4>1. u \in Tasks /\ pc[u] = "head" /\ call[u].ticks = "finite"
        BY <1>4, <1>9, <3>5
      <4>2. CASE uxBasePriority[h] < uxBasePriority[u]
        <5>1. xInheritanceOccurred[u]
          BY <2>1, <3>5, <4>2 DEF Lent
        <5>2. pc'[u] = "head" /\ expired'[u]
          BY <1>3, <3>5, <4>1
        <5>3. Wanted(u)' = m
          BY <1>2, <4>1 DEF Wanted
        <5>4. u \in WillWithdraw(m)'
          BY <1>2, <4>1, <5>1, <5>2, <5>3 DEF WillWithdraw, Withdrawing
        <5> QED BY <2>3, <5>4
      <4>3. CASE ~(uxBasePriority[h] < uxBasePriority[u])
        <5>1. uxPriority[h] = uxBasePriority[h]
          BY <2>1, <2>3, <4>1, <4>3
        <5> QED BY <5>1
      <4> QED BY <4>2, <4>3
    <3>6. CASE u \in WillWithdraw(m)
      <4>1. u \in Tasks /\ pc[u] # "delayed" /\ expired[u]
        BY <3>6 DEF WillWithdraw, Withdrawing
      <4>2. pc'[u] = pc[u] /\ expired'[u]
        BY <1>3, <4>1
      <4>3. u \in WillWithdraw(m)'
        BY <1>2, <3>6, <4>2 DEF WillWithdraw, Withdrawing, Wanted
      <4> QED BY <2>3, <4>3
    <3> QED BY <1>8, <2>3, <3>4, <3>5, <3>6
  <2> HIDE DEF h
  <2>8. /\ \A v \in Waiting(m)' : uxBasePriority[v] <= uxPriority'[h]
        /\ \A v \in Waiting(m)' : uxBasePriority[h] < uxBasePriority[v] => xInheritanceOccurred'[v]
    BY <1>2, <1>8, <2>1 DEF Lent
  <2>9. \E v \in {h} \cup Waiting(m)' \cup WillWithdraw(m)' : uxPriority'[h] = uxBasePriority[v]
    BY <1>2, <2>7
  <2> QED BY <2>2, <2>8, <2>9 DEF Lent
<1>17. \A w \in Awake(m) : WokenFirst(m, w) => w \in Awake(m)' /\ WokenFirst(m, w)'
  <2> TAKE w \in Awake(m)
  <2> HAVE WokenFirst(m, w)
  <2>1. w \in Tasks /\ pc[w] = "head"
    BY DEF Awake, WokenFirst
  <2>2. pc'[w] = "head"
    BY <1>3, <2>1
  <2> QED BY <1>8, <1>11, <2>2 DEF WokenFirst
<1>18. Woken(m)'
  BY <1>2, <1>8, <1>17 DEF OneInv, Running, Woken
<1>19. CASE Select(ready')
  <2>1. Running(m)'
    BY <1>2, <1>12, <1>15, <1>16, <1>18, <1>19, SelectedRuns
  <2> QED BY <1>2, <1>12, <1>13, <1>14, <1>15, <1>16, <2>1 DEF OneInv, Loans
<1>20. CASE /\ pxCurrentTCB' = pxCurrentTCB
            /\ ~\E t \in woken : uxPriority[t] >= uxPriority[pxCurrentTCB]
  <2>0. PICK c \in Tasks : c = pxCurrentTCB
    BY <1>2 DEF TypeOK
  <2>1. Runs(m, c)
    BY <1>2, <2>0 DEF OneInv, Running
  <2>2. c \in Awake(m)'
    BY <1>11, <2>1 DEF Runs
  <2>3. ASSUME h = NoTask, Waiting(m)' # {}
        PROVE  \E w \in Awake(m)' : WokenFirst(m, w)' /\ uxBasePriority[w] <= uxPriority[c]
    <3>1. PICK w \in Awake(m) : WokenFirst(m, w) /\ uxBasePriority[w] <= uxPriority[c]
      BY <1>8, <2>1, <2>3 DEF Runs
    <3> QED BY <1>17, <3>1
  <2>4. ASSUME h \in Awake(m)', NEW t \in Waiting(m)' PROVE uxBasePriority[t] <= uxPriority[c]
    <3>1. t \in Waiting(m) /\ t \in Tasks
      BY <1>8, <1>9
    <3>2. CASE h \in Awake(m)
      BY <2>1, <3>1, <3>2 DEF Runs
    <3>3. CASE h \in woken
      <4>1. h \in Tasks /\ h # NoTask
        BY <3>3, TasksAssumption
      <4>2. ~(uxPriority[h] >= uxPriority[c])
        BY <1>20, <2>0, <3>3
      <4>3. uxBasePriority[t] <= uxPriority[h]
        BY <3>1, <4>1 DEF OneInv, Loans, Lent
      <4> QED BY <3>1, <4>1, <4>2, <4>3
    <3> QED BY <1>11, <2>4, <3>2, <3>3
  <2>5. Runs(m, c)'
    BY <1>2, <2>2, <2>3, <2>4 DEF Runs
  <2>6. Running(m)'
    BY <1>18, <1>20, <2>0, <2>5 DEF Running
  <2> QED BY <1>2, <1>12, <1>13, <1>14, <1>15, <1>16, <2>6 DEF OneInv, Loans
<1> QED BY <1>2, <1>19, <1>20

LEMMA OneNext ==
  ASSUME NEW m, Mutexes = {m}, TypeOK, MutexInv, OneInv(m), TypeOK', MutexInv', [MutexNext]_mutexVars
  PROVE  OneInv(m)'
<1>1. ASSUME NEW t \in Tasks, Take(t) \/ Give(t) \/ GiveInner(t) \/ Delay(t)
      PROVE  OneInv(m)'
  BY <1>1, LocalSteps, ObtainKeepsOne, BlockKeepsOne, DisinheritKeepsOne, GiveKeepsOne,
     DelayKeepsOne DEF Take
<1>2. CASE IncrementTick
  BY <1>2, TickKeepsOne
<1>3. CASE UNCHANGED mutexVars
  <2>1. UNCHANGED <<xMutexHolder, xTasksWaitingToReceive, uxPriority, ready, pxCurrentTCB,
                    pc, call, expired, xInheritanceOccurred>>
    BY <1>3 DEF mutexVars, mutex, tcb, local
  <2>2. Waiting(m)' = Waiting(m) /\ Awake(m)' = Awake(m) /\ WillWithdraw(m)' = WillWithdraw(m)
    BY <2>1 DEF Waiting, Awake, WillWithdraw, Withdrawing, Wanted
  <2>3. \A w : WokenFirst(m, w)' <=> WokenFirst(m, w)
    BY <2>1, <2>2 DEF WokenFirst
  <2>4. \A c : Runs(m, c)' <=> Runs(m, c)
    BY <2>1, <2>2, <2>3 DEF Runs
  <2>5. Running(m)'
    BY <2>1, <2>2, <2>3, <2>4 DEF OneInv, Running, Woken
  <2>6. Loans(m)'
    BY <2>1, <2>2 DEF OneInv, Loans, AboveBase, Lent
  <2> QED BY <2>1, <2>2, <2>5, <2>6 DEF OneInv, Places, InOrder
<1> QED BY <1>1, <1>2, <1>3 DEF MutexNext

LEMMA OneInvariant ==
  ASSUME NEW CONSTANT m, Mutexes = {m}
  PROVE  MutexSpec => [](TypeOK /\ MutexInv /\ OneInv(m))
<1>1. MutexInit => TypeOK /\ MutexInv /\ OneInv(m)
  BY MutexInvInit, TypeInit, OneInit
<1>2. TypeOK /\ MutexInv /\ OneInv(m) /\ [MutexNext]_mutexVars => (TypeOK /\ MutexInv /\ OneInv(m))'
  BY MutexInvNext, TypeNext, OneNext
<1> QED BY <1>1, <1>2, PTL DEF MutexSpec

(* With one mutex, its holder runs at no less than the priority of any     *)
(* task that waits for it, also after others have timed out and withdrawn, *)
(* and at more than its own only as long as a task of that priority waits  *)
(* or is yet to withdraw; for any tasks, priorities and block times.       *)
THEOREM InheritanceIsExact ==
  ASSUME NEW CONSTANT m, Mutexes = {m}
  PROVE  MutexSpec => []InheritsExactly
<1>1. TypeOK /\ MutexInv /\ OneInv(m) => InheritsExactly
  <2> SUFFICES ASSUME TypeOK, MutexInv, OneInv(m), ~Free(m)
               PROVE  /\ \A t \in Waiting(m) : uxPriority[xMutexHolder[m]] >= uxBasePriority[t]
                      /\ \E t \in {xMutexHolder[m]} \cup Waiting(m) \cup Withdrawing(m) :
                           uxPriority[xMutexHolder[m]] = uxBasePriority[t]
    BY DEF InheritsExactly
  <2> DEFINE h == xMutexHolder[m]
  <2>1. h # NoTask /\ h \in Tasks /\ Waiting(m) \subseteq Tasks
    BY OneFacts
  <2>2. Lent(m, h)
    BY <2>1 DEF OneInv, Loans
  <2>3. \A t \in Tasks : uxPriority[t] \in Nat /\ uxBasePriority[t] \in Nat
    BY OneFacts
  <2>4. WillWithdraw(m) \subseteq Withdrawing(m)
    BY DEF WillWithdraw
  <2> HIDE DEF h
  <2>5. \A t \in Waiting(m) : uxPriority[h] >= uxBasePriority[t]
    BY <2>1, <2>2, <2>3 DEF Lent
  <2>6. \E t \in {h} \cup Waiting(m) \cup Withdrawing(m) : uxPriority[h] = uxBasePriority[t]
    BY <2>2, <2>4 DEF Lent
  <2> QED BY <2>5, <2>6 DEF h
<1> QED BY <1>1, OneInvariant, PTL

(* With one mutex, through every change of priority, a task that neither   *)
(* waits nor is delayed is in the ready list of its priority and in no     *)
(* other, and the bit of a priority is set exactly when its list is not    *)
(* empty: the wrong bit that a withdrawal resets does no harm.             *)
THEOREM ReadyListsAreExact ==
  ASSUME NEW CONSTANT m, Mutexes = {m}
  PROVE  MutexSpec => []ReadyExactly
<1>1. TypeOK /\ MutexInv /\ OneInv(m) => ReadyExactly
  BY DEF OneInv, ListsExact, Awake, ReadyExactly
<1> QED BY <1>1, OneInvariant, PTL

(* With one mutex, priority inversion is bounded: while a task waits and   *)
(* the holder could run, no task below the waiting one runs but the holder *)
(* at what it inherited.                                                   *)
THEOREM InversionIsBounded ==
  ASSUME NEW CONSTANT m, Mutexes = {m}
  PROVE  MutexSpec => []NoInversion
<1>1. TypeOK /\ MutexInv /\ OneInv(m) => NoInversion
  <2> SUFFICES ASSUME TypeOK, MutexInv, OneInv(m), NEW t \in Waiting(m),
                      pxCurrentTCB # NoTask, ~Free(m), IsReady(xMutexHolder[m])
               PROVE  uxPriority[pxCurrentTCB] >= uxBasePriority[t]
    BY DEF NoInversion
  <2>1. xMutexHolder[m] \in Awake(m)
    BY DEF IsReady, OneInv, ListsExact
  <2>2. uxBasePriority[t] <= uxPriority[pxCurrentTCB]
    BY <2>1 DEF OneInv, Running, Runs
  <2>3. t \in Tasks /\ pxCurrentTCB \in Tasks
    BY OneFacts DEF TypeOK
  <2> QED BY <2>2, <2>3, OneFacts
<1> QED BY <1>1, OneInvariant, PTL
=============================================================================
