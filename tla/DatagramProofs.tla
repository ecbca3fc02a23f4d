--------------------------- MODULE DatagramProofs ---------------------------
(***************************************************************************)
(* Proofs about the ways that data takes through this core: datagrams      *)
(* between the IP task and the users of UDP sockets, and frames between    *)
(* the IP task, the EMAC task and the MAC.  Both count buffers in several  *)
(* places, so the sums over a function come first.  Then the cache of      *)
(* names that a user of a UDP socket, the call FreeRTOS_gethostbyname,     *)
(* keeps, and at the end the rings to the other core, in HubRing, and the  *)
(* DMA transfers to the FPGA, in AxiDma.                                   *)
(***************************************************************************)
EXTENDS UdpSockets, EmacDriver, NameService, HubRing, AxiDma, SequenceTheorems, FiniteSetTheorems, WellFoundedInduction, TLAPS

(***************************************************************************)
(* Every set of natural numbers that is not empty has a least member: the  *)
(* initial segments of its members are ordered by inclusion, which is well *)
(* founded.                                                                *)
(***************************************************************************)
LEMMA LeastExists ==
  ASSUME NEW S \in SUBSET Nat, S # {}
  PROVE  \E x \in S : \A y \in S : x <= y
<1> DEFINE T == {1 .. x : x \in S}
<1>1. T \subseteq FiniteSubsetsOf(Nat) /\ T # {}
  <2>1. \A x \in S : (1 .. x) \in SUBSET Nat /\ IsFiniteSet(1 .. x)
    BY FS_Interval
  <2> QED BY <2>1 DEF FiniteSubsetsOf
<1>2. PICK t \in T : \A u \in T : ~(<<u, t>> \in StrictSubsetOrdering(Nat))
  <2>1. IsWellFoundedOn(StrictSubsetOrdering(Nat), FiniteSubsetsOf(Nat))
    BY FS_StrictSubsetOrderingWellFounded
  <2> HIDE DEF T
  <2> QED BY <1>1, <2>1, WFMin
<1>3. PICK x \in S : t = 1 .. x
  BY <1>2
<1>4. ASSUME NEW y \in S, ~(x <= y) PROVE FALSE
  <2>1. x \in Nat /\ y \in Nat
    OBVIOUS
  <2>2. (1 .. y) \subseteq (1 .. x) /\ x \in 1 .. x /\ x \notin 1 .. y
    BY <1>4, <2>1
  <2>3. <<1 .. y, 1 .. x>> \in StrictSubsetOrdering(Nat)
    BY <2>1, <2>2 DEF StrictSubsetOrdering
  <2> QED BY <1>2, <1>3, <1>4, <2>3
<1> QED BY <1>4

(***************************************************************************)
(* Sums.                                                                   *)
(***************************************************************************)
Some(T) == CHOOSE x \in T : TRUE

(* A function that adds up f over each of the sets in D, in some order.    *)
Adds(G, f, D) ==
  G = [T \in D |-> IF T = {} THEN 0 ELSE LET x == CHOOSE x \in T : TRUE IN f[x] + G[T \ {x}]]

LEMMA SumIsChosen ==
  ASSUME NEW f, NEW G, Adds(G, f, SUBSET DOMAIN f), \A H : Adds(H, f, SUBSET DOMAIN f) => H = G
  PROVE  SumFunction(f) = G[DOMAIN f]
  BY DEF SumFunction, SumFunctionOnSet, FoldFunctionOnSet, MapThenFoldSet, Adds

LEMMA AddsValue ==
  ASSUME NEW f, NEW D, NEW G, Adds(G, f, D), NEW T \in D, T # {}
  PROVE  Some(T) \in T /\ G[T] = f[Some(T)] + G[T \ {Some(T)}]
<1>1. Some(T) \in T
  BY DEF Some
<1>2. G[T] = [U \in D |-> IF U = {} THEN 0 ELSE LET x == CHOOSE x \in U : TRUE IN f[x] + G[U \ {x}]][T]
  BY DEF Adds
<1> QED BY <1>1, <1>2 DEF Some

LEMMA AddsExists ==
  ASSUME NEW S, IsFiniteSet(S), NEW f
  PROVE  \E G : Adds(G, f, SUBSET S)
<1> DEFINE Small(k) == {T \in SUBSET S : Cardinality(T) <= k}
           Bad == {k \in Nat : ~ \E G : Adds(G, f, Small(k))}
<1>1. \A T \in SUBSET S : IsFiniteSet(T) /\ Cardinality(T) \in Nat
  BY FS_Subset, FS_CardinalityType
<1>2. 0 \notin Bad
  <2>1. Small(0) = {{}}
    BY <1>1, FS_EmptySet
  <2>2. Adds([T \in {{}} |-> 0], f, {{}})
    BY DEF Adds
  <2> QED BY <2>1, <2>2
<1>3. ASSUME NEW k \in Nat, k \notin Bad PROVE k + 1 \notin Bad
  <2>1. PICK G : Adds(G, f, Small(k))
    BY <1>3
  <2> DEFINE H == [T \in Small(k + 1) |-> IF T = {} THEN 0 ELSE f[Some(T)] + G[T \ {Some(T)}]]
  <2>2. ASSUME NEW T \in Small(k + 1), T # {}
        PROVE  Some(T) \in T /\ T \ {Some(T)} \in Small(k) /\ T \ {Some(T)} \in Small(k + 1)
               /\ H[T \ {Some(T)}] = G[T \ {Some(T)}]
    <3>1. Some(T) \in T
      BY <2>2 DEF Some
    <3>2. Cardinality(T \ {Some(T)}) = Cardinality(T) - 1
      BY <1>1, <3>1, FS_RemoveElement
    <3> DEFINE U == T \ {Some(T)}
    <3>3. U \in Small(k) /\ U \in Small(k + 1)
      BY <1>1, <3>2
    <3> HIDE DEF Small
    <3>4. H[U] = IF U = {} THEN 0 ELSE f[Some(U)] + G[U \ {Some(U)}]
      BY <3>3
    <3>5. CASE U = {}
      <4>1. G[U] = 0
        BY <2>1, <3>3, <3>5 DEF Adds
      <4> QED BY <3>1, <3>3, <3>4, <3>5, <4>1
    <3>6. CASE U # {}
      <4>1. G[U] = f[Some(U)] + G[U \ {Some(U)}]
        <5> HIDE DEF U
        <5> QED BY <2>1, <3>3, <3>6, AddsValue
      <4> QED BY <3>1, <3>3, <3>4, <3>6, <4>1
    <3> QED BY <3>5, <3>6
  <2> HIDE DEF Small
  <2>3. H = [T \in Small(k + 1) |-> IF T = {} THEN 0 ELSE f[Some(T)] + H[T \ {Some(T)}]]
    BY <2>2
  <2>4. Adds(H, f, Small(k + 1))
    BY <2>3 DEF Adds, Some
  <2> QED BY <2>4
<1>4. Bad = {}
  <2> SUFFICES ASSUME Bad # {} PROVE FALSE
    OBVIOUS
  <2>1. PICK k \in Bad : \A j \in Bad : k <= j
    BY LeastExists
  <2>2. k \in Nat /\ k # 0
    BY <1>2
  <2> HIDE DEF Bad
  <2>3. k - 1 \in Nat /\ k - 1 \notin Bad
    BY <2>1, <2>2
  <2>4. (k - 1) + 1 \notin Bad
    BY <1>3, <2>3
  <2>5. (k - 1) + 1 = k
    BY <2>2
  <2> QED BY <2>1, <2>4, <2>5
<1>5. Small(Cardinality(S)) = SUBSET S
  <2>1. \A T \in SUBSET S : Cardinality(T) <= Cardinality(S)
    BY FS_Subset
  <2> QED BY <2>1
<1>6. Cardinality(S) \in Nat
  BY FS_CardinalityType
<1> QED BY <1>4, <1>5, <1>6

LEMMA AddsUnique ==
  ASSUME NEW S, IsFiniteSet(S), NEW f, NEW G, Adds(G, f, SUBSET S), NEW H, Adds(H, f, SUBSET S)
  PROVE  G = H
<1> DEFINE Bad == {Cardinality(T) : T \in {U \in SUBSET S : G[U] # H[U]}}
<1>1. \A T \in SUBSET S : IsFiniteSet(T) /\ Cardinality(T) \in Nat
  BY FS_Subset, FS_CardinalityType
<1>2. Bad = {}
  <2> SUFFICES ASSUME Bad # {} PROVE FALSE
    OBVIOUS
  <2>1. Bad \in SUBSET Nat
    BY <1>1
  <2>2. PICK k \in Bad : \A j \in Bad : k <= j
    BY <2>1, LeastExists
  <2>3. PICK T \in SUBSET S : G[T] # H[T] /\ k = Cardinality(T)
    OBVIOUS
  <2>4. T # {}
    BY <2>3 DEF Adds
  <2>5. Some(T) \in T /\ G[T] = f[Some(T)] + G[T \ {Some(T)}] /\ H[T] = f[Some(T)] + H[T \ {Some(T)}]
    BY <2>4, AddsValue
  <2>6. G[T \ {Some(T)}] # H[T \ {Some(T)}]
    BY <2>3, <2>5
  <2>7. Cardinality(T \ {Some(T)}) = Cardinality(T) - 1 /\ T \ {Some(T)} \in SUBSET S
    BY <1>1, <2>5, FS_RemoveElement
  <2>8. Cardinality(T \ {Some(T)}) \in Bad
    BY <2>6, <2>7
  <2> HIDE DEF Bad
  <2> QED BY <1>1, <2>2, <2>3, <2>7, <2>8
<1>3. \A T \in SUBSET S : G[T] = H[T]
  BY <1>2
<1> QED BY <1>3 DEF Adds

(* An element may be taken out of the sum first.                           *)
LEMMA AddsAny ==
  ASSUME NEW S, IsFiniteSet(S), NEW f \in [S -> Int], NEW G, Adds(G, f, SUBSET S)
  PROVE  /\ G[{}] = 0
         /\ \A T \in SUBSET S : G[T] \in Int /\ \A x \in T : G[T] = f[x] + G[T \ {x}]
<1> DEFINE Right(T) == G[T] \in Int /\ \A x \in T : G[T] = f[x] + G[T \ {x}]
           Bad == {Cardinality(T) : T \in {U \in SUBSET S : ~Right(U)}}
<1>1. \A T \in SUBSET S : IsFiniteSet(T) /\ Cardinality(T) \in Nat
  BY FS_Subset, FS_CardinalityType
<1>2. G[{}] = 0
  BY DEF Adds
<1>3. Bad = {}
  <2> SUFFICES ASSUME Bad # {} PROVE FALSE
    OBVIOUS
  <2>1. Bad \in SUBSET Nat
    BY <1>1
  <2>2. PICK k \in Bad : \A j \in Bad : k <= j
    <3> HIDE DEF Bad
    <3> QED BY <2>1, LeastExists
  <2>3. PICK T \in SUBSET S : ~Right(T) /\ k = Cardinality(T)
    OBVIOUS
  <2>4. T # {}
    <3>1. Right({})
      BY <1>2
    <3> HIDE DEF Right
    <3> QED BY <2>3, <3>1
  <2> DEFINE y == Some(T)
  <2>5. y \in T /\ G[T] = f[y] + G[T \ {y}]
    BY <2>4, AddsValue
  <2>6. ASSUME NEW U \in SUBSET S, NEW x \in U, Cardinality(U) <= k
        PROVE  U \ {x} \in SUBSET S /\ Cardinality(U \ {x}) < k /\ Right(U \ {x})
    <3>1. Cardinality(U \ {x}) = Cardinality(U) - 1
      BY <1>1, FS_RemoveElement
    <3>2. U \ {x} \in SUBSET S /\ Cardinality(U \ {x}) \in Nat /\ Cardinality(U) \in Nat
      BY <1>1
    <3>3. Cardinality(U \ {x}) < k /\ Cardinality(U \ {x}) \notin Bad
      <4> HIDE DEF Bad
      <4> QED BY <2>1, <2>2, <2>6, <3>1, <3>2
    <3> HIDE DEF Right
    <3> QED BY <3>2, <3>3
  <2>7. Right(T \ {y}) /\ k \in Nat
    BY <2>1, <2>3, <2>5, <2>6
  <2>8. G[T] \in Int
    BY <2>5, <2>7
  <2>9. ASSUME NEW x \in T PROVE G[T] = f[x] + G[T \ {x}]
    <3>1. CASE x = y
      BY <2>5, <3>1
    <3>2. CASE x # y
      <4>1. Right(T \ {x}) /\ Right(T \ {y})
        <5>1. Cardinality(T) <= k
          BY <2>3, <2>7
        <5> HIDE DEF Right, Bad, y
        <5> QED BY <2>3, <2>6, <2>7, <5>1
      <4>2. G[T \ {y}] = f[x] + G[(T \ {y}) \ {x}]
        BY <3>2, <4>1
      <4>3. G[T \ {x}] = f[y] + G[(T \ {x}) \ {y}]
        BY <2>5, <3>2, <4>1
      <4>4. (T \ {x}) \ {y} = (T \ {y}) \ {x}
        OBVIOUS
      <4>5. Right((T \ {y}) \ {x})
        <5>1. Cardinality(T \ {y}) <= k /\ T \ {y} \in SUBSET S
          BY <1>1, <2>3, <2>5, <2>6, <2>7
        <5> HIDE DEF Right, Bad, y
        <5> QED BY <2>6, <3>2, <5>1
      <4>6. f[x] \in Int /\ f[y] \in Int /\ G[(T \ {y}) \ {x}] \in Int
        BY <2>5, <4>5
      <4>7. G[T \ {x}] = f[y] + G[(T \ {y}) \ {x}]
        BY <4>3, <4>4
      <4> HIDE DEF y, Right, Bad
      <4> QED BY <2>5, <4>2, <4>6, <4>7
    <3> QED BY <3>1, <3>2
  <2> QED BY <2>3, <2>8, <2>9
<1>4. \A T \in SUBSET S : Right(T)
  <2> HIDE DEF Right
  <2> QED BY <1>3
<1> QED BY <1>2, <1>4

LEMMA SumIs ==
  ASSUME NEW S, IsFiniteSet(S), NEW f \in [S -> Int], NEW G, Adds(G, f, SUBSET S)
  PROVE  SumFunction(f) = G[S]
<1>1. DOMAIN f = S
  OBVIOUS
<1>2. \A H : Adds(H, f, SUBSET S) => H = G
  BY AddsUnique
<1> QED BY <1>1, <1>2, SumIsChosen

TakenOut(f, S, x) == [y \in S \ {x} |-> f[y]]

LEMMA SumTakesOut ==
  ASSUME NEW S, IsFiniteSet(S), NEW f \in [S -> Int]
  PROVE  /\ SumFunction(f) \in Int
         /\ S = {} => SumFunction(f) = 0
         /\ \A x \in S : SumFunction(f) = f[x] + SumFunction(TakenOut(f, S, x))
<1>1. PICK G : Adds(G, f, SUBSET S)
  BY AddsExists
<1>2. SumFunction(f) = G[S]
  BY <1>1, SumIs
<1>3. ASSUME NEW x \in S PROVE SumFunction(TakenOut(f, S, x)) = G[S \ {x}]
  <2> DEFINE R == S \ {x}
             g == [y \in R |-> f[y]]
             K == [T \in SUBSET R |-> G[T]]
  <2>1. g \in [R -> Int] /\ IsFiniteSet(R)
    BY FS_RemoveElement
  <2>2. ASSUME NEW T \in SUBSET R
        PROVE  K[T] = IF T = {} THEN 0 ELSE g[Some(T)] + K[T \ {Some(T)}]
    <3>1. CASE T = {}
      BY <1>1, <3>1, AddsAny
    <3>2. CASE T # {}
      <4>1. Some(T) \in T /\ G[T] = f[Some(T)] + G[T \ {Some(T)}]
        BY <1>1, <3>2, AddsValue
      <4> QED BY <3>2, <4>1
    <3> QED BY <3>1, <3>2
  <2>3. K = [T \in SUBSET R |-> IF T = {} THEN 0 ELSE g[Some(T)] + K[T \ {Some(T)}]]
    BY <2>2
  <2>4. Adds(K, g, SUBSET R)
    <3> HIDE DEF K, g
    <3> QED BY <2>3 DEF Adds, Some
  <2>5. SumFunction(g) = K[R]
    <3> HIDE DEF K, g, R
    <3> QED BY <2>1, <2>4, SumIs
  <2> QED BY <2>5 DEF TakenOut
<1>4. G[{}] = 0 /\ G[S] \in Int /\ \A x \in S : G[S] = f[x] + G[S \ {x}]
  <2>1. \A T \in SUBSET S : G[T] \in Int /\ \A x \in T : G[T] = f[x] + G[T \ {x}]
    BY <1>1, AddsAny
  <2>2. G[{}] = 0
    BY <1>1, AddsAny
  <2> QED BY <2>1, <2>2
<1>5. SumFunction(f) \in Int /\ (S = {} => SumFunction(f) = 0)
  BY <1>2, <1>4
<1> QED BY <1>2, <1>3, <1>4, <1>5

LEMMA SumChanges ==
  ASSUME NEW S, IsFiniteSet(S), NEW f \in [S -> Int], NEW g \in [S -> Int],
         NEW x \in S, \A y \in S \ {x} : g[y] = f[y]
  PROVE  SumFunction(f) \in Int /\ SumFunction(g) = (SumFunction(f) + g[x]) - f[x]
<1>1. SumFunction(f) \in Int /\ SumFunction(f) = f[x] + SumFunction(TakenOut(f, S, x))
  BY SumTakesOut
<1>2. SumFunction(g) = g[x] + SumFunction(TakenOut(g, S, x))
  BY SumTakesOut
<1>3. TakenOut(g, S, x) = TakenOut(f, S, x)
  BY DEF TakenOut
<1>4. SumFunction(TakenOut(f, S, x)) \in Int
  <2>1. TakenOut(f, S, x) \in [S \ {x} -> Int] /\ IsFiniteSet(S \ {x})
    BY FS_RemoveElement DEF TakenOut
  <2> QED BY <2>1, SumTakesOut
<1>5. f[x] \in Int /\ g[x] \in Int
  OBVIOUS
<1> QED BY <1>1, <1>2, <1>3, <1>4, <1>5

LEMMA SumAppend ==
  ASSUME NEW s \in Seq(Int), NEW n \in Int
  PROVE  SumFunction(s) \in Int /\ SumFunction(Append(s, n)) = SumFunction(s) + n
<1> DEFINE S == 1 .. Len(s) + 1
           a == Append(s, n)
<1>1. a \in [S -> Int] /\ Len(s) + 1 \in S /\ a[Len(s) + 1] = n
  <2>1. a \in Seq(Int) /\ Len(a) = Len(s) + 1 /\ a[Len(s) + 1] = n
    OBVIOUS
  <2>2. a \in [1 .. Len(a) -> Int]
    <3> HIDE DEF a
    <3> QED BY <2>1
  <2> QED BY <2>1, <2>2
<1>f. IsFiniteSet(S)
  <2>1. 1 \in Int /\ Len(s) + 1 \in Int
    OBVIOUS
  <2> QED BY <2>1, FS_Interval
<1>2. TakenOut(a, S, Len(s) + 1) = s
  <2>1. S \ {Len(s) + 1} = 1 .. Len(s)
    OBVIOUS
  <2>2. \A y \in 1 .. Len(s) : a[y] = s[y]
    OBVIOUS
  <2>3. s = [y \in 1 .. Len(s) |-> s[y]]
    OBVIOUS
  <2> QED BY <2>1, <2>2, <2>3 DEF TakenOut
<1>3. SumFunction(a) = a[Len(s) + 1] + SumFunction(TakenOut(a, S, Len(s) + 1))
  <2> HIDE DEF a, S
  <2> QED BY <1>1, <1>f, SumTakesOut
<1>4. SumFunction(s) \in Int
  <2>1. s \in [1 .. Len(s) -> Int] /\ IsFiniteSet(1 .. Len(s))
    BY FS_Interval
  <2> QED BY <2>1, SumTakesOut
<1>5. SumFunction(a) = n + SumFunction(s)
  BY <1>1, <1>2, <1>3
<1> QED BY <1>4, <1>5

LEMMA SumOne ==
  ASSUME NEW t \in Seq(Int), Len(t) = 1
  PROVE  SumFunction(t) = Head(t) + SumFunction(Tail(t))
<1>1. <<>> \in Seq(Int) /\ t # <<>> /\ t \in [1 .. 1 -> Int]
  BY EmptySeq, LenProperties
<1>2. t[1] \in Int /\ Head(t) = t[1]
  BY <1>1
<1>3. t = Append(<<>>, t[1])
  BY <1>1
<1>4. Tail(t) = <<>>
  <2>1. Tail(t) \in Seq(Int) /\ Len(Tail(t)) = 0
    BY <1>1, HeadTailProperties
  <2> QED BY <2>1, EmptySeq
<1>5. SumFunction(<<>>) \in Int /\ SumFunction(Append(<<>>, t[1])) = SumFunction(<<>>) + t[1]
  BY <1>1, <1>2, SumAppend
<1>6. SumFunction(t) = SumFunction(<<>>) + t[1]
  BY <1>3, <1>5
<1>7. PICK e \in Int : e = SumFunction(<<>>)
  BY <1>5
<1>8. SumFunction(Tail(t)) = e
  BY <1>4, <1>7
<1>9. SumFunction(t) = e + t[1]
  BY <1>6, <1>7
<1> QED BY <1>2, <1>8, <1>9

LEMMA SumTail ==
  ASSUME NEW s \in Seq(Int), s # <<>>
  PROVE  SumFunction(s) = Head(s) + SumFunction(Tail(s))
<1> DEFINE Bad == {n \in Nat : \E t \in Seq(Int) : Len(t) = n + 1 /\ SumFunction(t) # Head(t) + SumFunction(Tail(t))}
<1>1. 0 \notin Bad
  <2> SUFFICES ASSUME NEW t \in Seq(Int), Len(t) = 1 PROVE SumFunction(t) = Head(t) + SumFunction(Tail(t))
    OBVIOUS
  <2> QED BY SumOne
<1>2. ASSUME NEW n \in Nat, n \notin Bad PROVE n + 1 \notin Bad
  <2> SUFFICES ASSUME NEW t \in Seq(Int), Len(t) = (n + 1) + 1 PROVE SumFunction(t) = Head(t) + SumFunction(Tail(t))
    OBVIOUS
  <2> DEFINE u == [i \in 1 .. n + 1 |-> t[i]]
             x == t[n + 2]
             v == [i \in 1 .. n |-> t[i + 1]]
  <2>1. u \in Seq(Int) /\ Len(u) = n + 1 /\ Head(u) = Head(t) /\ x \in Int /\ Head(t) \in Int
    OBVIOUS
  <2>2. t = Append(u, x)
    OBVIOUS
  <2>3. Tail(u) = v /\ v \in Seq(Int)
    BY SMTT(30)
  <2>4. Tail(t) = Append(v, x)
    OBVIOUS
  <2>5. SumFunction(u) = Head(u) + SumFunction(Tail(u))
    BY <1>2, <2>1
  <2> HIDE DEF u, v, x
  <2>6. SumFunction(t) = SumFunction(u) + x /\ SumFunction(Tail(t)) = SumFunction(v) + x /\ SumFunction(v) \in Int
    BY <2>1, <2>2, <2>3, <2>4, SumAppend
  <2>7. SumFunction(u) = Head(t) + SumFunction(v)
    BY <2>1, <2>3, <2>5
  <2>8. Head(t) \in Int /\ x \in Int
    BY <2>1
  <2> QED BY <2>6, <2>7, <2>8
<1>3. Bad = {}
  <2> SUFFICES ASSUME Bad # {} PROVE FALSE
    OBVIOUS
  <2> HIDE DEF Bad
  <2>1. Bad \in SUBSET Nat
    BY DEF Bad
  <2>2. PICK k \in Bad : \A j \in Bad : k <= j
    BY <2>1, LeastExists
  <2>3. k # 0 /\ k \in Nat
    BY <1>1, <2>1
  <2>4. k - 1 \in Nat /\ k - 1 \notin Bad /\ (k - 1) + 1 = k
    BY <2>2, <2>3
  <2>5. (k - 1) + 1 \notin Bad
    BY <1>2, <2>4
  <2> QED BY <2>2, <2>4, <2>5
<1>4. Len(s) - 1 \in Nat /\ Len(s) = (Len(s) - 1) + 1
  OBVIOUS
<1> QED BY <1>3, <1>4

(***************************************************************************)
(* UDP sockets.                                                            *)
(***************************************************************************)
Datagram == [n : Nat, len : PayloadLengths]

UdpSocket ==
  [state : {"none", "created", "bound"}, port : Ports \cup {0}, usLocalPort : Ports \cup {0},
   waiting : Seq(Datagram), events : SUBSET {"bound", "receive"},
   interested : BOOLEAN, inSet : BOOLEAN]

UdpPlace == {"idle", "postBind", "waitBound", "closed", "buffer", "postData", "wait", "count", "take",
             "copy", "joinSet", "find", "postFind", "found", "select", "selected"}

UdpCall ==
  [at : UdpPlace, limited : BOOLEAN, expired : BOOLEAN, len : PayloadLengths \cup {0}, holds : BOOLEAN,
   next : {"none", "send", "select"}]

UdpRequest == {"bind", "close", "select"}

UdpEvent ==
  [type : UdpRequest \cup {"tx"}, socket : UdpSocks]
    \cup [type : {"rx"}, port : Ports, len : PayloadLengths, n : Nat]

Bits(s) == IF s \in Selectors THEN selectGroup[s] ELSE {}

(* A socket, its user and the bits of its set.                             *)
OwnOK(s, k, c, g) ==
  /\ k \in UdpSocket /\ c \in UdpCall /\ g \subseteq {"callIp", "read"}
  /\ k.state # "bound" => k.waiting = <<>>
  /\ "bound" \in k.events => c.at = "waitBound"
  /\ c.at = "take" => k.waiting # <<>>
  /\ c.at \in {"joinSet", "find", "postFind", "found", "select", "selected"} => s \in Selectors
  /\ "callIp" \in g => c.at = "found"
  /\ c.at = "wait" /\ k.waiting # <<>> => "receive" \in k.events
  /\ /\ s \in Selectors /\ c.at \notin {"joinSet", "find", "postFind"}
     /\ c.at = "found" => "callIp" \in g
     /\ k.state = "bound" /\ k.inSet /\ k.interested /\ k.waiting # <<>>
     => "read" \in g
  /\ c.holds => s \in ZeroCopyReader /\ c.at \notin {"wait", "count", "take", "copy"}

(* What a user asked the IP task for, it waits for.                        *)
Awaits(type, k, c, g) ==
  CASE type = "bind" -> c.at = "waitBound" /\ "bound" \notin k.events
    [] type = "close" -> c.at = "closed" /\ k.state # "none"
    [] type = "select" -> c.at = "found" /\ "callIp" \notin g

Asking(e, s) == e.type \in UdpRequest /\ e.socket = s

RequestsAwaited ==
  \A s \in UdpSocks :
    /\ \A i \in 1 .. Len(udpEvents) :
         Asking(udpEvents[i], s) => Awaits(udpEvents[i].type, sockets[s], udpCalls[s], Bits(s))
    /\ \A i, j \in 1 .. Len(udpEvents) : Asking(udpEvents[i], s) /\ Asking(udpEvents[j], s) => i = j

NumbersOf(q) == [i \in DOMAIN q |-> q[i].n]

(* What has arrived was delivered or waits.                                *)
InOrder == \A s \in UdpSocks : arrived[s] = delivered[s] \o NumbersOf(sockets[s].waiting)

OnePort == \A s, u \in UdpSocks : IsBound(s) /\ IsBound(u) /\ sockets[s].port = sockets[u].port => s = u

UdpTypes ==
  /\ DOMAIN sockets = UdpSocks /\ sockets = [s \in UdpSocks |-> sockets[s]]
  /\ DOMAIN udpCalls = UdpSocks /\ udpCalls = [s \in UdpSocks |-> udpCalls[s]]
  /\ DOMAIN selectGroup = Selectors /\ selectGroup = [s \in Selectors |-> selectGroup[s]]
  /\ udpEvents \in Seq(UdpEvent)
  /\ arrived \in [UdpSocks -> Seq(Nat)] /\ delivered \in [UdpSocks -> Seq(Nat)]

UdpInv ==
  /\ UdpTypes
  /\ \A s \in UdpSocks : OwnOK(s, sockets[s], udpCalls[s], Bits(s))
  /\ RequestsAwaited
  /\ InOrder
  /\ OnePort

(* A step that changes one socket, its user or its set.                    *)
Moves(s, k, c, g) ==
  /\ sockets' = [sockets EXCEPT ![s] = k]
  /\ udpCalls' = [udpCalls EXCEPT ![s] = c]
  /\ selectGroup' = IF s \in Selectors THEN [selectGroup EXCEPT ![s] = g] ELSE selectGroup

LEMMA MovesTo ==
  ASSUME UdpInv, NEW s \in UdpSocks, NEW k, NEW c, NEW g, Moves(s, k, c, g), s \notin Selectors => g = {}
  PROVE  /\ sockets'[s] = k /\ udpCalls'[s] = c /\ Bits(s)' = g
         /\ \A u \in UdpSocks \ {s} : sockets'[u] = sockets[u] /\ udpCalls'[u] = udpCalls[u] /\ Bits(u)' = Bits(u)
         /\ DOMAIN sockets' = UdpSocks /\ sockets' = [u \in UdpSocks |-> sockets'[u]]
         /\ DOMAIN udpCalls' = UdpSocks /\ udpCalls' = [u \in UdpSocks |-> udpCalls'[u]]
         /\ DOMAIN selectGroup' = Selectors /\ selectGroup' = [u \in Selectors |-> selectGroup'[u]]
<1>1. /\ DOMAIN sockets = UdpSocks /\ sockets = [u \in UdpSocks |-> sockets[u]]
      /\ DOMAIN udpCalls = UdpSocks /\ udpCalls = [u \in UdpSocks |-> udpCalls[u]]
      /\ DOMAIN selectGroup = Selectors /\ selectGroup = [u \in Selectors |-> selectGroup[u]]
  BY DEF UdpInv, UdpTypes
<1>2. sockets'[s] = k /\ udpCalls'[s] = c
  BY <1>1 DEF Moves
<1>3. \A u \in UdpSocks \ {s} : sockets'[u] = sockets[u] /\ udpCalls'[u] = udpCalls[u]
  BY <1>1 DEF Moves
<1>4. Bits(s)' = g /\ \A u \in UdpSocks \ {s} : Bits(u)' = Bits(u)
  BY <1>1 DEF Moves, Bits
<1>5. DOMAIN sockets' = UdpSocks /\ sockets' = [u \in UdpSocks |-> sockets'[u]]
  BY <1>1 DEF Moves
<1>6. DOMAIN udpCalls' = UdpSocks /\ udpCalls' = [u \in UdpSocks |-> udpCalls'[u]]
  BY <1>1 DEF Moves
<1>7. DOMAIN selectGroup' = Selectors /\ selectGroup' = [u \in Selectors |-> selectGroup'[u]]
  BY <1>1 DEF Moves
<1> QED BY <1>2, <1>3, <1>4, <1>5, <1>6, <1>7

(* What a step of a user does.                                             *)
Quiet(s) == \A i \in 1 .. Len(udpEvents) : ~Asking(udpEvents[i], s)

Asks(s, k, c, g) ==
  \/ udpEvents' = udpEvents
  \/ \E type \in UdpRequest \cup {"tx"} :
       /\ udpEvents' = Append(udpEvents, [type |-> type, socket |-> s])
       /\ type \in UdpRequest => Awaits(type, k, c, g)

Takes(s, k) ==
  \/ delivered' = delivered /\ k.waiting = sockets[s].waiting
  \/ /\ sockets[s].waiting # <<>> /\ k.waiting = Tail(sockets[s].waiting)
     /\ delivered' = [delivered EXCEPT ![s] = Append(@, Head(sockets[s].waiting).n)]

KeepsPort(s, k) == k.state = "bound" => sockets[s].state = "bound" /\ k.port = sockets[s].port

UserEffect(s, k, c, g) ==
  /\ Moves(s, k, c, g) /\ OwnOK(s, k, c, g)
  /\ Asks(s, k, c, g) /\ Takes(s, k) /\ KeepsPort(s, k) /\ arrived' = arrived

LEMMA UserIsNotAsking ==
  ASSUME UdpInv, NEW s \in UdpSocks, UserStep(s)
  PROVE  Quiet(s)
<1>1. \/ udpCalls[s].at \notin {"waitBound", "closed", "found"}
      \/ udpCalls[s].at = "waitBound" /\ "bound" \in sockets[s].events
      \/ udpCalls[s].at = "closed" /\ sockets[s].state = "none"
      \/ udpCalls[s].at = "found" /\ "callIp" \in selectGroup[s]
  BY DEF UserStep, UserAt, CreateSocket, Bind, PostBind, BindReturns, Close, OpenAgain, SendTo, BufferForSend, PostData, ReceiveFrom, WaitForData, WaitExpires, CountData, TakeDatagram, Receive, ReleaseUDPPayloadBuffer, FdSet, JoinSet, FdClear, AskIpTask, PostFind, IpTaskLooked, Select, SelectWakes, SelectReturns
<1>2. udpCalls[s].at = "found" => s \in Selectors
  BY DEF UdpInv, OwnOK
<1>3. udpCalls[s].at = "found" => Bits(s) = selectGroup[s]
  BY <1>2 DEF Bits
<1> SUFFICES ASSUME NEW i \in 1 .. Len(udpEvents), Asking(udpEvents[i], s)
             PROVE  FALSE
  BY DEF Quiet
<1>4. Awaits(udpEvents[i].type, sockets[s], udpCalls[s], Bits(s))
  BY DEF UdpInv, RequestsAwaited
<1> QED BY <1>1, <1>3, <1>4 DEF Awaits, Asking, UdpRequest

LEMMA CallReturned ==
  ASSUME NEW h \in BOOLEAN
  PROVE  /\ [Idle EXCEPT !.holds = h] \in UdpCall
         /\ [Idle EXCEPT !.holds = h].at = "idle" /\ [Idle EXCEPT !.holds = h].holds = h
  BY DEF Idle, UdpCall, UdpPlace

LEMMA UserSteps ==
  ASSUME UdpInv, NEW s \in UdpSocks, UserStep(s)
  PROVE  UserEffect(s, sockets'[s], udpCalls'[s], Bits(s)')
<1>t. /\ DOMAIN sockets = UdpSocks /\ sockets = [u \in UdpSocks |-> sockets[u]]
      /\ DOMAIN udpCalls = UdpSocks /\ udpCalls = [u \in UdpSocks |-> udpCalls[u]]
      /\ DOMAIN selectGroup = Selectors /\ selectGroup = [u \in Selectors |-> selectGroup[u]]
  BY DEF UdpInv, UdpTypes
<1>o. OwnOK(s, sockets[s], udpCalls[s], Bits(s))
  BY DEF UdpInv
<1>a. Selectors \cap ZeroCopyReader = {}
  BY UdpAssumption
<1>h. sockets[s].waiting # <<>> =>
        Head(sockets[s].waiting) \in Datagram /\ Tail(sockets[s].waiting) \in Seq(Datagram)
  BY <1>o, HeadTailProperties DEF OwnOK, UdpSocket
<1>1. CASE CreateSocket(s)
  <2>1. Moves(s, sockets'[s], udpCalls'[s], Bits(s)')
    BY <1>1, <1>t DEF CreateSocket, UserAt, UserGoes, Returns, BindTo, Moves, Bits
  <2>2. OwnOK(s, sockets'[s], udpCalls'[s], Bits(s)')
    BY <1>1, <1>t, <1>o, <1>a DEF CreateSocket, UserAt, UserGoes, Returns, BindTo, Idle, NewSocket, IsBound, Bits, OwnOK, UdpSocket, UdpCall, UdpPlace
  <2>3. Asks(s, sockets'[s], udpCalls'[s], Bits(s)')
    BY <1>1 DEF CreateSocket, Asks
  <2>4. Takes(s, sockets'[s]) /\ KeepsPort(s, sockets'[s]) /\ arrived' = arrived
    BY <1>1, <1>t, <1>o DEF CreateSocket, Takes, KeepsPort, BindTo, UserAt, NewSocket, OwnOK, UdpSocket
  <2> QED BY <2>1, <2>2, <2>3, <2>4 DEF UserEffect
<1>2. CASE Bind(s)
  <2>1. Moves(s, sockets'[s], udpCalls'[s], Bits(s)')
    BY <1>2, <1>t, ZenonT(60) DEF Bind, UserAt, UserGoes, Returns, BindTo, Moves, Bits
  <2>2. OwnOK(s, sockets'[s], udpCalls'[s], Bits(s)')
    BY <1>2, <1>t, <1>o, <1>a DEF Bind, UserAt, UserGoes, Returns, BindTo, Idle, NewSocket, IsBound, Bits, OwnOK, UdpSocket, UdpCall, UdpPlace
  <2>3. Asks(s, sockets'[s], udpCalls'[s], Bits(s)')
    BY <1>2 DEF Bind, Asks
  <2>4. Takes(s, sockets'[s]) /\ KeepsPort(s, sockets'[s]) /\ arrived' = arrived
    BY <1>2, <1>t, <1>o DEF Bind, Takes, KeepsPort, BindTo, UserAt, NewSocket, OwnOK, UdpSocket
  <2> QED BY <2>1, <2>2, <2>3, <2>4 DEF UserEffect
<1>3. CASE PostBind(s)
  <2>1. Moves(s, sockets'[s], udpCalls'[s], Bits(s)')
    BY <1>3, <1>t DEF PostBind, UserAt, UserGoes, Returns, BindTo, Moves, Bits
  <2>2. OwnOK(s, sockets'[s], udpCalls'[s], Bits(s)')
    BY <1>3, <1>t, <1>o, <1>a DEF PostBind, UserAt, UserGoes, Returns, BindTo, Idle, NewSocket, IsBound, Bits, OwnOK, UdpSocket, UdpCall, UdpPlace
  <2>3. Asks(s, sockets'[s], udpCalls'[s], Bits(s)')
    BY <1>3, <1>t, <1>o DEF PostBind, Asks, Posts, UdpRequest, Awaits, Bits, UserAt, UserGoes, OwnOK, UdpCall
  <2>4. Takes(s, sockets'[s]) /\ KeepsPort(s, sockets'[s]) /\ arrived' = arrived
    BY <1>3, <1>t, <1>o DEF PostBind, Takes, KeepsPort, BindTo, UserAt, NewSocket, OwnOK, UdpSocket
  <2> QED BY <2>1, <2>2, <2>3, <2>4 DEF UserEffect
<1>4. CASE BindReturns(s)
  <2>1. Moves(s, sockets'[s], udpCalls'[s], Bits(s)')
    BY <1>4, <1>t DEF BindReturns, UserAt, UserGoes, Returns, BindTo, Moves, Bits
  <2>2. OwnOK(s, sockets'[s], udpCalls'[s], Bits(s)')
    <3>1. CASE IsBound(s) /\ udpCalls[s].next = "send"
      BY <1>4, <1>t, <1>o, <1>a, <3>1 DEF BindReturns, UserAt, UserGoes, Returns, BindTo, Idle, NewSocket, IsBound, Bits, OwnOK, UdpSocket, UdpCall, UdpPlace
    <3>2. CASE ~(IsBound(s) /\ udpCalls[s].next = "send")
      <4>1. udpCalls'[s] = [Idle EXCEPT !.holds = udpCalls[s].holds]
        BY <1>4, <1>t, <3>2 DEF BindReturns, Returns
      <4>2. udpCalls[s].holds \in BOOLEAN
        BY <1>o DEF OwnOK, UdpCall
      <4>3. /\ udpCalls'[s] \in UdpCall /\ udpCalls'[s].at = "idle"
            /\ udpCalls'[s].holds = udpCalls[s].holds
        BY <4>1, <4>2, CallReturned
      <4> QED BY <1>4, <1>t, <1>o, <1>a, <3>2, <4>3 DEF BindReturns, UserAt, IsBound, Bits, OwnOK, UdpSocket
    <3> QED BY <3>1, <3>2
  <2>3. Asks(s, sockets'[s], udpCalls'[s], Bits(s)')
    BY <1>4 DEF BindReturns, Asks
  <2>4. Takes(s, sockets'[s]) /\ KeepsPort(s, sockets'[s]) /\ arrived' = arrived
    BY <1>4, <1>t, <1>o DEF BindReturns, Takes, KeepsPort, BindTo, UserAt, NewSocket, OwnOK, UdpSocket
  <2> QED BY <2>1, <2>2, <2>3, <2>4 DEF UserEffect
<1>5. CASE Close(s)
  <2>1. Moves(s, sockets'[s], udpCalls'[s], Bits(s)')
    BY <1>5, <1>t DEF Close, UserAt, UserGoes, Returns, BindTo, Moves, Bits
  <2>2. OwnOK(s, sockets'[s], udpCalls'[s], Bits(s)')
    BY <1>5, <1>t, <1>o, <1>a DEF Close, UserAt, UserGoes, Returns, BindTo, Idle, NewSocket, IsBound, Bits, OwnOK, UdpSocket, UdpCall, UdpPlace
  <2>3. Asks(s, sockets'[s], udpCalls'[s], Bits(s)')
    BY <1>5, <1>t, <1>o DEF Close, Asks, Posts, UdpRequest, Awaits, Bits, UserAt, UserGoes, OwnOK, UdpCall
  <2>4. Takes(s, sockets'[s]) /\ KeepsPort(s, sockets'[s]) /\ arrived' = arrived
    BY <1>5, <1>t, <1>o DEF Close, Takes, KeepsPort, BindTo, UserAt, NewSocket, OwnOK, UdpSocket
  <2> QED BY <2>1, <2>2, <2>3, <2>4 DEF UserEffect
<1>6. CASE OpenAgain(s)
  <2>1. Moves(s, sockets'[s], udpCalls'[s], Bits(s)')
    BY <1>6, <1>t DEF OpenAgain, UserAt, UserGoes, Returns, BindTo, Moves, Bits
  <2>2. OwnOK(s, sockets'[s], udpCalls'[s], Bits(s)')
    BY <1>6, <1>t, <1>o, <1>a, ZenonT(60) DEF OpenAgain, UserAt, UserGoes, Returns, BindTo, Idle, NewSocket, IsBound, Bits, OwnOK, UdpSocket, UdpCall, UdpPlace
  <2>3. Asks(s, sockets'[s], udpCalls'[s], Bits(s)')
    BY <1>6 DEF OpenAgain, Asks
  <2>4. Takes(s, sockets'[s]) /\ KeepsPort(s, sockets'[s]) /\ arrived' = arrived
    BY <1>6, <1>t, <1>o DEF OpenAgain, Takes, KeepsPort, BindTo, UserAt, NewSocket, OwnOK, UdpSocket
  <2> QED BY <2>1, <2>2, <2>3, <2>4 DEF UserEffect
<1>7. CASE SendTo(s)
  <2>1. Moves(s, sockets'[s], udpCalls'[s], Bits(s)')
    BY <1>7, <1>t DEF SendTo, UserAt, UserGoes, Returns, BindTo, Moves, Bits
  <2>2. OwnOK(s, sockets'[s], udpCalls'[s], Bits(s)')
    BY <1>7, <1>t, <1>o, <1>a DEF SendTo, UserAt, UserGoes, Returns, BindTo, Idle, NewSocket, IsBound, Bits, OwnOK, UdpSocket, UdpCall, UdpPlace
  <2>3. Asks(s, sockets'[s], udpCalls'[s], Bits(s)')
    BY <1>7 DEF SendTo, Asks
  <2>4. Takes(s, sockets'[s]) /\ KeepsPort(s, sockets'[s]) /\ arrived' = arrived
    BY <1>7, <1>t, <1>o DEF SendTo, Takes, KeepsPort, BindTo, UserAt, NewSocket, OwnOK, UdpSocket
  <2> QED BY <2>1, <2>2, <2>3, <2>4 DEF UserEffect
<1>8. CASE BufferForSend(s)
  <2>1. Moves(s, sockets'[s], udpCalls'[s], Bits(s)')
    BY <1>8, <1>t DEF BufferForSend, UserAt, UserGoes, Returns, BindTo, Moves, Bits
  <2>2. OwnOK(s, sockets'[s], udpCalls'[s], Bits(s)')
    <3>1. CASE udpFree > 0
      BY <1>8, <1>t, <1>o, <1>a, <3>1 DEF BufferForSend, UserAt, UserGoes, Returns, BindTo, Idle, NewSocket, IsBound, Bits, OwnOK, UdpSocket, UdpCall, UdpPlace
    <3>2. CASE ~(udpFree > 0)
      <4>1. udpCalls'[s] = [Idle EXCEPT !.holds = udpCalls[s].holds]
        BY <1>8, <1>t, <3>2 DEF BufferForSend, Returns
      <4>2. udpCalls[s].holds \in BOOLEAN
        BY <1>o DEF OwnOK, UdpCall
      <4>3. /\ udpCalls'[s] \in UdpCall /\ udpCalls'[s].at = "idle"
            /\ udpCalls'[s].holds = udpCalls[s].holds
        BY <4>1, <4>2, CallReturned
      <4> QED BY <1>8, <1>t, <1>o, <1>a, <3>2, <4>3 DEF BufferForSend, UserAt, IsBound, Bits, OwnOK, UdpSocket
    <3> QED BY <3>1, <3>2
  <2>3. Asks(s, sockets'[s], udpCalls'[s], Bits(s)')
    BY <1>8 DEF BufferForSend, Asks
  <2>4. Takes(s, sockets'[s]) /\ KeepsPort(s, sockets'[s]) /\ arrived' = arrived
    BY <1>8, <1>t, <1>o DEF BufferForSend, Takes, KeepsPort, BindTo, UserAt, NewSocket, OwnOK, UdpSocket
  <2> QED BY <2>1, <2>2, <2>3, <2>4 DEF UserEffect
<1>9. CASE PostData(s)
  <2>1. Moves(s, sockets'[s], udpCalls'[s], Bits(s)')
    BY <1>9, <1>t DEF PostData, UserAt, UserGoes, Returns, BindTo, Moves, Bits
  <2>2. OwnOK(s, sockets'[s], udpCalls'[s], Bits(s)')
    BY <1>9, <1>t, <1>o, <1>a, ZenonT(60) DEF PostData, UserAt, UserGoes, Returns, BindTo, Idle, NewSocket, IsBound, Bits, OwnOK, UdpSocket, UdpCall, UdpPlace
  <2>3. Asks(s, sockets'[s], udpCalls'[s], Bits(s)')
    BY <1>9, <1>t, <1>o DEF PostData, Asks, Posts, UdpRequest, Awaits, Bits, UserAt, UserGoes, OwnOK, UdpCall
  <2>4. Takes(s, sockets'[s]) /\ KeepsPort(s, sockets'[s]) /\ arrived' = arrived
    BY <1>9, <1>t, <1>o DEF PostData, Takes, KeepsPort, BindTo, UserAt, NewSocket, OwnOK, UdpSocket
  <2> QED BY <2>1, <2>2, <2>3, <2>4 DEF UserEffect
<1>10. CASE ReceiveFrom(s)
  <2>1. Moves(s, sockets'[s], udpCalls'[s], Bits(s)')
    BY <1>10, <1>t DEF ReceiveFrom, UserAt, UserGoes, Returns, BindTo, Moves, Bits
  <2>2. OwnOK(s, sockets'[s], udpCalls'[s], Bits(s)')
    <3>1. PICK limited \in BOOLEAN :
            udpCalls' = [udpCalls EXCEPT ![s].limited = limited,
                           ![s].at = IF sockets[s].waiting # <<>> THEN "take" ELSE "wait"]
      BY <1>10 DEF ReceiveFrom
    <3>2. CASE sockets[s].waiting # <<>>
      BY <1>10, <1>t, <1>o, <1>a, <3>1, <3>2 DEF ReceiveFrom, UserAt, UserGoes, Returns, BindTo, Idle, NewSocket, IsBound, Bits, OwnOK, UdpSocket, UdpCall, UdpPlace
    <3>3. CASE ~(sockets[s].waiting # <<>>)
      BY <1>10, <1>t, <1>o, <1>a, <3>1, <3>3 DEF ReceiveFrom, UserAt, UserGoes, Returns, BindTo, Idle, NewSocket, IsBound, Bits, OwnOK, UdpSocket, UdpCall, UdpPlace
    <3> QED BY <3>2, <3>3
  <2>3. Asks(s, sockets'[s], udpCalls'[s], Bits(s)')
    BY <1>10 DEF ReceiveFrom, Asks
  <2>4. Takes(s, sockets'[s]) /\ KeepsPort(s, sockets'[s]) /\ arrived' = arrived
    BY <1>10, <1>t, <1>o DEF ReceiveFrom, Takes, KeepsPort, BindTo, UserAt, NewSocket, OwnOK, UdpSocket
  <2> QED BY <2>1, <2>2, <2>3, <2>4 DEF UserEffect
<1>11. CASE WaitForData(s)
  <2>1. Moves(s, sockets'[s], udpCalls'[s], Bits(s)')
    BY <1>11, <1>t DEF WaitForData, UserAt, UserGoes, Returns, BindTo, Moves, Bits
  <2>2. OwnOK(s, sockets'[s], udpCalls'[s], Bits(s)')
    BY <1>11, <1>t, <1>o, <1>a DEF WaitForData, UserAt, UserGoes, Returns, BindTo, Idle, NewSocket, IsBound, Bits, OwnOK, UdpSocket, UdpCall, UdpPlace
  <2>3. Asks(s, sockets'[s], udpCalls'[s], Bits(s)')
    BY <1>11 DEF WaitForData, Asks
  <2>4. Takes(s, sockets'[s]) /\ KeepsPort(s, sockets'[s]) /\ arrived' = arrived
    BY <1>11, <1>t, <1>o DEF WaitForData, Takes, KeepsPort, BindTo, UserAt, NewSocket, OwnOK, UdpSocket
  <2> QED BY <2>1, <2>2, <2>3, <2>4 DEF UserEffect
<1>12. CASE WaitExpires(s)
  <2>1. Moves(s, sockets'[s], udpCalls'[s], Bits(s)')
    BY <1>12, <1>t DEF WaitExpires, UserAt, UserGoes, Returns, BindTo, Moves, Bits
  <2>2. OwnOK(s, sockets'[s], udpCalls'[s], Bits(s)')
    BY <1>12, <1>t, <1>o, <1>a DEF WaitExpires, UserAt, UserGoes, Returns, BindTo, Idle, NewSocket, IsBound, Bits, OwnOK, UdpSocket, UdpCall, UdpPlace
  <2>3. Asks(s, sockets'[s], udpCalls'[s], Bits(s)')
    BY <1>12 DEF WaitExpires, Asks
  <2>4. Takes(s, sockets'[s]) /\ KeepsPort(s, sockets'[s]) /\ arrived' = arrived
    BY <1>12, <1>t, <1>o DEF WaitExpires, Takes, KeepsPort, BindTo, UserAt, NewSocket, OwnOK, UdpSocket
  <2> QED BY <2>1, <2>2, <2>3, <2>4 DEF UserEffect
<1>13. CASE CountData(s)
  <2>1. Moves(s, sockets'[s], udpCalls'[s], Bits(s)')
    BY <1>13, <1>t DEF CountData, UserAt, UserGoes, Returns, BindTo, Moves, Bits
  <2>2. OwnOK(s, sockets'[s], udpCalls'[s], Bits(s)')
    <3>1. CASE sockets[s].waiting # <<>>
      BY <1>13, <1>t, <1>o, <1>a, <3>1, SMTT(30) DEF CountData, UserAt, UserGoes, Returns, BindTo, Idle, NewSocket, IsBound, Bits, OwnOK, UdpSocket, UdpCall, UdpPlace
    <3>2. CASE ~(sockets[s].waiting # <<>>) /\ udpCalls[s].expired
      <4>1. udpCalls'[s] = [Idle EXCEPT !.holds = udpCalls[s].holds]
        BY <1>13, <1>t, <3>2 DEF CountData, Returns
      <4>2. udpCalls[s].holds \in BOOLEAN
        BY <1>o DEF OwnOK, UdpCall
      <4>3. /\ udpCalls'[s] \in UdpCall /\ udpCalls'[s].at = "idle"
            /\ udpCalls'[s].holds = udpCalls[s].holds
        BY <4>1, <4>2, CallReturned
      <4> QED BY <1>13, <1>t, <1>o, <1>a, <3>2, <4>3 DEF CountData, UserAt, IsBound, Bits, OwnOK, UdpSocket
    <3>3. CASE ~(sockets[s].waiting # <<>>) /\ ~udpCalls[s].expired
      BY <1>13, <1>t, <1>o, <1>a, <3>3 DEF CountData, UserAt, UserGoes, Returns, BindTo, Idle, NewSocket, IsBound, Bits, OwnOK, UdpSocket, UdpCall, UdpPlace
    <3> QED BY <3>1, <3>2, <3>3
  <2>3. Asks(s, sockets'[s], udpCalls'[s], Bits(s)')
    BY <1>13 DEF CountData, Asks
  <2>4. Takes(s, sockets'[s]) /\ KeepsPort(s, sockets'[s]) /\ arrived' = arrived
    BY <1>13, <1>t, <1>o DEF CountData, Takes, KeepsPort, BindTo, UserAt, NewSocket, OwnOK, UdpSocket
  <2> QED BY <2>1, <2>2, <2>3, <2>4 DEF UserEffect
<1>14. CASE TakeDatagram(s)
  <2>1. Moves(s, sockets'[s], udpCalls'[s], Bits(s)')
    BY <1>14, <1>t DEF TakeDatagram, UserAt, UserGoes, Returns, BindTo, Moves, Bits
  <2>2. OwnOK(s, sockets'[s], udpCalls'[s], Bits(s)')
    BY <1>14, <1>t, <1>o, <1>a, <1>h DEF TakeDatagram, Datagram, UserAt, UserGoes, Returns, BindTo, Idle, NewSocket, IsBound, Bits, OwnOK, UdpSocket, UdpCall, UdpPlace
  <2>3. Asks(s, sockets'[s], udpCalls'[s], Bits(s)')
    BY <1>14 DEF TakeDatagram, Asks
  <2>4. Takes(s, sockets'[s]) /\ KeepsPort(s, sockets'[s]) /\ arrived' = arrived
    BY <1>14, <1>t, <1>o DEF TakeDatagram, Takes, KeepsPort, BindTo, UserAt, NewSocket, OwnOK, UdpSocket
  <2> QED BY <2>1, <2>2, <2>3, <2>4 DEF UserEffect
<1>15. CASE Receive(s)
  <2>1. Moves(s, sockets'[s], udpCalls'[s], Bits(s)')
    BY <1>15, <1>t DEF Receive, UserAt, UserGoes, Returns, BindTo, Moves, Bits
  <2>2. OwnOK(s, sockets'[s], udpCalls'[s], Bits(s)')
    <3>1. CASE s \in ZeroCopyReader /\ udpCalls[s].len > 0
      <4>1. udpCalls'[s] = [Idle EXCEPT !.holds = TRUE]
        BY <1>15, <1>t, <3>1 DEF Receive, Returns
      <4>2. udpCalls[s].holds \in BOOLEAN
        BY <1>o DEF OwnOK, UdpCall
      <4>3. /\ udpCalls'[s] \in UdpCall /\ udpCalls'[s].at = "idle"
            /\ udpCalls'[s].holds = TRUE
        BY <4>1, <4>2, CallReturned
      <4> QED BY <1>15, <1>t, <1>o, <1>a, <3>1, <4>3 DEF Receive, UserAt, IsBound, Bits, OwnOK, UdpSocket
    <3>2. CASE ~(s \in ZeroCopyReader /\ udpCalls[s].len > 0)
      <4>1. udpCalls'[s] = [Idle EXCEPT !.holds = udpCalls[s].holds]
        BY <1>15, <1>t, <3>2 DEF Receive, Returns
      <4>2. udpCalls[s].holds \in BOOLEAN
        BY <1>o DEF OwnOK, UdpCall
      <4>3. /\ udpCalls'[s] \in UdpCall /\ udpCalls'[s].at = "idle"
            /\ udpCalls'[s].holds = udpCalls[s].holds
        BY <4>1, <4>2, CallReturned
      <4> QED BY <1>15, <1>t, <1>o, <1>a, <3>2, <4>3 DEF Receive, UserAt, IsBound, Bits, OwnOK, UdpSocket
    <3> QED BY <3>1, <3>2
  <2>3. Asks(s, sockets'[s], udpCalls'[s], Bits(s)')
    BY <1>15 DEF Receive, Asks
  <2>4. Takes(s, sockets'[s]) /\ KeepsPort(s, sockets'[s]) /\ arrived' = arrived
    BY <1>15, <1>t, <1>o DEF Receive, Takes, KeepsPort, BindTo, UserAt, NewSocket, OwnOK, UdpSocket
  <2> QED BY <2>1, <2>2, <2>3, <2>4 DEF UserEffect
<1>16. CASE ReleaseUDPPayloadBuffer(s)
  <2>1. Moves(s, sockets'[s], udpCalls'[s], Bits(s)')
    BY <1>16, <1>t DEF ReleaseUDPPayloadBuffer, UserAt, UserGoes, Returns, BindTo, Moves, Bits
  <2>2. OwnOK(s, sockets'[s], udpCalls'[s], Bits(s)')
    BY <1>16, <1>t, <1>o, <1>a DEF ReleaseUDPPayloadBuffer, UserAt, UserGoes, Returns, BindTo, Idle, NewSocket, IsBound, Bits, OwnOK, UdpSocket, UdpCall, UdpPlace
  <2>3. Asks(s, sockets'[s], udpCalls'[s], Bits(s)')
    BY <1>16 DEF ReleaseUDPPayloadBuffer, Asks
  <2>4. Takes(s, sockets'[s]) /\ KeepsPort(s, sockets'[s]) /\ arrived' = arrived
    BY <1>16, <1>t, <1>o DEF ReleaseUDPPayloadBuffer, Takes, KeepsPort, BindTo, UserAt, NewSocket, OwnOK, UdpSocket
  <2> QED BY <2>1, <2>2, <2>3, <2>4 DEF UserEffect
<1>17. CASE FdSet(s)
  <2>1. Moves(s, sockets'[s], udpCalls'[s], Bits(s)')
    BY <1>17, <1>t DEF FdSet, UserAt, UserGoes, Returns, BindTo, Moves, Bits
  <2>2. OwnOK(s, sockets'[s], udpCalls'[s], Bits(s)')
    BY <1>17, <1>t, <1>o, <1>a DEF FdSet, UserAt, UserGoes, Returns, BindTo, Idle, NewSocket, IsBound, Bits, OwnOK, UdpSocket, UdpCall, UdpPlace
  <2>3. Asks(s, sockets'[s], udpCalls'[s], Bits(s)')
    BY <1>17 DEF FdSet, Asks
  <2>4. Takes(s, sockets'[s]) /\ KeepsPort(s, sockets'[s]) /\ arrived' = arrived
    BY <1>17, <1>t, <1>o DEF FdSet, Takes, KeepsPort, BindTo, UserAt, NewSocket, OwnOK, UdpSocket
  <2> QED BY <2>1, <2>2, <2>3, <2>4 DEF UserEffect
<1>18. CASE JoinSet(s)
  <2>1. Moves(s, sockets'[s], udpCalls'[s], Bits(s)')
    BY <1>18, <1>t DEF JoinSet, UserAt, UserGoes, Returns, BindTo, Moves, Bits
  <2>2. OwnOK(s, sockets'[s], udpCalls'[s], Bits(s)')
    BY <1>18, <1>t, <1>o, <1>a DEF JoinSet, UserAt, UserGoes, Returns, BindTo, Idle, NewSocket, IsBound, Bits, OwnOK, UdpSocket, UdpCall, UdpPlace
  <2>3. Asks(s, sockets'[s], udpCalls'[s], Bits(s)')
    BY <1>18 DEF JoinSet, Asks
  <2>4. Takes(s, sockets'[s]) /\ KeepsPort(s, sockets'[s]) /\ arrived' = arrived
    BY <1>18, <1>t, <1>o DEF JoinSet, Takes, KeepsPort, BindTo, UserAt, NewSocket, OwnOK, UdpSocket
  <2> QED BY <2>1, <2>2, <2>3, <2>4 DEF UserEffect
<1>19. CASE FdClear(s)
  <2>1. Moves(s, sockets'[s], udpCalls'[s], Bits(s)')
    BY <1>19, <1>t DEF FdClear, UserAt, UserGoes, Returns, BindTo, Moves, Bits
  <2>2. OwnOK(s, sockets'[s], udpCalls'[s], Bits(s)')
    BY <1>19, <1>t, <1>o, <1>a, ZenonT(60) DEF FdClear, UserAt, UserGoes, Returns, BindTo, Idle, NewSocket, IsBound, Bits, OwnOK, UdpSocket, UdpCall, UdpPlace
  <2>3. Asks(s, sockets'[s], udpCalls'[s], Bits(s)')
    BY <1>19 DEF FdClear, Asks
  <2>4. Takes(s, sockets'[s]) /\ KeepsPort(s, sockets'[s]) /\ arrived' = arrived
    BY <1>19, <1>t, <1>o DEF FdClear, Takes, KeepsPort, BindTo, UserAt, NewSocket, OwnOK, UdpSocket
  <2> QED BY <2>1, <2>2, <2>3, <2>4 DEF UserEffect
<1>20. CASE AskIpTask(s)
  <2>1. Moves(s, sockets'[s], udpCalls'[s], Bits(s)')
    BY <1>20, <1>t DEF AskIpTask, UserAt, UserGoes, Returns, BindTo, Moves, Bits
  <2>2. OwnOK(s, sockets'[s], udpCalls'[s], Bits(s)')
    BY <1>20, <1>t, <1>o, <1>a DEF AskIpTask, UserAt, UserGoes, Returns, BindTo, Idle, NewSocket, IsBound, Bits, OwnOK, UdpSocket, UdpCall, UdpPlace
  <2>3. Asks(s, sockets'[s], udpCalls'[s], Bits(s)')
    BY <1>20 DEF AskIpTask, Asks
  <2>4. Takes(s, sockets'[s]) /\ KeepsPort(s, sockets'[s]) /\ arrived' = arrived
    BY <1>20, <1>t, <1>o DEF AskIpTask, Takes, KeepsPort, BindTo, UserAt, NewSocket, OwnOK, UdpSocket
  <2> QED BY <2>1, <2>2, <2>3, <2>4 DEF UserEffect
<1>21. CASE PostFind(s)
  <2>1. Moves(s, sockets'[s], udpCalls'[s], Bits(s)')
    BY <1>21, <1>t DEF PostFind, UserAt, UserGoes, Returns, BindTo, Moves, Bits
  <2>2. OwnOK(s, sockets'[s], udpCalls'[s], Bits(s)')
    BY <1>21, <1>t, <1>o, <1>a DEF PostFind, UserAt, UserGoes, Returns, BindTo, Idle, NewSocket, IsBound, Bits, OwnOK, UdpSocket, UdpCall, UdpPlace
  <2>3. Asks(s, sockets'[s], udpCalls'[s], Bits(s)')
    BY <1>21, <1>t, <1>o DEF PostFind, Asks, Posts, UdpRequest, Awaits, Bits, UserAt, UserGoes, OwnOK, UdpCall
  <2>4. Takes(s, sockets'[s]) /\ KeepsPort(s, sockets'[s]) /\ arrived' = arrived
    BY <1>21, <1>t, <1>o DEF PostFind, Takes, KeepsPort, BindTo, UserAt, NewSocket, OwnOK, UdpSocket
  <2> QED BY <2>1, <2>2, <2>3, <2>4 DEF UserEffect
<1>22. CASE IpTaskLooked(s)
  <2>1. Moves(s, sockets'[s], udpCalls'[s], Bits(s)')
    BY <1>22, <1>t DEF IpTaskLooked, UserAt, UserGoes, Returns, BindTo, Moves, Bits
  <2>2. OwnOK(s, sockets'[s], udpCalls'[s], Bits(s)')
    <3>1. CASE udpCalls[s].next = "select"
      BY <1>22, <1>t, <1>o, <1>a, <3>1 DEF IpTaskLooked, UserAt, UserGoes, Returns, BindTo, Idle, NewSocket, IsBound, Bits, OwnOK, UdpSocket, UdpCall, UdpPlace
    <3>2. CASE ~(udpCalls[s].next = "select")
      <4>1. udpCalls'[s] = [Idle EXCEPT !.holds = udpCalls[s].holds]
        BY <1>22, <1>t, <3>2 DEF IpTaskLooked, Returns
      <4>2. udpCalls[s].holds \in BOOLEAN
        BY <1>o DEF OwnOK, UdpCall
      <4>3. /\ udpCalls'[s] \in UdpCall /\ udpCalls'[s].at = "idle"
            /\ udpCalls'[s].holds = udpCalls[s].holds
        BY <4>1, <4>2, CallReturned
      <4> QED BY <1>22, <1>t, <1>o, <1>a, <3>2, <4>3 DEF IpTaskLooked, UserAt, IsBound, Bits, OwnOK, UdpSocket
    <3> QED BY <3>1, <3>2
  <2>3. Asks(s, sockets'[s], udpCalls'[s], Bits(s)')
    BY <1>22 DEF IpTaskLooked, Asks
  <2>4. Takes(s, sockets'[s]) /\ KeepsPort(s, sockets'[s]) /\ arrived' = arrived
    BY <1>22, <1>t, <1>o DEF IpTaskLooked, Takes, KeepsPort, BindTo, UserAt, NewSocket, OwnOK, UdpSocket
  <2> QED BY <2>1, <2>2, <2>3, <2>4 DEF UserEffect
<1>23. CASE Select(s)
  <2>1. Moves(s, sockets'[s], udpCalls'[s], Bits(s)')
    BY <1>23, <1>t, ZenonT(60) DEF Select, UserAt, UserGoes, Returns, BindTo, Moves, Bits
  <2>2. OwnOK(s, sockets'[s], udpCalls'[s], Bits(s)')
    BY <1>23, <1>t, <1>o, <1>a DEF Select, UserAt, UserGoes, Returns, BindTo, Idle, NewSocket, IsBound, Bits, OwnOK, UdpSocket, UdpCall, UdpPlace
  <2>3. Asks(s, sockets'[s], udpCalls'[s], Bits(s)')
    BY <1>23 DEF Select, Asks
  <2>4. Takes(s, sockets'[s]) /\ KeepsPort(s, sockets'[s]) /\ arrived' = arrived
    BY <1>23, <1>t, <1>o DEF Select, Takes, KeepsPort, BindTo, UserAt, NewSocket, OwnOK, UdpSocket
  <2> QED BY <2>1, <2>2, <2>3, <2>4 DEF UserEffect
<1>24. CASE SelectWakes(s)
  <2>1. Moves(s, sockets'[s], udpCalls'[s], Bits(s)')
    BY <1>24, <1>t DEF SelectWakes, UserAt, UserGoes, Returns, BindTo, Moves, Bits
  <2>2. OwnOK(s, sockets'[s], udpCalls'[s], Bits(s)')
    BY <1>24, <1>t, <1>o, <1>a DEF SelectWakes, UserAt, UserGoes, Returns, BindTo, Idle, NewSocket, IsBound, Bits, OwnOK, UdpSocket, UdpCall, UdpPlace
  <2>3. Asks(s, sockets'[s], udpCalls'[s], Bits(s)')
    BY <1>24 DEF SelectWakes, Asks
  <2>4. Takes(s, sockets'[s]) /\ KeepsPort(s, sockets'[s]) /\ arrived' = arrived
    BY <1>24, <1>t, <1>o DEF SelectWakes, Takes, KeepsPort, BindTo, UserAt, NewSocket, OwnOK, UdpSocket
  <2> QED BY <2>1, <2>2, <2>3, <2>4 DEF UserEffect
<1>25. CASE SelectReturns(s)
  <2>1. Moves(s, sockets'[s], udpCalls'[s], Bits(s)')
    BY <1>25, <1>t DEF SelectReturns, UserAt, UserGoes, Returns, BindTo, Moves, Bits
  <2>2. OwnOK(s, sockets'[s], udpCalls'[s], Bits(s)')
    <3>1. CASE selectGroup[s] # {} \/ udpCalls[s].expired
      <4>1. udpCalls'[s] = [Idle EXCEPT !.holds = udpCalls[s].holds]
        BY <1>25, <1>t, <3>1 DEF SelectReturns, Returns
      <4>2. udpCalls[s].holds \in BOOLEAN
        BY <1>o DEF OwnOK, UdpCall
      <4>3. /\ udpCalls'[s] \in UdpCall /\ udpCalls'[s].at = "idle"
            /\ udpCalls'[s].holds = udpCalls[s].holds
        BY <4>1, <4>2, CallReturned
      <4> QED BY <1>25, <1>t, <1>o, <1>a, <3>1, <4>3 DEF SelectReturns, UserAt, IsBound, Bits, OwnOK, UdpSocket
    <3>2. CASE ~(selectGroup[s] # {} \/ udpCalls[s].expired)
      BY <1>25, <1>t, <1>o, <1>a, <3>2 DEF SelectReturns, UserAt, UserGoes, Returns, BindTo, Idle, NewSocket, IsBound, Bits, OwnOK, UdpSocket, UdpCall, UdpPlace
    <3> QED BY <3>1, <3>2
  <2>3. Asks(s, sockets'[s], udpCalls'[s], Bits(s)')
    BY <1>25 DEF SelectReturns, Asks
  <2>4. Takes(s, sockets'[s]) /\ KeepsPort(s, sockets'[s]) /\ arrived' = arrived
    BY <1>25, <1>t, <1>o DEF SelectReturns, Takes, KeepsPort, BindTo, UserAt, NewSocket, OwnOK, UdpSocket
  <2> QED BY <2>1, <2>2, <2>3, <2>4 DEF UserEffect
<1> QED BY <1>1, <1>2, <1>3, <1>4, <1>5, <1>6, <1>7, <1>8, <1>9, <1>10, <1>11, <1>12, <1>13, <1>14, <1>15, <1>16, <1>17, <1>18, <1>19, <1>20, <1>21, <1>22, <1>23, <1>24, <1>25 DEF UserStep

(* The queue of the IP task.                                               *)
LEMMA AskingKeepsRequests ==
  ASSUME UdpInv, NEW s \in UdpSocks, Quiet(s), Asks(s, sockets'[s], udpCalls'[s], Bits(s)'),
         \A u \in UdpSocks \ {s} : sockets'[u] = sockets[u] /\ udpCalls'[u] = udpCalls[u] /\ Bits(u)' = Bits(u)
  PROVE  RequestsAwaited' /\ udpEvents' \in Seq(UdpEvent)
<1>1. udpEvents \in Seq(UdpEvent) /\ Len(udpEvents) \in Nat
  BY DEF UdpInv, UdpTypes
<1>2. ASSUME NEW u \in UdpSocks, NEW i \in 1 .. Len(udpEvents), Asking(udpEvents[i], u)
      PROVE  u # s /\ Awaits(udpEvents[i].type, sockets'[u], udpCalls'[u], Bits(u)')
  <2>1. u # s
    BY <1>2 DEF Quiet
  <2>2. Awaits(udpEvents[i].type, sockets[u], udpCalls[u], Bits(u))
    BY <1>2 DEF UdpInv, RequestsAwaited
  <2>3. sockets'[u] = sockets[u] /\ udpCalls'[u] = udpCalls[u] /\ Bits(u)' = Bits(u)
    BY <2>1
  <2> QED BY <2>1, <2>2, <2>3
<1>3. \A u \in UdpSocks : \A i, j \in 1 .. Len(udpEvents) :
        Asking(udpEvents[i], u) /\ Asking(udpEvents[j], u) => i = j
  BY DEF UdpInv, RequestsAwaited
<1>4. CASE udpEvents' = udpEvents
  BY <1>1, <1>2, <1>3, <1>4 DEF RequestsAwaited
<1>5. ASSUME NEW e \in UdpEvent, udpEvents' = Append(udpEvents, e),
             \A u \in UdpSocks : Asking(e, u) => u = s /\ Awaits(e.type, sockets'[s], udpCalls'[s], Bits(s)')
      PROVE  RequestsAwaited' /\ udpEvents' \in Seq(UdpEvent)
  <2>1. /\ udpEvents' \in Seq(UdpEvent) /\ Len(udpEvents') = Len(udpEvents) + 1
        /\ udpEvents'[Len(udpEvents) + 1] = e
        /\ \A i \in 1 .. Len(udpEvents) : udpEvents'[i] = udpEvents[i]
    BY <1>1, <1>5, AppendProperties
  <2>2. \A i \in 1 .. Len(udpEvents') : i \in 1 .. Len(udpEvents) \/ i = Len(udpEvents) + 1
    BY <1>1, <2>1
  <2>3. ASSUME NEW u \in UdpSocks, NEW i \in 1 .. Len(udpEvents'), Asking(udpEvents'[i], u)
        PROVE  /\ Awaits(udpEvents'[i].type, sockets'[u], udpCalls'[u], Bits(u)')
               /\ i \in 1 .. Len(udpEvents) <=> u # s
    <3>1. CASE i \in 1 .. Len(udpEvents)
      BY <1>2, <2>1, <2>3, <3>1
    <3>2. CASE i = Len(udpEvents) + 1
      BY <1>1, <1>5, <2>1, <2>3, <3>2
    <3> QED BY <2>2, <3>1, <3>2
  <2>4. ASSUME NEW u \in UdpSocks, NEW i \in 1 .. Len(udpEvents'), NEW j \in 1 .. Len(udpEvents'),
               Asking(udpEvents'[i], u), Asking(udpEvents'[j], u)
        PROVE  i = j
    BY <1>3, <2>1, <2>2, <2>3, <2>4
  <2> QED BY <2>1, <2>3, <2>4 DEF RequestsAwaited
<1>6. ASSUME NEW type \in UdpRequest \cup {"tx"},
             udpEvents' = Append(udpEvents, [type |-> type, socket |-> s]),
             type \in UdpRequest => Awaits(type, sockets'[s], udpCalls'[s], Bits(s)')
      PROVE  RequestsAwaited' /\ udpEvents' \in Seq(UdpEvent)
  <2> DEFINE e == [type |-> type, socket |-> s]
  <2>1. e \in UdpEvent /\ e.type = type /\ e.socket = s
    BY DEF UdpEvent
  <2> HIDE DEF e
  <2>2. \A u \in UdpSocks : Asking(e, u) => u = s /\ Awaits(e.type, sockets'[s], udpCalls'[s], Bits(s)')
    BY <1>6, <2>1 DEF Asking
  <2> QED BY <1>5, <1>6, <2>1, <2>2 DEF e
<1> QED BY <1>4, <1>6 DEF Asks

LEMMA TakingKeepsRequests ==
  ASSUME UdpInv, udpEvents # <<>>, udpEvents' = Tail(udpEvents), NEW s,
         \A u \in UdpSocks \ {s} : sockets'[u] = sockets[u] /\ udpCalls'[u] = udpCalls[u] /\ Bits(u)' = Bits(u),
         Asking(Head(udpEvents), s) \/
           \A type \in UdpRequest : Awaits(type, sockets[s], udpCalls[s], Bits(s)) =>
                                       Awaits(type, sockets'[s], udpCalls'[s], Bits(s)')
  PROVE  RequestsAwaited' /\ udpEvents' \in Seq(UdpEvent)
<1>1. udpEvents \in Seq(UdpEvent) /\ Len(udpEvents) \in Nat
  BY DEF UdpInv, UdpTypes
<1>2. /\ udpEvents' \in Seq(UdpEvent) /\ Len(udpEvents') = Len(udpEvents) - 1
      /\ Head(udpEvents) = udpEvents[1] /\ \A i \in 1 .. Len(udpEvents') : udpEvents'[i] = udpEvents[i + 1]
  BY <1>1, HeadTailProperties
<1>3. 1 \in 1 .. Len(udpEvents) /\ \A i \in 1 .. Len(udpEvents') : i + 1 \in 1 .. Len(udpEvents) /\ i + 1 # 1
  BY <1>1, <1>2, EmptySeq
<1>4. \A u \in UdpSocks : \A i, j \in 1 .. Len(udpEvents) :
        Asking(udpEvents[i], u) /\ Asking(udpEvents[j], u) => i = j
  BY DEF UdpInv, RequestsAwaited
<1>5. ASSUME NEW u \in UdpSocks, NEW i \in 1 .. Len(udpEvents'), Asking(udpEvents'[i], u)
      PROVE  Awaits(udpEvents'[i].type, sockets'[u], udpCalls'[u], Bits(u)')
  <2>1. udpEvents'[i] = udpEvents[i + 1] /\ i + 1 \in 1 .. Len(udpEvents) /\ i + 1 # 1
    BY <1>2, <1>3
  <2>2. Awaits(udpEvents[i + 1].type, sockets[u], udpCalls[u], Bits(u)) /\ udpEvents[i + 1].type \in UdpRequest
    BY <1>5, <2>1 DEF UdpInv, RequestsAwaited, Asking
  <2>3. CASE u # s
    <3>1. sockets'[u] = sockets[u] /\ udpCalls'[u] = udpCalls[u] /\ Bits(u)' = Bits(u)
      BY <2>3
    <3> QED BY <2>1, <2>2, <3>1
  <2>4. CASE u = s
    <3>1. ~Asking(Head(udpEvents), s)
      BY <1>2, <1>3, <1>4, <1>5, <2>1, <2>4
    <3> QED BY <2>1, <2>2, <2>4, <3>1
  <2> QED BY <2>3, <2>4
<1>6. ASSUME NEW u \in UdpSocks, NEW i \in 1 .. Len(udpEvents'), NEW j \in 1 .. Len(udpEvents'),
             Asking(udpEvents'[i], u), Asking(udpEvents'[j], u)
      PROVE  i = j
  <2>1. i + 1 = j + 1
    BY <1>2, <1>3, <1>4, <1>6
  <2> QED BY <1>1, <1>2, <2>1
<1> QED BY <1>2, <1>5, <1>6 DEF RequestsAwaited

(* The order of the datagrams.                                             *)
LEMMA NumbersAre ==
  ASSUME NEW w \in Seq(Datagram)
  PROVE  NumbersOf(w) \in Seq(Nat) /\ Len(NumbersOf(w)) = Len(w) /\ \A i \in 1 .. Len(w) : NumbersOf(w)[i] = w[i].n
<1>1. DOMAIN w = 1 .. Len(w) /\ Len(w) \in Nat
  BY LenProperties
<1>2. ASSUME NEW i \in 1 .. Len(w) PROVE w[i].n \in Nat
  <2>1. w[i] \in Datagram
    BY ElementOfSeq
  <2> QED BY <2>1 DEF Datagram
<1>3. NumbersOf(w) \in [1 .. Len(w) -> Nat]
  BY <1>1, <1>2 DEF NumbersOf
<1>4. NumbersOf(w) \in Seq(Nat) /\ Len(NumbersOf(w)) = Len(w)
  <2> DEFINE x == NumbersOf(w)
             l == Len(w)
  <2>1. l \in Nat /\ x \in [1 .. l -> Nat]
    BY <1>1, <1>3
  <2> HIDE DEF x, l
  <2>2. x \in Seq(Nat)
    BY <2>1, IsASeq
  <2>3. Len(x) \in Nat /\ DOMAIN x = 1 .. Len(x)
    BY <2>2, LenProperties
  <2>4. 1 .. l = 1 .. Len(x)
    BY <2>1, <2>3
  <2>5. Len(x) = l
    BY <2>1, <2>3, <2>4
  <2> QED BY <2>2, <2>5 DEF x, l
<1> QED BY <1>1, <1>4 DEF NumbersOf

LEMMA NumbersTaken ==
  ASSUME NEW d \in Seq(Nat), NEW w \in Seq(Datagram), w # <<>>
  PROVE  /\ Append(d, Head(w).n) \in Seq(Nat)
         /\ Append(d, Head(w).n) \o NumbersOf(Tail(w)) = d \o NumbersOf(w)
<1>1. /\ Tail(w) \in Seq(Datagram) /\ Len(Tail(w)) = Len(w) - 1 /\ Head(w) = w[1] /\ Head(w) \in Datagram
      /\ \A i \in 1 .. Len(Tail(w)) : Tail(w)[i] = w[i + 1]
  BY HeadTailProperties
<1>2. Len(w) \in Nat /\ Len(w) # 0 /\ Len(d) \in Nat
  BY EmptySeq, LenProperties
<1>3. Head(w).n \in Nat
  BY <1>1 DEF Datagram
<1>4. PICK a \in Seq(Nat) : a = Append(d, Head(w).n)
  BY <1>3, AppendProperties
<1>5. Len(a) = Len(d) + 1 /\ a[Len(d) + 1] = w[1].n /\ \A i \in 1 .. Len(d) : a[i] = d[i]
  BY <1>1, <1>3, <1>4, AppendProperties
<1>6. PICK t \in Seq(Nat) : t = NumbersOf(Tail(w))
  BY <1>1, NumbersAre
<1>7. Len(t) = Len(w) - 1 /\ \A i \in 1 .. Len(w) - 1 : t[i] = w[i + 1].n
  <2>1. \A v \in Seq(Datagram) : Len(NumbersOf(v)) = Len(v) /\ \A i \in 1 .. Len(v) : NumbersOf(v)[i] = v[i].n
    BY NumbersAre
  <2>2. PICK v \in Seq(Datagram) : v = Tail(w)
    BY <1>1
  <2>3. Len(t) = Len(v) /\ \A i \in 1 .. Len(v) : t[i] = v[i].n
    BY <1>6, <2>1, <2>2
  <2> QED BY <1>1, <2>2, <2>3
<1>8. PICK m \in Seq(Nat) : m = NumbersOf(w)
  BY NumbersAre
<1>9. Len(m) = Len(w) /\ \A i \in 1 .. Len(w) : m[i] = w[i].n
  BY <1>8, NumbersAre
<1>10. a \o t = d \o m
  <2>1. a \o t \in Seq(Nat) /\ d \o m \in Seq(Nat) /\ Len(a \o t) = Len(a) + Len(t) /\ Len(d \o m) = Len(d) + Len(m)
    BY ConcatProperties
  <2>2. Len(a \o t) = Len(d \o m)
    BY <1>2, <1>5, <1>7, <1>9, <2>1
  <2>3. ASSUME NEW i \in 1 .. Len(a \o t) PROVE (a \o t)[i] = (d \o m)[i]
    <3>1. i \in 1 .. Len(d) + Len(w) /\ i \in 1 .. Len(a) + Len(t) /\ i \in 1 .. Len(d) + Len(m)
      BY <1>2, <1>5, <1>7, <1>9, <2>1
    <3>2. (a \o t)[i] = IF i <= Len(a) THEN a[i] ELSE t[i - Len(a)]
      BY <3>1, ConcatProperties
    <3>3. (d \o m)[i] = IF i <= Len(d) THEN d[i] ELSE m[i - Len(d)]
      BY <3>1, ConcatProperties
    <3>4. CASE i <= Len(d)
      BY <1>2, <1>5, <3>1, <3>2, <3>3, <3>4, SMTT(30)
    <3>5. CASE i = Len(d) + 1
      <4>1. (a \o t)[i] = w[1].n
        BY <1>2, <1>5, <3>2, <3>5
      <4>2. i - Len(d) = 1 /\ ~(i <= Len(d)) /\ 1 \in 1 .. Len(w)
        BY <1>2, <3>5
      <4> QED BY <1>9, <3>3, <4>1, <4>2
    <3>6. CASE i > Len(d) + 1
      <4>1. /\ i - (Len(d) + 1) \in 1 .. Len(w) - 1 /\ i - Len(d) \in 1 .. Len(w)
            /\ (i - (Len(d) + 1)) + 1 = i - Len(d) /\ ~(i <= Len(d)) /\ ~(i <= Len(d) + 1)
        BY <1>2, <3>1, <3>6
      <4>2. (a \o t)[i] = w[i - Len(d)].n
        BY <1>5, <1>7, <3>2, <4>1
      <4>3. (d \o m)[i] = w[i - Len(d)].n
        BY <1>9, <3>3, <4>1
      <4> QED BY <4>2, <4>3
    <3>7. i <= Len(d) \/ i = Len(d) + 1 \/ i > Len(d) + 1
      BY <1>2, <3>1
    <3> QED BY <3>4, <3>5, <3>6, <3>7
  <2> QED BY <2>1, <2>2, <2>3, SeqEqual
<1> QED BY <1>4, <1>6, <1>8, <1>10

LEMMA NumbersAppended ==
  ASSUME NEW d \in Seq(Nat), NEW w \in Seq(Datagram), NEW e \in Datagram
  PROVE  Append(d \o NumbersOf(w), e.n) = d \o NumbersOf(Append(w, e))
<1>1. e.n \in Nat
  BY DEF Datagram
<1>2. PICK v \in Seq(Datagram) : v = Append(w, e)
  BY AppendProperties
<1>3. /\ Len(v) = Len(w) + 1 /\ v[Len(w) + 1] = e /\ \A i \in 1 .. Len(w) : v[i] = w[i]
      /\ Len(w) \in Nat /\ Len(d) \in Nat
  BY <1>2, AppendProperties, LenProperties
<1>4. PICK m \in Seq(Nat) : m = NumbersOf(w)
  BY NumbersAre
<1>5. PICK l \in Seq(Nat) : l = NumbersOf(v)
  BY NumbersAre
<1>6. Len(m) = Len(w) /\ \A i \in 1 .. Len(w) : m[i] = w[i].n
  BY <1>4, NumbersAre
<1>7. Len(l) = Len(w) + 1 /\ \A i \in 1 .. Len(w) + 1 : l[i] = v[i].n
  BY <1>3, <1>5, NumbersAre
<1>8. l = Append(m, e.n)
  <2>1. Append(m, e.n) \in Seq(Nat) /\ Len(Append(m, e.n)) = Len(m) + 1
    BY <1>1, AppendProperties
  <2>2. ASSUME NEW i \in 1 .. Len(l) PROVE l[i] = Append(m, e.n)[i]
    <3>1. i \in 1 .. Len(w) \/ i = Len(w) + 1
      BY <1>3, <1>7
    <3>2. Append(m, e.n)[Len(m) + 1] = e.n /\ \A j \in 1 .. Len(m) : Append(m, e.n)[j] = m[j]
      BY <1>1, AppendProperties
    <3> QED BY <1>3, <1>6, <1>7, <3>1, <3>2
  <2>3. Len(l) = Len(Append(m, e.n))
    BY <1>6, <1>7, <2>1
  <2> QED BY <2>1, <2>2, <2>3, SeqEqual
<1>9. Append(d \o m, e.n) = d \o Append(m, e.n)
  <2>1. d \o m \in Seq(Nat) /\ Append(m, e.n) = m \o <<e.n>> /\ Append(d \o m, e.n) = (d \o m) \o <<e.n>>
    BY <1>1, ConcatProperties, AppendIsConcat
  <2>2. <<e.n>> \in Seq(Nat)
    BY <1>1
  <2> QED BY <2>1, <2>2, ConcatAssociative, SMTT(30)
<1> QED BY <1>2, <1>4, <1>5, <1>8, <1>9

(* A step that keeps a socket, its user and its set right.                 *)
LEMMA OneChanges ==
  ASSUME UdpInv, NEW s \in UdpSocks, Moves(s, sockets'[s], udpCalls'[s], Bits(s)'),
         OwnOK(s, sockets'[s], udpCalls'[s], Bits(s)')
  PROVE  /\ \A u \in UdpSocks : OwnOK(u, sockets[u], udpCalls[u], Bits(u))'
         /\ \A u \in UdpSocks \ {s} : sockets'[u] = sockets[u] /\ udpCalls'[u] = udpCalls[u] /\ Bits(u)' = Bits(u)
         /\ DOMAIN sockets' = UdpSocks /\ sockets' = [u \in UdpSocks |-> sockets'[u]]
         /\ DOMAIN udpCalls' = UdpSocks /\ udpCalls' = [u \in UdpSocks |-> udpCalls'[u]]
         /\ DOMAIN selectGroup' = Selectors /\ selectGroup' = [u \in Selectors |-> selectGroup'[u]]
<1> DEFINE k == sockets'[s]
           c == udpCalls'[s]
           g == Bits(s)'
<1>1. s \notin Selectors => g = {}
  BY DEF Bits
<1>2. Moves(s, k, c, g)
  OBVIOUS
<1> HIDE DEF k, c, g
<1>3. /\ \A u \in UdpSocks \ {s} : sockets'[u] = sockets[u] /\ udpCalls'[u] = udpCalls[u] /\ Bits(u)' = Bits(u)
      /\ DOMAIN sockets' = UdpSocks /\ sockets' = [u \in UdpSocks |-> sockets'[u]]
      /\ DOMAIN udpCalls' = UdpSocks /\ udpCalls' = [u \in UdpSocks |-> udpCalls'[u]]
      /\ DOMAIN selectGroup' = Selectors /\ selectGroup' = [u \in Selectors |-> selectGroup'[u]]
  BY <1>1, <1>2, MovesTo
<1>4. ASSUME NEW u \in UdpSocks PROVE OwnOK(u, sockets[u], udpCalls[u], Bits(u))'
  <2>1. CASE u = s
    BY <2>1
  <2>2. CASE u # s
    <3>1. sockets'[u] = sockets[u] /\ udpCalls'[u] = udpCalls[u] /\ Bits(u)' = Bits(u)
      BY <1>3, <2>2
    <3>2. OwnOK(u, sockets[u], udpCalls[u], Bits(u))
      BY DEF UdpInv
    <3> QED BY <3>1, <3>2
  <2> QED BY <2>1, <2>2
<1> QED BY <1>3, <1>4

LEMMA UserKeeps ==
  ASSUME UdpInv, NEW s \in UdpSocks, UserStep(s)
  PROVE  UdpInv'
<1>1. UserEffect(s, sockets'[s], udpCalls'[s], Bits(s)') /\ Quiet(s)
  BY UserSteps, UserIsNotAsking
<1>2. /\ \A u \in UdpSocks : OwnOK(u, sockets[u], udpCalls[u], Bits(u))'
      /\ \A u \in UdpSocks \ {s} : sockets'[u] = sockets[u] /\ udpCalls'[u] = udpCalls[u] /\ Bits(u)' = Bits(u)
      /\ DOMAIN sockets' = UdpSocks /\ sockets' = [u \in UdpSocks |-> sockets'[u]]
      /\ DOMAIN udpCalls' = UdpSocks /\ udpCalls' = [u \in UdpSocks |-> udpCalls'[u]]
      /\ DOMAIN selectGroup' = Selectors /\ selectGroup' = [u \in Selectors |-> selectGroup'[u]]
  BY <1>1, OneChanges DEF UserEffect
<1>3. RequestsAwaited' /\ udpEvents' \in Seq(UdpEvent)
  BY <1>1, <1>2, AskingKeepsRequests DEF UserEffect
<1>4. /\ arrived' \in [UdpSocks -> Seq(Nat)] /\ delivered' \in [UdpSocks -> Seq(Nat)]
      /\ \A u \in UdpSocks : arrived'[u] = delivered'[u] \o NumbersOf(sockets'[u].waiting)
  <2>1. /\ arrived \in [UdpSocks -> Seq(Nat)] /\ delivered \in [UdpSocks -> Seq(Nat)]
        /\ \A u \in UdpSocks : arrived[u] = delivered[u] \o NumbersOf(sockets[u].waiting)
    BY DEF UdpInv, UdpTypes, InOrder
  <2>2. arrived' = arrived
    BY <1>1 DEF UserEffect
  <2>3. CASE delivered' = delivered /\ sockets'[s].waiting = sockets[s].waiting
    BY <1>2, <2>1, <2>2, <2>3
  <2>4. CASE /\ sockets[s].waiting # <<>> /\ sockets'[s].waiting = Tail(sockets[s].waiting)
             /\ delivered' = [delivered EXCEPT ![s] = Append(@, Head(sockets[s].waiting).n)]
    <3>1. sockets[s].waiting \in Seq(Datagram) /\ delivered[s] \in Seq(Nat)
      BY <2>1 DEF UdpInv, OwnOK, UdpSocket
    <3>2. PICK d : d = Append(delivered[s], Head(sockets[s].waiting).n)
      OBVIOUS
    <3>3. d \in Seq(Nat) /\ d \o NumbersOf(sockets'[s].waiting) = delivered[s] \o NumbersOf(sockets[s].waiting)
      BY <2>4, <3>1, <3>2, NumbersTaken
    <3>4. delivered' = [delivered EXCEPT ![s] = d]
      BY <2>4, <3>2
    <3> QED BY <1>2, <2>1, <2>2, <3>3, <3>4
  <2> QED BY <1>1, <2>3, <2>4 DEF UserEffect, Takes
<1>5. OnePort'
  <2>1. ASSUME NEW u \in UdpSocks, IsBound(u)'
        PROVE  IsBound(u) /\ sockets'[u].port = sockets[u].port
    <3>1. CASE u = s
      BY <1>1, <2>1, <3>1 DEF UserEffect, KeepsPort, IsBound
    <3>2. CASE u # s
      BY <1>2, <2>1, <3>2 DEF IsBound
    <3> QED BY <3>1, <3>2
  <2> QED BY <2>1 DEF UdpInv, OnePort
<1> QED BY <1>2, <1>3, <1>4, <1>5 DEF UdpInv, UdpTypes, InOrder

(* The numbers of the datagrams.                                           *)
LEMMA MaxIsGreatest ==
  ASSUME NEW S \in SUBSET Int, IsFiniteSet(S), S # {}
  PROVE  Max(S) \in S /\ \A y \in S : Max(S) >= y
<1> DEFINE Above(x) == {y \in S : y > x}
           T == {Above(x) : x \in S}
<1>1. T \subseteq FiniteSubsetsOf(S) /\ T # {}
  <2>1. \A x \in S : Above(x) \in SUBSET S /\ IsFiniteSet(Above(x))
    BY FS_Subset
  <2> QED BY <2>1 DEF FiniteSubsetsOf
<1>2. PICK t \in T : \A u \in T : ~(<<u, t>> \in StrictSubsetOrdering(S))
  <2>1. IsWellFoundedOn(StrictSubsetOrdering(S), FiniteSubsetsOf(S))
    BY FS_StrictSubsetOrderingWellFounded
  <2> HIDE DEF T
  <2> QED BY <1>1, <2>1, WFMin
<1>3. PICK x \in S : t = Above(x)
  BY <1>2
<1>4. ASSUME NEW y \in S, ~(x >= y) PROVE FALSE
  <2>1. x \in Int /\ y \in Int
    OBVIOUS
  <2>2. y > x /\ ~(y > y) /\ \A z \in S : z > y => z > x
    BY <1>4, <2>1
  <2>5. Above(y) \subseteq Above(x) /\ y \in Above(x) /\ y \notin Above(y)
    BY <2>2
  <2>3. <<Above(y), Above(x)>> \in StrictSubsetOrdering(S)
    BY <2>1, <2>5 DEF StrictSubsetOrdering
  <2>4. Above(y) \in T
    OBVIOUS
  <2> HIDE DEF T
  <2> QED BY <1>2, <1>3, <2>3, <2>4
<1> QED BY <1>4 DEF Max

LEMMA FiniteRange ==
  ASSUME NEW S, IsFiniteSet(S), NEW f
  PROVE  IsFiniteSet({f[x] : x \in S})
<1> DEFINE h == [x \in S |-> f[x]]
<1>1. h \in Surjection(S, {f[x] : x \in S})
  BY DEF Surjection
<1> QED BY <1>1, FS_Surjection

LEMMA NumbersAreNat ==
  ASSUME UdpInv
  PROVE  NextNumber \in Nat
<1> DEFINE A(s) == {arrived[s][i] : i \in DOMAIN arrived[s]}
           B == {udpEvents[i].n : i \in {j \in DOMAIN udpEvents : udpEvents[j].type = "rx"}}
<1>1. \A s \in UdpSocks : A(s) \subseteq Nat /\ IsFiniteSet(A(s))
  <2> SUFFICES ASSUME NEW s \in UdpSocks PROVE A(s) \subseteq Nat /\ IsFiniteSet(A(s))
    OBVIOUS
  <2>1. arrived[s] \in Seq(Nat)
    BY DEF UdpInv, UdpTypes
  <2>2. DOMAIN arrived[s] = 1 .. Len(arrived[s]) /\ Len(arrived[s]) \in Nat
    BY <2>1, LenProperties
  <2>3. A(s) \subseteq Nat
    BY <2>1, <2>2, ElementOfSeq
  <2>4. IsFiniteSet(DOMAIN arrived[s])
    BY <2>2, FS_Interval
  <2> QED BY <2>3, <2>4, FiniteRange
<1>2. IsFiniteSet(UNION {A(s) : s \in UdpSocks}) /\ UNION {A(s) : s \in UdpSocks} \subseteq Nat
  <2> DEFINE a == [s \in UdpSocks |-> A(s)]
  <2>1. {A(s) : s \in UdpSocks} = {a[s] : s \in UdpSocks}
    OBVIOUS
  <2>2. IsFiniteSet({a[s] : s \in UdpSocks})
    <3> HIDE DEF a
    <3> QED BY FiniteRange, UdpAssumption
  <2>3. IsFiniteSet({A(s) : s \in UdpSocks})
    BY <2>1, <2>2
  <2> HIDE DEF A, a
  <2> QED BY <1>1, <2>3, FS_UNION
<1>3. IsFiniteSet(B) /\ B \subseteq Nat
  <2>1. udpEvents \in Seq(UdpEvent)
    BY DEF UdpInv, UdpTypes
  <2>2. DOMAIN udpEvents = 1 .. Len(udpEvents) /\ Len(udpEvents) \in Nat
    BY <2>1, LenProperties
  <2>3. ASSUME NEW i \in 1 .. Len(udpEvents), udpEvents[i].type = "rx" PROVE udpEvents[i].n \in Nat
    <3>1. udpEvents[i] \in UdpEvent
      BY <2>1, ElementOfSeq
    <3> QED BY <2>3, <3>1 DEF UdpEvent, UdpRequest
  <2> DEFINE D == {j \in DOMAIN udpEvents : udpEvents[j].type = "rx"}
             b == [i \in D |-> udpEvents[i].n]
  <2>4. IsFiniteSet(D)
    <3>1. IsFiniteSet(DOMAIN udpEvents) /\ D \in SUBSET DOMAIN udpEvents
      BY <2>2, FS_Interval
    <3> HIDE DEF D
    <3> QED BY <3>1, FS_Subset
  <2>5. B = {b[i] : i \in D}
    OBVIOUS
  <2>6. IsFiniteSet({b[i] : i \in D})
    <3> HIDE DEF b, D
    <3> QED BY <2>4, FiniteRange
  <2>7. B \subseteq Nat
    BY <2>2, <2>3
  <2> QED BY <2>5, <2>6, <2>7
<1> DEFINE U == UNION {A(s) : s \in UdpSocks}
           N == {0} \cup U \cup B
<1>4. NextNumber = 1 + Max(N)
  <2>1. U = UNION {{arrived[s][i] : i \in DOMAIN arrived[s]} : s \in UdpSocks}
    OBVIOUS
  <2>2. B = {udpEvents[i].n : i \in {j \in DOMAIN udpEvents : udpEvents[j].type = "rx"}}
    OBVIOUS
  <2> HIDE DEF A, B, U
  <2>3. NumbersUsed = N
    BY <2>1, <2>2, Zenon DEF NumbersUsed
  <2> HIDE DEF N
  <2> QED BY <2>3 DEF NextNumber
<1>5. N \subseteq Nat /\ N # {} /\ IsFiniteSet(N)
  <2> HIDE DEF U, B
  <2>1. IsFiniteSet({0})
    BY FS_Singleton
  <2>2. IsFiniteSet(U) /\ U \subseteq Nat
    BY <1>2 DEF U
  <2>3. IsFiniteSet({0} \cup U)
    BY <2>1, <2>2, FS_Union
  <2>4. IsFiniteSet(({0} \cup U) \cup B)
    BY <1>3, <2>3, FS_Union
  <2> QED BY <1>3, <2>2, <2>4
<1> HIDE DEF N
<1>6. Max(N) \in N
  BY <1>5, MaxIsGreatest
<1>7. Max(N) \in Nat
  BY <1>5, <1>6
<1> HIDE DEF A, B, U
<1> QED BY <1>4, <1>7

(* The steps of the IP task.                                               *)
LEMMA NothingToAsk ==
  ASSUME UdpInv, NEW e \in UdpEvent, e.type \notin UdpRequest, udpEvents' = Append(udpEvents, e),
         UNCHANGED <<sockets, selectGroup, udpCalls>>
  PROVE  RequestsAwaited' /\ udpEvents' \in Seq(UdpEvent)
<1>1. udpEvents \in Seq(UdpEvent) /\ Len(udpEvents) \in Nat
  BY DEF UdpInv, UdpTypes
<1>2. /\ udpEvents' \in Seq(UdpEvent) /\ Len(udpEvents') = Len(udpEvents) + 1
      /\ udpEvents'[Len(udpEvents) + 1] = e
      /\ \A i \in 1 .. Len(udpEvents) : udpEvents'[i] = udpEvents[i]
  BY <1>1, AppendProperties
<1>3. ASSUME NEW u \in UdpSocks, NEW i \in 1 .. Len(udpEvents'), Asking(udpEvents'[i], u)
      PROVE  i \in 1 .. Len(udpEvents) /\ Asking(udpEvents[i], u) /\ udpEvents'[i] = udpEvents[i]
  <2>1. i # Len(udpEvents) + 1
    BY <1>2, <1>3 DEF Asking
  <2> QED BY <1>1, <1>2, <1>3, <2>1
<1>4. \A u \in UdpSocks : Bits(u)' = Bits(u)
  BY DEF Bits
<1>5. \A u \in UdpSocks :
        /\ \A i \in 1 .. Len(udpEvents) :
             Asking(udpEvents[i], u) => Awaits(udpEvents[i].type, sockets[u], udpCalls[u], Bits(u))
        /\ \A i, j \in 1 .. Len(udpEvents) : Asking(udpEvents[i], u) /\ Asking(udpEvents[j], u) => i = j
  BY DEF UdpInv, RequestsAwaited
<1>6. ASSUME NEW u \in UdpSocks, NEW i \in 1 .. Len(udpEvents'), Asking(udpEvents'[i], u)
      PROVE  Awaits(udpEvents'[i].type, sockets'[u], udpCalls'[u], Bits(u)')
  <2>1. Awaits(udpEvents[i].type, sockets[u], udpCalls[u], Bits(u)) /\ udpEvents'[i] = udpEvents[i]
    BY <1>3, <1>5, <1>6
  <2> QED BY <1>4, <2>1
<1>7. \A u \in UdpSocks : \A i, j \in 1 .. Len(udpEvents') : Asking(udpEvents'[i], u) /\ Asking(udpEvents'[j], u) => i = j
  BY <1>3, <1>5
<1> QED BY <1>2, <1>6, <1>7 DEF RequestsAwaited

LEMMA SocketsUntouched ==
  ASSUME UdpInv, UNCHANGED <<sockets, selectGroup, udpCalls, arrived, delivered>>,
         RequestsAwaited' /\ udpEvents' \in Seq(UdpEvent)
  PROVE  UdpInv'
<1>1. \A u \in UdpSocks : OwnOK(u, sockets[u], udpCalls[u], Bits(u))'
  BY DEF UdpInv, Bits
<1>2. InOrder' /\ OnePort'
  BY DEF UdpInv, InOrder, OnePort, IsBound
<1>3. UdpTypes'
  BY DEF UdpInv, UdpTypes
<1> QED BY <1>1, <1>2, <1>3 DEF UdpInv

LEMMA ArrivalKeeps == ASSUME UdpInv, DatagramArrives PROVE UdpInv'
<1>1. PICK port \in Ports, len \in PayloadLengths :
        udpEvents' = Append(udpEvents, [type |-> "rx", port |-> port, len |-> len, n |-> NextNumber])
  BY DEF DatagramArrives, Posts
<1>2. NextNumber \in Nat
  BY NumbersAreNat
<1> DEFINE e == [type |-> "rx", port |-> port, len |-> len, n |-> NextNumber]
<1>3. e \in UdpEvent /\ e.type \notin UdpRequest
  BY <1>2 DEF UdpEvent, UdpRequest
<1>4. UNCHANGED <<sockets, selectGroup, udpCalls, arrived, delivered>>
  BY DEF DatagramArrives
<1>5. RequestsAwaited' /\ udpEvents' \in Seq(UdpEvent)
  <2> HIDE DEF e
  <2> SUFFICES udpEvents' = Append(udpEvents, e)
    BY <1>3, <1>4, NothingToAsk
  <2> QED BY <1>1 DEF e
<1> QED BY <1>4, <1>5, SocketsUntouched

LEMMA FirstEvent ==
  ASSUME UdpInv, udpEvents # <<>>
  PROVE  /\ Head(udpEvents) \in UdpEvent
         /\ \A s \in UdpSocks : Asking(Head(udpEvents), s) =>
              Awaits(Head(udpEvents).type, sockets[s], udpCalls[s], Bits(s))
<1>1. udpEvents \in Seq(UdpEvent)
  BY DEF UdpInv, UdpTypes
<1>2. 1 \in 1 .. Len(udpEvents) /\ Head(udpEvents) = udpEvents[1] /\ Head(udpEvents) \in UdpEvent
  BY <1>1, EmptySeq, HeadTailProperties
<1> QED BY <1>2 DEF UdpInv, RequestsAwaited

LEMMA NothingTouched ==
  ASSUME UdpInv, udpEvents # <<>>, udpEvents' = Tail(udpEvents),
         UNCHANGED <<sockets, selectGroup, udpCalls, arrived, delivered>>
  PROVE  UdpInv'
<1>1. \A u \in UdpSocks : sockets'[u] = sockets[u] /\ udpCalls'[u] = udpCalls[u] /\ Bits(u)' = Bits(u)
  BY DEF Bits
<1>2. PICK s : s = "nobody"
  OBVIOUS
<1>3. Bits(s)' = Bits(s)
  BY DEF Bits
<1>4. RequestsAwaited' /\ udpEvents' \in Seq(UdpEvent)
  BY <1>1, <1>3, TakingKeepsRequests
<1> QED BY <1>4, SocketsUntouched

(* One socket is changed, and keeps its port or takes one nobody has.      *)
LEMMA IpChangesOne ==
  ASSUME UdpInv, udpEvents # <<>>, udpEvents' = Tail(udpEvents), NEW s \in UdpSocks,
         Moves(s, sockets'[s], udpCalls'[s], Bits(s)'), OwnOK(s, sockets'[s], udpCalls'[s], Bits(s)'),
         Asking(Head(udpEvents), s) \/
           \A type \in UdpRequest : Awaits(type, sockets[s], udpCalls[s], Bits(s)) =>
                                       Awaits(type, sockets'[s], udpCalls'[s], Bits(s)'),
         KeepsPort(s, sockets'[s]) \/ BoundTo(sockets'[s].port) = {},
         arrived' \in [UdpSocks -> Seq(Nat)], delivered' \in [UdpSocks -> Seq(Nat)],
         \A u \in UdpSocks \ {s} : arrived'[u] = arrived[u] /\ delivered'[u] = delivered[u],
         arrived'[s] = delivered'[s] \o NumbersOf(sockets'[s].waiting)
  PROVE  UdpInv'
<1>1. /\ \A u \in UdpSocks : OwnOK(u, sockets[u], udpCalls[u], Bits(u))'
      /\ \A u \in UdpSocks \ {s} : sockets'[u] = sockets[u] /\ udpCalls'[u] = udpCalls[u] /\ Bits(u)' = Bits(u)
      /\ DOMAIN sockets' = UdpSocks /\ sockets' = [u \in UdpSocks |-> sockets'[u]]
      /\ DOMAIN udpCalls' = UdpSocks /\ udpCalls' = [u \in UdpSocks |-> udpCalls'[u]]
      /\ DOMAIN selectGroup' = Selectors /\ selectGroup' = [u \in Selectors |-> selectGroup'[u]]
  BY OneChanges
<1>2. RequestsAwaited' /\ udpEvents' \in Seq(UdpEvent)
  BY <1>1, TakingKeepsRequests
<1>3. InOrder'
  BY <1>1 DEF UdpInv, InOrder
<1>4. OnePort'
  <2>1. OnePort
    BY DEF UdpInv
  <2>2. ASSUME NEW u \in UdpSocks, u # s
        PROVE  (IsBound(u)' <=> IsBound(u)) /\ sockets'[u].port = sockets[u].port
    BY <1>1, <2>2 DEF IsBound
  <2>3. ASSUME NEW u \in UdpSocks, u # s, IsBound(u)', IsBound(s)', sockets'[u].port = sockets'[s].port
        PROVE  FALSE
    <3>1. CASE KeepsPort(s, sockets'[s])
      BY <2>1, <2>2, <2>3, <3>1 DEF OnePort, KeepsPort, IsBound
    <3>2. CASE BoundTo(sockets'[s].port) = {}
      BY <2>2, <2>3, <3>2 DEF BoundTo
    <3> QED BY <3>1, <3>2
  <2>4. ASSUME NEW u \in UdpSocks, NEW v \in UdpSocks, IsBound(u)', IsBound(v)', sockets'[u].port = sockets'[v].port
        PROVE  u = v
    <3>1. CASE u # s /\ v # s
      BY <2>1, <2>2, <2>4, <3>1 DEF OnePort
    <3>2. CASE u = s \/ v = s
      BY <2>3, <2>4, <3>2
    <3> QED BY <3>1, <3>2
  <2> QED BY <2>4 DEF OnePort
<1> QED BY <1>1, <1>2, <1>3, <1>4 DEF UdpInv, UdpTypes

LEMMA ReceivingKeeps == ASSUME UdpInv, IpReceives PROVE UdpInv'
<1> DEFINE e == Head(udpEvents)
           to == BoundTo(e.port)
<1>1. udpEvents # <<>> /\ udpEvents' = Tail(udpEvents) /\ e \in UdpEvent /\ e.type = "rx"
  BY FirstEvent DEF IpReceives, TakesEvent
<1>2. e.n \in Nat /\ e.len \in PayloadLengths
  BY <1>1 DEF UdpEvent, UdpRequest
<1>3. CASE to = {}
  <2>1. UNCHANGED <<sockets, selectGroup, udpCalls, arrived, delivered>>
    BY <1>3 DEF IpReceives
  <2> QED BY <1>1, <2>1, NothingTouched
<1>4. CASE to # {}
  <2>1. PICK s : s = CHOOSE x \in to : TRUE
    OBVIOUS
  <2>2. s \in UdpSocks /\ IsBound(s)
    BY <1>4, <2>1 DEF BoundTo
  <2>3. PICK d : d = [n |-> e.n, len |-> e.len]
    OBVIOUS
  <2>4. d \in Datagram /\ d.n = e.n
    BY <1>2, <2>3 DEF Datagram
  <2>5. /\ sockets' = [sockets EXCEPT ![s].waiting = Append(@, d), ![s].events = @ \cup {"receive"}]
        /\ selectGroup' = IF sockets[s].inSet /\ sockets[s].interested
                          THEN [selectGroup EXCEPT ![s] = @ \cup {"read"}] ELSE selectGroup
        /\ arrived' = [arrived EXCEPT ![s] = Append(@, e.n)]
        /\ udpCalls' = udpCalls /\ delivered' = delivered
    BY <1>4, <2>1, <2>3 DEF IpReceives
  <2> HIDE DEF e, to
  <2>t. /\ DOMAIN sockets = UdpSocks /\ sockets = [u \in UdpSocks |-> sockets[u]]
        /\ DOMAIN udpCalls = UdpSocks /\ udpCalls = [u \in UdpSocks |-> udpCalls[u]]
        /\ DOMAIN selectGroup = Selectors /\ selectGroup = [u \in Selectors |-> selectGroup[u]]
        /\ arrived \in [UdpSocks -> Seq(Nat)] /\ delivered \in [UdpSocks -> Seq(Nat)]
        /\ arrived[s] = delivered[s] \o NumbersOf(sockets[s].waiting)
    BY <2>2 DEF UdpInv, UdpTypes, InOrder
  <2>o. OwnOK(s, sockets[s], udpCalls[s], Bits(s))
    BY <2>2 DEF UdpInv
  <2>6. PICK w \in Seq(Datagram) : w = sockets[s].waiting
    BY <2>o DEF OwnOK, UdpSocket
  <2>7. PICK v \in Seq(Datagram) : v = Append(w, d)
    BY <2>4, AppendProperties
  <2>8. v # <<>>
    BY <2>4, <2>7, AppendProperties
  <2>9. sockets'[s] = [sockets[s] EXCEPT !.waiting = v, !.events = @ \cup {"receive"}]
    BY <2>2, <2>5, <2>6, <2>7, <2>t
  <2>10. Bits(s)' = IF s \in Selectors /\ sockets[s].inSet /\ sockets[s].interested
                    THEN Bits(s) \cup {"read"} ELSE Bits(s)
    BY <2>2, <2>5, <2>t DEF Bits
  <2>k. /\ sockets'[s] \in UdpSocket /\ sockets'[s].waiting = v
        /\ sockets'[s].events = sockets[s].events \cup {"receive"}
        /\ sockets'[s].state = sockets[s].state /\ sockets'[s].port = sockets[s].port
        /\ sockets'[s].inSet = sockets[s].inSet /\ sockets'[s].interested = sockets[s].interested
    <3>1. sockets[s] \in UdpSocket
      BY <2>o DEF OwnOK
    <3> QED BY <2>9, <3>1 DEF UdpSocket
  <2>c. udpCalls'[s] = udpCalls[s]
    BY <2>5
  <2>11. Moves(s, sockets'[s], udpCalls'[s], Bits(s)')
    BY <2>2, <2>5, <2>t DEF Moves, Bits
  <2>12. OwnOK(s, sockets'[s], udpCalls'[s], Bits(s)')
    BY <2>2, <2>8, <2>k, <2>c, <2>10, <2>o DEF OwnOK, IsBound
  <2>13. \A type \in UdpRequest : Awaits(type, sockets[s], udpCalls[s], Bits(s)) =>
                                    Awaits(type, sockets'[s], udpCalls'[s], Bits(s)')
    BY <2>k, <2>c, <2>10 DEF Awaits, UdpRequest
  <2>14. KeepsPort(s, sockets'[s])
    BY <2>k DEF KeepsPort
  <2>15. arrived' \in [UdpSocks -> Seq(Nat)] /\ delivered' \in [UdpSocks -> Seq(Nat)]
         /\ \A u \in UdpSocks \ {s} : arrived'[u] = arrived[u] /\ delivered'[u] = delivered[u]
    <3>1. Append(arrived[s], e.n) \in Seq(Nat)
      BY <1>2, <2>2, <2>t, AppendProperties
    <3> QED BY <2>2, <2>5, <2>t, <3>1
  <2>16. arrived'[s] = delivered'[s] \o NumbersOf(sockets'[s].waiting)
    <3>1. arrived'[s] = Append(delivered[s] \o NumbersOf(w), d.n)
      BY <2>2, <2>4, <2>5, <2>6, <2>t
    <3>2. sockets'[s].waiting = v
      BY <2>k
    <3>3. delivered[s] \in Seq(Nat)
      BY <2>2, <2>t
    <3> QED BY <2>4, <2>5, <2>7, <3>1, <3>2, <3>3, NumbersAppended, ZenonT(60)
  <2> QED BY <1>1, <2>2, <2>11, <2>12, <2>13, <2>14, <2>15, <2>16, IpChangesOne
<1> QED BY <1>3, <1>4

LEMMA BindingKeeps == ASSUME UdpInv, IpBinds PROVE UdpInv'
<1>1. udpEvents # <<>> /\ udpEvents' = Tail(udpEvents) /\ Head(udpEvents).type = "bind"
      /\ Head(udpEvents) \in UdpEvent
  BY FirstEvent DEF IpBinds, TakesEvent
<1>2. PICK s \in UdpSocks : s = Head(udpEvents).socket
  BY <1>1 DEF UdpEvent
<1>3. Asking(Head(udpEvents), s)
  BY <1>1, <1>2 DEF Asking, UdpRequest
<1>4. udpCalls[s].at = "waitBound"
  BY <1>1, <1>3, FirstEvent DEF Awaits
<1>5. PICK port \in Ports \cup {0} :
        sockets' =
          IF port = 0 \/ BoundTo(port) # {}
          THEN [sockets EXCEPT ![s].usLocalPort = 0, ![s].events = @ \cup {"bound"}]
          ELSE [sockets EXCEPT ![s].usLocalPort = port, ![s].port = port, ![s].state = "bound",
                               ![s].events = @ \cup {"bound"}]
  <2>1. sockets[s].usLocalPort \in Ports \cup {0} /\ PrivatePorts \subseteq Ports \cup {0}
    BY DEF UdpInv, OwnOK, UdpSocket, PrivatePorts
  <2> QED BY <1>2, <2>1 DEF IpBinds
<1>6. UNCHANGED <<selectGroup, udpCalls, arrived, delivered>>
  BY DEF IpBinds
<1>t. /\ DOMAIN sockets = UdpSocks /\ sockets = [u \in UdpSocks |-> sockets[u]]
      /\ DOMAIN udpCalls = UdpSocks /\ udpCalls = [u \in UdpSocks |-> udpCalls[u]]
      /\ DOMAIN selectGroup = Selectors /\ selectGroup = [u \in Selectors |-> selectGroup[u]]
      /\ arrived \in [UdpSocks -> Seq(Nat)] /\ delivered \in [UdpSocks -> Seq(Nat)]
      /\ \A u \in UdpSocks : arrived[u] = delivered[u] \o NumbersOf(sockets[u].waiting)
  BY DEF UdpInv, UdpTypes, InOrder
<1>o. OwnOK(s, sockets[s], udpCalls[s], Bits(s))
  BY DEF UdpInv
<1>k. sockets[s] \in UdpSocket
  BY <1>o DEF OwnOK
<1>7. /\ sockets'[s] \in UdpSocket /\ sockets'[s].waiting = sockets[s].waiting
      /\ sockets'[s].state \in {sockets[s].state, "bound"}
      /\ sockets'[s].inSet = sockets[s].inSet /\ sockets'[s].interested = sockets[s].interested
      /\ sockets'[s].events = sockets[s].events \cup {"bound"}
      /\ \/ sockets'[s].state = sockets[s].state /\ sockets'[s].port = sockets[s].port
         \/ BoundTo(sockets'[s].port) = {}
  <2>1. CASE port = 0 \/ BoundTo(port) # {}
    <3>1. sockets'[s] = [sockets[s] EXCEPT !.usLocalPort = 0, !.events = @ \cup {"bound"}]
      BY <1>5, <1>t, <2>1
    <3> QED BY <1>k, <3>1 DEF UdpSocket
  <2>2. CASE ~(port = 0 \/ BoundTo(port) # {})
    <3>1. sockets'[s] = [sockets[s] EXCEPT !.usLocalPort = port, !.port = port, !.state = "bound",
                                           !.events = @ \cup {"bound"}]
      BY <1>5, <1>t, <2>2
    <3> QED BY <1>k, <2>2, <3>1, ZenonT(60) DEF UdpSocket
  <2> QED BY <2>1, <2>2
<1>8. udpCalls'[s] = udpCalls[s] /\ Bits(s)' = Bits(s)
  BY <1>6 DEF Bits
<1>9. Moves(s, sockets'[s], udpCalls'[s], Bits(s)')
  BY <1>5, <1>6, <1>t DEF Moves, Bits
<1>10. OwnOK(s, sockets'[s], udpCalls'[s], Bits(s)')
  BY <1>4, <1>7, <1>8, <1>o DEF OwnOK
<1>11. KeepsPort(s, sockets'[s]) \/ BoundTo(sockets'[s].port) = {}
  BY <1>7 DEF KeepsPort
<1>12. arrived'[s] = delivered'[s] \o NumbersOf(sockets'[s].waiting)
  BY <1>6, <1>7, <1>t
<1> QED BY <1>1, <1>3, <1>6, <1>t, <1>9, <1>10, <1>11, <1>12, IpChangesOne

LEMMA ClosingKeeps == ASSUME UdpInv, IpCloses PROVE UdpInv'
<1>1. udpEvents # <<>> /\ udpEvents' = Tail(udpEvents) /\ Head(udpEvents).type = "close"
      /\ Head(udpEvents) \in UdpEvent
  BY FirstEvent DEF IpCloses, TakesEvent
<1>2. PICK s \in UdpSocks : s = Head(udpEvents).socket
  BY <1>1 DEF UdpEvent
<1>3. Asking(Head(udpEvents), s)
  BY <1>1, <1>2 DEF Asking, UdpRequest
<1>4. udpCalls[s].at = "closed"
  BY <1>1, <1>3, FirstEvent DEF Awaits
<1>5. /\ sockets' = [sockets EXCEPT ![s] = NewSocket("none")]
      /\ delivered' = [delivered EXCEPT ![s] = arrived[s]]
      /\ UNCHANGED <<selectGroup, udpCalls, arrived>>
  BY <1>2 DEF IpCloses
<1>t. /\ DOMAIN sockets = UdpSocks /\ sockets = [u \in UdpSocks |-> sockets[u]]
      /\ DOMAIN udpCalls = UdpSocks /\ udpCalls = [u \in UdpSocks |-> udpCalls[u]]
      /\ DOMAIN selectGroup = Selectors /\ selectGroup = [u \in Selectors |-> selectGroup[u]]
      /\ arrived \in [UdpSocks -> Seq(Nat)] /\ delivered \in [UdpSocks -> Seq(Nat)]
  BY DEF UdpInv, UdpTypes
<1>o. OwnOK(s, sockets[s], udpCalls[s], Bits(s))
  BY DEF UdpInv
<1>6. sockets'[s] = NewSocket("none")
  BY <1>5, <1>t
<1>7. /\ sockets'[s] \in UdpSocket /\ sockets'[s].waiting = <<>> /\ sockets'[s].state = "none"
      /\ sockets'[s].events = {}
  BY <1>6, EmptySeq DEF NewSocket, UdpSocket
<1>8. udpCalls'[s] = udpCalls[s] /\ Bits(s)' = Bits(s)
  BY <1>5 DEF Bits
<1>9. Moves(s, sockets'[s], udpCalls'[s], Bits(s)')
  BY <1>5, <1>t, <1>6 DEF Moves, Bits
<1>10. OwnOK(s, sockets'[s], udpCalls'[s], Bits(s)')
  BY <1>4, <1>7, <1>8, <1>o DEF OwnOK
<1>11. KeepsPort(s, sockets'[s])
  BY <1>7 DEF KeepsPort
<1>12. arrived'[s] = delivered'[s] \o NumbersOf(sockets'[s].waiting)
  <2>1. arrived'[s] = arrived[s] /\ delivered'[s] = arrived[s] /\ arrived[s] \in Seq(Nat)
    BY <1>5, <1>t
  <2>2. <<>> \in Seq(Datagram) /\ Len(<<>>) = 0 /\ <<>> \in Seq(Nat)
    BY EmptySeq
  <2>3. Len(NumbersOf(<<>>)) = 0 /\ NumbersOf(<<>>) \in Seq(Nat)
    BY <2>2, NumbersAre
  <2>4. NumbersOf(<<>>) = <<>>
    BY <2>2, <2>3, EmptySeq
  <2> QED BY <1>7, <2>1, <2>4, ConcatEmptySeq
<1>13. arrived' \in [UdpSocks -> Seq(Nat)] /\ delivered' \in [UdpSocks -> Seq(Nat)]
       /\ \A u \in UdpSocks \ {s} : arrived'[u] = arrived[u] /\ delivered'[u] = delivered[u]
  BY <1>5, <1>t
<1> QED BY <1>1, <1>3, <1>9, <1>10, <1>11, <1>12, <1>13, IpChangesOne

LEMMA SelectingKeeps == ASSUME UdpInv, IpSelects PROVE UdpInv'
<1>1. udpEvents # <<>> /\ udpEvents' = Tail(udpEvents) /\ Head(udpEvents).type = "select"
      /\ Head(udpEvents) \in UdpEvent
  BY FirstEvent DEF IpSelects, TakesEvent
<1>2. PICK s \in UdpSocks : s = Head(udpEvents).socket
  BY <1>1 DEF UdpEvent
<1>3. Asking(Head(udpEvents), s)
  BY <1>1, <1>2 DEF Asking, UdpRequest
<1>4. udpCalls[s].at = "found" /\ s \in Selectors
  <2>1. udpCalls[s].at = "found"
    BY <1>1, <1>3, FirstEvent DEF Awaits
  <2> QED BY <2>1 DEF UdpInv, OwnOK
<1>5. /\ selectGroup' = [selectGroup EXCEPT ![s] = {"callIp"} \cup IF Readable(s) THEN {"read"} ELSE {}]
      /\ UNCHANGED <<sockets, udpCalls, arrived, delivered>>
  BY <1>2 DEF IpSelects
<1>t. /\ DOMAIN sockets = UdpSocks /\ sockets = [u \in UdpSocks |-> sockets[u]]
      /\ DOMAIN udpCalls = UdpSocks /\ udpCalls = [u \in UdpSocks |-> udpCalls[u]]
      /\ DOMAIN selectGroup = Selectors /\ selectGroup = [u \in Selectors |-> selectGroup[u]]
      /\ arrived \in [UdpSocks -> Seq(Nat)] /\ delivered \in [UdpSocks -> Seq(Nat)]
      /\ \A u \in UdpSocks : arrived[u] = delivered[u] \o NumbersOf(sockets[u].waiting)
  BY DEF UdpInv, UdpTypes, InOrder
<1>o. OwnOK(s, sockets[s], udpCalls[s], Bits(s))
  BY DEF UdpInv
<1>6. Bits(s)' = {"callIp"} \cup IF Readable(s) THEN {"read"} ELSE {}
  BY <1>4, <1>5, <1>t DEF Bits
<1>7. sockets'[s] = sockets[s] /\ udpCalls'[s] = udpCalls[s]
  BY <1>5
<1>9. Moves(s, sockets'[s], udpCalls'[s], Bits(s)')
  BY <1>4, <1>5, <1>t DEF Moves, Bits
<1>10. OwnOK(s, sockets'[s], udpCalls'[s], Bits(s)')
  BY <1>4, <1>6, <1>7, <1>o DEF OwnOK, Readable, IsBound
<1>11. KeepsPort(s, sockets'[s])
  BY <1>7 DEF KeepsPort
<1> QED BY <1>1, <1>3, <1>5, <1>7, <1>t, <1>9, <1>10, <1>11, IpChangesOne

LEMMA SendingKeeps == ASSUME UdpInv, IpSends PROVE UdpInv'
<1>1. /\ udpEvents # <<>> /\ udpEvents' = Tail(udpEvents)
      /\ UNCHANGED <<sockets, selectGroup, udpCalls, arrived, delivered>>
  BY DEF IpSends, TakesEvent
<1> QED BY <1>1, NothingTouched

LEMMA UdpInvInit == ASSUME UdpInit PROVE UdpInv
<1>1. UdpTypes
  BY EmptySeq DEF UdpInit, UdpTypes
<1>2. ASSUME NEW s \in UdpSocks PROVE OwnOK(s, sockets[s], udpCalls[s], Bits(s))
  <2>1. sockets[s] = NewSocket("none") /\ udpCalls[s] = Idle /\ Bits(s) = {}
    BY DEF UdpInit, Bits
  <2>2. NewSocket("none") \in UdpSocket /\ NewSocket("none").waiting = <<>> /\ NewSocket("none").events = {}
    BY EmptySeq DEF NewSocket, UdpSocket
  <2>3. Idle \in UdpCall /\ Idle.at = "idle" /\ Idle.holds = FALSE
    BY DEF Idle, UdpCall, UdpPlace
  <2> QED BY <2>1, <2>2, <2>3 DEF OwnOK
<1>3. RequestsAwaited
  BY EmptySeq DEF UdpInit, RequestsAwaited
<1>4. InOrder
  <2>1. <<>> \in Seq(Datagram) /\ Len(<<>>) = 0 /\ <<>> \in Seq(Nat)
    BY EmptySeq
  <2>2. Len(NumbersOf(<<>>)) = 0 /\ NumbersOf(<<>>) \in Seq(Nat)
    BY <2>1, NumbersAre
  <2>3. NumbersOf(<<>>) = <<>>
    BY <2>1, <2>2, EmptySeq
  <2>4. <<>> \o NumbersOf(<<>>) = <<>>
    BY <2>1, <2>3, ConcatEmptySeq
  <2>5. ASSUME NEW s \in UdpSocks
        PROVE  arrived[s] = <<>> /\ delivered[s] = <<>> /\ sockets[s].waiting = <<>>
    BY DEF UdpInit, NewSocket
  <2> QED BY <2>4, <2>5 DEF InOrder
<1>5. OnePort
  BY DEF UdpInit, OnePort, IsBound, NewSocket
<1> QED BY <1>1, <1>2, <1>3, <1>4, <1>5 DEF UdpInv

LEMMA UdpInvNext == ASSUME UdpInv, [UdpNext]_udpVars PROVE UdpInv'
<1>1. CASE UNCHANGED udpVars
  <2>1. RequestsAwaited' /\ udpEvents' \in Seq(UdpEvent)
    BY <1>1 DEF udpVars, UdpInv, UdpTypes, RequestsAwaited, Bits
  <2> QED BY <1>1, <2>1, SocketsUntouched DEF udpVars
<1> QED BY <1>1, UserKeeps, ArrivalKeeps, ReceivingKeeps, BindingKeeps, ClosingKeeps, SendingKeeps,
           SelectingKeeps DEF UdpNext

(* Whoever waits for a datagram finds its bit set when one is there, what  *)
(* a user receives is what was queued, in order, and no two sockets have   *)
(* one port, whatever the sockets, their calls and the order of the steps  *)
(* (FreeRTOS_recvfrom, FreeRTOS_select, xProcessReceivedUDPPacket,         *)
(* vSocketBind, vSocketSelect).                                            *)
THEOREM DatagramsAreReceived == UdpSpec => []DatagramsReachTheirUser
<1>1. UdpInit => UdpInv
  BY UdpInvInit
<1>2. UdpInv /\ [UdpNext]_udpVars => UdpInv'
  BY UdpInvNext
<1>3. UdpInv => DatagramsReachTheirUser
  <2> SUFFICES ASSUME UdpInv, NEW s \in UdpSocks
               PROVE  /\ UserAt(s, "wait") /\ sockets[s].waiting # <<>> => "receive" \in sockets[s].events
                      /\ s \in Selectors /\ UserAt(s, "select") /\ Readable(s) => "read" \in selectGroup[s]
                      /\ arrived[s] = delivered[s] \o WaitingNumbers(s)
                      /\ IsBound(s) => BoundTo(sockets[s].port) = {s}
    BY DEF DatagramsReachTheirUser
  <2>o. OwnOK(s, sockets[s], udpCalls[s], Bits(s))
    BY DEF UdpInv
  <2>1. UserAt(s, "wait") /\ sockets[s].waiting # <<>> => "receive" \in sockets[s].events
    BY <2>o DEF OwnOK, UserAt
  <2>2. s \in Selectors /\ UserAt(s, "select") /\ Readable(s) => "read" \in selectGroup[s]
    BY <2>o DEF OwnOK, UserAt, Readable, IsBound, Bits
  <2>3. arrived[s] = delivered[s] \o WaitingNumbers(s)
    BY DEF UdpInv, InOrder, NumbersOf, WaitingNumbers
  <2>4. IsBound(s) => BoundTo(sockets[s].port) = {s}
    BY DEF UdpInv, OnePort, BoundTo
  <2> QED BY <2>1, <2>2, <2>3, <2>4
<1> QED BY <1>1, <1>2, <1>3, PTL DEF UdpSpec

(* The events of one type.                                                 *)
Places(q, type) == {i \in DOMAIN q : q[i].type = type}

LEMMA PlacesFinite ==
  ASSUME NEW q \in Seq(UdpEvent), NEW type
  PROVE  IsFiniteSet(Places(q, type)) /\ Cardinality(Places(q, type)) \in Nat
<1>1. DOMAIN q = 1 .. Len(q) /\ Len(q) \in Nat
  BY LenProperties
<1>2. IsFiniteSet(DOMAIN q) /\ Places(q, type) \in SUBSET DOMAIN q
  BY <1>1, FS_Interval DEF Places
<1>3. IsFiniteSet(Places(q, type))
  BY <1>2, FS_Subset
<1> QED BY <1>3, FS_CardinalityType

LEMMA PlacesAppended ==
  ASSUME NEW q \in Seq(UdpEvent), NEW e \in UdpEvent, NEW type
  PROVE  Cardinality(Places(Append(q, e), type)) = Cardinality(Places(q, type)) + (IF e.type = type THEN 1 ELSE 0)
<1>1. PICK a \in Seq(UdpEvent) : a = Append(q, e)
  BY AppendProperties
<1>2. /\ DOMAIN a = 1 .. Len(q) + 1 /\ DOMAIN q = 1 .. Len(q) /\ Len(q) \in Nat
      /\ a[Len(q) + 1] = e /\ \A i \in 1 .. Len(q) : a[i] = q[i]
  BY <1>1, AppendProperties, LenProperties
<1>3. Len(q) + 1 \notin Places(q, type) /\ IsFiniteSet(Places(q, type)) /\ Cardinality(Places(q, type)) \in Nat
  <2>1. Len(q) + 1 \notin Places(q, type)
    BY <1>2 DEF Places
  <2> QED BY <2>1, PlacesFinite
<1>4. CASE e.type = type
  <2>1. Places(a, type) = Places(q, type) \cup {Len(q) + 1}
    BY <1>2, <1>4 DEF Places
  <2> QED BY <1>1, <1>3, <1>4, <2>1, FS_AddElement
<1>5. CASE e.type # type
  <2>1. Places(a, type) = Places(q, type)
    BY <1>2, <1>5 DEF Places
  <2> QED BY <1>1, <1>3, <1>5, <2>1
<1> QED BY <1>4, <1>5

LEMMA PlacesTaken ==
  ASSUME NEW q \in Seq(UdpEvent), q # <<>>, NEW type
  PROVE  Cardinality(Places(q, type)) = Cardinality(Places(Tail(q), type)) + (IF Head(q).type = type THEN 1 ELSE 0)
<1>1. PICK t \in Seq(UdpEvent) : t = Tail(q)
  BY HeadTailProperties
<1>2. /\ Len(t) = Len(q) - 1 /\ Len(q) \in Nat \ {0} /\ DOMAIN t = 1 .. Len(t) /\ DOMAIN q = 1 .. Len(q)
      /\ \A i \in 1 .. Len(t) : t[i] = q[i + 1]
  BY <1>1, EmptySeq, HeadTailProperties, LenProperties
<1>3. Head(q) = q[1]
  OBVIOUS
<1> DEFINE B == Places(t, type)
           U == {i + 1 : i \in B}
           f == [i \in B |-> i + 1]
<1>4. B \subseteq 1 .. Len(t) /\ IsFiniteSet(B) /\ Cardinality(B) \in Nat
  BY <1>2, PlacesFinite DEF Places
<1>5. f \in Bijection(B, U)
  <2>1. \A i \in B : i \in Nat
    BY <1>2, <1>4
  <2>2. \A i, j \in B : f[i] = f[j] => i = j
    BY <2>1
  <2>3. f \in [B -> U] /\ \A u \in U : \E i \in B : f[i] = u
    OBVIOUS
  <2>4. IsInjective(f)
    BY <2>2 DEF IsInjective
  <2> QED BY <2>3, <2>2 DEF Bijection, Injection, Surjection, IsInjective
<1>6. IsFiniteSet(U) /\ Cardinality(U) = Cardinality(B)
  <2>1. ExistsBijection(B, U)
    BY <1>5 DEF ExistsBijection
  <2> HIDE DEF U, B, f
  <2> QED BY <1>4, <2>1, FS_Bijection
<1>7. Places(q, type) = U \cup (IF Head(q).type = type THEN {1} ELSE {})
  <2>1. ASSUME NEW i \in Places(q, type) PROVE i \in U \cup (IF Head(q).type = type THEN {1} ELSE {})
    <3>1. i \in 1 .. Len(q) /\ q[i].type = type
      BY <1>2, <2>1 DEF Places
    <3>2. CASE i = 1
      BY <1>3, <3>1, <3>2
    <3>3. CASE i # 1
      <4>1. i - 1 \in 1 .. Len(t) /\ (i - 1) + 1 = i
        BY <1>2, <3>1, <3>3
      <4>2. i - 1 \in B
        BY <1>2, <3>1, <4>1 DEF Places
      <4> QED BY <4>1, <4>2
    <3> QED BY <3>2, <3>3
  <2>2. ASSUME NEW i \in U PROVE i \in Places(q, type)
    <3>1. PICK j \in B : i = j + 1
      BY <2>2
    <3>2. j \in 1 .. Len(t) /\ t[j].type = type
      BY <1>2, <3>1 DEF Places
    <3>3. i \in 1 .. Len(q) /\ q[i] = t[j]
      BY <1>2, <3>1, <3>2
    <3> QED BY <1>2, <3>2, <3>3 DEF Places
  <2>3. ASSUME Head(q).type = type PROVE 1 \in Places(q, type)
    BY <1>2, <1>3, <2>3 DEF Places
  <2> HIDE DEF U
  <2> QED BY <2>1, <2>2, <2>3
<1>8. 1 \notin U
  BY <1>4
<1> HIDE DEF U, B
<1>9. CASE Head(q).type = type
  BY <1>1, <1>4, <1>6, <1>7, <1>8, <1>9, FS_AddElement, ZenonT(60) DEF B
<1>10. CASE Head(q).type # type
  BY <1>1, <1>4, <1>6, <1>7, <1>10 DEF B
<1> QED BY <1>9, <1>10

(* What a step does to the buffers.                                        *)
Held(k, c) == Len(k.waiting) + (IF c.at \in {"copy", "postData"} THEN 1 ELSE 0) + (IF c.holds THEN 1 ELSE 0)

(* A datagram is copied, and passed on, with the length it had.            *)
CopiedLength == \A s \in UdpSocks : udpCalls[s].at = "copy" => udpCalls[s].len \in PayloadLengths

BuffersInv == UdpInv /\ udpFree \in Int /\ CopiedLength /\ BuffersAccountedFor

LEMMA HeldForIs ==
  ASSUME UdpInv, NEW s \in UdpSocks
  PROVE  HeldFor(s) = Held(sockets[s], udpCalls[s]) /\ HeldFor(s) \in Int
<1>1. sockets[s].waiting \in Seq(Datagram)
  BY DEF UdpInv, OwnOK, UdpSocket
<1>2. Len(sockets[s].waiting) \in Nat
  BY <1>1, LenProperties
<1> QED BY <1>2 DEF HeldFor, Held, UserAt

Delta(type, e) == IF e.type = type THEN 1 ELSE 0

LEMMA BuffersMove ==
  ASSUME BuffersInv, UdpInv', NEW s, \A u \in UdpSocks \ {s} : HeldFor(u)' = HeldFor(u),
         NEW drx \in Int, NEW dtx \in Int,
         Buffered("rx")' = Buffered("rx") + drx, Buffered("tx")' = Buffered("tx") + dtx,
         IF s \in UdpSocks THEN udpFree' + drx + dtx + HeldFor(s)' = udpFree + HeldFor(s)
                           ELSE udpFree' + drx + dtx = udpFree,
         udpFree' \in Int
  PROVE  BuffersAccountedFor'
<1> DEFINE f == [u \in UdpSocks |-> HeldFor(u)]
<1>1. \A u \in UdpSocks : HeldFor(u) \in Int
  BY HeldForIs DEF BuffersInv
<1>2. \A u \in UdpSocks : HeldFor(u)' \in Int
  <2> SUFFICES ASSUME NEW u \in UdpSocks PROVE HeldFor(u)' \in Int
    OBVIOUS
  <2>1. sockets'[u].waiting \in Seq(Datagram)
    BY DEF UdpInv, OwnOK, UdpSocket
  <2>2. Len(sockets'[u].waiting) \in Nat
    BY <2>1, LenProperties
  <2> QED BY <2>2 DEF HeldFor
<1>3. PICK g : g = f'
  OBVIOUS
<1>4. f \in [UdpSocks -> Int] /\ g \in [UdpSocks -> Int] /\ IsFiniteSet(UdpSocks)
  BY <1>1, <1>2, <1>3, UdpAssumption
<1>5. \A u \in UdpSocks : f[u] = HeldFor(u) /\ g[u] = HeldFor(u)'
  BY <1>3
<1>6. Buffered("rx") \in Int /\ Buffered("tx") \in Int
  <2>1. udpEvents \in Seq(UdpEvent)
    BY DEF BuffersInv, UdpInv, UdpTypes
  <2>2. Buffered("rx") = Cardinality(Places(udpEvents, "rx")) /\ Buffered("tx") = Cardinality(Places(udpEvents, "tx"))
    BY DEF Buffered, Places
  <2>3. Cardinality(Places(udpEvents, "rx")) \in Nat /\ Cardinality(Places(udpEvents, "tx")) \in Nat
    BY <2>1, PlacesFinite
  <2> QED BY <2>2, <2>3
<1>7. udpFree + Buffered("rx") + Buffered("tx") + SumFunction(f) = UdpBuffers /\ udpFree \in Int
  BY DEF BuffersInv, BuffersAccountedFor
<1>8. udpFree' + Buffered("rx")' + Buffered("tx")' + SumFunction(g) = UdpBuffers
  <2> HIDE DEF f
  <2>1. CASE s \in UdpSocks
    <3>1. SumFunction(f) \in Int /\ SumFunction(g) = (SumFunction(f) + g[s]) - f[s]
      BY <1>4, <1>5, <2>1, SumChanges
    <3>2. f[s] \in Int /\ g[s] \in Int /\ udpFree' + drx + dtx + g[s] = udpFree + f[s]
      BY <1>4, <1>5, <2>1
    <3> QED BY <1>6, <1>7, <3>1, <3>2
  <2>2. CASE s \notin UdpSocks
    <3>1. f = g
      BY <1>4, <1>5, <2>2
    <3>2. SumFunction(f) \in Int
      BY <1>4, SumTakesOut
    <3>3. udpFree' + drx + dtx = udpFree
      BY <2>2
    <3>4. SumFunction(g) = SumFunction(f)
      BY <3>1
    <3>5. PICK G \in Int : G = SumFunction(f)
      BY <3>2
    <3>6. PICK b \in Int, t \in Int : b = Buffered("rx") /\ t = Buffered("tx")
      BY <1>6
    <3>7. udpFree + b + t + G = UdpBuffers /\ udpFree \in Int
      BY <1>7, <3>5, <3>6
    <3>10. PICK free \in Int : free = udpFree'
      OBVIOUS
    <3>11. free + drx + dtx = udpFree
      BY <3>3, <3>10
    <3>12. free + (b + drx) + (t + dtx) + G = udpFree + b + t + G
      BY <3>11
    <3>8. udpFree' + (b + drx) + (t + dtx) + G = UdpBuffers
      BY <3>7, <3>10, <3>12
    <3>9. Buffered("rx")' = b + drx /\ Buffered("tx")' = t + dtx /\ SumFunction(g) = G
      BY <3>4, <3>5, <3>6
    <3> QED BY <3>8, <3>9
  <2> QED BY <2>1, <2>2
<1> QED BY <1>3, <1>8 DEF BuffersAccountedFor

LEMMA EventCounted ==
  ASSUME UdpInv
  PROVE  /\ udpEvents' = udpEvents => Buffered("rx")' = Buffered("rx") /\ Buffered("tx")' = Buffered("tx")
         /\ \A e \in UdpEvent : udpEvents' = Append(udpEvents, e) =>
              /\ Buffered("rx")' = Buffered("rx") + Delta("rx", e)
              /\ Buffered("tx")' = Buffered("tx") + Delta("tx", e)
         /\ udpEvents # <<>> /\ udpEvents' = Tail(udpEvents) =>
              /\ Buffered("rx")' = Buffered("rx") - Delta("rx", Head(udpEvents))
              /\ Buffered("tx")' = Buffered("tx") - Delta("tx", Head(udpEvents))
<1>1. udpEvents \in Seq(UdpEvent)
  BY DEF UdpInv, UdpTypes
<1>2. \A type : Buffered(type) = Cardinality(Places(udpEvents, type)) /\ Buffered(type)' = Cardinality(Places(udpEvents', type))
  BY DEF Buffered, Places
<1>3. ASSUME NEW e \in UdpEvent, udpEvents' = Append(udpEvents, e), NEW type
      PROVE  Buffered(type)' = Buffered(type) + Delta(type, e)
  <2>1. Cardinality(Places(Append(udpEvents, e), type)) = Cardinality(Places(udpEvents, type)) + (IF e.type = type THEN 1 ELSE 0)
    BY <1>1, PlacesAppended
  <2> QED BY <1>2, <1>3, <2>1 DEF Delta
<1>4. ASSUME udpEvents # <<>>, udpEvents' = Tail(udpEvents), NEW type
      PROVE  Buffered(type)' = Buffered(type) - Delta(type, Head(udpEvents))
  <2>1. Cardinality(Places(udpEvents, type)) = Cardinality(Places(Tail(udpEvents), type)) + (IF Head(udpEvents).type = type THEN 1 ELSE 0)
    BY <1>1, <1>4, PlacesTaken
  <2>2. Tail(udpEvents) \in Seq(UdpEvent)
    BY <1>1, <1>4, HeadTailProperties
  <2>3. Cardinality(Places(Tail(udpEvents), type)) \in Nat
    BY <2>2, PlacesFinite
  <2> QED BY <1>2, <1>4, <2>1, <2>3 DEF Delta
<1> QED BY <1>2, <1>3, <1>4

Level(s) ==
  /\ sockets'[s].waiting = sockets[s].waiting /\ udpCalls'[s].holds = udpCalls[s].holds
  /\ {udpCalls[s].at, udpCalls'[s].at} \cap {"copy", "postData"} = {}
  /\ udpFree' = udpFree

(* The steps of a user that leave its buffers alone.                       *)
LEMMA LevelSteps ==
  ASSUME UdpInv, NEW s \in UdpSocks,
         \/ CreateSocket(s) \/ Bind(s) \/ BindReturns(s) \/ OpenAgain(s) \/ SendTo(s) \/ ReceiveFrom(s)
         \/ WaitForData(s) \/ WaitExpires(s) \/ CountData(s) \/ FdSet(s) \/ JoinSet(s) \/ FdClear(s) \/ AskIpTask(s)
         \/ IpTaskLooked(s) \/ Select(s) \/ SelectWakes(s) \/ SelectReturns(s) \/ PostBind(s) \/ Close(s) \/ PostFind(s)
  PROVE  Level(s)
<1>t. /\ DOMAIN sockets = UdpSocks /\ sockets = [u \in UdpSocks |-> sockets[u]]
      /\ DOMAIN udpCalls = UdpSocks /\ udpCalls = [u \in UdpSocks |-> udpCalls[u]]
  BY DEF UdpInv, UdpTypes
<1>k. /\ sockets[s] \in UdpSocket /\ udpCalls[s] \in UdpCall
      /\ sockets[s].state # "bound" => sockets[s].waiting = <<>>
  BY DEF UdpInv, OwnOK
<1>r. ASSUME Returns(s)
      PROVE  udpCalls'[s].at = "idle" /\ udpCalls'[s].holds = udpCalls[s].holds
  <2>1. udpCalls'[s] = [Idle EXCEPT !.holds = udpCalls[s].holds]
    BY <1>t, <1>r DEF Returns
  <2>2. udpCalls[s].holds \in BOOLEAN
    BY <1>k DEF UdpCall
  <2> QED BY <2>1, <2>2, CallReturned
<1>g. ASSUME NEW at, UserGoes(s, at) PROVE udpCalls'[s].at = at /\ udpCalls'[s].holds = udpCalls[s].holds
  BY <1>t, <1>k, <1>g DEF UserGoes, UdpCall
<1>1. CASE CreateSocket(s)
  BY <1>1, <1>t, <1>k, <1>r, <1>g DEF CreateSocket, Level, UserAt, UdpSocket, UdpCall, NewSocket
<1>2. CASE Bind(s)
  BY <1>2, <1>t, <1>k, <1>r, <1>g DEF Bind, Level, UserAt, UdpSocket, UdpCall, BindTo
<1>3. CASE BindReturns(s)
  BY <1>3, <1>t, <1>k, <1>r, <1>g DEF BindReturns, Level, UserAt, UdpSocket, UdpCall
<1>4. CASE OpenAgain(s)
  BY <1>4, <1>t, <1>k, <1>r, <1>g DEF OpenAgain, Level, UserAt, UdpSocket, UdpCall
<1>5. CASE SendTo(s)
  BY <1>5, <1>t, <1>k, <1>r, <1>g DEF SendTo, Level, UserAt, UdpSocket, UdpCall, BindTo
<1>6. CASE ReceiveFrom(s)
  <2>1. PICK limited \in BOOLEAN :
          udpCalls' = [udpCalls EXCEPT ![s].limited = limited,
                                       ![s].at = IF sockets[s].waiting # <<>> THEN "take" ELSE "wait"]
    BY <1>6 DEF ReceiveFrom
  <2>2. udpCalls'[s].at \in {"take", "wait"} /\ udpCalls'[s].holds = udpCalls[s].holds
    BY <1>t, <1>k, <2>1 DEF UdpCall
  <2> QED BY <1>6, <2>2 DEF ReceiveFrom, Level, UserAt
<1>7. CASE WaitForData(s)
  BY <1>7, <1>t, <1>k, <1>r, <1>g DEF WaitForData, Level, UserAt, UdpSocket, UdpCall
<1>8. CASE WaitExpires(s)
  BY <1>8, <1>t, <1>k, <1>r, <1>g DEF WaitExpires, Level, UserAt, UdpSocket, UdpCall
<1>9. CASE CountData(s)
  BY <1>9, <1>t, <1>k, <1>r, <1>g DEF CountData, Level, UserAt, UdpSocket, UdpCall
<1>10. CASE FdSet(s)
  BY <1>10, <1>t, <1>k, <1>r, <1>g DEF FdSet, Level, UserAt, UdpSocket, UdpCall
<1>11. CASE JoinSet(s)
  BY <1>11, <1>t, <1>k, <1>r, <1>g DEF JoinSet, Level, UserAt, UdpSocket, UdpCall
<1>12. CASE FdClear(s)
  BY <1>12, <1>t, <1>k, <1>r, <1>g DEF FdClear, Level, UserAt, UdpSocket, UdpCall
<1>13. CASE AskIpTask(s)
  BY <1>13, <1>t, <1>k, <1>r, <1>g DEF AskIpTask, Level, UserAt, UdpSocket, UdpCall
<1>14. CASE IpTaskLooked(s)
  BY <1>14, <1>t, <1>k, <1>r, <1>g DEF IpTaskLooked, Level, UserAt, UdpSocket, UdpCall
<1>15. CASE Select(s)
  <2>1. PICK limited \in BOOLEAN :
          udpCalls' = [udpCalls EXCEPT ![s].at = "select", ![s].limited = limited, ![s].next = "select"]
    BY <1>15 DEF Select
  <2>2. udpCalls'[s].at = "select" /\ udpCalls'[s].holds = udpCalls[s].holds
    BY <1>t, <1>k, <2>1 DEF UdpCall
  <2> QED BY <1>15, <2>2 DEF Select, Level, UserAt
<1>16. CASE SelectWakes(s)
  BY <1>16, <1>t, <1>k, <1>r, <1>g DEF SelectWakes, Level, UserAt, UdpSocket, UdpCall
<1>17. CASE SelectReturns(s)
  BY <1>17, <1>t, <1>k, <1>r, <1>g DEF SelectReturns, Level, UserAt, UdpSocket, UdpCall
<1>18. CASE PostBind(s)
  BY <1>18, <1>t, <1>k, <1>r, <1>g DEF PostBind, Level, UserAt, UdpSocket, UdpCall
<1>19. CASE Close(s)
  BY <1>19, <1>t, <1>k, <1>r, <1>g DEF Close, Level, UserAt, UdpSocket, UdpCall
<1>20. CASE PostFind(s)
  BY <1>20, <1>t, <1>k, <1>r, <1>g DEF PostFind, Level, UserAt, UdpSocket, UdpCall
<1> QED BY <1>1, <1>2, <1>3, <1>4, <1>5, <1>6, <1>7, <1>8, <1>9, <1>10, <1>11, <1>12, <1>13, <1>14, <1>15, <1>16, <1>17, <1>18, <1>19, <1>20

(* Of the events only those with a datagram have a buffer.                 *)
UserBuffers(s) ==
  /\ udpFree' \in Int
  /\ \/ udpEvents' = udpEvents /\ udpFree' + HeldFor(s)' = udpFree + HeldFor(s)
     \/ \E type \in UdpRequest \cup {"tx"} :
          /\ udpEvents' = Append(udpEvents, [type |-> type, socket |-> s])
          /\ udpFree' + HeldFor(s)' = udpFree + HeldFor(s) - (IF type = "tx" THEN 1 ELSE 0)

LEMMA LevelBuffers ==
  ASSUME UdpInv, udpFree \in Int, NEW s \in UdpSocks, Level(s)
  PROVE  udpFree' \in Int /\ udpFree' + HeldFor(s)' = udpFree + HeldFor(s)
<1>1. HeldFor(s)' = HeldFor(s)
  BY DEF Level, HeldFor, UserAt
<1> QED BY <1>1 DEF Level

LEMMA UserMovesBuffers ==
  ASSUME BuffersInv, 0 \notin PayloadLengths, NEW s \in UdpSocks, UserStep(s)
  PROVE  UserBuffers(s)
<1>t. /\ DOMAIN sockets = UdpSocks /\ sockets = [u \in UdpSocks |-> sockets[u]]
      /\ DOMAIN udpCalls = UdpSocks /\ udpCalls = [u \in UdpSocks |-> udpCalls[u]]
  BY DEF BuffersInv, UdpInv, UdpTypes
<1>o. OwnOK(s, sockets[s], udpCalls[s], Bits(s))
  BY DEF BuffersInv, UdpInv
<1>k. /\ sockets[s] \in UdpSocket /\ udpCalls[s] \in UdpCall
  BY <1>o DEF OwnOK
<1>l. sockets[s].waiting \in Seq(Datagram) /\ Len(sockets[s].waiting) \in Nat
  BY <1>k, LenProperties DEF UdpSocket
<1>r. ASSUME Returns(s)
      PROVE  udpCalls'[s].at = "idle" /\ udpCalls'[s].holds = udpCalls[s].holds
  <2>1. udpCalls'[s] = [Idle EXCEPT !.holds = udpCalls[s].holds]
    BY <1>t, <1>r DEF Returns
  <2>2. udpCalls[s].holds \in BOOLEAN
    BY <1>k DEF UdpCall
  <2> QED BY <2>1, <2>2, CallReturned
<1>g. ASSUME NEW at, UserGoes(s, at) PROVE udpCalls'[s].at = at /\ udpCalls'[s].holds = udpCalls[s].holds
  BY <1>t, <1>k, <1>g DEF UserGoes, UdpCall
<1>f. udpFree \in Int
  BY DEF BuffersInv
<1>h. PICK h \in {0, 1} : h = IF udpCalls[s].holds THEN 1 ELSE 0
  OBVIOUS
<1>n. PICK n \in Nat : n = Len(sockets[s].waiting)
  BY <1>l
<1>1. CASE \/ CreateSocket(s) \/ Bind(s) \/ BindReturns(s) \/ OpenAgain(s) \/ SendTo(s) \/ ReceiveFrom(s)
           \/ WaitForData(s) \/ WaitExpires(s) \/ CountData(s) \/ FdSet(s) \/ JoinSet(s) \/ FdClear(s)
           \/ AskIpTask(s) \/ IpTaskLooked(s) \/ Select(s) \/ SelectWakes(s) \/ SelectReturns(s)
  <2>1. Level(s)
    BY <1>1, LevelSteps DEF BuffersInv
  <2>2. udpEvents' = udpEvents
    BY <1>1 DEF CreateSocket, Bind, BindReturns, OpenAgain, SendTo, ReceiveFrom, WaitForData, WaitExpires, CountData,
                FdSet, JoinSet, FdClear, AskIpTask, IpTaskLooked, Select, SelectWakes, SelectReturns
  <2> QED BY <1>f, <2>1, <2>2, LevelBuffers DEF UserBuffers, BuffersInv
<1>2. CASE PostBind(s) \/ Close(s) \/ PostFind(s)
  <2>1. Level(s)
    BY <1>2, LevelSteps DEF BuffersInv
  <2>2. \E type \in UdpRequest : udpEvents' = Append(udpEvents, [type |-> type, socket |-> s])
    BY <1>2 DEF PostBind, Close, PostFind, Posts, UdpRequest
  <2>3. udpFree' \in Int /\ udpFree' + HeldFor(s)' = udpFree + HeldFor(s)
    BY <1>f, <2>1, LevelBuffers DEF BuffersInv
  <2>4. HeldFor(s) \in Int
    BY HeldForIs DEF BuffersInv
  <2>5. udpFree + HeldFor(s) - 0 = udpFree + HeldFor(s)
    BY <1>f, <2>4
  <2> QED BY <2>2, <2>3, <2>5 DEF UserBuffers, UdpRequest
<1>3. CASE BufferForSend(s)
  <2>1. UserAt(s, "buffer") /\ sockets' = sockets /\ udpEvents' = udpEvents
    BY <1>3 DEF BufferForSend
  <2>2. CASE udpFree > 0
    <3>1. udpFree' = udpFree - 1 /\ udpCalls'[s].at = "postData" /\ udpCalls'[s].holds = udpCalls[s].holds
      BY <1>3, <1>g, <2>2 DEF BufferForSend
    <3>2. HeldFor(s) = n + 0 + h /\ HeldFor(s)' = n + 1 + h
      BY <1>h, <1>n, <2>1, <3>1 DEF HeldFor, UserAt
    <3>3. udpFree' \in Int /\ udpFree' + HeldFor(s)' = udpFree + HeldFor(s)
      BY <1>f, <3>1, <3>2
    <3> QED BY <2>1, <3>3 DEF UserBuffers
  <2>3. CASE ~(udpFree > 0)
    <3>1. udpFree' = udpFree /\ udpCalls'[s].at = "idle" /\ udpCalls'[s].holds = udpCalls[s].holds
      BY <1>3, <1>r, <2>3 DEF BufferForSend
    <3>2. HeldFor(s) = n + 0 + h /\ HeldFor(s)' = n + 0 + h
      BY <1>h, <1>n, <2>1, <3>1 DEF HeldFor, UserAt
    <3>3. udpFree' \in Int /\ udpFree' + HeldFor(s)' = udpFree + HeldFor(s)
      BY <1>f, <3>1, <3>2
    <3> QED BY <2>1, <3>3 DEF UserBuffers
  <2> QED BY <2>2, <2>3
<1>4. CASE PostData(s)
  <2>1. /\ UserAt(s, "postData") /\ sockets' = sockets
        /\ udpCalls'[s].at = "idle" /\ udpCalls'[s].holds = udpCalls[s].holds
    BY <1>4, <1>r DEF PostData
  <2>2. HeldFor(s)' = HeldFor(s) - 1 /\ HeldFor(s) \in Int
    <3>1. HeldFor(s) = n + 1 + h /\ HeldFor(s)' = n + 0 + h
      BY <1>h, <1>n, <2>1 DEF HeldFor, UserAt
    <3> QED BY <3>1
  <2>3. CASE udpEvents' = Append(udpEvents, [type |-> "tx", socket |-> s]) /\ udpFree' = udpFree
    <3>1. udpFree' + HeldFor(s)' = udpFree + HeldFor(s) - 1
      BY <1>f, <2>2, <2>3
    <3> QED BY <1>f, <2>3, <3>1 DEF UserBuffers
  <2>4. CASE udpEvents' = udpEvents /\ udpFree' = udpFree + 1
    BY <1>f, <2>2, <2>4 DEF UserBuffers
  <2> QED BY <1>4, <2>3, <2>4 DEF PostData, Posts
<1>5. CASE TakeDatagram(s)
  <2>1. sockets[s].waiting # <<>> /\ UserAt(s, "take")
    BY <1>5, <1>o DEF TakeDatagram, OwnOK, UserAt
  <2>2. sockets'[s].waiting = Tail(sockets[s].waiting)
    BY <1>5, <1>t, <1>k DEF TakeDatagram, UdpSocket
  <2>3. udpCalls'[s].at = "copy" /\ udpCalls'[s].holds = udpCalls[s].holds
    BY <1>5, <1>t, <1>k DEF TakeDatagram, UdpCall
  <2>4. udpEvents' = udpEvents /\ udpFree' = udpFree
    BY <1>5 DEF TakeDatagram
  <2>5. Len(sockets'[s].waiting) = Len(sockets[s].waiting) - 1
    BY <1>l, <2>1, <2>2, HeadTailProperties
  <2>6. HeldFor(s) = n + 0 + h /\ HeldFor(s)' = (n - 1) + 1 + h
    BY <1>h, <1>n, <2>1, <2>3, <2>5 DEF HeldFor, UserAt
  <2>7. udpFree' \in Int /\ udpFree' + HeldFor(s)' = udpFree + HeldFor(s)
    BY <1>f, <2>4, <2>6
  <2> QED BY <2>4, <2>7 DEF UserBuffers
<1>6. CASE Receive(s)
  <2>1. UserAt(s, "copy") /\ sockets' = sockets /\ udpEvents' = udpEvents /\ ~udpCalls[s].holds
    BY <1>6, <1>o DEF Receive, UserAt, OwnOK
  <2>2. CASE s \in ZeroCopyReader
    <3>1. udpCalls[s].len \in PayloadLengths
      BY <2>1 DEF BuffersInv, CopiedLength, UserAt
    <3>2. udpCalls[s].len > 0
      <4>1. PayloadLengths \subseteq Nat
        BY UdpAssumption
      <4>2. PICK l \in PayloadLengths : l = udpCalls[s].len
        BY <3>1
      <4>3. l \in Nat /\ l # 0
        BY <4>1
      <4> QED BY <4>2, <4>3
    <3>3. udpCalls'[s] = [Idle EXCEPT !.holds = TRUE] /\ udpFree' = udpFree
      BY <1>6, <1>t, <2>2, <3>2 DEF Receive
    <3>4. udpCalls'[s].at = "idle" /\ udpCalls'[s].holds = TRUE
      BY <3>3, CallReturned
    <3>5. HeldFor(s) = n + 1 + 0 /\ HeldFor(s)' = n + 0 + 1
      BY <1>n, <2>1, <3>4 DEF HeldFor, UserAt
    <3>6. udpFree' \in Int /\ udpFree' + HeldFor(s)' = udpFree + HeldFor(s)
      BY <1>f, <3>3, <3>5
    <3> QED BY <2>1, <3>6 DEF UserBuffers
  <2>3. CASE s \notin ZeroCopyReader
    <3>1. Returns(s) /\ udpFree' = udpFree + 1
      BY <1>6, <2>3 DEF Receive
    <3>2. udpCalls'[s].at = "idle" /\ udpCalls'[s].holds = udpCalls[s].holds
      BY <1>r, <3>1
    <3>3. HeldFor(s) = n + 1 + h /\ HeldFor(s)' = n + 0 + h
      BY <1>h, <1>n, <2>1, <3>2 DEF HeldFor, UserAt
    <3>4. udpFree' \in Int /\ udpFree' + HeldFor(s)' = udpFree + HeldFor(s)
      BY <1>f, <3>1, <3>3
    <3> QED BY <2>1, <3>4 DEF UserBuffers
  <2> QED BY <2>2, <2>3
<1>7. CASE ReleaseUDPPayloadBuffer(s)
  <2>1. /\ UserAt(s, "idle") /\ sockets' = sockets /\ udpEvents' = udpEvents /\ udpCalls[s].holds
        /\ udpFree' = udpFree + 1
    BY <1>7 DEF ReleaseUDPPayloadBuffer
  <2>2. udpCalls'[s].at = udpCalls[s].at /\ udpCalls'[s].holds = FALSE
    BY <1>7, <1>t, <1>k DEF ReleaseUDPPayloadBuffer, UdpCall
  <2>3. HeldFor(s) = n + 0 + 1 /\ HeldFor(s)' = n + 0 + 0
    BY <1>n, <2>1, <2>2 DEF HeldFor, UserAt
  <2>4. udpFree' \in Int /\ udpFree' + HeldFor(s)' = udpFree + HeldFor(s)
    BY <1>f, <2>1, <2>3
  <2> QED BY <2>1, <2>4 DEF UserBuffers
<1> QED BY <1>1, <1>2, <1>3, <1>4, <1>5, <1>6, <1>7 DEF UserStep

LEMMA SumOfZeros ==
  ASSUME NEW S, IsFiniteSet(S), NEW f \in [S -> Int], \A x \in S : f[x] = 0
  PROVE  SumFunction(f) = 0
<1> DEFINE Zero(T) == \A g \in [T -> Int] : (\A x \in T : g[x] = 0) => SumFunction(g) = 0
           Bad == {Cardinality(T) : T \in {U \in SUBSET S : ~Zero(U)}}
<1>1. \A T \in SUBSET S : IsFiniteSet(T) /\ Cardinality(T) \in Nat
  BY FS_Subset, FS_CardinalityType
<1>2. Bad = {}
  <2> SUFFICES ASSUME Bad # {} PROVE FALSE
    OBVIOUS
  <2>1. Bad \subseteq Nat
    BY <1>1
  <2>2. PICK n \in Bad : \A m \in Bad : n <= m
    <3> HIDE DEF Bad
    <3> QED BY <2>1, LeastExists
  <2>3. PICK T \in SUBSET S : ~Zero(T) /\ Cardinality(T) = n
    OBVIOUS
  <2>4. PICK g \in [T -> Int] : (\A x \in T : g[x] = 0) /\ SumFunction(g) # 0
    BY <2>3
  <2>5. IsFiniteSet(T)
    BY <1>1
  <2>6. T # {} /\ \A x \in T : SumFunction(g) = g[x] + SumFunction(TakenOut(g, T, x))
    BY <2>4, <2>5, SumTakesOut
  <2>7. PICK x \in T : TRUE
    BY <2>6
  <2>8. TakenOut(g, T, x) \in [T \ {x} -> Int] /\ \A y \in T \ {x} : TakenOut(g, T, x)[y] = 0
    BY <2>4 DEF TakenOut
  <2>9. Cardinality(T \ {x}) = n - 1 /\ n \in Nat /\ T \ {x} \in SUBSET S
    BY <2>3, <2>5, <2>7, <1>1, FS_RemoveElement
  <2>10. Zero(T \ {x})
    <3>1. ~(n <= n - 1)
      BY <2>9
    <3> QED BY <2>2, <2>9, <3>1
  <2>11. SumFunction(TakenOut(g, T, x)) = 0
    BY <2>8, <2>10
  <2> QED BY <2>4, <2>6, <2>7, <2>11
<1>3. Zero(S)
  BY <1>2
<1> QED BY <1>3

LEMMA BufferedInt ==
  ASSUME UdpInv
  PROVE  Buffered("rx") \in Int /\ Buffered("tx") \in Int
<1>1. udpEvents \in Seq(UdpEvent)
  BY DEF UdpInv, UdpTypes
<1>2. Buffered("rx") = Cardinality(Places(udpEvents, "rx")) /\ Buffered("tx") = Cardinality(Places(udpEvents, "tx"))
  BY DEF Buffered, Places
<1>3. Cardinality(Places(udpEvents, "rx")) \in Nat /\ Cardinality(Places(udpEvents, "tx")) \in Nat
  BY <1>1, PlacesFinite
<1> QED BY <1>2, <1>3

LEMMA NobodysBuffersMove ==
  ASSUME BuffersInv, UdpInv', \A u \in UdpSocks : HeldFor(u)' = HeldFor(u),
         NEW drx \in Int, NEW dtx \in Int,
         Buffered("rx")' = Buffered("rx") + drx, Buffered("tx")' = Buffered("tx") + dtx,
         udpFree' + drx + dtx = udpFree, udpFree' \in Int
  PROVE  BuffersAccountedFor'
<1>1. PICK s : s = "nobody"
  OBVIOUS
<1>2. CASE s \in UdpSocks
  <2>1. HeldFor(s) \in Int /\ HeldFor(s)' = HeldFor(s)
    BY <1>2, HeldForIs DEF BuffersInv
  <2>2. udpFree' + drx + dtx + HeldFor(s)' = udpFree + HeldFor(s)
    BY <2>1
  <2> QED BY <1>2, <2>2, BuffersMove
<1>3. CASE s \notin UdpSocks
  BY <1>3, BuffersMove
<1> QED BY <1>2, <1>3

LEMMA HeldForInt ==
  ASSUME UdpInv', NEW s \in UdpSocks
  PROVE  HeldFor(s)' \in Int
<1>1. sockets'[s].waiting \in Seq(Datagram)
  BY DEF UdpInv, OwnOK, UdpSocket
<1>2. Len(sockets'[s].waiting) \in Nat
  BY <1>1, LenProperties
<1> QED BY <1>2 DEF HeldFor

LEMMA UserKeepsBuffers ==
  ASSUME BuffersInv, 0 \notin PayloadLengths, NEW s \in UdpSocks, UserStep(s), UdpInv'
  PROVE  udpFree' \in Int /\ BuffersAccountedFor'
<1>1. UserBuffers(s)
  BY UserMovesBuffers
<1>2. UserEffect(s, sockets'[s], udpCalls'[s], Bits(s)')
  BY UserSteps DEF BuffersInv
<1>3. \A u \in UdpSocks \ {s} : HeldFor(u)' = HeldFor(u)
  <2>1. \A u \in UdpSocks \ {s} : sockets'[u] = sockets[u] /\ udpCalls'[u] = udpCalls[u]
    BY <1>2, OneChanges DEF UserEffect, BuffersInv
  <2> QED BY <2>1 DEF HeldFor, UserAt
<1>4. HeldFor(s) \in Int /\ HeldFor(s)' \in Int /\ udpFree \in Int /\ udpFree' \in Int
  BY <1>1, HeldForIs, HeldForInt DEF UserBuffers, BuffersInv
<1>5. Buffered("rx") \in Int /\ Buffered("tx") \in Int
  BY BufferedInt DEF BuffersInv
<1>6. CASE udpEvents' = udpEvents /\ udpFree' + HeldFor(s)' = udpFree + HeldFor(s)
  <2>0. PICK drx \in Int, dtx \in Int : drx = 0 /\ dtx = 0
    OBVIOUS
  <2>1. Buffered("rx")' = Buffered("rx") + drx /\ Buffered("tx")' = Buffered("tx") + dtx
    BY <1>5, <1>6, <2>0, EventCounted DEF BuffersInv
  <2>2. udpFree' + drx + dtx + HeldFor(s)' = udpFree + HeldFor(s)
    BY <1>4, <1>6, <2>0
  <2> QED BY <1>3, <1>4, <2>1, <2>2, BuffersMove
<1>7. ASSUME NEW type \in UdpRequest \cup {"tx"}, udpEvents' = Append(udpEvents, [type |-> type, socket |-> s]),
             udpFree' + HeldFor(s)' = udpFree + HeldFor(s) - (IF type = "tx" THEN 1 ELSE 0)
      PROVE  BuffersAccountedFor'
  <2>1. PICK e \in UdpEvent : e = [type |-> type, socket |-> s]
    BY DEF UdpEvent
  <2>2. PICK dtx \in Int : dtx = IF type = "tx" THEN 1 ELSE 0
    OBVIOUS
  <2>0. PICK drx \in Int : drx = 0
    OBVIOUS
  <2>3. Delta("rx", e) = drx /\ Delta("tx", e) = dtx
    BY <2>0, <2>1, <2>2 DEF Delta, UdpRequest
  <2>4. Buffered("rx")' = Buffered("rx") + drx /\ Buffered("tx")' = Buffered("tx") + dtx
    BY <1>7, <2>1, <2>3, EventCounted DEF BuffersInv
  <2>5. udpFree' + drx + dtx + HeldFor(s)' = udpFree + HeldFor(s)
    BY <1>4, <1>7, <2>0, <2>2
  <2> QED BY <1>3, <1>4, <2>4, <2>5, BuffersMove
<1> QED BY <1>1, <1>4, <1>6, <1>7 DEF UserBuffers

LEMMA ArrivalKeepsBuffers ==
  ASSUME BuffersInv, DatagramArrives, UdpInv'
  PROVE  udpFree' \in Int /\ BuffersAccountedFor'
<1>1. PICK port \in Ports, len \in PayloadLengths :
        udpEvents' = Append(udpEvents, [type |-> "rx", port |-> port, len |-> len, n |-> NextNumber])
  BY DEF DatagramArrives, Posts
<1>2. NextNumber \in Nat
  BY NumbersAreNat DEF BuffersInv
<1>3. PICK e \in UdpEvent : e = [type |-> "rx", port |-> port, len |-> len, n |-> NextNumber]
  BY <1>2 DEF UdpEvent
<1>4. Delta("rx", e) = 1 /\ Delta("tx", e) = 0
  BY <1>3 DEF Delta
<1>5. Buffered("rx")' = Buffered("rx") + 1 /\ Buffered("tx")' = Buffered("tx") + 0
  BY <1>1, <1>3, <1>4, EventCounted DEF BuffersInv
<1>6. udpFree' \in Int /\ udpFree' + 1 + 0 = udpFree
  BY DEF DatagramArrives, BuffersInv
<1>7. \A u \in UdpSocks : HeldFor(u)' = HeldFor(u)
  BY DEF DatagramArrives, HeldFor, UserAt
<1> QED BY <1>5, <1>6, <1>7, NobodysBuffersMove

(* The IP task takes an event with a buffer, or without one.               *)
LEMMA TakenDatagram ==
  ASSUME BuffersInv, udpEvents # <<>>, udpEvents' = Tail(udpEvents)
  PROVE  \E drx, dtx \in Int :
           /\ Buffered("rx")' = Buffered("rx") + drx /\ Buffered("tx")' = Buffered("tx") + dtx
           /\ drx + dtx = IF Head(udpEvents).type \in {"rx", "tx"} THEN -1 ELSE 0
<1> DEFINE drx == -Delta("rx", Head(udpEvents))
           dtx == -Delta("tx", Head(udpEvents))
<1>1. drx \in Int /\ dtx \in Int /\ drx + dtx = IF Head(udpEvents).type \in {"rx", "tx"} THEN -1 ELSE 0
  BY DEF Delta
<1>2. Delta("rx", Head(udpEvents)) \in Int /\ Delta("tx", Head(udpEvents)) \in Int
  BY DEF Delta
<1>3. Buffered("rx") \in Int /\ Buffered("tx") \in Int
  BY BufferedInt DEF BuffersInv
<1>4. Buffered("rx")' = Buffered("rx") + drx /\ Buffered("tx")' = Buffered("tx") + dtx
  BY <1>2, <1>3, EventCounted DEF BuffersInv
<1> HIDE DEF drx, dtx
<1> QED BY <1>1, <1>4

LEMMA IpMovesNobody ==
  ASSUME BuffersInv, UdpInv', udpEvents # <<>>, udpEvents' = Tail(udpEvents),
         \A u \in UdpSocks : HeldFor(u)' = HeldFor(u),
         udpFree' = udpFree + IF Head(udpEvents).type \in {"rx", "tx"} THEN 1 ELSE 0
  PROVE  udpFree' \in Int /\ BuffersAccountedFor'
<1>1. PICK drx \in Int, dtx \in Int :
        /\ Buffered("rx")' = Buffered("rx") + drx /\ Buffered("tx")' = Buffered("tx") + dtx
        /\ drx + dtx = IF Head(udpEvents).type \in {"rx", "tx"} THEN -1 ELSE 0
  BY TakenDatagram
<1>2. udpFree' \in Int /\ udpFree' + drx + dtx = udpFree
  BY <1>1 DEF BuffersInv
<1> QED BY <1>1, <1>2, NobodysBuffersMove

LEMMA IpMovesOne ==
  ASSUME BuffersInv, UdpInv', udpEvents # <<>>, udpEvents' = Tail(udpEvents),
         NEW s \in UdpSocks, \A u \in UdpSocks \ {s} : HeldFor(u)' = HeldFor(u), udpFree' \in Int,
         udpFree' + HeldFor(s)' = udpFree + HeldFor(s) + IF Head(udpEvents).type \in {"rx", "tx"} THEN 1 ELSE 0
  PROVE  BuffersAccountedFor'
<1>1. PICK drx \in Int, dtx \in Int :
        /\ Buffered("rx")' = Buffered("rx") + drx /\ Buffered("tx")' = Buffered("tx") + dtx
        /\ drx + dtx = IF Head(udpEvents).type \in {"rx", "tx"} THEN -1 ELSE 0
  BY TakenDatagram
<1>2. udpFree \in Int /\ HeldFor(s) \in Int /\ HeldFor(s)' \in Int
  BY HeldForIs, HeldForInt DEF BuffersInv
<1>3. udpFree' + drx + dtx + HeldFor(s)' = udpFree + HeldFor(s)
  BY <1>1, <1>2
<1> QED BY <1>1, <1>3, BuffersMove

LEMMA IpKeepsBuffers ==
  ASSUME BuffersInv, IpReceives \/ IpBinds \/ IpCloses \/ IpSends \/ IpSelects, UdpInv'
  PROVE  udpFree' \in Int /\ BuffersAccountedFor'
<1> DEFINE e == Head(udpEvents)
<1>h. ASSUME NEW s \in UdpSocks, udpCalls' = udpCalls
      PROVE  \E h \in Nat : /\ HeldFor(s) = Len(sockets[s].waiting) + h
                            /\ HeldFor(s)' = Len(sockets'[s].waiting) + h
  <2>1. sockets[s].waiting \in Seq(Datagram) /\ sockets'[s].waiting \in Seq(Datagram)
    BY DEF BuffersInv, UdpInv, OwnOK, UdpSocket
  <2>2. PICK n \in Nat, m \in Nat : n = Len(sockets[s].waiting) /\ m = Len(sockets'[s].waiting)
    BY <2>1, LenProperties
  <2>3. PICK a \in {0, 1} : a = IF UserAt(s, "copy") \/ UserAt(s, "postData") THEN 1 ELSE 0
    OBVIOUS
  <2>4. PICK b \in {0, 1} : b = IF udpCalls[s].holds THEN 1 ELSE 0
    OBVIOUS
  <2>5. HeldFor(s) = n + a + b
    BY <2>2, <2>3, <2>4 DEF HeldFor
  <2>6. (UserAt(s, "copy")' <=> UserAt(s, "copy")) /\ (UserAt(s, "postData")' <=> UserAt(s, "postData"))
    BY <1>h DEF UserAt
  <2>7. HeldFor(s)' = m + a + b
    BY <1>h, <2>2, <2>3, <2>4, <2>6 DEF HeldFor
  <2>8. n + a + b = n + (a + b) /\ m + a + b = m + (a + b) /\ a + b \in Nat
    OBVIOUS
  <2> QED BY <2>2, <2>5, <2>7, <2>8
<1>1. udpEvents # <<>> /\ udpEvents' = Tail(udpEvents) /\ e \in UdpEvent
  BY FirstEvent DEF IpReceives, IpBinds, IpCloses, IpSends, IpSelects, TakesEvent, BuffersInv
<1>2. udpFree \in Int
  BY DEF BuffersInv
<1>t. DOMAIN sockets = UdpSocks /\ sockets = [u \in UdpSocks |-> sockets[u]]
  BY DEF BuffersInv, UdpInv, UdpTypes
<1>3. CASE IpReceives
  <2>1. e.type = "rx" /\ udpCalls' = udpCalls
    BY <1>3 DEF IpReceives, TakesEvent
  <2>2. CASE BoundTo(e.port) = {}
    <3>1. sockets' = sockets /\ udpFree' = udpFree + 1
      BY <1>3, <2>2 DEF IpReceives
    <3>2. \A u \in UdpSocks : HeldFor(u)' = HeldFor(u)
      BY <2>1, <3>1 DEF HeldFor, UserAt
    <3> HIDE DEF e
    <3> QED BY <1>1, <2>1, <3>1, <3>2, IpMovesNobody DEF e
  <2>3. CASE BoundTo(e.port) # {}
    <3>1. PICK s : s = CHOOSE x \in BoundTo(e.port) : TRUE
      OBVIOUS
    <3>2. s \in UdpSocks
      BY <2>3, <3>1 DEF BoundTo
    <3>3. PICK d : d = [n |-> e.n, len |-> e.len]
      OBVIOUS
    <3>4. sockets' = [sockets EXCEPT ![s].waiting = Append(@, d), ![s].events = @ \cup {"receive"}] /\ udpFree' = udpFree
      BY <1>3, <2>3, <3>1, <3>3 DEF IpReceives
    <3>5. d \in Datagram
      BY <1>1, <2>1, <3>3 DEF Datagram, UdpEvent, UdpRequest
    <3>6. sockets[s] \in UdpSocket
      BY <3>2 DEF BuffersInv, UdpInv, OwnOK
    <3>7. sockets'[s].waiting = Append(sockets[s].waiting, d) /\ sockets[s].waiting \in Seq(Datagram)
      BY <1>t, <3>2, <3>4, <3>6 DEF UdpSocket
    <3>8. Len(sockets'[s].waiting) = Len(sockets[s].waiting) + 1 /\ Len(sockets[s].waiting) \in Nat
      BY <3>5, <3>7, AppendProperties, LenProperties
    <3>9. HeldFor(s)' = HeldFor(s) + 1
      <4>1. PICK h \in Nat : /\ HeldFor(s) = Len(sockets[s].waiting) + h
                             /\ HeldFor(s)' = Len(sockets'[s].waiting) + h
        BY <1>h, <2>1, <3>2
      <4> QED BY <3>8, <4>1
    <3>10. \A u \in UdpSocks \ {s} : HeldFor(u)' = HeldFor(u)
      BY <1>t, <2>1, <3>2, <3>4 DEF HeldFor, UserAt
    <3>11. HeldFor(s) \in Int
      BY <3>2, HeldForIs DEF BuffersInv
    <3>12. udpFree' + HeldFor(s)' = udpFree + HeldFor(s) + 1
      BY <1>2, <3>4, <3>9, <3>11
    <3> HIDE DEF e
    <3> QED BY <1>1, <1>2, <2>1, <3>2, <3>4, <3>10, <3>12, IpMovesOne DEF e
  <2> QED BY <2>2, <2>3
<1>4. CASE IpBinds
  <2>1. e.type = "bind" /\ udpCalls' = udpCalls /\ udpFree' = udpFree
    BY <1>4 DEF IpBinds, TakesEvent
  <2>2. PICK port, s : s = e.socket
          /\ sockets' = IF port = 0 \/ BoundTo(port) # {}
                        THEN [sockets EXCEPT ![s].usLocalPort = 0, ![s].events = @ \cup {"bound"}]
                        ELSE [sockets EXCEPT ![s].usLocalPort = port, ![s].port = port, ![s].state = "bound",
                                             ![s].events = @ \cup {"bound"}]
    BY <1>4 DEF IpBinds
  <2>3. \A u \in UdpSocks : sockets[u] \in UdpSocket
    BY DEF BuffersInv, UdpInv, OwnOK
  <2>4. \A u \in UdpSocks : sockets'[u].waiting = sockets[u].waiting
    <3> SUFFICES ASSUME NEW u \in UdpSocks PROVE sockets'[u].waiting = sockets[u].waiting
      OBVIOUS
    <3>1. DOMAIN sockets = UdpSocks /\ sockets[u] \in UdpSocket
      BY <1>t, <2>3
    <3>2. CASE port = 0 \/ BoundTo(port) # {}
      BY <2>2, <3>1, <3>2 DEF UdpSocket
    <3>3. CASE ~(port = 0 \/ BoundTo(port) # {})
      BY <2>2, <3>1, <3>3 DEF UdpSocket
    <3> QED BY <3>2, <3>3
  <2>5. \A u \in UdpSocks : HeldFor(u)' = HeldFor(u)
    BY <2>1, <2>4 DEF HeldFor, UserAt
  <2>6. udpFree' = udpFree + 0
    BY <1>2, <2>1
  <2> HIDE DEF e
  <2> QED BY <1>1, <2>1, <2>5, <2>6, IpMovesNobody DEF e
<1>5. CASE IpCloses
  <2>1. e.type = "close" /\ udpCalls' = udpCalls
    BY <1>5 DEF IpCloses, TakesEvent
  <2>2. PICK s \in UdpSocks : s = e.socket
    BY <1>1, <2>1 DEF UdpEvent
  <2>3. sockets' = [sockets EXCEPT ![s] = NewSocket("none")] /\ udpFree' = udpFree + Len(sockets[s].waiting)
    BY <1>5, <2>2 DEF IpCloses
  <2>4. sockets[s].waiting \in Seq(Datagram) /\ Len(sockets[s].waiting) \in Nat
    BY LenProperties DEF BuffersInv, UdpInv, OwnOK, UdpSocket
  <2>5. Len(sockets'[s].waiting) = 0
    BY <1>t, <2>3, EmptySeq DEF NewSocket
  <2>6. PICK n \in Nat : n = Len(sockets[s].waiting)
    BY <2>4
  <2>7. HeldFor(s) \in Int /\ HeldFor(s)' = HeldFor(s) - n
    <3>1. PICK h \in Nat : /\ HeldFor(s) = Len(sockets[s].waiting) + h
                           /\ HeldFor(s)' = Len(sockets'[s].waiting) + h
      BY <1>h, <2>1
    <3> QED BY <2>5, <2>6, <3>1
  <2>8. \A u \in UdpSocks \ {s} : HeldFor(u)' = HeldFor(u)
    BY <1>t, <2>1, <2>3 DEF HeldFor, UserAt
  <2>9. udpFree' \in Int /\ udpFree' + HeldFor(s)' = udpFree + HeldFor(s) + 0
    BY <1>2, <2>3, <2>6, <2>7
  <2> HIDE DEF e
  <2> QED BY <1>1, <2>1, <2>8, <2>9, IpMovesOne DEF e
<1>6. CASE IpSends
  <2>1. e.type = "tx" /\ udpCalls' = udpCalls /\ sockets' = sockets /\ udpFree' = udpFree + 1
    BY <1>6 DEF IpSends, TakesEvent
  <2>2. \A u \in UdpSocks : HeldFor(u)' = HeldFor(u)
    BY <2>1 DEF HeldFor, UserAt
  <2> HIDE DEF e
  <2> QED BY <1>1, <2>1, <2>2, IpMovesNobody DEF e
<1>7. CASE IpSelects
  <2>1. e.type = "select" /\ udpCalls' = udpCalls /\ sockets' = sockets /\ udpFree' = udpFree
    BY <1>7 DEF IpSelects, TakesEvent
  <2>2. \A u \in UdpSocks : HeldFor(u)' = HeldFor(u)
    BY <2>1 DEF HeldFor, UserAt
  <2>3. udpFree' = udpFree + 0
    BY <1>2, <2>1
  <2> HIDE DEF e
  <2> QED BY <1>1, <2>1, <2>2, <2>3, IpMovesNobody DEF e
<1> QED BY <1>3, <1>4, <1>5, <1>6, <1>7

LEMMA GoesElsewhere ==
  ASSUME UdpInv, NEW s \in UdpSocks,
         BufferForSend(s) \/ PostData(s) \/ Receive(s) \/ ReleaseUDPPayloadBuffer(s)
  PROVE  udpCalls'[s].at # "copy"
<1>t. DOMAIN udpCalls = UdpSocks /\ udpCalls[s] \in UdpCall
  BY DEF UdpInv, UdpTypes, OwnOK
<1>r. ASSUME Returns(s)
      PROVE  udpCalls'[s].at = "idle"
  <2>1. udpCalls'[s] = [Idle EXCEPT !.holds = udpCalls[s].holds]
    BY <1>t, <1>r DEF Returns
  <2>2. udpCalls[s].holds \in BOOLEAN
    BY <1>t DEF UdpCall
  <2> QED BY <2>1, <2>2, CallReturned
<1>g. ASSUME NEW at, UserGoes(s, at) PROVE udpCalls'[s].at = at
  BY <1>t, <1>g DEF UserGoes, UdpCall
<1>1. CASE BufferForSend(s)
  BY <1>1, <1>r, <1>g DEF BufferForSend
<1>2. CASE PostData(s)
  BY <1>2, <1>r DEF PostData
<1>3. CASE Receive(s)
  <2>1. CASE udpCalls' = [udpCalls EXCEPT ![s] = [Idle EXCEPT !.holds = TRUE]]
    <3>1. udpCalls'[s] = [Idle EXCEPT !.holds = TRUE]
      BY <1>t, <2>1
    <3> QED BY <3>1, CallReturned
  <2> QED BY <1>3, <1>r, <2>1 DEF Receive
<1>4. CASE ReleaseUDPPayloadBuffer(s)
  BY <1>4, <1>t DEF ReleaseUDPPayloadBuffer, UserAt, UdpCall
<1> QED BY <1>1, <1>2, <1>3, <1>4

LEMMA LengthCopied ==
  ASSUME BuffersInv, UdpNext
  PROVE  CopiedLength'
<1>1. CASE \E s \in UdpSocks : UserStep(s)
  <2>1. PICK s \in UdpSocks : UserStep(s)
    BY <1>1
  <2>2. \A u \in UdpSocks \ {s} : udpCalls'[u] = udpCalls[u]
    BY <2>1, UserSteps, OneChanges DEF UserEffect, BuffersInv
  <2>3. udpCalls'[s].at = "copy" => udpCalls'[s].len \in PayloadLengths
    <3>1. CASE TakeDatagram(s)
      <4>1. sockets[s].waiting # <<>> /\ sockets[s].waiting \in Seq(Datagram)
        BY <3>1 DEF TakeDatagram, BuffersInv, UdpInv, OwnOK, UserAt, UdpSocket
      <4>2. Head(sockets[s].waiting) \in Datagram
        BY <4>1, HeadTailProperties
      <4>3. PICK l \in PayloadLengths : l = Head(sockets[s].waiting).len
        BY <4>2 DEF Datagram
      <4>4. udpCalls' = [udpCalls EXCEPT ![s].at = "copy", ![s].len = l]
        BY <3>1, <4>3 DEF TakeDatagram
      <4>5. DOMAIN udpCalls = UdpSocks /\ udpCalls[s] \in UdpCall
        BY DEF BuffersInv, UdpInv, UdpTypes, OwnOK
      <4> QED BY <4>4, <4>5 DEF UdpCall
    <3>2. CASE BufferForSend(s) \/ PostData(s) \/ Receive(s) \/ ReleaseUDPPayloadBuffer(s)
      <4>1. udpCalls'[s].at # "copy"
        BY <3>2, GoesElsewhere DEF BuffersInv
      <4> QED BY <4>1
    <3>3. CASE ~TakeDatagram(s) /\ ~(BufferForSend(s) \/ PostData(s) \/ Receive(s) \/ ReleaseUDPPayloadBuffer(s))
      <4>1. Level(s)
        BY <2>1, <3>3, LevelSteps DEF UserStep, BuffersInv
      <4> QED BY <4>1 DEF Level
    <3> QED BY <3>1, <3>2, <3>3
  <2> QED BY <2>2, <2>3 DEF CopiedLength, BuffersInv
<1>2. CASE ~ \E s \in UdpSocks : UserStep(s)
  BY <1>2 DEF UdpNext, DatagramArrives, IpReceives, IpBinds, IpCloses, IpSends, IpSelects, BuffersInv, CopiedLength
<1> QED BY <1>1, <1>2

(* No network buffer is lost or released twice on its way between the      *)
(* pool, the events of the IP task, the sockets and their users, for any   *)
(* number of sockets and whatever the calls, provided that no datagram is  *)
(* empty: the task that receives without copying does not release the      *)
(* buffer of one that is (FreeRTOS_sendto, FreeRTOS_recvfrom,              *)
(* vSocketClose, prvUDPRXTask).                                            *)
THEOREM NoBufferIsLost == ASSUME 0 \notin PayloadLengths PROVE UdpSpec => []BuffersAccountedFor
<1>1. UdpInit => BuffersInv
  <2> SUFFICES ASSUME UdpInit PROVE BuffersInv
    OBVIOUS
  <2>1. UdpInv
    BY UdpInvInit
  <2>2. udpFree = UdpBuffers /\ UdpBuffers \in Int /\ udpEvents = <<>>
    BY UdpAssumption DEF UdpInit
  <2>3. CopiedLength
    BY DEF UdpInit, CopiedLength, Idle
  <2>4. Buffered("rx") = 0 /\ Buffered("tx") = 0
    <3>1. Places(udpEvents, "rx") = {} /\ Places(udpEvents, "tx") = {}
      BY <2>2 DEF Places
    <3> QED BY <3>1, FS_EmptySet DEF Buffered, Places
  <2>5. SumFunction([s \in UdpSocks |-> HeldFor(s)]) = 0
    <3> DEFINE f == [s \in UdpSocks |-> HeldFor(s)]
    <3>1. \A s \in UdpSocks : HeldFor(s) = 0
      BY EmptySeq DEF UdpInit, HeldFor, UserAt, Idle, NewSocket
    <3>2. f \in [UdpSocks -> Int] /\ \A s \in UdpSocks : f[s] = 0
      BY <3>1
    <3> HIDE DEF f
    <3> QED BY <3>2, SumOfZeros, UdpAssumption DEF f
  <2> QED BY <2>1, <2>2, <2>3, <2>4, <2>5 DEF BuffersInv, BuffersAccountedFor
<1>2. BuffersInv /\ [UdpNext]_udpVars => BuffersInv'
  <2> SUFFICES ASSUME BuffersInv, [UdpNext]_udpVars PROVE BuffersInv'
    OBVIOUS
  <2>1. UdpInv'
    BY UdpInvNext DEF BuffersInv
  <2>2. CASE UNCHANGED udpVars
    BY <2>1, <2>2 DEF udpVars, BuffersInv, CopiedLength, BuffersAccountedFor, Buffered, HeldFor, UserAt
  <2>3. CASE UdpNext
    <3>1. udpFree' \in Int /\ BuffersAccountedFor'
      BY <2>1, <2>3, UserKeepsBuffers, ArrivalKeepsBuffers, IpKeepsBuffers DEF UdpNext
    <3> QED BY <2>1, <2>3, <3>1, LengthCopied DEF BuffersInv
  <2> QED BY <2>2, <2>3
<1>3. BuffersInv => BuffersAccountedFor
  BY DEF BuffersInv
<1> QED BY <1>1, <1>2, <1>3, PTL DEF UdpSpec

(***************************************************************************)
(* The Ethernet driver.                                                    *)
(***************************************************************************)
Spots == 0 .. TxDescs - 1

TxRing ==
  [used : [Spots -> BOOLEAN], frame : [Spots -> Int], head : Spots, tail : Spots, sem : 0 .. TxDescs,
   dma : Spots, next : 0 .. FrameNumbers - 1]

Spot(t, i) == IF t + i < TxDescs THEN t + i ELSE (t + i) - TxDescs

(* The number of the frame written j frames ago.                           *)
Numbered(n, j) == IF j <= n THEN n - j ELSE (n + FrameNumbers) - j

(* Of k descriptors with frames the MAC sent the first m; a is 1 before    *)
(* txHead is moved on.                                                     *)
RingOK(r, k, a, m) ==
  /\ r.head = Spot(r.tail, k - a)
  /\ r.dma = Spot(r.tail, m)
  /\ \A i \in Spots : r.used[Spot(r.tail, i)] = (i < m \/ k <= i)
  /\ \A i \in Spots : i < k => r.frame[Spot(r.tail, i)] = Numbered(r.next, k - i)

LEMMA TurnedOnce ==
  ASSUME NEW n \in Nat \ {0}, NEW a \in Nat, a < 2 * n
  PROVE  (a % n) = IF a < n THEN a ELSE a - n
<1>1. /\ (a % n) \in 0 .. n - 1 /\ a = n * (a \div n) + (a % n) /\ (a \div n) \in Int
  OBVIOUS
<1>2. (a \div n) \in {0, 1}
  BY <1>1
<1> QED BY <1>1, <1>2

LEMMA DescNumbers == TxDescs \in Nat /\ TxDescs > 1 /\ FrameNumbers \in Nat /\ FrameNumbers > TxDescs
  BY EmacAssumption

LEMMA SpotIs ==
  ASSUME NEW t \in Spots, NEW i \in 0 .. TxDescs
  PROVE  (t + i) % TxDescs = Spot(t, i) /\ Spot(t, i) \in Spots
<1>1. t + i \in Nat /\ t + i < 2 * TxDescs /\ TxDescs \in Nat \ {0}
  BY DescNumbers DEF Spots
<1>2. ((t + i) % TxDescs) = IF t + i < TxDescs THEN t + i ELSE (t + i) - TxDescs
  BY <1>1, TurnedOnce
<1>3. Spot(t, i) \in Spots
  BY DescNumbers DEF Spots, Spot
<1> QED BY <1>2, <1>3 DEF Spot

LEMMA NextSpot ==
  ASSUME NEW t \in Spots
  PROVE  /\ TxNext(t) = Spot(t, 1) /\ TxNext(t) \in Spots
         /\ \A i \in 0 .. TxDescs - 1 : Spot(TxNext(t), i) = Spot(t, i + 1) /\ TxNext(Spot(t, i)) = Spot(t, i + 1)
<1>1. \A d \in Spots : TxNext(d) = Spot(d, 1) /\ TxNext(d) \in Spots
  BY SpotIs, DescNumbers DEF TxNext
<1>2. ASSUME NEW i \in 0 .. TxDescs - 1
      PROVE  Spot(TxNext(t), i) = Spot(t, i + 1) /\ TxNext(Spot(t, i)) = Spot(t, i + 1)
  <2>1. Spot(t, i) \in Spots
    BY SpotIs, DescNumbers
  <2>2. TxNext(t) = Spot(t, 1) /\ TxNext(Spot(t, i)) = Spot(Spot(t, i), 1)
    BY <1>1, <2>1
  <2> QED BY <2>2, DescNumbers DEF Spot, Spots
<1> QED BY <1>1, <1>2

LEMMA SpotsApart ==
  ASSUME NEW t \in Spots, NEW i \in Spots, NEW j \in Spots, Spot(t, i) = Spot(t, j)
  PROVE  i = j
  BY DescNumbers DEF Spot, Spots

(* What the steps do to the ring.                                          *)
LEMMA RingSent ==
  ASSUME NEW r \in TxRing, NEW k \in 0 .. TxDescs, NEW a \in 0 .. 1, NEW m \in 0 .. k,
         RingOK(r, k, a, m), ~r.used[r.dma],
         NEW q, q = [r EXCEPT !.used[r.dma] = TRUE, !.dma = TxNext(@)]
  PROVE  m < k /\ q \in TxRing /\ RingOK(q, k, a, m + 1)
<1>1. r.tail \in Spots /\ r.dma \in Spots /\ r.used \in [Spots -> BOOLEAN] /\ r.dma = Spot(r.tail, m)
  BY DEF TxRing, RingOK
<1>2. /\ q \in TxRing /\ q.head = r.head /\ q.tail = r.tail /\ q.sem = r.sem /\ q.next = r.next /\ q.frame = r.frame
      /\ q.dma = TxNext(r.dma) /\ q.used = [r.used EXCEPT ![r.dma] = TRUE]
  BY <1>1, NextSpot DEF TxRing
<1>3. m < k
  <2> SUFFICES ASSUME m = k PROVE FALSE
    BY DescNumbers
  <2>1. CASE m = TxDescs
    <3>1. Spot(r.tail, m) = Spot(r.tail, 0) /\ 0 \in Spots /\ 0 < m
      BY <1>1, <2>1, DescNumbers DEF Spot, Spots
    <3>2. r.used[Spot(r.tail, 0)] = (0 < m \/ k <= 0)
      BY <3>1 DEF RingOK
    <3> QED BY <1>1, <3>1, <3>2
  <2>2. CASE m # TxDescs
    <3>1. m \in Spots /\ k <= m
      BY <2>2, DescNumbers DEF Spots
    <3>2. r.used[Spot(r.tail, m)] = (m < m \/ k <= m)
      BY <3>1 DEF RingOK
    <3> QED BY <1>1, <3>1, <3>2
  <2> QED BY <2>1, <2>2
<1>4. m \in Spots
  BY <1>3, DescNumbers DEF Spots
<1>5. q.dma = Spot(q.tail, m + 1)
  <2>1. m \in 0 .. TxDescs - 1
    BY <1>4 DEF Spots
  <2>2. TxNext(Spot(r.tail, m)) = Spot(r.tail, m + 1)
    BY <1>1, <2>1, NextSpot
  <2> QED BY <1>1, <1>2, <2>2
<1>6. ASSUME NEW i \in Spots PROVE q.used[Spot(q.tail, i)] = (i < m + 1 \/ k <= i)
  <2>0. i \in 0 .. TxDescs
    BY DescNumbers DEF Spots
  <2>1. r.used[Spot(r.tail, i)] = (i < m \/ k <= i) /\ Spot(r.tail, i) \in Spots
    BY <1>1, <2>0, SpotIs DEF RingOK
  <2>2. CASE i = m
    <3>1. q.used[Spot(q.tail, i)] = TRUE
      BY <1>1, <1>2, <2>2
    <3>2. i < m + 1
      BY <2>2
    <3> QED BY <3>1, <3>2
  <2>3. CASE i # m
    <3>1. Spot(r.tail, i) # r.dma
      BY <1>1, <1>4, <2>3, SpotsApart
    <3>2. q.used[Spot(q.tail, i)] = r.used[Spot(r.tail, i)]
      BY <1>1, <1>2, <2>1, <3>1
    <3>3. i < m + 1 <=> i < m
      BY <2>3, DescNumbers DEF Spots
    <3> QED BY <2>1, <3>2, <3>3
  <2> QED BY <2>2, <2>3
<1>7. q.head = Spot(q.tail, k - a) /\ \A i \in Spots : i < k => q.frame[Spot(q.tail, i)] = Numbered(q.next, k - i)
  BY <1>2 DEF RingOK
<1> QED BY <1>2, <1>3, <1>5, <1>6, <1>7 DEF RingOK

LEMMA RingReclaimed ==
  ASSUME NEW r \in TxRing, NEW k \in 1 .. TxDescs, NEW a \in 0 .. 1, a <= k - 1, NEW m \in 1 .. k,
         RingOK(r, k, a, m), r.sem < TxDescs,
         NEW q, q = [r EXCEPT !.sem = @ + 1, !.tail = TxNext(@)]
  PROVE  q \in TxRing /\ RingOK(q, k - 1, a, m - 1)
<1>1. r.tail \in Spots /\ r.sem \in 0 .. TxDescs
  BY DEF TxRing
<1>2. /\ q \in TxRing /\ q.head = r.head /\ q.used = r.used /\ q.next = r.next /\ q.frame = r.frame
      /\ q.dma = r.dma /\ q.tail = TxNext(r.tail)
  <2>1. r.sem + 1 \in 0 .. TxDescs
    BY <1>1, DescNumbers
  <2> QED BY <1>1, <2>1, NextSpot DEF TxRing
<1>3. \A i \in 0 .. TxDescs - 1 : Spot(q.tail, i) = Spot(r.tail, i + 1)
  BY <1>1, <1>2, NextSpot
<1>4. q.head = Spot(q.tail, (k - 1) - a)
  <2>1. (k - 1) - a \in 0 .. TxDescs - 1 /\ ((k - 1) - a) + 1 = k - a
    BY DescNumbers
  <2> QED BY <1>2, <1>3, <2>1 DEF RingOK
<1>5. q.dma = Spot(q.tail, m - 1)
  <2>1. m - 1 \in 0 .. TxDescs - 1 /\ (m - 1) + 1 = m
    BY DescNumbers
  <2> QED BY <1>2, <1>3, <2>1 DEF RingOK
<1>6. ASSUME NEW i \in Spots
      PROVE  /\ q.used[Spot(q.tail, i)] = (i < m - 1 \/ k - 1 <= i)
             /\ i < k - 1 => q.frame[Spot(q.tail, i)] = Numbered(q.next, (k - 1) - i)
  <2>1. CASE i + 1 < TxDescs
    <3>1. i + 1 \in Spots /\ i \in 0 .. TxDescs - 1
      BY <2>1, DescNumbers DEF Spots
    <3>2. /\ r.used[Spot(r.tail, i + 1)] = (i + 1 < m \/ k <= i + 1)
          /\ i + 1 < k => r.frame[Spot(r.tail, i + 1)] = Numbered(r.next, k - (i + 1))
      BY <3>1 DEF RingOK
    <3>3. (i + 1 < m <=> i < m - 1) /\ (k <= i + 1 <=> k - 1 <= i) /\ (i + 1 < k <=> i < k - 1) /\ k - (i + 1) = (k - 1) - i
      BY <3>1
    <3> QED BY <1>2, <1>3, <3>1, <3>2, <3>3
  <2>2. CASE i + 1 = TxDescs
    <3>1. Spot(r.tail, i + 1) = Spot(r.tail, 0) /\ 0 \in Spots /\ i \in 0 .. TxDescs - 1
      BY <1>1, <2>2, DescNumbers DEF Spot, Spots
    <3>2. r.used[Spot(r.tail, 0)] = (0 < m \/ k <= 0)
      BY <3>1 DEF RingOK
    <3>3. 0 < m /\ k - 1 <= i /\ ~(i < k - 1)
      BY <2>2, DescNumbers DEF Spots
    <3> QED BY <1>2, <1>3, <3>1, <3>2, <3>3
  <2> QED BY <2>1, <2>2, DescNumbers DEF Spots
<1> QED BY <1>2, <1>4, <1>5, <1>6 DEF RingOK

LEMMA NextNumbered ==
  ASSUME NEW n \in 0 .. FrameNumbers - 1, NEW j \in 1 .. TxDescs
  PROVE  /\ ((n + 1) % FrameNumbers) \in 0 .. FrameNumbers - 1
         /\ Numbered((n + 1) % FrameNumbers, 1) = n
         /\ j < TxDescs => Numbered((n + 1) % FrameNumbers, j + 1) = Numbered(n, j)
<1>1. ((n + 1) % FrameNumbers) = IF n + 1 < FrameNumbers THEN n + 1 ELSE (n + 1) - FrameNumbers
  <2>1. n + 1 \in Nat /\ n + 1 < 2 * FrameNumbers /\ FrameNumbers \in Nat \ {0}
    BY DescNumbers
  <2> QED BY <2>1, TurnedOnce
<1>2. PICK p \in 0 .. FrameNumbers - 1 : p = ((n + 1) % FrameNumbers)
  BY <1>1, DescNumbers
<1>3. p = IF n + 1 < FrameNumbers THEN n + 1 ELSE (n + 1) - FrameNumbers
  BY <1>1, <1>2
<1>4. Numbered(p, 1) = n
  BY <1>3, DescNumbers DEF Numbered
<1>5. j < TxDescs => Numbered(p, j + 1) = Numbered(n, j)
  BY <1>3, DescNumbers DEF Numbered
<1> QED BY <1>2, <1>4, <1>5

LEMMA RingWritten ==
  ASSUME NEW r \in TxRing, NEW k \in 0 .. TxDescs - 1, NEW m \in 0 .. k,
         RingOK(r, k, 0, m),
         NEW q, q = [r EXCEPT !.used[r.head] = FALSE, !.frame[r.head] = r.next, !.next = (@ + 1) % FrameNumbers]
  PROVE  q \in TxRing /\ RingOK(q, k + 1, 1, m)
<1>1. /\ r.tail \in Spots /\ r.head \in Spots /\ r.next \in 0 .. FrameNumbers - 1
      /\ r.used \in [Spots -> BOOLEAN] /\ r.frame \in [Spots -> Int]
  BY DEF TxRing
<1>0. r.head = Spot(r.tail, k) /\ k \in Spots
  BY DescNumbers DEF RingOK, Spots
<1>n. PICK n \in 0 .. FrameNumbers - 1 : n = (r.next + 1) % FrameNumbers
  BY <1>1, NextNumbered, DescNumbers
<1>2. /\ q \in TxRing /\ q.head = r.head /\ q.dma = r.dma /\ q.tail = r.tail /\ q.next = n
      /\ q.used = [r.used EXCEPT ![r.head] = FALSE] /\ q.frame = [r.frame EXCEPT ![r.head] = r.next]
  <2>1. q = [r EXCEPT !.used[r.head] = FALSE, !.frame[r.head] = r.next, !.next = n]
    BY <1>n
  <2>2. PICK u \in [Spots -> BOOLEAN] : u = [r.used EXCEPT ![r.head] = FALSE]
    BY <1>1
  <2>0. r.next \in Int
    BY <1>1, DescNumbers
  <2>3. PICK f \in [Spots -> Int] : f = [r.frame EXCEPT ![r.head] = r.next]
    BY <1>1, <2>0
  <2>4. q = [r EXCEPT !.used = u, !.frame = f, !.next = n]
    BY <1>1, <2>1, <2>2, <2>3 DEF TxRing
  <2> QED BY <1>1, <2>2, <2>3, <2>4 DEF TxRing
<1>3. q.head = Spot(q.tail, (k + 1) - 1) /\ q.dma = Spot(q.tail, m)
  BY <1>0, <1>2 DEF RingOK
<1>4. ASSUME NEW i \in Spots
      PROVE  /\ q.used[Spot(q.tail, i)] = (i < m \/ k + 1 <= i)
             /\ i < k + 1 => q.frame[Spot(q.tail, i)] = Numbered(q.next, (k + 1) - i)
  <2>0. i \in 0 .. TxDescs
    BY DescNumbers DEF Spots
  <2>1. Spot(r.tail, i) \in Spots
    BY <1>1, <2>0, SpotIs
  <2>2. CASE i = k
    <3>1. q.used[Spot(q.tail, i)] = FALSE /\ q.frame[Spot(q.tail, i)] = r.next
      BY <1>0, <1>1, <1>2, <2>2
    <3>2. ~(i < m \/ k + 1 <= i) /\ (k + 1) - i = 1
      BY <2>2, DescNumbers DEF Spots
    <3>3. Numbered(n, 1) = r.next
      BY <1>1, <1>n, NextNumbered, DescNumbers
    <3> QED BY <1>2, <3>1, <3>2, <3>3
  <2>3. CASE i # k
    <3>1. Spot(r.tail, i) # r.head
      BY <1>0, <1>1, <2>3, SpotsApart
    <3>2. q.used[Spot(q.tail, i)] = r.used[Spot(r.tail, i)] /\ q.frame[Spot(q.tail, i)] = r.frame[Spot(r.tail, i)]
      BY <1>1, <1>2, <2>1, <3>1
    <3>3. r.used[Spot(r.tail, i)] = (i < m \/ k <= i) /\ (i < k => r.frame[Spot(r.tail, i)] = Numbered(r.next, k - i))
      BY DEF RingOK
    <3>4. (k + 1 <= i <=> k <= i) /\ (i < k + 1 <=> i < k) /\ (k + 1) - i = (k - i) + 1
      BY <2>3, DescNumbers DEF Spots
    <3>5. ASSUME i < k PROVE Numbered(n, (k - i) + 1) = Numbered(r.next, k - i)
      <4>1. k - i \in 1 .. TxDescs /\ k - i < TxDescs
        BY <3>5, DescNumbers DEF Spots
      <4> QED BY <1>1, <1>n, <4>1, NextNumbered
    <3> QED BY <1>2, <3>2, <3>3, <3>4, <3>5
  <2> QED BY <2>2, <2>3
<1> QED BY <1>2, <1>3, <1>4 DEF RingOK

LEMMA RingAdvanced ==
  ASSUME NEW r \in TxRing, NEW k \in 1 .. TxDescs, NEW m \in 0 .. k, RingOK(r, k, 1, m),
         NEW q, q = [r EXCEPT !.head = TxNext(@)]
  PROVE  q \in TxRing /\ RingOK(q, k, 0, m)
<1>1. r.tail \in Spots /\ r.head \in Spots /\ r.head = Spot(r.tail, k - 1)
  BY DEF TxRing, RingOK
<1>2. /\ q \in TxRing /\ q.head = TxNext(r.head) /\ q.dma = r.dma /\ q.tail = r.tail /\ q.next = r.next
      /\ q.used = r.used /\ q.frame = r.frame
  BY <1>1, NextSpot DEF TxRing
<1>3. q.head = Spot(q.tail, k - 0)
  <2>1. k - 1 \in 0 .. TxDescs - 1 /\ (k - 1) + 1 = k - 0
    BY DescNumbers
  <2> QED BY <1>1, <1>2, <2>1, NextSpot
<1> QED BY <1>2, <1>3 DEF RingOK

(* The state around the ring.                                              *)
IpPlace == {"idle", "frames", "take", "write", "advance"}
EmacPlace == {"wait", "rxTest", "rxClear", "rx", "rxFlags", "pass", "txTest", "txClear", "tx", "phy"}

Advancing == IF ip.at = "advance" THEN 1 ELSE 0
Sending == IF ip.at \in {"take", "write", "advance"} THEN 1 ELSE 0

DriverTypes ==
  /\ tx \in TxRing
  /\ ip \in [at : IpPlace, chain : Nat]
  /\ emac \in [at : EmacPlace, read : SUBSET {"rx", "tx"}, ethMsg : Nat]
  /\ isr_events \in SUBSET {"rx", "tx"}
  /\ queued \in Seq(Nat \ {0}) /\ freeBuffers \in Int

DescriptorHeld == ip.at \in {"write", "advance"} => tx.sem < TxDescs

RingInv == \E m \in 0 .. Taken : RingOK(tx, Taken, Advancing, m)

FramesCounted ==
  freeBuffers + RxDescs + emac.ethMsg + SumFunction(queued) + ip.chain + Sending = NetBuffers

(* No chain in the queue is empty, and the IP task takes one when it has   *)
(* none.                                                                   *)
Chains ==
  /\ emac.at = "pass" => emac.ethMsg > 0
  /\ ip.at = "idle" => ip.chain = 0
  /\ ip.at = "frames" => ip.chain > 0

DriverInv == DriverTypes /\ DescriptorHeld /\ Chains /\ RingInv /\ FramesCounted

LEMMA QueuedSum ==
  ASSUME NEW q \in Seq(Nat \ {0})
  PROVE  q \in Seq(Int) /\ SumFunction(q) \in Int
<1>1. q \in Seq(Int)
  OBVIOUS
<1> QED BY <1>1, SumAppend

LEMMA TakenIs ==
  ASSUME DriverTypes, DescriptorHeld
  PROVE  /\ Taken \in 0 .. TxDescs /\ Filling \in {0, 1} /\ Advancing \in 0 .. 1 /\ Advancing <= Taken
         /\ Taken + Filling = TxDescs - tx.sem
<1>1. tx.sem \in 0 .. TxDescs /\ (ip.at \in {"write", "advance"} => tx.sem < TxDescs)
  BY DEF DriverTypes, TxRing, DescriptorHeld
<1>2. Filling \in {0, 1} /\ (Filling = 1 <=> ip.at = "write")
  BY DEF Filling
<1>3. Advancing \in 0 .. 1 /\ (Advancing = 1 <=> ip.at = "advance")
  BY DEF Advancing
<1>4. Filling = 0 \/ Advancing = 0
  BY <1>2, <1>3
<1>5. Taken = (TxDescs - tx.sem) - Filling
  BY DEF Taken
<1> QED BY <1>1, <1>2, <1>3, <1>4, <1>5, DescNumbers

LEMMA RingUntouched ==
  ASSUME RingInv, UNCHANGED tx, Filling' = Filling, Advancing' = Advancing
  PROVE  RingInv'
<1>1. Taken' = Taken
  BY DEF Taken
<1> QED BY <1>1 DEF RingInv

LEMMA DriverInit == EmacInit => DriverInv
<1> SUFFICES ASSUME EmacInit PROVE DriverInv
  OBVIOUS
<1>1. DriverTypes
  <2>1. 0 \in Spots /\ TxDescs \in 0 .. TxDescs /\ 0 \in 0 .. FrameNumbers - 1 /\ <<>> \in Seq(Nat \ {0})
    BY DescNumbers, EmptySeq DEF Spots
  <2>2. NetBuffers - RxDescs \in Int
    BY EmacAssumption
  <2>3. tx \in TxRing
    BY <2>1 DEF EmacInit, TxRing, Spots
  <2> QED BY <2>1, <2>2, <2>3 DEF EmacInit, DriverTypes, IpPlace, EmacPlace
<1>2. DescriptorHeld
  BY DEF EmacInit, DescriptorHeld
<1>3. RingInv
  <2>1. Taken = 0 /\ Advancing = 0
    BY DescNumbers DEF EmacInit, Taken, Filling, Advancing
  <2>2. RingOK(tx, 0, 0, 0)
    <3>1. Spot(0, 0) = 0 /\ 0 \in Spots /\ 0 - 0 = 0
      BY DescNumbers DEF Spot, Spots
    <3>2. ASSUME NEW i \in Spots PROVE tx.used[Spot(0, i)] = TRUE /\ 0 <= i /\ ~(i < 0)
      BY DescNumbers DEF EmacInit, Spot, Spots
    <3>3. tx.head = 0 /\ tx.tail = 0 /\ tx.dma = 0
      BY DEF EmacInit
    <3>4. tx.head = Spot(tx.tail, 0 - 0) /\ tx.dma = Spot(tx.tail, 0)
      BY <3>1, <3>3
    <3>5. \A i \in Spots : tx.used[Spot(tx.tail, i)] = (i < 0 \/ 0 <= i)
      BY <3>2, <3>3
    <3>6. \A i \in Spots : i < 0 => tx.frame[Spot(tx.tail, i)] = Numbered(tx.next, 0 - i)
      BY <3>2
    <3> QED BY <3>4, <3>5, <3>6 DEF RingOK
  <2>3. 0 \in 0 .. 0
    OBVIOUS
  <2> QED BY <2>1, <2>2, <2>3 DEF RingInv
<1>4. FramesCounted
  <2>1. SumFunction(<<>>) = 0
    <3>1. <<>> \in [{} -> Int]
      OBVIOUS
    <3> QED BY <3>1, FS_EmptySet, SumTakesOut
  <2> QED BY <2>1, EmacAssumption DEF EmacInit, FramesCounted, Sending
<1>5. Chains
  BY DEF EmacInit, Chains
<1> QED BY <1>1, <1>2, <1>3, <1>4, <1>5 DEF DriverInv

LEMMA DriverFrameSent == DriverInv /\ FrameSent => DriverInv'
<1> SUFFICES ASSUME DriverInv, FrameSent PROVE DriverInv'
  OBVIOUS
<1>t. DriverTypes /\ DescriptorHeld /\ Chains /\ RingInv /\ FramesCounted
  BY DEF DriverInv
<1>1. PICK k \in 0 .. TxDescs, a \in 0 .. 1 : k = Taken /\ a = Advancing
  BY <1>t, TakenIs
<1>2. PICK m \in 0 .. k : RingOK(tx, k, a, m)
  BY <1>1, <1>t DEF RingInv
<1>3. PICK q : q = [tx EXCEPT !.used[tx.dma] = TRUE, !.dma = TxNext(@)] /\ tx' = q
  BY DEF FrameSent
<1>4. m < k /\ q \in TxRing /\ RingOK(q, k, a, m + 1)
  <2>1. tx \in TxRing /\ ~tx.used[tx.dma]
    BY <1>t DEF DriverTypes, FrameSent
  <2> QED BY <1>2, <1>3, <2>1, RingSent
<1>5. tx'.sem = tx.sem /\ UNCHANGED <<ip, emac, freeBuffers, queued>>
  BY <1>3, <1>t DEF FrameSent, DriverTypes, TxRing
<1>6. Taken' = k /\ Advancing' = a
  BY <1>1, <1>5 DEF Taken, Filling, Advancing
<1>7. RingInv'
  <2>1. m + 1 \in 0 .. k /\ RingOK(tx', k, a, m + 1)
    BY <1>3, <1>4
  <2> QED BY <1>6, <2>1 DEF RingInv
<1>8. DriverTypes' /\ DescriptorHeld'
  BY <1>t, <1>3, <1>4, <1>5 DEF FrameSent, DriverTypes, DescriptorHeld
<1>9. FramesCounted' /\ Chains'
  BY <1>t, <1>5 DEF FramesCounted, Sending, Chains
<1> QED BY <1>7, <1>8, <1>9 DEF DriverInv

LEMMA DriverReclaims == DriverInv /\ CheckTx => DriverInv'
<1> SUFFICES ASSUME DriverInv, CheckTx PROVE DriverInv'
  OBVIOUS
<1>t. DriverTypes /\ DescriptorHeld /\ Chains /\ RingInv /\ FramesCounted
  BY DEF DriverInv
<1>u. UNCHANGED <<ip, isr_events, freeBuffers, queued>> /\ emac'.ethMsg = emac.ethMsg
      /\ emac' \in [at : EmacPlace, read : SUBSET {"rx", "tx"}, ethMsg : Nat] /\ emac'.at # "pass"
  BY <1>t DEF CheckTx, Go, DriverTypes, EmacPlace
<1>v. FramesCounted' /\ Chains' /\ Filling' = Filling /\ Advancing' = Advancing
  BY <1>t, <1>u DEF FramesCounted, Chains, Sending, Filling, Advancing
<1>1. CASE Reclaims
  <2>1. PICK k \in 0 .. TxDescs, a \in 0 .. 1, f \in {0, 1} :
          k = Taken /\ a = Advancing /\ f = Filling /\ a <= k /\ k + f = TxDescs - tx.sem
    BY <1>t, TakenIs
  <2>2. PICK m \in 0 .. k : RingOK(tx, k, a, m)
    BY <2>1, <1>t DEF RingInv
  <2>3. tx \in TxRing /\ tx.tail \in Spots /\ tx.head \in Spots /\ tx.sem \in 0 .. TxDescs
    BY <1>t DEF DriverTypes, TxRing
  <2>4. k + f > 0 /\ tx.used[tx.tail] /\ ~(tx.tail = tx.head /\ k + f # TxDescs)
    BY <1>1, <2>1 DEF Reclaims
  <2>5. tx.tail = Spot(tx.tail, 0) /\ 0 \in Spots
    BY <2>3, DescNumbers DEF Spot, Spots
  <2>6. k + f >= 2 \/ (f = 0 /\ a = 0)
    <3> SUFFICES ASSUME k + f = 1, f = 1 \/ a = 1 PROVE FALSE
      BY <2>4
    <3>1. k - a = 0
      BY <2>1, DescNumbers DEF Filling, Advancing
    <3>2. tx.head = Spot(tx.tail, 0)
      BY <2>2, <3>1 DEF RingOK
    <3> QED BY <2>4, <2>5, <3>2, DescNumbers
  <2>7. k >= 1 /\ a <= k - 1 /\ (f = 1 \/ a = 1 => k + f >= 2)
    BY <2>1, <2>4, <2>6 DEF Filling, Advancing
  <2>8. m >= 1
    <3>1. tx.used[Spot(tx.tail, 0)] = (0 < m \/ k <= 0)
      BY <2>2, <2>5 DEF RingOK
    <3>2. 0 < m \/ k <= 0
      BY <2>4, <2>5, <3>1
    <3> QED BY <2>7, <3>2
  <2>9. PICK q : q = [tx EXCEPT !.sem = @ + 1, !.tail = TxNext(@)] /\ tx' = q
    BY <1>1 DEF CheckTx
  <2>10. q \in TxRing /\ RingOK(q, k - 1, a, m - 1)
    <3>1. k \in 1 .. TxDescs /\ m \in 1 .. k /\ tx.sem < TxDescs
      BY <2>1, <2>3, <2>4, <2>7, <2>8, DescNumbers
    <3> QED BY <2>2, <2>3, <2>7, <2>9, <3>1, RingReclaimed
  <2>11. tx'.sem = tx.sem + 1
    BY <2>3, <2>9 DEF TxRing
  <2>12. Taken' = k - 1 /\ Advancing' = a
    <3>1. Taken' = TxDescs - tx'.sem - Filling'
      BY DEF Taken
    <3> QED BY <1>v, <2>1, <2>3, <2>11, <3>1, DescNumbers
  <2>13. RingInv'
    <3>1. m - 1 \in 0 .. k - 1 /\ RingOK(tx', k - 1, a, m - 1)
      BY <2>7, <2>8, <2>9, <2>10
    <3> QED BY <2>12, <3>1 DEF RingInv
  <2>14. DescriptorHeld'
    <3> SUFFICES ASSUME ip.at \in {"write", "advance"} PROVE tx'.sem < TxDescs
      BY <1>u DEF DescriptorHeld
    <3>1. f = 1 \/ a = 1
      BY <2>1 DEF Filling, Advancing
    <3> QED BY <2>1, <2>3, <2>7, <2>11, <3>1, DescNumbers
  <2>15. DriverTypes'
    BY <1>t, <1>u, <2>9, <2>10 DEF DriverTypes
  <2> QED BY <1>v, <2>13, <2>14, <2>15 DEF DriverInv
<1>2. CASE ~Reclaims
  <2>1. UNCHANGED tx
    BY <1>2 DEF CheckTx
  <2>2. RingInv'
    BY <1>t, <1>v, <2>1, RingUntouched
  <2>3. DriverTypes' /\ DescriptorHeld'
    BY <1>t, <1>u, <2>1 DEF DriverTypes, DescriptorHeld
  <2> QED BY <1>v, <2>2, <2>3 DEF DriverInv
<1> QED BY <1>1, <1>2

LEMMA DriverTakes == DriverInv /\ TakeDescriptor => DriverInv'
<1> SUFFICES ASSUME DriverInv, TakeDescriptor PROVE DriverInv'
  OBVIOUS
<1>t. DriverTypes /\ DescriptorHeld /\ Chains /\ RingInv /\ FramesCounted
  BY DEF DriverInv
<1>1. /\ ip.at = "take" /\ tx.sem \in 0 .. TxDescs /\ tx.sem > 0 /\ ip' = [ip EXCEPT !.at = "write"]
      /\ tx' = [tx EXCEPT !.sem = @ - 1] /\ UNCHANGED <<emac, isr_events, freeBuffers, queued>>
  BY <1>t DEF TakeDescriptor, IpGoes, DriverTypes, TxRing
<1>2. ip'.at = "write" /\ ip'.chain = ip.chain /\ ip' \in [at : IpPlace, chain : Nat]
  BY <1>1, <1>t DEF DriverTypes, IpPlace
<1>3. tx' \in TxRing /\ tx'.sem = tx.sem - 1 /\ tx'.sem < TxDescs
  <2>1. PICK n \in 0 .. TxDescs : n = tx.sem - 1
    BY <1>1, DescNumbers
  <2>2. tx' = [tx EXCEPT !.sem = n] /\ n < TxDescs
    BY <1>1, <2>1, DescNumbers
  <2> QED BY <1>t, <2>1, <2>2 DEF DriverTypes, TxRing
<1>4. /\ tx'.head = tx.head /\ tx'.tail = tx.tail /\ tx'.dma = tx.dma /\ tx'.used = tx.used /\ tx'.frame = tx.frame
      /\ tx'.next = tx.next
  BY <1>1, <1>t DEF DriverTypes, TxRing
<1>5. Taken' = Taken /\ Advancing' = Advancing
  <2>1. Filling = 0 /\ Filling' = 1
    BY <1>1, <1>2 DEF Filling
  <2>2. Taken = TxDescs - tx.sem - Filling /\ Taken' = TxDescs - tx'.sem - Filling'
    BY DEF Taken
  <2>3. Taken' = Taken
    BY <1>1, <1>3, <2>1, <2>2, DescNumbers
  <2> QED BY <1>1, <1>2, <2>3 DEF Advancing
<1>6. RingInv'
  <2>1. PICK m \in 0 .. Taken : RingOK(tx, Taken, Advancing, m)
    BY <1>t DEF RingInv
  <2>2. RingOK(tx', Taken, Advancing, m)
    BY <1>4, <2>1 DEF RingOK
  <2> QED BY <1>5, <2>2 DEF RingInv
<1>7. FramesCounted' /\ Chains'
  BY <1>t, <1>1, <1>2 DEF FramesCounted, Sending, Chains
<1>8. DriverTypes' /\ DescriptorHeld'
  BY <1>t, <1>1, <1>2, <1>3 DEF DriverTypes, DescriptorHeld
<1> QED BY <1>6, <1>7, <1>8 DEF DriverInv

LEMMA DriverWrites == DriverInv /\ WriteDescriptor => DriverInv'
<1> SUFFICES ASSUME DriverInv, WriteDescriptor PROVE DriverInv'
  OBVIOUS
<1>t. DriverTypes /\ DescriptorHeld /\ Chains /\ RingInv /\ FramesCounted
  BY DEF DriverInv
<1>1. ip.at = "write" /\ ip' = [ip EXCEPT !.at = "advance"] /\ UNCHANGED <<emac, isr_events, freeBuffers, queued>>
      /\ tx \in TxRing /\ tx.sem \in 0 .. TxDescs - 1
  BY <1>t, DescNumbers DEF WriteDescriptor, IpGoes, DriverTypes, TxRing, DescriptorHeld
<1>2. ip'.at = "advance" /\ ip'.chain = ip.chain /\ ip' \in [at : IpPlace, chain : Nat]
  BY <1>1, <1>t DEF DriverTypes, IpPlace
<1>3. PICK k \in 0 .. TxDescs - 1 : k = Taken /\ k = (TxDescs - tx.sem) - 1 /\ Advancing = 0
  <2>1. Taken = (TxDescs - tx.sem) - 1 /\ Advancing = 0
    BY <1>1 DEF Taken, Filling, Advancing
  <2> QED BY <1>1, <2>1, DescNumbers
<1>4. PICK m \in 0 .. k : RingOK(tx, k, 0, m)
  BY <1>3, <1>t DEF RingInv
<1>5. PICK q : /\ q = [tx EXCEPT !.used[tx.head] = FALSE, !.frame[tx.head] = tx.next, !.next = (@ + 1) % FrameNumbers]
               /\ tx' = q
  BY DEF WriteDescriptor
<1>6. q \in TxRing /\ RingOK(q, k + 1, 1, m)
  BY <1>1, <1>4, <1>5, RingWritten
<1>7. tx'.sem = tx.sem
  BY <1>1, <1>5 DEF TxRing
<1>8. Taken' = k + 1 /\ Advancing' = 1
  <2>1. Filling' = 0 /\ Advancing' = 1
    BY <1>2 DEF Filling, Advancing
  <2>2. Taken' = TxDescs - tx'.sem - Filling'
    BY DEF Taken
  <2> QED BY <1>1, <1>3, <1>7, <2>1, <2>2, DescNumbers
<1>9. RingInv'
  <2>1. m \in 0 .. k + 1 /\ RingOK(tx', k + 1, 1, m)
    BY <1>5, <1>6
  <2> QED BY <1>8, <2>1 DEF RingInv
<1>10. FramesCounted' /\ Chains'
  BY <1>t, <1>1, <1>2 DEF FramesCounted, Sending, Chains
<1>11. DriverTypes' /\ DescriptorHeld'
  BY <1>t, <1>1, <1>2, <1>5, <1>6, <1>7, DescNumbers DEF DriverTypes, DescriptorHeld
<1> QED BY <1>9, <1>10, <1>11 DEF DriverInv

LEMMA AfterSendIs ==
  ASSUME ip \in [at : IpPlace, chain : Nat]
  PROVE  AfterSend \in [at : IpPlace, chain : Nat] /\ AfterSend.chain = ip.chain /\ AfterSend.at \in {"frames", "idle"}
         /\ (AfterSend.at = "frames" <=> ip.chain > 0)
  BY DEF AfterSend, IpPlace

LEMMA DriverAdvances == DriverInv /\ AdvanceHead => DriverInv'
<1> SUFFICES ASSUME DriverInv, AdvanceHead PROVE DriverInv'
  OBVIOUS
<1>t. DriverTypes /\ DescriptorHeld /\ Chains /\ RingInv /\ FramesCounted
  BY DEF DriverInv
<1>1. /\ ip.at = "advance" /\ ip' = AfterSend /\ freeBuffers' = freeBuffers + 1 /\ UNCHANGED <<emac, isr_events, queued>>
      /\ tx \in TxRing /\ tx.sem \in 0 .. TxDescs - 1
  BY <1>t, DescNumbers DEF AdvanceHead, DriverTypes, TxRing, DescriptorHeld
<1>2. ip'.at \in {"frames", "idle"} /\ ip'.chain = ip.chain /\ ip' \in [at : IpPlace, chain : Nat]
      /\ (ip'.at = "frames" <=> ip'.chain > 0)
  BY <1>1, <1>t, AfterSendIs DEF DriverTypes
<1>3. PICK k \in 1 .. TxDescs : k = Taken /\ k = TxDescs - tx.sem /\ Advancing = 1
  <2>1. Taken = (TxDescs - tx.sem) - 0 /\ Advancing = 1
    BY <1>1 DEF Taken, Filling, Advancing
  <2> QED BY <1>1, <2>1, DescNumbers
<1>4. PICK m \in 0 .. k : RingOK(tx, k, 1, m)
  BY <1>3, <1>t DEF RingInv
<1>5. PICK q : q = [tx EXCEPT !.head = TxNext(@)] /\ tx' = q
  BY DEF AdvanceHead
<1>6. q \in TxRing /\ RingOK(q, k, 0, m)
  BY <1>1, <1>4, <1>5, RingAdvanced
<1>7. tx'.sem = tx.sem
  BY <1>1, <1>5 DEF TxRing
<1>8. Taken' = k /\ Advancing' = 0
  <2>1. Filling' = 0 /\ Advancing' = 0
    BY <1>2 DEF Filling, Advancing
  <2>2. Taken' = TxDescs - tx'.sem - Filling'
    BY DEF Taken
  <2> QED BY <1>1, <1>3, <1>7, <2>1, <2>2, DescNumbers
<1>9. RingInv'
  BY <1>4, <1>5, <1>6, <1>8 DEF RingInv
<1>10. FramesCounted'
  <2>1. Sending = 1 /\ Sending' = 0
    BY <1>1, <1>2 DEF Sending
  <2>2. PICK e \in Int : e = SumFunction(queued)
    BY <1>t, QueuedSum DEF DriverTypes
  <2>3. freeBuffers \in Int /\ emac.ethMsg \in Int /\ ip.chain \in Int /\ RxDescs \in Int /\ NetBuffers \in Int
    BY <1>t, EmacAssumption DEF DriverTypes
  <2>4. freeBuffers + RxDescs + emac.ethMsg + e + ip.chain + 1 = NetBuffers
    BY <1>t, <2>1, <2>2 DEF FramesCounted
  <2>5. freeBuffers' + RxDescs + emac'.ethMsg + e + ip'.chain + 0 = NetBuffers
    BY <1>1, <1>2, <2>3, <2>4
  <2> QED BY <1>1, <2>1, <2>2, <2>5 DEF FramesCounted
<1>11. DriverTypes' /\ DescriptorHeld'
  BY <1>t, <1>1, <1>2, <1>5, <1>6 DEF DriverTypes, DescriptorHeld
<1>12. Chains'
  BY <1>t, <1>1, <1>2 DEF Chains, DriverTypes
<1> QED BY <1>9, <1>10, <1>11, <1>12 DEF DriverInv

(* The steps that leave the ring alone.                                    *)
LEMMA RingStays ==
  ASSUME DriverInv, UNCHANGED tx, UNCHANGED ip \/ (ip.at \notin {"write", "advance"} /\ ip'.at \notin {"write", "advance"})
  PROVE  RingInv' /\ DescriptorHeld'
<1>1. Filling' = Filling /\ Advancing' = Advancing
  BY DEF Filling, Advancing
<1>2. RingInv /\ DescriptorHeld
  BY DEF DriverInv
<1> QED BY <1>1, <1>2, RingUntouched DEF DescriptorHeld

LEMMA MacKeepsDriver == DriverInv /\ FrameReceived => DriverInv'
<1> SUFFICES ASSUME DriverInv, FrameReceived PROVE DriverInv'
  OBVIOUS
<1>1. UNCHANGED <<tx, ip, emac, freeBuffers, queued>> /\ isr_events' = isr_events \cup {"rx"}
  BY DEF FrameReceived
<1>2. DriverTypes /\ Chains /\ FramesCounted
  BY DEF DriverInv
<1>3. DriverTypes'
  BY <1>1, <1>2 DEF DriverTypes
<1>4. FramesCounted' /\ Chains'
  BY <1>1, <1>2 DEF FramesCounted, Sending, Chains
<1> QED BY <1>1, <1>3, <1>4, RingStays DEF DriverInv

(* The steps of the EMAC task.                                             *)
EmacMoves ==
  \/ EmacWakes
  \/ TestEvent("rx", "rxTest", "rxClear", "txTest") \/ ClearEvent("rx", "rxClear", "rx")
  \/ ResetFlags \/ NoMoreFrames
  \/ TestEvent("tx", "txTest", "txClear", "phy") \/ ClearEvent("tx", "txClear", "tx")
  \/ CheckLink

EmacRecord == [at : EmacPlace, read : SUBSET {"rx", "tx"}, ethMsg : Nat]

LEMMA EmacGoes ==
  ASSUME NEW e \in EmacRecord, NEW l \in EmacPlace, NEW b \in SUBSET {"rx", "tx"}
  PROVE  /\ [e EXCEPT !.at = l] \in EmacRecord /\ [e EXCEPT !.at = l].ethMsg = e.ethMsg
         /\ [e EXCEPT !.at = l, !.read = b] \in EmacRecord /\ [e EXCEPT !.at = l, !.read = b].ethMsg = e.ethMsg
  BY DEF EmacRecord

LEMMA EmacMovesIs ==
  ASSUME DriverInv, EmacMoves
  PROVE  /\ UNCHANGED <<tx, ip, freeBuffers, queued>> /\ isr_events' \in SUBSET {"rx", "tx"}
         /\ emac' \in EmacRecord /\ emac'.ethMsg = emac.ethMsg /\ (emac'.at = "pass" => emac'.ethMsg > 0)
<1>1. emac \in EmacRecord /\ isr_events \in SUBSET {"rx", "tx"} /\ emac.read \in SUBSET {"rx", "tx"}
  BY DEF DriverInv, DriverTypes, EmacRecord
<1>2. UNCHANGED <<tx, ip, freeBuffers, queued>>
  BY DEF EmacMoves, EmacWakes, TestEvent, ClearEvent, ResetFlags, NoMoreFrames, CheckLink
<1>3. isr_events' \in SUBSET {"rx", "tx"}
  BY <1>1 DEF EmacMoves, EmacWakes, TestEvent, ClearEvent, ResetFlags, NoMoreFrames, CheckLink
<1>4. \/ \E l \in EmacPlace : emac' = [emac EXCEPT !.at = l]
      \/ \E l \in EmacPlace : \E b \in SUBSET {"rx", "tx"} : emac' = [emac EXCEPT !.at = l, !.read = b]
  <2>1. CASE EmacWakes \/ ResetFlags \/ NoMoreFrames \/ CheckLink
    BY <2>1 DEF EmacWakes, ResetFlags, NoMoreFrames, CheckLink, Go, EmacPlace
  <2>2. ASSUME NEW e \in {"rx", "tx"}, NEW p \in EmacPlace, NEW c \in EmacPlace, NEW n \in EmacPlace, TestEvent(e, p, c, n)
        PROVE  \E l \in EmacPlace : \E b \in SUBSET {"rx", "tx"} : emac' = [emac EXCEPT !.at = l, !.read = b]
    BY <1>1, <2>2 DEF TestEvent
  <2>3. ASSUME NEW e \in {"rx", "tx"}, NEW p \in EmacPlace, NEW c \in EmacPlace, ClearEvent(e, p, c)
        PROVE  \E l \in EmacPlace : \E b \in SUBSET {"rx", "tx"} : emac' = [emac EXCEPT !.at = l, !.read = b]
    BY <2>3 DEF ClearEvent
  <2>4. {"rx", "tx", "rxTest", "rxClear", "txTest", "txClear", "phy"} \subseteq EmacPlace /\ "rx" \in {"rx", "tx"} /\ "tx" \in {"rx", "tx"}
    BY DEF EmacPlace
  <2>5. TestEvent("rx", "rxTest", "rxClear", "txTest") => \E l \in EmacPlace : \E b \in SUBSET {"rx", "tx"} : emac' = [emac EXCEPT !.at = l, !.read = b]
    BY <2>2, <2>4
  <2>6. TestEvent("tx", "txTest", "txClear", "phy") => \E l \in EmacPlace : \E b \in SUBSET {"rx", "tx"} : emac' = [emac EXCEPT !.at = l, !.read = b]
    BY <2>2, <2>4
  <2>7. ClearEvent("rx", "rxClear", "rx") => \E l \in EmacPlace : \E b \in SUBSET {"rx", "tx"} : emac' = [emac EXCEPT !.at = l, !.read = b]
    BY <2>3, <2>4
  <2>8. ClearEvent("tx", "txClear", "tx") => \E l \in EmacPlace : \E b \in SUBSET {"rx", "tx"} : emac' = [emac EXCEPT !.at = l, !.read = b]
    BY <2>3, <2>4
  <2> QED BY <2>1, <2>5, <2>6, <2>7, <2>8 DEF EmacMoves
<1>5. emac' \in EmacRecord /\ emac'.ethMsg = emac.ethMsg
  <2>1. CASE \E l \in EmacPlace : emac' = [emac EXCEPT !.at = l]
    <3>1. PICK l \in EmacPlace : emac' = [emac EXCEPT !.at = l]
      BY <2>1
    <3> QED BY <1>1, <3>1, EmacGoes
  <2>2. CASE \E l \in EmacPlace : \E b \in SUBSET {"rx", "tx"} : emac' = [emac EXCEPT !.at = l, !.read = b]
    <3>1. PICK l \in EmacPlace, b \in SUBSET {"rx", "tx"} : emac' = [emac EXCEPT !.at = l, !.read = b]
      BY <2>2
    <3> QED BY <1>1, <3>1, EmacGoes
  <2> QED BY <1>4, <2>1, <2>2
<1>6. emac'.at = "pass" => emac'.ethMsg > 0
  <2> SUFFICES ASSUME emac'.at = "pass" PROVE emac.ethMsg > 0
    BY <1>5
  <2>1. NoMoreFrames
    BY <1>1 DEF EmacMoves, EmacWakes, TestEvent, ClearEvent, ResetFlags, CheckLink, Go, EmacRecord
  <2> QED BY <1>1, <2>1 DEF NoMoreFrames, Go, EmacRecord
<1> QED BY <1>2, <1>3, <1>5, <1>6

LEMMA EmacMovesKeep == DriverInv /\ EmacMoves => DriverInv'
<1> SUFFICES ASSUME DriverInv, EmacMoves PROVE DriverInv'
  OBVIOUS
<1>1. /\ UNCHANGED <<tx, ip, freeBuffers, queued>> /\ isr_events' \in SUBSET {"rx", "tx"}
      /\ emac' \in EmacRecord /\ emac'.ethMsg = emac.ethMsg /\ (emac'.at = "pass" => emac'.ethMsg > 0)
  BY EmacMovesIs
<1>2. DriverTypes /\ Chains /\ FramesCounted
  BY DEF DriverInv
<1>3. DriverTypes'
  BY <1>1, <1>2 DEF DriverTypes, EmacRecord
<1>4. FramesCounted' /\ Chains'
  BY <1>1, <1>2 DEF FramesCounted, Sending, Chains
<1> QED BY <1>1, <1>3, <1>4, RingStays DEF DriverInv

(* The numbers of the equation.                                            *)
LEMMA FramesAre ==
  ASSUME DriverInv
  PROVE  /\ freeBuffers \in Int /\ emac.ethMsg \in Int /\ ip.chain \in Int /\ RxDescs \in Int /\ NetBuffers \in Int
         /\ SumFunction(queued) \in Int /\ Sending \in 0 .. 1
  BY EmacAssumption, QueuedSum DEF DriverInv, DriverTypes, Sending

LEMMA FramesMove ==
  ASSUME DriverInv,
         NEW b \in Int, NEW e \in Int, NEW s \in Int, NEW c \in Int, NEW o \in Int,
         freeBuffers' = freeBuffers + b, emac'.ethMsg = emac.ethMsg + e,
         SumFunction(queued') = SumFunction(queued) + s, ip'.chain = ip.chain + c, Sending' = Sending + o,
         b + e + s + c + o = 0
  PROVE  FramesCounted'
<1>1. PICK f \in Int, m \in Int, n \in Int, h \in Int, g \in Int :
        f = freeBuffers /\ m = emac.ethMsg /\ n = SumFunction(queued) /\ h = ip.chain /\ g = Sending
  <2>1. Sending \in Int
    BY FramesAre
  <2> QED BY <2>1, FramesAre
<1>2. f + RxDescs + m + n + h + g = NetBuffers
  BY <1>1 DEF DriverInv, FramesCounted
<1>3. (f + b) + RxDescs + (m + e) + (n + s) + (h + c) + (g + o) = NetBuffers
  BY <1>2, FramesAre
<1>4. freeBuffers' + RxDescs + emac'.ethMsg + SumFunction(queued') + ip'.chain + Sending' = NetBuffers
  BY <1>1, <1>3
<1> QED BY <1>4 DEF FramesCounted

LEMMA EmacHandsOver == DriverInv /\ (TakeFrame \/ PassFrames \/ PassTimesOut) => DriverInv'
<1> SUFFICES ASSUME DriverInv, TakeFrame \/ PassFrames \/ PassTimesOut PROVE DriverInv'
  OBVIOUS
<1>t. DriverTypes /\ Chains /\ FramesCounted /\ emac \in EmacRecord /\ emac.ethMsg \in Nat /\ freeBuffers \in Int
  BY DEF DriverInv, DriverTypes, EmacRecord
<1>1. UNCHANGED <<tx, ip, isr_events>> /\ Sending' = Sending + 0 /\ ip'.chain = ip.chain + 0
  <2>1. UNCHANGED <<tx, ip, isr_events>>
    BY DEF TakeFrame, PassFrames, PassTimesOut
  <2> QED BY <2>1, FramesAre DEF Sending
<1>a. ASSUME emac'.at # "pass" PROVE Chains'
  BY <1>t, <1>1, <1>a DEF Chains
<1>2. CASE TakeFrame
  <2>1. UNCHANGED queued /\ SumFunction(queued') = SumFunction(queued) + 0
    BY <1>2, FramesAre DEF TakeFrame
  <2>2. CASE freeBuffers > 0
    <3>1. freeBuffers' = freeBuffers + (-1) /\ emac' = [emac EXCEPT !.at = "rxFlags", !.ethMsg = @ + 1]
      BY <1>2, <1>t, <2>2 DEF TakeFrame
    <3>2. emac'.ethMsg = emac.ethMsg + 1 /\ emac' \in EmacRecord /\ emac'.at # "pass"
      <4>1. PICK n \in Nat : n = emac.ethMsg + 1
        BY <1>t
      <4>2. emac' = [emac EXCEPT !.at = "rxFlags", !.ethMsg = n] /\ "rxFlags" \in EmacPlace
        BY <1>t, <3>1, <4>1 DEF EmacRecord, EmacPlace
      <4> QED BY <1>t, <4>1, <4>2 DEF EmacRecord
    <3>3. FramesCounted'
      BY <1>1, <2>1, <3>1, <3>2, FramesMove
    <3>4. DriverTypes'
      BY <1>t, <1>1, <2>1, <3>1, <3>2 DEF DriverTypes, EmacRecord
    <3> QED BY <1>1, <1>2, <1>a, <3>2, <3>3, <3>4, RingStays DEF DriverInv
  <2>3. CASE ~(freeBuffers > 0)
    <3>1. freeBuffers' = freeBuffers /\ emac' = [emac EXCEPT !.at = "rxFlags", !.ethMsg = @]
      BY <1>2, <1>t, <2>3 DEF TakeFrame
    <3>2. emac'.ethMsg = emac.ethMsg /\ emac' \in EmacRecord /\ emac'.at # "pass"
      BY <1>t, <3>1 DEF EmacRecord, EmacPlace
    <3>3. FramesCounted'
      BY <1>t, <1>1, <2>1, <3>1, <3>2 DEF FramesCounted, Sending
    <3>4. DriverTypes'
      BY <1>t, <1>1, <2>1, <3>1, <3>2 DEF DriverTypes, EmacRecord
    <3> QED BY <1>1, <1>2, <1>a, <3>2, <3>3, <3>4, RingStays DEF DriverInv
  <2> QED BY <2>2, <2>3
<1>3. CASE PassFrames
  <2>1. queued' = Append(queued, emac.ethMsg) /\ UNCHANGED freeBuffers /\ emac' = [emac EXCEPT !.at = "txTest", !.ethMsg = 0]
    BY <1>3 DEF PassFrames
  <2>2. PICK e \in Nat : e = emac.ethMsg
    BY <1>t
  <2>a. e \in Int
    OBVIOUS
  <2>3. SumFunction(queued') = SumFunction(queued) + e /\ queued' \in Seq(Nat \ {0})
    <3>1. queued \in Seq(Nat \ {0}) /\ queued \in Seq(Int) /\ e \in Nat \ {0}
      BY <1>t, <1>3, <2>2, QueuedSum DEF DriverTypes, PassFrames, Chains
    <3> QED BY <2>1, <2>2, <2>a, <3>1, SumAppend, AppendProperties
  <2>4. emac'.ethMsg = 0 /\ emac' \in EmacRecord /\ emac'.at # "pass"
    <3>1. "txTest" \in EmacPlace /\ 0 \in Nat
      BY DEF EmacPlace
    <3> QED BY <1>t, <2>1, <3>1 DEF EmacRecord
  <2>5. -e \in Int /\ 0 \in Int /\ emac'.ethMsg = emac.ethMsg + (-e) /\ freeBuffers' = freeBuffers + 0 /\ 0 + (-e) + e + 0 + 0 = 0
    BY <1>t, <2>1, <2>2, <2>4
  <2>6. FramesCounted'
    BY <1>1, <2>a, <2>3, <2>5, FramesMove
  <2>7. DriverTypes'
    BY <1>t, <1>1, <2>1, <2>3, <2>4 DEF DriverTypes, EmacRecord
  <2> QED BY <1>1, <2>6, <2>7, <1>a, <2>4, RingStays DEF DriverInv
<1>4. CASE PassTimesOut
  <2>1. UNCHANGED queued /\ freeBuffers' = freeBuffers + emac.ethMsg /\ emac' = [emac EXCEPT !.at = "txTest", !.ethMsg = 0]
    BY <1>4 DEF PassTimesOut
  <2>2. PICK e \in Nat : e = emac.ethMsg
    BY <1>t
  <2>a. e \in Int
    OBVIOUS
  <2>3. SumFunction(queued') = SumFunction(queued) + 0
    BY <2>1, FramesAre
  <2>4. emac'.ethMsg = 0 /\ emac' \in EmacRecord /\ emac'.at # "pass"
    <3>1. "txTest" \in EmacPlace /\ 0 \in Nat
      BY DEF EmacPlace
    <3> QED BY <1>t, <2>1, <3>1 DEF EmacRecord
  <2>5. -e \in Int /\ 0 \in Int /\ emac'.ethMsg = emac.ethMsg + (-e) /\ freeBuffers' = freeBuffers + e /\ e + (-e) + 0 + 0 + 0 = 0
    BY <1>t, <2>1, <2>2, <2>4
  <2>6. FramesCounted'
    BY <1>1, <2>a, <2>3, <2>5, FramesMove
  <2>7. DriverTypes'
    BY <1>t, <1>1, <2>1, <2>2, <2>4 DEF DriverTypes, EmacRecord
  <2> QED BY <1>1, <2>6, <2>7, <1>a, <2>4, RingStays DEF DriverInv
<1> QED BY <1>2, <1>3, <1>4

IpRecord == [at : IpPlace, chain : Nat]

LEMMA IpHandles == DriverInv /\ (TakeChain \/ ReleaseFrame \/ Reply \/ SendOwn \/ SendTimesOut) => DriverInv'
<1> SUFFICES ASSUME DriverInv, TakeChain \/ ReleaseFrame \/ Reply \/ SendOwn \/ SendTimesOut PROVE DriverInv'
  OBVIOUS
<1>t. DriverTypes /\ Chains /\ FramesCounted /\ ip \in IpRecord /\ ip.chain \in Nat /\ freeBuffers \in Int /\ queued \in Seq(Nat \ {0})
  BY DEF DriverInv, DriverTypes, IpRecord
<1>1. UNCHANGED <<tx, emac, isr_events>> /\ emac'.ethMsg = emac.ethMsg + 0
  BY FramesAre DEF TakeChain, ReleaseFrame, Reply, SendOwn, SendTimesOut
<1>2. ASSUME ip' \in IpRecord, freeBuffers' \in Int, queued' \in Seq(Nat \ {0}), FramesCounted',
             ip.at \notin {"write", "advance"} /\ ip'.at \notin {"write", "advance"},
             ip'.at = "idle" => ip'.chain = 0, ip'.at = "frames" => ip'.chain > 0
      PROVE  DriverInv'
  <2>1. DriverTypes'
    BY <1>t, <1>1, <1>2 DEF DriverTypes, IpRecord
  <2>2. Chains'
    BY <1>t, <1>1, <1>2 DEF Chains
  <2> QED BY <1>1, <1>2, <2>1, <2>2, RingStays DEF DriverInv
<1>3. CASE TakeChain
  <2>1. ip.at = "idle" /\ queued # <<>> /\ ip' = [at |-> "frames", chain |-> Head(queued)] /\ queued' = Tail(queued) /\ UNCHANGED freeBuffers
    BY <1>3 DEF TakeChain
  <2>2. Head(queued) \in Nat \ {0} /\ Tail(queued) \in Seq(Nat \ {0}) /\ SumFunction(queued) = Head(queued) + SumFunction(Tail(queued))
    BY <1>t, <2>1, HeadTailProperties, QueuedSum, SumTail
  <2>3. ip' \in IpRecord /\ ip'.at = "frames" /\ ip'.chain = Head(queued) /\ Sending = 0 /\ Sending' = 0
    BY <2>1, <2>2 DEF IpRecord, IpPlace, Sending
  <2>a. Head(queued) \in Int /\ SumFunction(Tail(queued)) \in Int
    <3>1. Head(queued) \in Int
      BY <2>2
    <3>2. PICK r \in Seq(Nat \ {0}) : r = Tail(queued)
      BY <2>2
    <3>3. SumFunction(r) \in Int
      BY QueuedSum
    <3> QED BY <3>1, <3>2, <3>3
  <2>4. PICK h \in Int, n \in Int : h = Head(queued) /\ n = SumFunction(Tail(queued))
    BY <2>a
  <2>5. SumFunction(queued') = SumFunction(queued) + (-h)
    BY <2>1, <2>2, <2>4
  <2>6. ip'.chain = ip.chain + h
    BY <1>t, <2>1, <2>3, <2>4 DEF Chains
  <2>7. freeBuffers' = freeBuffers + 0 /\ Sending' = Sending + 0 /\ 0 + 0 + (-h) + h + 0 = 0 /\ -h \in Int /\ 0 \in Int
    BY <1>t, <2>1, <2>3
  <2>8. FramesCounted'
    BY <1>1, <2>5, <2>6, <2>7, FramesMove
  <2>9. ip'.chain > 0
    BY <2>2, <2>3
  <2> QED BY <1>2, <1>t, <2>1, <2>2, <2>3, <2>8, <2>9
<1>4. CASE ReleaseFrame
  <2>1. ip.at = "frames" /\ freeBuffers' = freeBuffers + 1 /\ UNCHANGED queued
        /\ ip' = [at |-> IF ip.chain = 1 THEN "idle" ELSE "frames", chain |-> ip.chain - 1]
    BY <1>4 DEF ReleaseFrame
  <2>n. PICK n \in Nat : n = ip.chain - 1 /\ (ip.chain = 1 <=> n = 0)
    BY <1>4, <1>t DEF ReleaseFrame
  <2>2. ip' \in IpRecord /\ ip'.at \in {"idle", "frames"} /\ ip'.chain = ip.chain + (-1)
        /\ (ip'.at = "idle" <=> ip'.chain = 0)
    BY <1>t, <2>1, <2>n DEF IpRecord, IpPlace
  <2>p. ip'.at = "frames" => ip'.chain > 0
    BY <2>2 DEF IpRecord
  <2>3. Sending' = Sending + 0 /\ SumFunction(queued') = SumFunction(queued) + 0
    BY <2>1, <2>2, FramesAre DEF Sending
  <2>4. FramesCounted'
    BY <1>1, <2>1, <2>2, <2>3, FramesMove
  <2> QED BY <1>2, <1>t, <2>1, <2>2, <2>4, <2>p
<1>5. CASE Reply
  <2>1. ip.at = "frames" /\ UNCHANGED <<freeBuffers, queued>> /\ ip' = [at |-> "take", chain |-> ip.chain - 1]
    BY <1>5 DEF Reply
  <2>n. PICK n \in Nat : n = ip.chain - 1
    BY <1>t, <2>1 DEF Chains
  <2>2. ip' \in IpRecord /\ ip'.at = "take" /\ ip'.chain = ip.chain + (-1)
    BY <1>t, <2>1, <2>n DEF IpRecord, IpPlace
  <2>3. Sending' = Sending + 1 /\ SumFunction(queued') = SumFunction(queued) + 0 /\ freeBuffers' = freeBuffers + 0
    BY <2>1, <2>2, FramesAre DEF Sending
  <2>4. FramesCounted'
    BY <1>1, <2>2, <2>3, FramesMove
  <2> QED BY <1>2, <1>t, <2>1, <2>2, <2>4
<1>6. CASE SendOwn
  <2>1. ip.at = "idle" /\ UNCHANGED queued /\ freeBuffers' = freeBuffers + (-1) /\ ip' = [ip EXCEPT !.at = "take"]
    BY <1>t, <1>6 DEF SendOwn, IpGoes
  <2>2. ip' \in IpRecord /\ ip'.at = "take" /\ ip'.chain = ip.chain + 0
    BY <1>t, <2>1 DEF IpRecord, IpPlace
  <2>3. Sending' = Sending + 1 /\ SumFunction(queued') = SumFunction(queued) + 0
    BY <2>1, <2>2, FramesAre DEF Sending
  <2>4. FramesCounted'
    BY <1>1, <2>1, <2>2, <2>3, FramesMove
  <2> QED BY <1>2, <1>t, <2>1, <2>2, <2>4
<1>7. CASE SendTimesOut
  <2>1. ip.at = "take" /\ UNCHANGED queued /\ freeBuffers' = freeBuffers + 1 /\ ip' = AfterSend
    BY <1>7 DEF SendTimesOut
  <2>2. ip' \in IpRecord /\ ip'.at \in {"frames", "idle"} /\ ip'.chain = ip.chain + 0
        /\ (ip'.at = "frames" <=> ip'.chain > 0)
    BY <1>t, <2>1, AfterSendIs DEF IpRecord
  <2>p. ip'.at = "idle" => ip'.chain = 0
    BY <2>2 DEF IpRecord
  <2>3. Sending' = Sending + (-1) /\ SumFunction(queued') = SumFunction(queued) + 0
    BY <2>1, <2>2, FramesAre DEF Sending
  <2>4. FramesCounted'
    BY <1>1, <2>1, <2>2, <2>3, FramesMove
  <2> QED BY <1>2, <1>t, <2>1, <2>2, <2>4, <2>p
<1> QED BY <1>3, <1>4, <1>5, <1>6, <1>7

LEMMA DriverNext == DriverInv /\ [EmacNext]_emacVars => DriverInv'
<1> SUFFICES ASSUME DriverInv, [EmacNext]_emacVars PROVE DriverInv'
  OBVIOUS
<1>1. CASE FrameReceived \/ FrameSent
  BY <1>1, MacKeepsDriver, DriverFrameSent
<1>2. CASE EmacStep
  <2>1. EmacMoves \/ TakeFrame \/ PassFrames \/ PassTimesOut \/ CheckTx
    BY <1>2 DEF EmacStep, EmacMoves
  <2> QED BY <2>1, EmacMovesKeep, EmacHandsOver, DriverReclaims
<1>3. CASE IpStep
  BY <1>3, IpHandles, DriverTakes, DriverWrites, DriverAdvances DEF IpStep
<1>4. CASE UNCHANGED emacVars
  <2>1. UNCHANGED <<tx, ip, emac, isr_events, freeBuffers, queued>>
    BY <1>4 DEF emacVars
  <2>2. DriverTypes /\ Chains /\ FramesCounted
    BY DEF DriverInv
  <2>3. DriverTypes' /\ Chains' /\ FramesCounted'
    BY <2>1, <2>2 DEF DriverTypes, Chains, FramesCounted, Sending
  <2> QED BY <2>1, <2>3, RingStays DEF DriverInv
<1> QED BY <1>1, <1>2, <1>3, <1>4 DEF EmacNext

(* What the invariant says, with the operators of the property.            *)
LEMMA NumberedIs ==
  ASSUME NEW n \in 0 .. FrameNumbers - 1, NEW k \in 0 .. TxDescs, NEW i \in 0 .. k - 1
  PROVE  (n + FrameNumbers - k + i) % FrameNumbers = Numbered(n, k - i)
<1>1. PICK w \in Nat : w = n + FrameNumbers - k + i /\ w < 2 * FrameNumbers
  BY DescNumbers
<1>2. (w % FrameNumbers) = IF w < FrameNumbers THEN w ELSE w - FrameNumbers
  <2>1. FrameNumbers \in Nat \ {0}
    BY DescNumbers
  <2> QED BY <1>1, <2>1, TurnedOnce
<1>3. Numbered(n, k - i) = IF w < FrameNumbers THEN w ELSE w - FrameNumbers
  BY <1>1, DescNumbers DEF Numbered
<1> QED BY <1>1, <1>2, <1>3

LEMMA FirstCounted ==
  ASSUME NEW m \in Nat
  PROVE  Cardinality(0 .. m - 1) = m
<1>1. 0 \in Int /\ m - 1 \in Int
  OBVIOUS
<1>2. Cardinality(0 .. m - 1) = IF 0 > m - 1 THEN 0 ELSE (m - 1) - 0 + 1
  BY <1>1, FS_Interval
<1> QED BY <1>2

LEMMA DriverInStep == DriverInv => DescriptorsInStep
<1> SUFFICES ASSUME DriverInv PROVE DescriptorsInStep
  OBVIOUS
<1>1. PICK k \in 0 .. TxDescs, a \in 0 .. 1 : k = Taken /\ a = Advancing /\ a <= k
  BY TakenIs DEF DriverInv
<1>2. PICK m \in 0 .. k : RingOK(tx, k, a, m)
  BY <1>1 DEF DriverInv, RingInv
<1>3. tx.tail \in Spots /\ tx.next \in 0 .. FrameNumbers - 1
  BY DEF DriverInv, DriverTypes, TxRing
<1>4. \A i \in 0 .. TxDescs : TxAt(i) = Spot(tx.tail, i)
  BY <1>3, SpotIs DEF TxAt
<1>5. tx.head = (tx.tail + k - a) % TxDescs
  <2>1. k - a \in 0 .. TxDescs /\ tx.tail + k - a = tx.tail + (k - a)
    BY <1>1, <1>3, DescNumbers DEF Spots
  <2>2. (tx.tail + (k - a)) % TxDescs = Spot(tx.tail, k - a)
    BY <1>3, <2>1, SpotIs
  <2> QED BY <1>2, <2>1, <2>2 DEF RingOK
<1>6. \A i \in 0 .. k - 1 : tx.frame[TxAt(i)] = (tx.next + FrameNumbers - k + i) % FrameNumbers
  <2> TAKE i \in 0 .. k - 1
  <2>1. i \in Spots /\ i < k /\ i \in 0 .. TxDescs
    BY <1>1, DescNumbers DEF Spots
  <2>2. tx.frame[Spot(tx.tail, i)] = Numbered(tx.next, k - i)
    BY <1>2, <2>1 DEF RingOK
  <2>3. (tx.next + FrameNumbers - k + i) % FrameNumbers = Numbered(tx.next, k - i)
    BY <1>3, NumberedIs
  <2> QED BY <1>4, <2>1, <2>2, <2>3
<1>7. {i \in 0 .. k - 1 : tx.used[TxAt(i)]} = 0 .. m - 1
  <2>1. ASSUME NEW i \in 0 .. k - 1 PROVE tx.used[TxAt(i)] <=> i < m
    <3>1. i \in Spots /\ i < k /\ i \in 0 .. TxDescs
      BY <1>1, DescNumbers DEF Spots
    <3>2. tx.used[Spot(tx.tail, i)] = (i < m \/ k <= i)
      BY <1>2, <3>1 DEF RingOK
    <3>3. ~(k <= i)
      BY <3>1
    <3> QED BY <1>4, <3>1, <3>2, <3>3
  <2>2. \A i \in 0 .. m - 1 : i \in 0 .. k - 1
    OBVIOUS
  <2>3. \A i \in 0 .. k - 1 : i < m <=> i \in 0 .. m - 1
    OBVIOUS
  <2> QED BY <2>1, <2>2, <2>3
<1>8. Cardinality(0 .. m - 1) = m
  BY FirstCounted
<1>9. tx.dma = TxAt(m)
  <2>1. m \in 0 .. TxDescs
    BY DescNumbers
  <2> QED BY <1>2, <1>4, <2>1 DEF RingOK
<1>10. \A i \in k .. TxDescs - 1 : tx.used[TxAt(i)]
  <2> TAKE i \in k .. TxDescs - 1
  <2>1. i \in Spots /\ k <= i /\ i \in 0 .. TxDescs
    BY DescNumbers DEF Spots
  <2>2. tx.used[Spot(tx.tail, i)] = (i < m \/ k <= i)
    BY <1>2, <2>1 DEF RingOK
  <2> QED BY <1>4, <2>1, <2>2
<1>11. freeBuffers + RxDescs + emac.ethMsg + SumFunction(queued) + ip.chain
         + (IF ip.at \in {"take", "write", "advance"} THEN 1 ELSE 0) = NetBuffers
  BY DEF DriverInv, FramesCounted, Sending
<1> DEFINE sent == {i \in 0 .. k - 1 : tx.used[TxAt(i)]}
<1>12. sent = 0 .. Cardinality(sent) - 1 /\ tx.dma = TxAt(Cardinality(sent))
  BY <1>7, <1>8, <1>9
<1>13. a = IF ip.at = "advance" THEN 1 ELSE 0
  BY <1>1 DEF Advancing
<1> QED BY <1>1, <1>5, <1>6, <1>10, <1>11, <1>12, <1>13 DEF DescriptorsInStep

(* The two tasks and the MAC hand the transmit descriptors round without a *)
(* lock: frames are sent in order, once each, none is taken back too early *)
(* and no buffer is lost (emacps_check_tx, emacps_send_message,            *)
(* emacps_check_rx, passEthMessages).                                      *)
THEOREM DescriptorsStayInStep == EmacSpec => []DescriptorsInStep
<1> QED BY DriverInit, DriverNext, DriverInStep, PTL DEF EmacSpec

(***************************************************************************)
(* NameService: the addresses of names.                                    *)
(***************************************************************************)
CacheRows == 0 .. CacheEntries - 1

CacheRow == [name : HostNames \cup {NoName}, address : HostAddresses \cup {NoHost}, ttl : Nat, added : Nat]

LookingUp == {"find", "check", "take"}
Storing == {"store"} \cup FieldNames

ResolverRecord ==
  [at : LookingUp \cup Storing \cup {"idle", "ask", "send", "wait", "advance", "wrap", "return"},
   name : HostNames \cup {NoName}, id : Identifiers \cup {0}, asked : BOOLEAN, attempt : Nat, now : Nat,
   row : Nat, new : BOOLEAN, fresh : BOOLEAN, address : HostAddresses \cup {NoHost}, ttl : Nat]

NameTypeOK ==
  /\ xDNSCache \in [0 .. CacheEntries -> CacheRow] /\ xFreeEntry \in 0 .. CacheEntries
  /\ resolver \in ResolverRecord /\ (resolver.at # "idle" => resolver.name \in HostNames)
  /\ inbox \subseteq NameAnswers /\ clock \in 0 .. MaxSeconds
  /\ told \in [HostNames -> [address : HostAddresses \cup {NoHost}, until : Nat]]

(* A row that is valid is what was told last for its name, unless the task *)
(* r is about to overwrite it; what others stored is never valid.          *)
RowOK(row, r) ==
  row.name # NoName /\ row.ttl > 0 /\ ~(r.at \in Storing /\ row.name = r.name) =>
    row.address = told[row.name].address /\ row.added + row.ttl = told[row.name].until

OneRowEach(cache) ==
  \A x, y \in CacheRows : cache[x].name = cache[y].name /\ cache[x].name # NoName => x = y

CacheOK(cache, r, now) ==
  /\ OneRowEach(cache)
  /\ \A x \in CacheRows : RowOK(cache[x], r) /\ cache[x].added <= now
                          /\ (r.at \in LookingUp /\ cache[x].name = r.name => cache[x].added <= r.now)

(* The call of the task: what it read still holds, and what it stores is   *)
(* what it was told.                                                       *)
CallOK(cache, free, r) ==
  /\ r.at # "wrap" => free < CacheEntries
  /\ r.at \in {"check", "take"} => r.row \in CacheRows /\ cache[r.row].name = r.name
  /\ r.at = "take" => Valid(r.now, cache[r.row])
  /\ r.at \in Storing \cup {"advance", "wrap"} =>
       r.fresh /\ told[r.name] = [address |-> r.address, until |-> r.now + r.ttl]
  /\ r.at \in FieldNames => r.row \in CacheRows /\ (r.new => r.row = free)
  /\ r.at = "name" => r.new /\ \A x \in CacheRows : cache[x].name # r.name
  /\ r.at \in {"address", "ttl", "added"} => cache[r.row].name = r.name
  /\ r.at \in {"ttl", "added"} => cache[r.row].address = r.address
  /\ r.at = "added" => cache[r.row].ttl = r.ttl

ReturnOK(r) ==
  r.at = "return" /\ r.address # NoHost =>
    r.address = told[r.name].address /\ (~r.fresh => r.now < told[r.name].until)

NameInv ==
  /\ NameTypeOK /\ CacheOK(xDNSCache, resolver, clock) /\ CallOK(xDNSCache, xFreeEntry, resolver)
  /\ ReturnOK(resolver) /\ resolver.now <= clock

LEMMA SecondsStay ==
  ASSUME MaxSeconds < SecondsRange, NEW now \in Nat, now <= MaxSeconds
  PROVE  now % SecondsRange = now
<1>1. SecondsRange \in Nat /\ SecondsRange > 0 /\ MaxSeconds \in Nat
  BY NameAssumption
<1> QED BY <1>1

LEMMA NameInvInit ==
  ASSUME NameInit
  PROVE  NameInv
<1>1. CacheEntries \in Nat /\ CacheEntries > 0 /\ NoName \notin HostNames /\ MaxSeconds \in Nat
  BY NameAssumption
<1>2. xDNSCache = [x \in 0 .. CacheEntries |-> Unused] /\ xFreeEntry = 0 /\ resolver = NoCall /\ inbox = {} /\ clock = 0
      /\ told = [n \in HostNames |-> [address |-> NoHost, until |-> 0]]
  BY DEF NameInit
<1>3. Unused \in CacheRow /\ NoCall \in ResolverRecord
  BY DEF Unused, NoCall, CacheRow, ResolverRecord
<1>4. NameTypeOK
  <2>1. resolver.at = "idle"
    BY <1>2 DEF NoCall
  <2> QED BY <1>1, <1>2, <1>3, <2>1 DEF NameTypeOK
<1>5. \A x \in CacheRows : xDNSCache[x] = Unused
  BY <1>1, <1>2 DEF CacheRows
<1>6. CacheOK(xDNSCache, resolver, clock)
  <2>1. OneRowEach(xDNSCache)
    BY <1>5 DEF OneRowEach, Unused
  <2>2. resolver.at = "idle"
    BY <1>2 DEF NoCall
  <2>3. ASSUME NEW x \in CacheRows
        PROVE  RowOK(xDNSCache[x], resolver) /\ xDNSCache[x].added <= clock /\ resolver.at \notin LookingUp
    <3>1. xDNSCache[x].name = NoName /\ xDNSCache[x].added = 0
      BY <1>5 DEF Unused
    <3> QED BY <1>2, <2>2, <3>1 DEF RowOK, LookingUp
  <2> QED BY <2>1, <2>3 DEF CacheOK
<1> QED BY <1>1, <1>2, <1>4, <1>6 DEF NameInv, CallOK, ReturnOK, NoCall, Storing, FieldNames

(* The rows of a name are at most one, which is the one that is found.     *)
LEMMA RowFound ==
  ASSUME NameInv, NEW name \in HostNames
  PROVE  /\ RowsOf(name) # {} => Min(RowsOf(name)) \in CacheRows /\ xDNSCache[Min(RowsOf(name))].name = name
         /\ Cardinality(RowsOf(name)) <= 1
         /\ RowsOf(name) = {} => \A x \in CacheRows : xDNSCache[x].name # name
<1>1. name # NoName /\ CacheRows \subseteq Nat
  BY NameAssumption DEF CacheRows
<1>2. \A x \in RowsOf(name) : x \in CacheRows /\ xDNSCache[x].name = name
  BY DEF RowsOf, CacheRows
<1>3. \A x, y \in RowsOf(name) : x = y
  <2>1. OneRowEach(xDNSCache)
    BY DEF NameInv, CacheOK
  <2> QED BY <1>1, <1>2, <2>1 DEF OneRowEach
<1>4. CASE RowsOf(name) = {}
  BY <1>4, FS_EmptySet DEF RowsOf, CacheRows
<1>5. ASSUME NEW x \in RowsOf(name) PROVE Min(RowsOf(name)) = x /\ Cardinality(RowsOf(name)) = 1
  <2>1. RowsOf(name) = {x}
    BY <1>3
  <2>2. x \in Nat
    BY <1>1, <1>2
  <2>3. Min({x}) = x
    BY <2>2 DEF Min
  <2> QED BY <2>1, <2>3, FS_Singleton
<1> QED BY <1>2, <1>4, <1>5

(* The task moves on, and changes neither the cache nor what it was told.  *)
LEMMA CallMoves ==
  ASSUME NameInv, NEW r \in ResolverRecord, resolver' = r, inbox' \subseteq NameAnswers,
         UNCHANGED <<xDNSCache, xFreeEntry, clock, told>>,
         r.at # "idle" => r.name \in HostNames,
         r.now <= clock,
         r.at \in LookingUp => r.now = clock \/ (resolver.at \in LookingUp /\ r.now = resolver.now /\ r.name = resolver.name),
         resolver.at \in Storing => r.name = resolver.name /\ r.at \in Storing,
         CallOK(xDNSCache, xFreeEntry, r), ReturnOK(r)
  PROVE  NameInv'
<1>1. NameTypeOK'
  BY DEF NameInv, NameTypeOK
<1>2. \A x \in CacheRows : xDNSCache[x] \in CacheRow
  BY NameAssumption DEF NameInv, NameTypeOK, CacheRows
<1>3. CacheOK(xDNSCache, r, clock)
  <2>1. CacheOK(xDNSCache, resolver, clock)
    BY DEF NameInv
  <2>2. ASSUME NEW x \in CacheRows 
        PROVE  RowOK(xDNSCache[x], r) /\ (r.at \in LookingUp /\ xDNSCache[x].name = r.name => xDNSCache[x].added <= r.now)
    <3>1. RowOK(xDNSCache[x], resolver) /\ xDNSCache[x].added <= clock
          /\ (resolver.at \in LookingUp /\ xDNSCache[x].name = resolver.name => xDNSCache[x].added <= resolver.now)
      BY <2>1 DEF CacheOK
    <3> QED BY <3>1 DEF RowOK
  <2> QED BY <2>1, <2>2 DEF CacheOK
<1>4. CacheOK(xDNSCache, resolver, clock)' /\ CallOK(xDNSCache, xFreeEntry, resolver)' /\ ReturnOK(resolver)'
  BY <1>3 DEF CacheOK, CallOK, ReturnOK, OneRowEach, RowOK
<1> QED BY <1>1, <1>4 DEF NameInv

LEMMA CallIs ==
  ASSUME NameInv
  PROVE  /\ resolver \in ResolverRecord /\ (resolver.at # "idle" => resolver.name \in HostNames)
         /\ CallOK(xDNSCache, xFreeEntry, resolver) /\ ReturnOK(resolver) /\ resolver.now <= clock
         /\ \A x \in CacheRows : xDNSCache[x] \in CacheRow
  BY NameAssumption DEF NameInv, NameTypeOK, CacheRows

LEMMA FindInv ==
  ASSUME NameInv, Find
  PROVE  NameInv'
<1>1. PICK r : r = resolver'
  OBVIOUS
<1>2. resolver.at = "find" /\ resolver.name \in HostNames
  BY CallIs DEF Find, ResolverAt
<1>3. CASE RowsOf(resolver.name) = {}
  <2>1. r = [resolver EXCEPT !.at = "ask"]
    BY <1>1, <1>3 DEF Find, Goto
  <2>2. r \in ResolverRecord /\ r.at = "ask" /\ r.name = resolver.name /\ r.now = resolver.now
    BY <2>1, CallIs DEF ResolverRecord
  <2>3. CallOK(xDNSCache, xFreeEntry, r) /\ ReturnOK(r)
    BY <1>2, <2>2, CallIs DEF CallOK, ReturnOK, Storing, FieldNames
  <2> QED BY <1>1, <1>2, <2>2, <2>3, CallIs, CallMoves DEF Find, Storing, FieldNames, NameInv, NameTypeOK, LookingUp
<1>4. CASE RowsOf(resolver.name) # {}
  <2>1. PICK x \in CacheRows : x = Min(RowsOf(resolver.name)) /\ xDNSCache[x].name = resolver.name
    BY <1>2, <1>4, RowFound
  <2>2. r = [resolver EXCEPT !.at = "check", !.row = x]
    BY <1>1, <1>2, <1>4, <2>1 DEF Find
  <2>3. x \in Nat
    BY DEF CacheRows
  <2>4. r \in ResolverRecord /\ r.at = "check" /\ r.name = resolver.name /\ r.now = resolver.now /\ r.row = x
    BY <2>2, <2>3, CallIs DEF ResolverRecord, LookingUp
  <2>5. CallOK(xDNSCache, xFreeEntry, r) /\ ReturnOK(r)
    BY <1>2, <2>1, <2>4, CallIs DEF CallOK, ReturnOK, Storing, FieldNames
  <2> QED BY <1>1, <1>2, <2>4, <2>5, CallIs, CallMoves DEF Find, Storing, FieldNames, NameInv, NameTypeOK, LookingUp
<1> QED BY <1>3, <1>4

LEMMA CheckAgeInv ==
  ASSUME MaxSeconds < SecondsRange, NameInv, CheckAge
  PROVE  NameInv'
<1>1. PICK r : r = resolver'
  OBVIOUS
<1>2. resolver.at = "check" /\ resolver.name \in HostNames /\ resolver.row \in CacheRows
  BY CallIs DEF CheckAge, ResolverAt, CallOK
<1>3. CASE Valid(resolver.now, xDNSCache[resolver.row])
  <2>1. r = [resolver EXCEPT !.at = "take"] /\ UNCHANGED xDNSCache
    BY <1>1, <1>3 DEF CheckAge, Goto
  <2>2. r \in ResolverRecord /\ r.at = "take" /\ r.name = resolver.name /\ r.now = resolver.now /\ r.row = resolver.row
    BY <2>1, CallIs DEF ResolverRecord, LookingUp
  <2>3. CallOK(xDNSCache, xFreeEntry, r) /\ ReturnOK(r)
    BY <1>2, <1>3, <2>2, CallIs DEF CallOK, ReturnOK, Storing, FieldNames
  <2> QED BY <1>1, <1>2, <2>1, <2>2, <2>3, CallIs, CallMoves DEF CheckAge, Storing, FieldNames, NameInv, NameTypeOK, LookingUp
<1>4. CASE ~Valid(resolver.now, xDNSCache[resolver.row])
  <2>1. r = [resolver EXCEPT !.at = "ask"]
    BY <1>1, <1>4 DEF CheckAge, Goto
  <2>2. r \in ResolverRecord /\ r.at = "ask" /\ r.name = resolver.name /\ r.now = resolver.now
    BY <2>1, CallIs DEF ResolverRecord
  <2>3. PICK row : row = [xDNSCache[resolver.row] EXCEPT !.name = NoName]
    OBVIOUS
  <2>4. xDNSCache' = [xDNSCache EXCEPT ![resolver.row] = row] /\ UNCHANGED <<xFreeEntry, inbox, clock, told>>
    BY <1>4, <2>3 DEF CheckAge
  <2>5. row \in CacheRow /\ row.name = NoName /\ row.added = xDNSCache[resolver.row].added
    BY <1>2, <2>3, CallIs DEF CacheRow
  <2>6. \A x \in CacheRows : xDNSCache'[x] = IF x = resolver.row THEN row ELSE xDNSCache[x]
    BY <1>2, <2>4, NameAssumption DEF NameInv, NameTypeOK, CacheRows
  <2>7. NameTypeOK'
    BY <1>1, <1>2, <2>2, <2>4, <2>5 DEF NameInv, NameTypeOK, CacheRows
  <2>8. CacheOK(xDNSCache, resolver, clock)
    BY DEF NameInv
  <2>9. CacheOK(xDNSCache', r, clock)
    <3>1. OneRowEach(xDNSCache')
      BY <2>5, <2>6, <2>8 DEF CacheOK, OneRowEach
    <3>2. ASSUME NEW x \in CacheRows PROVE RowOK(xDNSCache'[x], r) /\ xDNSCache'[x].added <= clock
      <4>1. RowOK(xDNSCache[x], resolver) /\ xDNSCache[x].added <= clock
        BY <2>8 DEF CacheOK
      <4> QED BY <1>2, <2>2, <2>5, <2>6, <4>1 DEF RowOK, Storing, FieldNames
    <3> QED BY <2>2, <3>1, <3>2 DEF CacheOK, LookingUp
  <2>10. CallOK(xDNSCache', xFreeEntry, r) /\ ReturnOK(r)
    BY <1>2, <2>2, CallIs DEF CallOK, ReturnOK, Storing, FieldNames
  <2>11. (CacheOK(xDNSCache, resolver, clock) /\ CallOK(xDNSCache, xFreeEntry, resolver) /\ ReturnOK(resolver))'
    BY <1>1, <2>4, <2>9, <2>10 DEF CacheOK, CallOK, ReturnOK, RowOK
  <2> QED BY <1>1, <2>2, <2>4, <2>7, <2>11, CallIs DEF NameInv
<1> QED BY <1>3, <1>4

LEMMA TakeAddressInv ==
  ASSUME MaxSeconds < SecondsRange, NameInv, TakeAddress
  PROVE  NameInv'
<1>1. PICK r : r = resolver'
  OBVIOUS
<1>2. resolver.at = "take" /\ resolver.name \in HostNames
  BY CallIs DEF TakeAddress, ResolverAt
<1>3. PICK row : row = xDNSCache[resolver.row]
  OBVIOUS
<1>4. row \in CacheRow /\ row.name = resolver.name /\ Valid(resolver.now, row)
  BY <1>2, <1>3, CallIs DEF CallOK
<1>5. RowOK(row, resolver) /\ row.added <= resolver.now
  BY <1>2, <1>3, CallIs DEF NameInv, CacheOK, CallOK, LookingUp
<1>6. resolver.now \in Nat /\ resolver.now <= MaxSeconds
  BY CallIs, NameAssumption DEF NameInv, NameTypeOK, ResolverRecord
<1>7. resolver.now < row.added + row.ttl
  BY <1>4, <1>6, SecondsStay DEF Valid
<1>8. row.ttl > 0
  BY <1>4, <1>5, <1>6, <1>7 DEF CacheRow
<1>9. row.address = told[resolver.name].address /\ resolver.now < told[resolver.name].until
  <2>1. row.name # NoName
    BY <1>2, <1>4, NameAssumption
  <2> QED BY <1>2, <1>4, <1>5, <1>7, <1>8, <2>1 DEF RowOK, Storing, FieldNames
<1>10. CASE row.address = NoHost
  <2>1. r = [resolver EXCEPT !.at = "ask"]
    BY <1>1, <1>3, <1>10 DEF TakeAddress, Goto
  <2>2. r \in ResolverRecord /\ r.at = "ask" /\ r.name = resolver.name /\ r.now = resolver.now
    BY <2>1, CallIs DEF ResolverRecord
  <2>3. CallOK(xDNSCache, xFreeEntry, r) /\ ReturnOK(r)
    BY <1>2, <2>2, CallIs DEF CallOK, ReturnOK, Storing, FieldNames
  <2> QED BY <1>1, <1>2, <2>2, <2>3, CallIs, CallMoves DEF TakeAddress, Storing, FieldNames, NameInv, NameTypeOK, LookingUp
<1>11. CASE row.address # NoHost
  <2>1. r = [NoCall EXCEPT !.at = "return", !.name = resolver.name, !.address = row.address,
                           !.now = resolver.now, !.fresh = resolver.fresh]
    BY <1>1, <1>3, <1>11 DEF TakeAddress, Result
  <2>2. r \in ResolverRecord /\ r.at = "return" /\ r.name = resolver.name /\ r.now = resolver.now /\ r.address = row.address
    BY <1>4, <2>1, CallIs DEF ResolverRecord, CacheRow, NoCall
  <2>3. CallOK(xDNSCache, xFreeEntry, r) /\ ReturnOK(r)
    BY <1>2, <1>9, <2>2, CallIs DEF CallOK, ReturnOK, Storing, FieldNames
  <2> QED BY <1>1, <1>2, <2>2, <2>3, CallIs, CallMoves DEF TakeAddress, Storing, FieldNames, NameInv, NameTypeOK, LookingUp
<1> QED BY <1>10, <1>11

(* The task asks, waits or gives up.                                       *)
LEMMA CallAsks ==
  ASSUME NameInv, NEW r \in ResolverRecord, resolver' = r, inbox' \subseteq NameAnswers,
         UNCHANGED <<xDNSCache, xFreeEntry, clock, told>>,
         r.at \in {"idle", "ask", "send", "wait", "return"}, r.at = "return" => r.address = NoHost,
         r.at # "idle" => r.name \in HostNames, r.now <= clock,
         resolver.at \notin Storing \cup {"wrap"}
  PROVE  NameInv'
<1>1. CallOK(xDNSCache, xFreeEntry, r) /\ ReturnOK(r) /\ r.at \notin LookingUp
  BY CallIs DEF CallOK, ReturnOK, Storing, FieldNames, LookingUp
<1> QED BY <1>1, CallMoves

LEMMA NextAttemptInv ==
  ASSUME NameInv, resolver.at \in {"send", "wait"}, NextAttempt, inbox' \subseteq NameAnswers,
         UNCHANGED <<xDNSCache, xFreeEntry, clock, told>>
  PROVE  NameInv'
<1>1. PICK r : r = resolver'
  OBVIOUS
<1>2. CASE r = [resolver EXCEPT !.at = "send", !.attempt = @ + 1]
  <2>0. PICK n \in Nat : n = resolver.attempt + 1
    BY CallIs DEF ResolverRecord
  <2>1. r \in ResolverRecord /\ r.at = "send" /\ r.name = resolver.name /\ r.now = resolver.now
    <3>1. r = [resolver EXCEPT !.at = "send", !.attempt = n]
      BY <1>2, <2>0
    <3> QED BY <3>1, CallIs DEF ResolverRecord
  <2> QED BY <1>1, <2>1, CallIs, CallAsks DEF Storing, FieldNames
<1>3. CASE Result(NoHost)
  <2>1. r = [NoCall EXCEPT !.at = "return", !.name = resolver.name, !.address = NoHost,
                           !.now = resolver.now, !.fresh = resolver.fresh]
    BY <1>1, <1>3 DEF Result
  <2>2. r \in ResolverRecord /\ r.at = "return" /\ r.name = resolver.name /\ r.now = resolver.now /\ r.address = NoHost
    BY <2>1, CallIs DEF ResolverRecord, NoCall
  <2> QED BY <1>1, <2>2, CallIs, CallAsks DEF Storing, FieldNames
<1> QED BY <1>1, <1>2, <1>3 DEF NextAttempt

LEMMA AsksInv ==
  ASSUME NameInv, OpenSocket \/ SendRequest \/ WaitTimesOut \/ ReceiveNothing \/ Return
  PROVE  NameInv'
<1>1. PICK r : r = resolver'
  OBVIOUS
<1>2. inbox \subseteq NameAnswers
  BY DEF NameInv, NameTypeOK
<1>3. CASE OpenSocket
  <2>1. resolver.at = "ask" /\ UNCHANGED <<xDNSCache, xFreeEntry, inbox, clock, told>>
    BY <1>3 DEF OpenSocket, ResolverAt
  <2>2. ASSUME NEW id \in Identifiers, resolver' = [resolver EXCEPT !.at = "send", !.id = id] PROVE NameInv'
    <3>1. r \in ResolverRecord /\ r.at = "send" /\ r.name = resolver.name /\ r.now = resolver.now
      BY <1>1, <2>2, CallIs DEF ResolverRecord
    <3> QED BY <1>1, <1>2, <2>1, <3>1, CallIs, CallAsks DEF Storing, FieldNames
  <2>3. CASE Result(NoHost)
    <3>1. r = [NoCall EXCEPT !.at = "return", !.name = resolver.name, !.address = NoHost,
                             !.now = resolver.now, !.fresh = resolver.fresh]
      BY <1>1, <2>3 DEF Result
    <3>2. r \in ResolverRecord /\ r.at = "return" /\ r.name = resolver.name /\ r.now = resolver.now /\ r.address = NoHost
      BY <3>1, CallIs DEF ResolverRecord, NoCall
    <3> QED BY <1>1, <1>2, <2>1, <3>2, CallIs, CallAsks DEF Storing, FieldNames
  <2> QED BY <1>3, <2>2, <2>3 DEF OpenSocket
<1>4. CASE SendRequest
  <2>1. resolver.at = "send" /\ UNCHANGED <<xDNSCache, xFreeEntry, inbox, clock, told>>
    BY <1>4 DEF SendRequest, ResolverAt
  <2>2. CASE resolver' = [resolver EXCEPT !.at = "wait", !.asked = TRUE]
    <3>1. r \in ResolverRecord /\ r.at = "wait" /\ r.name = resolver.name /\ r.now = resolver.now
      BY <1>1, <2>2, CallIs DEF ResolverRecord
    <3> QED BY <1>1, <1>2, <2>1, <3>1, CallIs, CallAsks DEF Storing, FieldNames
  <2> QED BY <1>2, <1>4, <2>1, <2>2, NextAttemptInv DEF SendRequest
<1>5. CASE WaitTimesOut \/ ReceiveNothing
  BY <1>2, <1>5, NextAttemptInv DEF WaitTimesOut, ReceiveNothing, ResolverAt
<1>6. CASE Return
  <2>1. NoCall \in ResolverRecord /\ NoCall.at = "idle" /\ NoCall.now = 0
    BY DEF NoCall, ResolverRecord
  <2>2. 0 <= clock
    BY NameAssumption DEF NameInv, NameTypeOK
  <2> QED BY <1>6, <2>1, <2>2, CallAsks DEF Return, ResolverAt, Storing, FieldNames
<1> QED BY <1>3, <1>4, <1>5, <1>6

LEMMA GetHostByNameInv ==
  ASSUME NameInv, NEW name \in HostNames, GetHostByName(name)
  PROVE  NameInv'
<1>1. PICK r : r = resolver'
  OBVIOUS
<1>2. clock \in Nat
  BY NameAssumption DEF NameInv, NameTypeOK
<1>3. r \in ResolverRecord /\ r.at = "find" /\ r.name = name /\ r.now = clock
  BY <1>1, <1>2 DEF GetHostByName, NoCall, ResolverRecord, LookingUp
<1>4. resolver.at = "idle" /\ UNCHANGED <<xDNSCache, xFreeEntry, inbox, clock, told>>
  BY DEF GetHostByName, ResolverAt
<1>5. CallOK(xDNSCache, xFreeEntry, r) /\ ReturnOK(r)
  BY <1>3, <1>4, CallIs DEF CallOK, ReturnOK, Storing, FieldNames
<1> QED BY <1>1, <1>2, <1>3, <1>4, <1>5, CallMoves DEF NameInv, NameTypeOK, Storing, FieldNames

(* The world goes on, and changes neither the cache nor the call.          *)
LEMMA WorldInv ==
  ASSUME NameInv, (\E p \in NameAnswers : Answer(p)) \/ (\E protocol \in {"LLMNR", "NBNS"} : QueryAnswered(protocol))
                  \/ SecondPasses \/ UNCHANGED nameVars
  PROVE  NameInv'
<1>1. /\ UNCHANGED <<xDNSCache, xFreeEntry, resolver, told>> /\ inbox' \subseteq NameAnswers
      /\ clock' \in 0 .. MaxSeconds /\ clock <= clock'
  BY NameAssumption DEF Answer, QueryAnswered, SecondPasses, nameVars, NameInv, NameTypeOK
<1>2. NameTypeOK'
  BY <1>1 DEF NameInv, NameTypeOK
<1>3. \A x \in CacheRows : xDNSCache[x].added \in Nat
  BY CallIs DEF CacheRow
<1>4. clock \in Nat /\ clock' \in Nat /\ resolver.now \in Nat
  BY <1>1, CallIs, NameAssumption DEF NameInv, NameTypeOK, ResolverRecord
<1>5. CacheOK(xDNSCache, resolver, clock)'
  BY <1>1, <1>3, <1>4 DEF NameInv, CacheOK, OneRowEach, RowOK
<1>6. CallOK(xDNSCache, xFreeEntry, resolver)' /\ ReturnOK(resolver)'
  BY <1>1 DEF NameInv, CallOK, ReturnOK
<1> QED BY <1>1, <1>2, <1>4, <1>5, <1>6 DEF NameInv

(* What the IP task stores, where the task bears it: rows of other names,  *)
(* whose lifetime is none.                                                 *)
LEMMA NbnsResponseInv ==
  ASSUME MaxSeconds < SecondsRange, NameInv,
         NEW name \in NeighbourNames, NEW address \in HostAddresses, NbnsResponse(name, address), ~Races(name)
  PROVE  NameInv'
<1>1. name \in HostNames /\ name # NoName /\ clock \in Nat /\ clock <= MaxSeconds
  BY NameAssumption DEF NameInv, NameTypeOK
<1>2. UNCHANGED <<resolver, inbox, clock, told>>
  BY DEF NbnsResponse
<1>3. /\ CacheEntries \in Nat /\ CacheEntries > 0 /\ xFreeEntry \in 0 .. CacheEntries
      /\ RowsOf(name) = {} => xFreeEntry \in CacheRows
  <2>1. CacheEntries \in Nat /\ CacheEntries > 0 /\ xFreeEntry \in 0 .. CacheEntries
    BY NameAssumption DEF NameInv, NameTypeOK
  <2>2. resolver.at # "wrap" => xFreeEntry < CacheEntries
    BY CallIs DEF CallOK
  <2>3. RowsOf(name) = {} => ~(resolver.at = "wrap" /\ xFreeEntry = CacheEntries)
    BY DEF Races, ResolverAt
  <2> QED BY <2>1, <2>2, <2>3 DEF CacheRows
<1>4. PICK row : row = Row(name, address, 0, clock)
  OBVIOUS
<1>5. row \in CacheRow /\ row.name = name /\ row.ttl = 0 /\ row.added = clock
  BY <1>1, <1>4, SecondsStay DEF Row, CacheRow
<1>6. PICK x \in CacheRows : /\ xDNSCache' = [xDNSCache EXCEPT ![x] = row] /\ x = StoredRow(name)
                             /\ \A y \in CacheRows : xDNSCache[y].name = name => y = x
  <2>1. PICK x : x = StoredRow(name)
    OBVIOUS
  <2>2. x \in CacheRows
    BY <1>1, <1>3, <2>1, RowFound DEF StoredRow
  <2>3. xDNSCache' = [xDNSCache EXCEPT ![x] = row]
    BY <1>4, <2>1 DEF NbnsResponse, Stored
  <2>4. \A y \in CacheRows : xDNSCache[y].name = name => y = x
    <3>1. OneRowEach(xDNSCache)
      BY DEF NameInv, CacheOK
    <3>2. CASE RowsOf(name) = {}
      BY <1>1, <3>2, RowFound
    <3>3. CASE RowsOf(name) # {}
      BY <1>1, <2>1, <3>1, <3>3, RowFound DEF OneRowEach, StoredRow
    <3> QED BY <3>2, <3>3
  <2> QED BY <2>1, <2>2, <2>3, <2>4
<1>7. /\ xFreeEntry' \in 0 .. CacheEntries /\ (resolver.at # "wrap" => xFreeEntry' < CacheEntries)
      /\ RowsOf(name) # {} => xFreeEntry' = xFreeEntry
  <2>1. resolver.at # "wrap" => xFreeEntry < CacheEntries
    BY CallIs DEF CallOK
  <2> QED BY <1>3, <2>1 DEF NbnsResponse, Stored, CacheRows
<1>8. \A y \in CacheRows : xDNSCache'[y] = IF y = x THEN row ELSE xDNSCache[y]
  BY <1>3, <1>6 DEF NameInv, NameTypeOK, CacheRows
<1>9. NameTypeOK'
  BY <1>2, <1>5, <1>6, <1>7 DEF NameInv, NameTypeOK
<1>10. CacheOK(xDNSCache', resolver, clock)
  <2>1. CacheOK(xDNSCache, resolver, clock)
    BY DEF NameInv
  <2>2. OneRowEach(xDNSCache')
    <3>1. OneRowEach(xDNSCache)
      BY <2>1 DEF CacheOK
    <3>2. ASSUME NEW y \in CacheRows, NEW z \in CacheRows, xDNSCache'[y].name = xDNSCache'[z].name, xDNSCache'[y].name # NoName
          PROVE  y = z
      BY <1>5, <1>6, <1>8, <3>1, <3>2 DEF OneRowEach
    <3> QED BY <3>2 DEF OneRowEach
  <2>3. resolver.at \in LookingUp => name # resolver.name
    <3>1. CASE resolver.at = "find"
      BY <3>1 DEF Races, ResolverAt
    <3>2. CASE resolver.at \in {"check", "take"}
      <4>1. resolver.row \in CacheRows /\ xDNSCache[resolver.row].name = resolver.name
        BY <3>2, CallIs DEF CallOK
      <4>2. x # resolver.row
        BY <1>6, <3>2 DEF Races
      <4> QED BY <1>6, <4>1, <4>2
    <3> QED BY <3>1, <3>2 DEF LookingUp
  <2>4. ASSUME NEW y \in CacheRows
        PROVE  /\ RowOK(xDNSCache'[y], resolver) /\ xDNSCache'[y].added <= clock
               /\ resolver.at \in LookingUp /\ xDNSCache'[y].name = resolver.name => xDNSCache'[y].added <= resolver.now
    <3>1. /\ RowOK(xDNSCache[y], resolver) /\ xDNSCache[y].added <= clock
          /\ resolver.at \in LookingUp /\ xDNSCache[y].name = resolver.name => xDNSCache[y].added <= resolver.now
      BY <2>1 DEF CacheOK
    <3>2. CASE y = x
      BY <1>1, <1>5, <1>8, <2>3, <3>2 DEF RowOK
    <3>3. CASE y # x
      BY <1>8, <3>1, <3>3
    <3> QED BY <3>2, <3>3
  <2> QED BY <2>2, <2>4 DEF CacheOK
<1>11. CallOK(xDNSCache', xFreeEntry', resolver) /\ ReturnOK(resolver)
  <2>1. CASE resolver.at \in {"check", "take", "address", "ttl", "added"}
    <3>1. x # resolver.row
      BY <1>6, <2>1 DEF Races
    <3>2. resolver.row \in CacheRows
      BY <2>1, CallIs DEF CallOK, FieldNames
    <3>3. xDNSCache'[resolver.row] = xDNSCache[resolver.row]
      BY <1>8, <3>1, <3>2
    <3>4. resolver.at \in {"address", "ttl", "added"} /\ resolver.new => RowsOf(name) # {}
      BY DEF Races, FieldNames
    <3>5. resolver.at \in {"address", "ttl", "added"} /\ resolver.new => resolver.row = xFreeEntry'
      BY <1>7, <3>4, CallIs DEF CallOK, FieldNames
    <3> QED BY <1>7, <2>1, <3>2, <3>3, <3>5, CallIs DEF CallOK, Storing, FieldNames
  <2>2. CASE resolver.at = "name"
    <3>1. resolver.new /\ \A y \in CacheRows : xDNSCache[y].name # resolver.name
      BY <2>2, CallIs DEF CallOK
    <3>2. RowsOf(name) # {}
      BY <2>2, <3>1 DEF Races, FieldNames
    <3>3. name # resolver.name
      BY <1>1, <3>1, <3>2, RowFound
    <3>4. \A y \in CacheRows : xDNSCache'[y].name # resolver.name
      BY <1>5, <1>8, <3>1, <3>3
    <3> QED BY <1>7, <2>2, <3>1, <3>2, <3>4, CallIs DEF CallOK, Storing, FieldNames
  <2>3. CASE resolver.at \notin {"check", "take"} \cup FieldNames
    BY <1>7, <2>3, CallIs DEF CallOK, Storing, FieldNames
  <2> QED BY <2>1, <2>2, <2>3, CallIs DEF FieldNames
<1>12. (CacheOK(xDNSCache, resolver, clock) /\ CallOK(xDNSCache, xFreeEntry, resolver) /\ ReturnOK(resolver))'
  BY <1>2, <1>10, <1>11 DEF CacheOK, CallOK, ReturnOK, RowOK
<1> QED BY <1>2, <1>9, <1>12, CallIs DEF NameInv

LEMMA ClearCacheInv ==
  ASSUME NameInv, ClearCache
  PROVE  NameInv'
<1>1. resolver.at = "idle" /\ UNCHANGED <<xFreeEntry, resolver, inbox, clock, told>>
  BY DEF ClearCache, ResolverAt
<1>2. DOMAIN xDNSCache = 0 .. CacheEntries /\ CacheEntries \in Nat /\ clock \in Nat
  BY NameAssumption DEF NameInv, NameTypeOK
<1>3. \A x \in CacheRows : xDNSCache'[x] = Unused
  BY <1>2 DEF ClearCache, CacheRows
<1>4. Unused \in CacheRow /\ Unused.name = NoName /\ Unused.added = 0
  BY DEF Unused, CacheRow
<1>5. NameTypeOK'
  BY <1>1, <1>2, <1>4 DEF ClearCache, NameInv, NameTypeOK
<1>6. CacheOK(xDNSCache', resolver, clock)
  <2>1. OneRowEach(xDNSCache')
    BY <1>3, <1>4 DEF OneRowEach
  <2>2. ASSUME NEW x \in CacheRows PROVE RowOK(xDNSCache'[x], resolver) /\ xDNSCache'[x].added <= clock
    BY <1>2, <1>3, <1>4 DEF RowOK
  <2> QED BY <1>1, <2>1, <2>2 DEF CacheOK, LookingUp
<1>7. CallOK(xDNSCache', xFreeEntry, resolver)
  BY <1>1, CallIs DEF CallOK, Storing, FieldNames
<1>8. (CacheOK(xDNSCache, resolver, clock) /\ CallOK(xDNSCache, xFreeEntry, resolver) /\ ReturnOK(resolver))'
  BY <1>1, <1>6, <1>7, CallIs DEF CacheOK, CallOK, ReturnOK, RowOK
<1> QED BY <1>1, <1>5, <1>8, CallIs DEF NameInv

LEMMA ReceiveAnswerInv ==
  ASSUME NameInv, NEW p \in inbox, ReceiveAnswer(p)
  PROVE  NameInv'
<1>1. resolver.at = "wait" /\ resolver.name \in HostNames /\ UNCHANGED <<xDNSCache, xFreeEntry, clock>>
      /\ inbox' \subseteq NameAnswers /\ p \in NameAnswers
  BY CallIs DEF ReceiveAnswer, ResolverAt, NameInv, NameTypeOK
<1>2. CASE ~(p.id = resolver.id /\ Parsed(p))
  BY <1>1, <1>2, NextAttemptInv DEF ReceiveAnswer
<1>3. CASE p.id = resolver.id /\ Parsed(p)
  <2>1. PICK r : r = resolver'
    OBVIOUS
  <2>2. r = [resolver EXCEPT !.at = "store", !.address = p.address, !.ttl = p.ttl, !.now = clock, !.fresh = TRUE]
    BY <1>3, <2>1 DEF ReceiveAnswer
  <2>3. p.address \in HostAddresses /\ p.ttl \in Nat /\ clock \in Nat
    BY <1>1, NameAssumption DEF NameInv, NameTypeOK
  <2>4. r \in ResolverRecord /\ r.at = "store" /\ r.name = resolver.name /\ r.address = p.address /\ r.ttl = p.ttl
        /\ r.now = clock /\ r.fresh = TRUE
    BY <2>2, <2>3, CallIs DEF ResolverRecord, Storing
  <2>5. PICK a : a = [address |-> p.address, until |-> clock + p.ttl]
    OBVIOUS
  <2>6. told' = [told EXCEPT ![resolver.name] = a] /\ a \in [address : HostAddresses \cup {NoHost}, until : Nat]
    BY <1>3, <2>3, <2>5 DEF ReceiveAnswer
  <2>7. NameTypeOK'
    BY <1>1, <2>1, <2>4, <2>6 DEF NameInv, NameTypeOK
  <2>8. told'[resolver.name] = a /\ \A n \in HostNames \ {resolver.name} : told'[n] = told[n]
    BY <1>1, <2>6 DEF NameInv, NameTypeOK
  <2>9. CacheOK(xDNSCache, resolver, clock)'
    <3>1. CacheOK(xDNSCache, resolver, clock)
      BY DEF NameInv
    <3>2. ASSUME NEW x \in CacheRows PROVE RowOK(xDNSCache[x], resolver)' /\ xDNSCache'[x].added <= clock'
      <4>1. RowOK(xDNSCache[x], resolver) /\ xDNSCache[x].added <= clock /\ xDNSCache[x] \in CacheRow
        BY <3>1, CallIs DEF CacheOK
      <4>2. PICK row \in CacheRow : row = xDNSCache[x]
        BY <4>1
      <4>3. row.name # NoName /\ row.name # r.name => told'[row.name] = told[row.name]
        BY <2>4, <2>8 DEF CacheRow
      <4>4. r.at \in Storing
        BY <2>4 DEF Storing
      <4>5. resolver.at \notin Storing
        BY <1>1 DEF Storing, FieldNames
      <4>6. RowOK(row, resolver)'
        BY <2>1, <2>4, <4>1, <4>2, <4>3, <4>4, <4>5 DEF RowOK
      <4> QED BY <1>1, <4>1, <4>2, <4>6 DEF RowOK
    <3>3. resolver'.at \notin LookingUp
      BY <2>1, <2>4 DEF LookingUp
    <3> QED BY <1>1, <3>1, <3>2, <3>3 DEF CacheOK, OneRowEach
  <2>10. CallOK(xDNSCache, xFreeEntry, resolver)' /\ ReturnOK(resolver)'
    <3>1. xFreeEntry < CacheEntries
      BY <1>1, CallIs DEF CallOK
    <3> QED BY <1>1, <2>1, <2>4, <2>5, <2>8, <3>1 DEF CallOK, ReturnOK, Storing, FieldNames
  <2> QED BY <1>1, <2>1, <2>3, <2>4, <2>7, <2>9, <2>10 DEF NameInv
<1> QED BY <1>2, <1>3

LEMMA FindForAnswerInv ==
  ASSUME NameInv, FindForAnswer
  PROVE  NameInv'
<1>1. PICK r : r = resolver'
  OBVIOUS
<1>2. resolver.at = "store" /\ resolver.name \in HostNames /\ UNCHANGED <<xDNSCache, xFreeEntry, inbox, clock, told>>
  BY CallIs DEF FindForAnswer, ResolverAt
<1>3. xFreeEntry \in CacheRows /\ CacheRows \subseteq Nat /\ inbox' \subseteq NameAnswers
  BY <1>2, CallIs, NameAssumption DEF NameInv, NameTypeOK, CallOK, CacheRows
<1>4. PICK x \in CacheRows, at \in {"name", "address"}, new \in BOOLEAN :
        /\ r = [resolver EXCEPT !.at = at, !.row = x, !.new = new]
        /\ at = "address" => ~new /\ xDNSCache[x].name = resolver.name
        /\ at = "name" => new /\ x = xFreeEntry /\ \A y \in CacheRows : xDNSCache[y].name # resolver.name
  BY <1>1, <1>2, <1>3, RowFound DEF FindForAnswer
<1>5. r \in ResolverRecord /\ r.at = at /\ r.row = x /\ r.new = new /\ r.name = resolver.name /\ r.now = resolver.now
      /\ r.address = resolver.address /\ r.ttl = resolver.ttl /\ r.fresh = resolver.fresh
  BY <1>3, <1>4, CallIs DEF ResolverRecord, Storing, FieldNames
<1>6. CallOK(xDNSCache, xFreeEntry, r) /\ ReturnOK(r)
  BY <1>2, <1>3, <1>4, <1>5, CallIs DEF CallOK, ReturnOK, Storing, FieldNames
<1> QED BY <1>1, <1>2, <1>3, <1>5, <1>6, CallIs, CallMoves DEF Storing, FieldNames, LookingUp

LEMMA StoreFieldInv ==
  ASSUME MaxSeconds < SecondsRange, NameInv, NEW field \in FieldNames, StoreField(field)
  PROVE  NameInv'
<1>1. resolver.at = field /\ resolver.name \in HostNames /\ resolver.name # NoName
      /\ UNCHANGED <<xFreeEntry, inbox, clock, told>>
  BY CallIs, NameAssumption DEF StoreField, ResolverAt, FieldNames
<1>2. resolver.row \in CacheRows /\ (resolver.new => resolver.row = xFreeEntry)
  BY <1>1, CallIs DEF CallOK
<1>3. clock \in Nat /\ clock <= MaxSeconds /\ resolver.now \in Nat /\ resolver.now <= clock /\ resolver.ttl \in Nat
  BY CallIs, NameAssumption DEF NameInv, NameTypeOK, ResolverRecord
<1>4. PICK l : l = Row(resolver.name, resolver.address, resolver.ttl, resolver.now)
  OBVIOUS
<1>5. l \in CacheRow /\ l.name = resolver.name /\ l.address = resolver.address /\ l.ttl = resolver.ttl /\ l.added = resolver.now
  <2>1. resolver.address \in HostAddresses \cup {NoHost}
    BY CallIs DEF ResolverRecord
  <2>2. resolver.now % SecondsRange = resolver.now
    BY <1>3, SecondsStay, NameAssumption
  <2> QED BY <1>1, <1>3, <1>4, <2>1, <2>2 DEF Row, CacheRow
<1>6. PICK k \in CacheRow : k = xDNSCache[resolver.row]
  BY <1>2, CallIs
<1>7. PICK g : g = [k EXCEPT ![field] = l[field]]
  OBVIOUS
<1>8. xDNSCache' = [xDNSCache EXCEPT ![resolver.row] = g]
  <2>1. PICK x \in {resolver.row} \cup (IF resolver.new THEN {xFreeEntry} ELSE {}) :
          xDNSCache' = [xDNSCache EXCEPT ![x][field] = l[field]]
    BY <1>4 DEF StoreField
  <2>2. x = resolver.row
    BY <1>2, <2>1
  <2> QED BY <1>6, <1>7, <2>1, <2>2
<1>9. /\ g \in CacheRow
      /\ g.name = (IF field = "name" THEN resolver.name ELSE k.name)
      /\ g.address = (IF field = "address" THEN resolver.address ELSE k.address)
      /\ g.ttl = (IF field = "ttl" THEN resolver.ttl ELSE k.ttl)
      /\ g.added = (IF field = "added" THEN resolver.now ELSE k.added)
  <2>1. CASE field = "name"
    BY <1>5, <1>7, <2>1 DEF CacheRow
  <2>2. CASE field = "address"
    BY <1>5, <1>7, <2>2 DEF CacheRow
  <2>3. CASE field = "ttl"
    BY <1>5, <1>7, <2>3 DEF CacheRow
  <2>4. CASE field = "added"
    BY <1>5, <1>7, <2>4 DEF CacheRow
  <2> QED BY <2>1, <2>2, <2>3, <2>4 DEF FieldNames
<1>10. g.name = resolver.name
  BY <1>1, <1>6, <1>9, CallIs DEF CallOK, FieldNames
<1>11. \A y \in CacheRows : xDNSCache'[y] = IF y = resolver.row THEN g ELSE xDNSCache[y]
  BY <1>2, <1>8, NameAssumption DEF NameInv, NameTypeOK, CacheRows
<1>12. PICK r : r = resolver'
  OBVIOUS
<1>13. PICK at \in {"address", "ttl", "added", "advance", "return"} :
         /\ field = "name" => at = "address"
         /\ field = "address" => at = "ttl"
         /\ field = "ttl" => at = "added"
         /\ field = "added" => at \in {"advance", "return"}
         /\ at # "return" => r = [resolver EXCEPT !.at = at]
         /\ at = "return" => r = [NoCall EXCEPT !.at = "return", !.name = resolver.name, !.address = resolver.address,
                                                !.now = resolver.now, !.fresh = resolver.fresh]
  <2>1. CASE field # "added"
    <3>1. r = [resolver EXCEPT !.at = Following(field)]
      BY <1>12, <2>1 DEF StoreField, Goto
    <3>2. Following(field) = (IF field = "name" THEN "address" ELSE IF field = "address" THEN "ttl" ELSE "added")
      BY <2>1 DEF Following, FieldNames
    <3> QED BY <2>1, <3>1, <3>2 DEF FieldNames
  <2>2. CASE field = "added" /\ resolver.new
    BY <1>12, <2>2 DEF StoreField, Goto
  <2>3. CASE field = "added" /\ ~resolver.new
    BY <1>12, <2>3 DEF StoreField, Result
  <2> QED BY <2>1, <2>2, <2>3
<1>14. r \in ResolverRecord /\ r.at = at /\ r.name = resolver.name /\ r.address = resolver.address /\ r.now = resolver.now
       /\ r.fresh = resolver.fresh
       /\ (at # "return" => r.ttl = resolver.ttl /\ r.row = resolver.row /\ r.new = resolver.new)
  <2>1. CASE at # "return"
    BY <1>13, <2>1, CallIs DEF ResolverRecord, Storing, FieldNames
  <2>2. CASE at = "return"
    <3>1. r = [NoCall EXCEPT !.at = "return", !.name = resolver.name, !.address = resolver.address,
                             !.now = resolver.now, !.fresh = resolver.fresh]
      BY <1>13, <2>2
    <3>2. resolver.name \in HostNames /\ resolver.address \in HostAddresses \cup {NoHost} /\ resolver.now \in Nat
          /\ resolver.fresh \in BOOLEAN
      BY <1>1, <1>3, CallIs DEF ResolverRecord
    <3>3. r \in ResolverRecord /\ r.at = "return" /\ r.name = resolver.name /\ r.address = resolver.address
          /\ r.now = resolver.now /\ r.fresh = resolver.fresh
      BY <3>1, <3>2 DEF ResolverRecord, NoCall
    <3> QED BY <2>2, <3>3
  <2> QED BY <2>1, <2>2
<1>15. NameTypeOK'
  BY <1>1, <1>8, <1>9, <1>12, <1>14 DEF NameInv, NameTypeOK
<1>16. resolver.fresh /\ told[resolver.name] = [address |-> resolver.address, until |-> resolver.now + resolver.ttl]
       /\ xFreeEntry < CacheEntries
  BY <1>1, CallIs DEF CallOK, Storing, FieldNames
<1>17. CacheOK(xDNSCache', r, clock)
  <2>1. CacheOK(xDNSCache, resolver, clock)
    BY DEF NameInv
  <2>2. OneRowEach(xDNSCache')
    <3>1. OneRowEach(xDNSCache)
      BY <2>1 DEF CacheOK
    <3>2. \A y \in CacheRows : xDNSCache[y].name = resolver.name => y = resolver.row
      BY <1>1, <1>2, <1>6, <3>1, CallIs DEF OneRowEach, CallOK, FieldNames
    <3>3. ASSUME NEW y \in CacheRows, NEW z \in CacheRows, xDNSCache'[y].name = xDNSCache'[z].name, xDNSCache'[y].name # NoName
          PROVE  y = z
      BY <1>2, <1>10, <1>11, <3>1, <3>2, <3>3 DEF OneRowEach
    <3> QED BY <3>3 DEF OneRowEach
  <2>3. ASSUME NEW y \in CacheRows, y # resolver.row PROVE RowOK(xDNSCache'[y], r) /\ xDNSCache'[y].added <= clock
    <3>1. RowOK(xDNSCache[y], resolver) /\ xDNSCache[y].added <= clock
      BY <2>1 DEF CacheOK
    <3>2. xDNSCache[y].name # resolver.name \/ xDNSCache[y].name = NoName
      BY <1>1, <1>2, <1>6, <2>1, <2>3, CallIs DEF CacheOK, OneRowEach, CallOK, FieldNames
    <3> QED BY <1>1, <1>11, <2>3, <3>1, <3>2, <1>14 DEF RowOK
  <2>4. RowOK(g, r) /\ g.added <= clock
    <3>1. k.added <= clock
      BY <1>2, <1>6, <2>1 DEF CacheOK
    <3>2. CASE field # "added"
      <4>1. r.at \in Storing
        BY <1>13, <1>14, <3>2 DEF Storing, FieldNames
      <4> QED BY <1>9, <1>10, <1>14, <3>1, <3>2, <4>1 DEF RowOK
    <3>3. CASE field = "added"
      <4>1. k.address = resolver.address /\ k.ttl = resolver.ttl
        BY <1>1, <1>6, <3>3, CallIs DEF CallOK
      <4>2. g.address = resolver.address /\ g.ttl = resolver.ttl /\ g.added = resolver.now
        BY <1>9, <3>3, <4>1
      <4> QED BY <1>3, <1>10, <1>16, <4>2 DEF RowOK
    <3> QED BY <3>2, <3>3
  <2>5. r.at \notin LookingUp
    BY <1>13, <1>14 DEF LookingUp
  <2> QED BY <1>2, <1>11, <2>2, <2>3, <2>4, <2>5 DEF CacheOK
<1>18. CallOK(xDNSCache', xFreeEntry, r)
  <2>1. xDNSCache'[resolver.row] = g
    BY <1>2, <1>11
  <2>2. at \in {"ttl", "added"} => g.address = resolver.address
    <3>1. resolver.at = "ttl" => k.address = resolver.address
      BY <1>6, CallIs DEF CallOK
    <3> QED BY <1>1, <1>9, <1>13, <3>1 DEF FieldNames
  <2>3. at = "added" => g.ttl = resolver.ttl
    BY <1>9, <1>13 DEF FieldNames
  <2> QED BY <1>2, <1>10, <1>13, <1>14, <1>16, <2>1, <2>2, <2>3 DEF CallOK, Storing, FieldNames
<1>19. ReturnOK(r)
  BY <1>14, <1>16 DEF ReturnOK
<1>20. (CacheOK(xDNSCache, resolver, clock) /\ CallOK(xDNSCache, xFreeEntry, resolver) /\ ReturnOK(resolver))'
  BY <1>1, <1>12, <1>17, <1>18, <1>19 DEF CacheOK, CallOK, ReturnOK, RowOK
<1> QED BY <1>1, <1>3, <1>12, <1>14, <1>15, <1>20 DEF NameInv

LEMMA AdvanceInv ==
  ASSUME NameInv, AdvanceEntry \/ WrapEntry
  PROVE  NameInv'
<1>1. PICK r : r = resolver'
  OBVIOUS
<1>2. resolver.at \in {"advance", "wrap"} /\ resolver.name \in HostNames /\ UNCHANGED <<xDNSCache, inbox, clock, told>>
  BY CallIs DEF AdvanceEntry, WrapEntry, ResolverAt
<1>3. CacheEntries \in Nat /\ CacheEntries > 0 /\ xFreeEntry \in 0 .. CacheEntries
  BY NameAssumption DEF NameInv, NameTypeOK
<1>4. resolver.fresh /\ told[resolver.name] = [address |-> resolver.address, until |-> resolver.now + resolver.ttl]
  BY <1>2, CallIs DEF CallOK
<1>5. /\ r \in ResolverRecord /\ r.at \in {"wrap", "return"} /\ r.name = resolver.name /\ r.now = resolver.now
      /\ r.address = resolver.address /\ r.fresh = resolver.fresh
      /\ xFreeEntry' \in 0 .. CacheEntries /\ (r.at = "return" => xFreeEntry' < CacheEntries)
      /\ (r.at = "wrap" => r.ttl = resolver.ttl)
  <2>1. CASE AdvanceEntry
    <3>1. r = [resolver EXCEPT !.at = "wrap"] /\ xFreeEntry' = xFreeEntry + 1 /\ resolver.at = "advance"
      BY <1>1, <2>1 DEF AdvanceEntry, Goto, ResolverAt
    <3>2. xFreeEntry < CacheEntries
      BY <3>1, CallIs DEF CallOK
    <3>3. xFreeEntry' \in 0 .. CacheEntries
      BY <1>3, <3>1, <3>2
    <3> QED BY <3>1, <3>3, CallIs DEF ResolverRecord
  <2>2. CASE WrapEntry
    <3>1. r = [NoCall EXCEPT !.at = "return", !.name = resolver.name, !.address = resolver.address,
                             !.now = resolver.now, !.fresh = resolver.fresh]
      BY <1>1, <2>2 DEF WrapEntry, Result
    <3>2. xFreeEntry' \in 0 .. CacheEntries /\ xFreeEntry' < CacheEntries
      BY <1>3, <2>2 DEF WrapEntry
    <3>3. resolver.address \in HostAddresses \cup {NoHost} /\ resolver.now \in Nat /\ resolver.fresh \in BOOLEAN
      BY CallIs DEF ResolverRecord
    <3>4. r \in ResolverRecord /\ r.at = "return" /\ r.name = resolver.name /\ r.address = resolver.address
          /\ r.now = resolver.now /\ r.fresh = resolver.fresh
      BY <1>2, <3>1, <3>3 DEF ResolverRecord, NoCall
    <3> QED BY <3>2, <3>4
  <2> QED BY <2>1, <2>2
<1>6. NameTypeOK'
  BY <1>1, <1>2, <1>5 DEF NameInv, NameTypeOK
<1>7. CacheOK(xDNSCache, r, clock)
  <2>1. CacheOK(xDNSCache, resolver, clock)
    BY DEF NameInv
  <2>2. resolver.at \notin Storing /\ r.at \notin LookingUp /\ r.at \notin Storing
    BY <1>2, <1>5 DEF Storing, FieldNames, LookingUp
  <2>3. ASSUME NEW x \in CacheRows PROVE RowOK(xDNSCache[x], r) /\ xDNSCache[x].added <= clock
    BY <2>1, <2>2 DEF CacheOK, RowOK
  <2> QED BY <2>1, <2>2, <2>3 DEF CacheOK
<1>8. CallOK(xDNSCache, xFreeEntry', r) /\ ReturnOK(r)
  BY <1>4, <1>5 DEF CallOK, ReturnOK, Storing, FieldNames
<1>9. (CacheOK(xDNSCache, resolver, clock) /\ CallOK(xDNSCache, xFreeEntry, resolver) /\ ReturnOK(resolver))'
  BY <1>1, <1>2, <1>7, <1>8 DEF CacheOK, CallOK, ReturnOK, RowOK
<1> QED BY <1>1, <1>2, <1>5, <1>6, <1>9, CallIs DEF NameInv

(* From the first race on nothing is claimed.                              *)
LEMMA NameInvNext ==
  ASSUME MaxSeconds < SecondsRange, raced \/ NameInv, [NameNext]_nameVars
  PROVE  (raced \/ NameInv)'
<1>1. CASE raced
  <2>1. CASE \E name \in NeighbourNames, address \in HostAddresses : NbnsResponse(name, address)
    BY <1>1, <2>1 DEF NbnsResponse
  <2>2. CASE UNCHANGED raced
    BY <1>1, <2>2
  <2>3. CASE NameNext /\ ~(\E name \in NeighbourNames, address \in HostAddresses : NbnsResponse(name, address))
    <3>1. UNCHANGED raced
      BY <2>3 DEF NameNext, Find, CheckAge, TakeAddress, FindForAnswer, AdvanceEntry, WrapEntry, ClearCache, StoreField,
                  GetHostByName, OpenSocket, SendRequest, WaitTimesOut, ReceiveNothing, Return, ReceiveAnswer, Answer,
                  QueryAnswered, SecondPasses
    <3> QED BY <2>2, <3>1
  <2> QED BY <2>1, <2>2, <2>3 DEF nameVars
<1>2. CASE ~raced /\ NameNext
  <2>1. NameInv
    BY <1>2
  <2>2. ASSUME NEW field \in FieldNames, StoreField(field) PROVE NameInv'
    BY <2>1, <2>2, StoreFieldInv
  <2>3. ASSUME NEW name \in NeighbourNames, NEW address \in HostAddresses, NbnsResponse(name, address)
        PROVE  (raced \/ NameInv)'
    <3>1. CASE Races(name)
      BY <2>3, <3>1 DEF NbnsResponse
    <3>2. CASE ~Races(name)
      BY <2>1, <2>3, <3>2, NbnsResponseInv
    <3> QED BY <3>1, <3>2
  <2> QED BY <1>2, <2>1, <2>2, <2>3, FindInv, CheckAgeInv, TakeAddressInv, FindForAnswerInv, AdvanceInv, ClearCacheInv,
             GetHostByNameInv, AsksInv, ReceiveAnswerInv, WorldInv DEF NameNext
<1>3. CASE ~raced /\ UNCHANGED nameVars
  BY <1>3, WorldInv
<1> QED BY <1>1, <1>2, <1>3

(* Names, for every size of the cache, number of names, answers and        *)
(* neighbours, with the IP task coming in between any two accesses of the  *)
(* caller, as long as the seconds have not wrapped: until the IP task      *)
(* stores into what the caller has in hand (Races), a call of              *)
(* FreeRTOS_gethostbyname returns the address that was told last for its   *)
(* name, from the cache only within its lifetime, and no name has two rows *)
(* (prvProcessDNSCache, prvGetHostByName).                                 *)
THEOREM NamesStayRight ==
  ASSUME MaxSeconds < SecondsRange
  PROVE  NameSpec => []NamesResolvedRight
<1>1. NameInit => (raced \/ NameInv)
  BY NameInvInit
<1>2. (raced \/ NameInv) /\ [NameNext]_nameVars => (raced \/ NameInv)'
  BY NameInvNext
<1>3. (raced \/ NameInv) => NamesResolvedRight
  <2>1. ASSUME NameInv PROVE NamesResolvedRight
    BY <2>1, CallIs, RowFound DEF NamesResolvedRight, ResolverAt, ReturnOK
  <2> QED BY <2>1 DEF NamesResolvedRight
<1> QED BY <1>1, <1>2, <1>3, PTL DEF NameSpec

(***************************************************************************)
(* HubRing: whatever the reader does, whatever the memory holds and        *)
(* whatever the sizes, the writer never puts a frame over the two          *)
(* positions at the end of the ring.  It needs nothing of the reader: the  *)
(* writer's own position and the frame in its hands are enough.            *)
(***************************************************************************)
Past == {"compare", "space", "copy", "header", "flag", "advance"}

Room == WritePosition + Header + frame.len + Reserve <= BUF_SIZE

WriterInv ==
  /\ WritePosition \in Nat
  /\ WritePosition + Reserve <= BUF_SIZE
  /\ writer \in {"idle", "close", "rewind"} \cup Past
  /\ writer # "idle" => frame \in Frame
  /\ writer \in Past => Room

LEMMA FrameLength ==
  ASSUME NEW f \in Frame
  PROVE  f.len \in Nat /\ f.len <= MAX_DATA_UNIT_LEN
<1>1. f.len \in Lengths
  BY DEF Frame
<1>2. f.len \in 1 .. MAX_DATA_UNIT_LEN
  BY <1>1, SizesAssumption
<1>3. MAX_DATA_UNIT_LEN \in Nat
  BY SizesAssumption
<1>. QED
  BY <1>2, <1>3

LEMMA WriterInit == Init => WriterInv
BY SizesAssumption DEF Init, WriterInv, Past, Reserve, Header

(* Only the writer writes what the invariant speaks of.                    *)
LEMMA ReadKeeps == Read => UNCHANGED <<WritePosition, writer, frame>>
BY DEF Read, BeginRead, LookAtFlag, LookAtType, TakePayload, ReopenEnd, ClearStartFlag, AdvanceRead, writing

LEMMA WriterNext == WriterInv /\ [Next]_vars => WriterInv'
<1> SUFFICES ASSUME WriterInv, [Next]_vars PROVE WriterInv'
  OBVIOUS
<1> USE DEF WriterInv, Past, Room, Reserve, Header
<1>1. CASE BeginWrite
  <2>1. PICK f \in Frame :
          /\ frame' = f
          /\ writer' = IF ~Fits(f.len) THEN "close"
                       ELSE IF ChecksSpace THEN "compare" ELSE "copy"
    BY <1>1 DEF BeginWrite
  <2>2. UNCHANGED WritePosition
    BY <1>1 DEF BeginWrite
  <2>3. f.len \in Nat
    BY FrameLength
  <2>4. CASE Fits(f.len)
    <3>1. WritePosition + Header + f.len + Reserve <= BUF_SIZE
      BY <2>3, <2>4, SizesAssumption DEF Fits, ARESTLIMIT
    <3>. QED
      BY <2>1, <2>2, <2>4, <3>1
  <2>5. CASE ~Fits(f.len)
    BY <2>1, <2>2, <2>5
  <2>. QED
    BY <2>4, <2>5
<1>2. CASE MarkEnd
  BY <1>2 DEF MarkEnd
<1>3. CASE Rewind
  <2>1. frame \in Frame /\ frame' = frame /\ WritePosition' = 0
    BY <1>3 DEF Rewind
  <2>2. frame.len \in Nat /\ frame.len <= MAX_DATA_UNIT_LEN
    BY <2>1, FrameLength
  <2>3. Room'
    BY <2>1, <2>2, SizesAssumption
  <2>4. writer' \in Past
    BY <1>3 DEF Rewind
  <2>5. 0 + Reserve <= BUF_SIZE
    BY SizesAssumption
  <2>. QED
    BY <2>1, <2>3, <2>4, <2>5
<1>4. CASE ComparePositions
  BY <1>4 DEF ComparePositions
<1>5. CASE CheckSpace
  BY <1>5 DEF CheckSpace
<1>6. CASE CopyPayload
  BY <1>6 DEF CopyPayload
<1>7. CASE WriteTypeAndLen
  BY <1>7 DEF WriteTypeAndLen
<1>8. CASE SetStartFlag
  BY <1>8 DEF SetStartFlag
<1>9. CASE AdvanceWrite
  <2>1. frame.len \in Nat
    BY <1>9, FrameLength DEF AdvanceWrite
  <2>. QED
    BY <1>9, <2>1, SizesAssumption DEF AdvanceWrite
<1>10. CASE Read
  BY <1>10, ReadKeeps
<1>11. CASE UNCHANGED vars
  BY <1>11 DEF vars
<1>. QED
  BY <1>1, <1>2, <1>3, <1>4, <1>5, <1>6, <1>7, <1>8, <1>9, <1>10, <1>11
     DEF Next, Write

LEMMA WriterProtects == WriterInv => PositionsProtected
BY DEF WriterInv, PositionsProtected, Past, Room

(* The writers of hub_queue.c keep out of the last eight bytes of a ring,  *)
(* for every size of ring and frame, even where the reader is overrun.     *)
THEOREM PositionsAreProtected == Spec => []PositionsProtected
<1>1. Spec => []WriterInv
  BY WriterInit, WriterNext, PTL DEF Spec
<1>. QED
  BY <1>1, WriterProtects, PTL

(***************************************************************************)
(* AxiDma: types, and that success is never reported for a transfer that   *)
(* did not complete, whatever errors and resets come.                      *)
(***************************************************************************)
LEMMA TypeInit == DmaInit => DmaTypeOK
<1> SUFFICES ASSUME DmaInit PROVE DmaTypeOK
  OBVIOUS
<1>1. irq \in [Channels -> SUBSET {"IOC", "ERROR"}]
  BY DEF DmaInit
<1>. QED
  BY <1>1 DEF DmaInit, DmaTypeOK

LEMMA TypeNext == DmaTypeOK /\ [DmaNext]_dmaVars => DmaTypeOK'
<1> SUFFICES ASSUME DmaTypeOK, [DmaNext]_dmaVars PROVE DmaTypeOK'
  OBVIOUS
<1> USE DEF DmaTypeOK
<1>1. ASSUME NEW c \in Channels, Clear(c) PROVE DmaTypeOK'
  BY <1>1 DEF Clear
<1>2. ASSUME NEW c \in Channels, StartTransfer(c) PROVE DmaTypeOK'
  BY <1>2 DEF StartTransfer
<1>3. ASSUME NEW c \in Channels, Finish(c) PROVE DmaTypeOK'
  BY <1>3 DEF Finish
<1>4. ASSUME NEW c \in Channels, Complete(c) PROVE DmaTypeOK'
  BY <1>4 DEF Complete
<1>5. ASSUME NEW c \in Channels, Fail(c) PROVE DmaTypeOK'
  BY <1>5 DEF Fail
<1>6. ASSUME NEW c \in Channels, ReadAndAck(c) PROVE DmaTypeOK'
  BY <1>6, ChannelsAssumption DEF ReadAndAck
<1>7. CASE HandleError
  <2>1. handler # NoHandler
    BY <1>7 DEF HandleError, NoHandler
  <2>2. handler' \in [channel : Channels, step : {"handle", "poll"},
                      status : SUBSET {"IOC", "ERROR"}, polls : 0 .. MaxPolls]
    <3>1. handler \in [channel : Channels, step : {"handle", "poll"},
                       status : SUBSET {"IOC", "ERROR"}, polls : 0 .. MaxPolls]
      BY <2>1
    <3>2. handler' = [handler EXCEPT !.step = "poll", !.polls = MaxPolls]
      BY <1>7 DEF HandleError
    <3>3. MaxPolls \in 0 .. MaxPolls
      BY ChannelsAssumption
    <3>. QED
      BY <3>1, <3>2, <3>3
  <2>3. /\ engine' \in [Channels -> {"idle", "busy", "halted", "resetting"}]
        /\ irq' \in [Channels -> SUBSET {"IOC", "ERROR"}]
        /\ transfers' \in [Channels -> {"none", "started", "completed", "failed"}]
    BY <1>7 DEF HandleError
  <2>. QED
    BY <1>7, <2>2, <2>3 DEF HandleError
<1>8. CASE PollReset
  <2>1. handler # NoHandler
    BY <1>8 DEF PollReset, NoHandler
  <2>2. \/ handler' = NoHandler
        \/ handler' \in [channel : Channels, step : {"handle", "poll"},
                         status : SUBSET {"IOC", "ERROR"}, polls : 0 .. MaxPolls]
    BY <1>8, <2>1, ChannelsAssumption DEF PollReset
  <2>. QED
    BY <1>8, <2>2 DEF PollReset
<1>9. CASE HandleCompletion
  BY <1>9 DEF HandleCompletion, NoHandler
<1>10. CASE ResetIsDone
  BY <1>10 DEF ResetIsDone
<1>11. CASE UNCHANGED dmaVars
  BY <1>11 DEF dmaVars
<1>. QED
  BY <1>1, <1>2, <1>3, <1>4, <1>5, <1>6, <1>7, <1>8, <1>9, <1>10, <1>11
     DEF DmaNext, Call, Handle, Hardware

(* Types, for every set of channels: in particular the poll counter of an  *)
(* error handler never falls below zero.                                   *)
THEOREM TypeCorrect == DmaSpec => []DmaTypeOK
BY TypeInit, TypeNext, PTL DEF DmaSpec

(***************************************************************************)
(* A completion interrupt is pending, is being handled, or has set the     *)
(* flag, only for the transfer of the call in progress, and is at one of   *)
(* these stages only.                                                      *)
(***************************************************************************)
Pending(c) == "IOC" \in irq[c]
Handled(c) == handler.channel = c /\ handler.step = "handle" /\ "IOC" \in handler.status
Flagged(c) == task[c] # "idle" /\ Done[c]

Completing(c) == Pending(c) \/ Handled(c) \/ Flagged(c)

OwnTransfer ==
  \A c \in Channels :
    /\ ~(Pending(c) /\ Handled(c))
    /\ ~(Flagged(c) /\ (Pending(c) \/ Handled(c)))
    /\ Completing(c) => task[c] = "wait" /\ transfers[c] = "completed"
    /\ engine[c] = "busy" => task[c] = "wait" /\ ~Completing(c)

HandlerHasStatus ==
  /\ handler.step = "handle" => handler.channel \in Channels /\ handler.status # {}
  /\ \A c \in Channels : "IOC" \in irq[c] => engine[c] # "busy"

Inv == DmaTypeOK /\ OwnTransfer /\ HandlerHasStatus

LEMMA InvInit == DmaInit => Inv
<1> SUFFICES ASSUME DmaInit PROVE Inv
  OBVIOUS
<1>1. DmaTypeOK
  BY TypeInit
<1>2. OwnTransfer
  BY DEF DmaInit, OwnTransfer, Completing, Pending, Handled, Flagged, NoHandler
<1>3. HandlerHasStatus
  BY DEF DmaInit, HandlerHasStatus, NoHandler
<1>. QED
  BY <1>1, <1>2, <1>3 DEF Inv

LEMMA InvNext == Inv /\ [DmaNext]_dmaVars => Inv'
<1> SUFFICES ASSUME Inv, [DmaNext]_dmaVars PROVE Inv'
  OBVIOUS
<1>0. DmaTypeOK /\ DmaTypeOK'
  BY TypeNext DEF Inv
<1> USE <1>0 DEF DmaTypeOK, Inv, OwnTransfer, Completing, Pending, Handled, Flagged, HandlerHasStatus
<1>1. ASSUME NEW c \in Channels, Clear(c) PROVE (OwnTransfer /\ HandlerHasStatus)'
  BY <1>1 DEF Clear, TaskLevel, NoHandler
<1>2. ASSUME NEW c \in Channels, StartTransfer(c) PROVE (OwnTransfer /\ HandlerHasStatus)'
  BY <1>2 DEF StartTransfer, TaskLevel, NoHandler
<1>3. ASSUME NEW c \in Channels, Finish(c) PROVE (OwnTransfer /\ HandlerHasStatus)'
  BY <1>3 DEF Finish, TaskLevel, NoHandler
<1>4. ASSUME NEW c \in Channels, Complete(c) PROVE (OwnTransfer /\ HandlerHasStatus)'
  BY <1>4 DEF Complete
<1>5. ASSUME NEW c \in Channels, Fail(c) PROVE (OwnTransfer /\ HandlerHasStatus)'
  BY <1>5 DEF Fail
<1>6. ASSUME NEW c \in Channels, ReadAndAck(c) PROVE (OwnTransfer /\ HandlerHasStatus)'
  BY <1>6 DEF ReadAndAck, NoHandler
<1>7. CASE HandleError
  BY <1>7 DEF HandleError
<1>8. CASE PollReset
  BY <1>8 DEF PollReset, NoHandler
<1>9. CASE HandleCompletion
  BY <1>9 DEF HandleCompletion, NoHandler
<1>10. CASE ResetIsDone
  BY <1>10 DEF ResetIsDone
<1>11. CASE UNCHANGED dmaVars
  BY <1>11 DEF dmaVars
<1>. QED
  BY <1>1, <1>2, <1>3, <1>4, <1>5, <1>6, <1>7, <1>8, <1>9, <1>10, <1>11
     DEF DmaNext, Call, Handle, Hardware

LEMMA SuccessStep ==
  Inv /\ [DmaNext]_dmaVars =>
    [\A c \in Channels :
       task[c] = "wait" /\ task'[c] = "idle" => transfers[c] = "completed"]_dmaVars
<1> SUFFICES ASSUME Inv, DmaNext, NEW c \in Channels, task[c] = "wait", task'[c] = "idle"
             PROVE transfers[c] = "completed"
  BY DEF dmaVars
<1> USE DEF Inv, DmaTypeOK
<1>1. ASSUME NEW d \in Channels, Clear(d) PROVE task'[c] = "wait"
  BY <1>1 DEF Clear
<1>2. ASSUME NEW d \in Channels, StartTransfer(d) PROVE task'[c] = "wait"
  BY <1>2 DEF StartTransfer
<1>3. ASSUME NEW d \in Channels, Finish(d) PROVE transfers[c] = "completed"
  BY <1>3 DEF Finish, OwnTransfer, Completing, Flagged
<1>4. ASSUME UNCHANGED task PROVE FALSE
  BY <1>4
<1>. QED
  BY <1>1, <1>2, <1>3, <1>4
     DEF DmaNext, Call, Handle, Hardware, ReadAndAck, Complete, Fail, HandleError,
         PollReset, HandleCompletion, ResetIsDone

(* TxDMA and RxDMA report success only for a transfer that completed, with *)
(* any number of channels, errors and resets.                              *)
THEOREM SuccessIsReal == DmaSpec => SuccessMeansCompleted
<1>1. DmaSpec => []Inv
  BY InvInit, InvNext, PTL DEF DmaSpec
<1>. QED
  BY <1>1, SuccessStep, PTL DEF DmaSpec, SuccessMeansCompleted
=============================================================================
