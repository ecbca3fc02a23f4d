----------------------------- MODULE TimerProofs -----------------------------
(***************************************************************************)
(* Theorems about TimerService: no timer is lost, doubled or early, and    *)
(* the service task blocks no longer than until the next one expires.      *)
(*                                                                         *)
(* The invariant relates the value of every listed timer to the tick count *)
(* and to the turns of the counter that the lists do not know of yet, and  *)
(* bounds the time that the service task has not looked at.                *)
(***************************************************************************)
EXTENDS TimerService, FiniteSetTheorems, TLAPS

(***************************************************************************)
(* The tick counter.                                                       *)
(***************************************************************************)
LEMMA Numbers ==
  /\ TimerTickRange \in Nat /\ TimerTickRange > 1 /\ MaxLate \in Nat /\ MaxLate > 0
  /\ \A n \in PeriodsInUse : n \in Nat /\ n > 0 /\ n + MaxLate + 1 <= TimerTickRange
  BY TimersAssumption DEF PeriodsInUse

(* The service task is never as late as the counter is long. *)
LEMMA LateIsShort == MaxLate + 1 < TimerTickRange
  BY TimersAssumption

LEMMA ModuloIs ==
  ASSUME NEW n \in Int, -TimerTickRange <= n, n < 2 * TimerTickRange
  PROVE  Modulo(n) = IF n < 0 THEN n + TimerTickRange
                     ELSE IF n < TimerTickRange THEN n ELSE n - TimerTickRange
<1> DEFINE R == TimerTickRange
<1>1. R \in Nat \ {0}
  BY Numbers
<1>2. /\ (n % R) \in 0 .. R - 1 /\ n = R * (n \div R) + (n % R) /\ (n \div R) \in Int
  BY <1>1
<1>3. (n \div R) \in {-1, 0, 1}
  <2>1. PICK q \in Int, r \in 0 .. R - 1 : q = n \div R /\ r = n % R /\ n = R * q + r
    BY <1>2
  <2>2. q > -2
    <3> SUFFICES ASSUME q <= -2 PROVE FALSE
      BY <2>1
    <3>1. R * q <= R * (-2)
      BY <1>1
    <3> QED BY <1>1, <2>1, <3>1
  <2>3. q < 2
    <3> SUFFICES ASSUME q >= 2 PROVE FALSE
      BY <2>1
    <3>1. R * q >= R * 2
      BY <1>1
    <3> QED BY <1>1, <2>1, <3>1
  <2> QED BY <2>1, <2>2, <2>3
<1>4. R * (n \div R) \in {-R, 0, R}
  BY <1>1, <1>3
<1> QED BY <1>1, <1>2, <1>4 DEF Modulo

(* The counter, d ticks after or before now. *)
LEMMA Moved ==
  ASSUME NEW now \in TimerTicks, NEW d \in Int, -TimerTickRange <= d, d <= TimerTickRange
  PROVE  /\ Modulo(now + d) = IF now + d < 0 THEN now + d + TimerTickRange
                              ELSE IF now + d < TimerTickRange THEN now + d
                              ELSE now + d - TimerTickRange
         /\ Modulo(now + d) \in TimerTicks
<1>1. PICK n \in Int : n = now + d /\ -TimerTickRange <= n /\ n < 2 * TimerTickRange
  BY Numbers DEF TimerTicks
<1>2. Modulo(n) = IF n < 0 THEN n + TimerTickRange
                  ELSE IF n < TimerTickRange THEN n ELSE n - TimerTickRange
  BY <1>1, ModuloIs
<1>3. Modulo(n) \in TimerTicks
  BY <1>1, <1>2, Numbers DEF TimerTicks
<1>4. Modulo(now + d) = Modulo(n)
  BY <1>1
<1>5. now \in Int /\ TimerTickRange \in Int
  BY Numbers DEF TimerTicks
<1> QED BY <1>1, <1>2, <1>3, <1>4, <1>5

(* A timer of the period that starts at a time lag ticks ago: what         *)
(* prvInsertTimerInActiveList finds by the wrapped numbers.                *)
LEMMA ExpiredWhenLate ==
  ASSUME NEW t, NEW period \in PeriodsInUse, NEW now \in TimerTicks, NEW lag \in 0 .. MaxLate,
         NEW cmd, cmd = Modulo(now - lag), NEW value, value = Modulo(cmd + period)
  PROVE  /\ cmd \in TimerTicks /\ value \in TimerTicks
         /\ Expired(t, period, value, now, cmd) <=> lag >= period
         /\ lag < period /\ value > now => value = now + (period - lag)
         /\ lag < period /\ value <= now => value + TimerTickRange = now + (period - lag)
<1> DEFINE R == TimerTickRange
<1>1. /\ R \in Nat /\ R > 1 /\ period \in Nat /\ period > 0 /\ period + MaxLate + 1 <= R
      /\ MaxLate \in Nat /\ lag \in Nat /\ lag <= MaxLate /\ now \in Nat /\ now < R
  BY Numbers DEF TimerTicks
<1>2. cmd = IF now < lag THEN now - lag + R ELSE now - lag
  <2>1. Modulo(now + (-lag)) = IF now + (-lag) < 0 THEN now + (-lag) + R
                              ELSE IF now + (-lag) < R THEN now + (-lag) ELSE now + (-lag) - R
    BY <1>1, Moved
  <2>2. now + (-lag) = now - lag
    BY <1>1
  <2> QED BY <1>1, <2>1, <2>2
<1>3. cmd \in TimerTicks
  BY <1>1, <1>2 DEF TimerTicks
<1>4. value = IF cmd + period < R THEN cmd + period ELSE cmd + period - R
  <2>1. cmd \in Nat
    BY <1>3 DEF TimerTicks
  <2> QED BY <1>1, <1>3, <2>1, Moved
<1>5. value \in TimerTicks
  BY <1>1, <1>3, <1>4 DEF TimerTicks
<1>6. Modulo(now - cmd) = lag
  <2>1. cmd \in Nat /\ cmd < R
    BY <1>1, <1>3 DEF TimerTicks
  <2>2. Modulo(now - cmd) = IF now - cmd < 0 THEN now - cmd + R ELSE now - cmd
    BY <1>1, <2>1, ModuloIs
  <2> QED BY <1>1, <1>2, <2>2
<1>7. CASE now < lag
  BY <1>1, <1>2, <1>3, <1>4, <1>5, <1>6, <1>7 DEF Expired
<1>8. CASE ~(now < lag)
  <2>1. cmd = now - lag /\ cmd <= now /\ ~(now < cmd) /\ cmd \in Nat
    BY <1>1, <1>2, <1>8
  <2>2. Expired(t, period, value, now, cmd) <=> value <= now /\ lag >= period
    BY <1>6, <2>1 DEF Expired
  <2>3. CASE cmd + period < R
    BY <1>1, <1>3, <1>4, <1>5, <2>1, <2>2, <2>3
  <2>4. CASE ~(cmd + period < R)
    <3>1. value = now - lag + period - R /\ lag < period
      BY <1>1, <1>4, <2>1, <2>4
    <3>2. value <= now
      BY <1>1, <3>1
    <3> QED BY <1>1, <1>3, <1>5, <2>2, <3>1, <3>2
  <2> QED BY <2>3, <2>4
<1> QED BY <1>7, <1>8

(***************************************************************************)
(* The lists.                                                              *)
(***************************************************************************)
Members(list) == {list[i] : i \in 1 .. Len(list)}

NoRepeat(list) == \A i, j \in 1 .. Len(list) : list[i] = list[j] => i = j

InOrder(list, value) == \A i, j \in 1 .. Len(list) : i <= j => value[list[i]] <= value[list[j]]

GoodList(list, value) == list \in Seq(Timers) /\ NoRepeat(list) /\ InOrder(list, value)

(* Only the values of its members matter to a list. *)
LEMMA OrderKept ==
  ASSUME NEW list, NEW v, NEW w, GoodList(list, v), \A u \in Members(list) : w[u] = v[u]
  PROVE  GoodList(list, w)
  BY DEF GoodList, InOrder, Members

LEMMA EmptyList == ASSUME NEW v PROVE GoodList(<<>>, v) /\ Members(<<>>) = {}
  BY DEF GoodList, InOrder, NoRepeat, Members

LEMMA MembersAre ==
  ASSUME NEW list, NEW v, GoodList(list, v)
  PROVE  Members(list) \subseteq Timers /\ (Members(list) = {} <=> list = <<>>)
  BY DEF GoodList, Members

(* The head of a list is the first to expire. *)
LEMMA TailGood ==
  ASSUME NEW list, NEW v, GoodList(list, v), list # <<>>
  PROVE  /\ GoodList(Tail(list), v)
         /\ Members(Tail(list)) = Members(list) \ {Head(list)}
         /\ Head(list) \in Members(list)
         /\ \A u \in Members(list) : v[Head(list)] <= v[u]
<1>1. /\ list \in Seq(Timers) /\ Len(list) \in Nat /\ Len(list) > 0
      /\ Tail(list) \in Seq(Timers) /\ Len(Tail(list)) = Len(list) - 1
      /\ \A i \in 1 .. Len(list) - 1 : Tail(list)[i] = list[i + 1]
      /\ Head(list) = list[1]
  BY DEF GoodList
<1>2. NoRepeat(Tail(list)) /\ InOrder(Tail(list), v)
  <2> SUFFICES ASSUME NEW i \in 1 .. Len(list) - 1, NEW j \in 1 .. Len(list) - 1
               PROVE  /\ Tail(list)[i] = Tail(list)[j] => i = j
                      /\ i <= j => v[Tail(list)[i]] <= v[Tail(list)[j]]
    BY <1>1 DEF NoRepeat, InOrder
  <2>1. i + 1 \in 1 .. Len(list) /\ j + 1 \in 1 .. Len(list)
    BY <1>1
  <2> QED BY <1>1, <2>1 DEF GoodList, NoRepeat, InOrder
<1>3. ASSUME NEW u PROVE u \in Members(Tail(list)) <=> u \in Members(list) /\ u # Head(list)
  <2>1. ASSUME u \in Members(Tail(list)) PROVE u \in Members(list) /\ u # Head(list)
    <3>1. PICK i \in 1 .. Len(list) - 1 : u = Tail(list)[i]
      BY <1>1, <2>1 DEF Members
    <3>2. i + 1 \in 1 .. Len(list) /\ i + 1 # 1 /\ 1 \in 1 .. Len(list) /\ u = list[i + 1]
      BY <1>1, <3>1
    <3> QED BY <1>1, <3>2 DEF GoodList, NoRepeat, Members
  <2>2. ASSUME u \in Members(list), u # Head(list) PROVE u \in Members(Tail(list))
    <3>1. PICK i \in 1 .. Len(list) : u = list[i]
      BY <2>2 DEF Members
    <3>2. i - 1 \in 1 .. Len(list) - 1 /\ Tail(list)[i - 1] = list[(i - 1) + 1] /\ (i - 1) + 1 = i
      BY <1>1, <2>2, <3>1
    <3> QED BY <1>1, <3>1, <3>2 DEF Members
  <2> QED BY <2>1, <2>2
<1>4. Head(list) \in Members(list) /\ \A u \in Members(list) : v[Head(list)] <= v[u]
  <2>1. 1 \in 1 .. Len(list) /\ \A i \in 1 .. Len(list) : 1 <= i
    BY <1>1
  <2> QED BY <1>1, <2>1 DEF GoodList, InOrder, Members
<1> QED BY <1>1, <1>2, <1>3, <1>4 DEF GoodList

LEMMA WithoutGood ==
  ASSUME NEW list, NEW v, GoodList(list, v), NEW t
  PROVE  /\ GoodList(Without(list, t), v)
         /\ Members(Without(list, t)) = Members(list) \ {t}
<1> DEFINE at == {i \in 1 .. Len(list) : list[i] = t}
<1>0. list \in Seq(Timers) /\ Len(list) \in Nat
  BY DEF GoodList
<1>1. CASE at = {}
  <2>1. Without(list, t) = list
    BY <1>1 DEF Without
  <2> QED BY <1>1, <2>1 DEF Members
<1>2. CASE at # {}
  <2>1. PICK i \in 1 .. Len(list) : list[i] = t /\ i = CHOOSE k \in at : TRUE
    BY <1>2
  <2> DEFINE r == SubSeq(list, 1, i - 1) \o SubSeq(list, i + 1, Len(list))
  <2>2. Without(list, t) = r
    BY <1>2, <2>1 DEF Without
  <2>3. /\ r \in Seq(Timers) /\ Len(r) = Len(list) - 1
        /\ \A k \in 1 .. Len(list) - 1 : r[k] = list[IF k < i THEN k ELSE k + 1]
    <3>1. /\ SubSeq(list, 1, i - 1) \in Seq(Timers) /\ Len(SubSeq(list, 1, i - 1)) = i - 1
          /\ \A k \in 1 .. i - 1 : SubSeq(list, 1, i - 1)[k] = list[k]
      BY <1>0, <2>1
    <3>2. /\ SubSeq(list, i + 1, Len(list)) \in Seq(Timers)
          /\ Len(SubSeq(list, i + 1, Len(list))) = Len(list) - i
          /\ \A k \in 1 .. Len(list) - i : SubSeq(list, i + 1, Len(list))[k] = list[k + i]
      BY <1>0, <2>1
    <3>3. PICK p \in Seq(Timers), q \in Seq(Timers) :
             p = SubSeq(list, 1, i - 1) /\ q = SubSeq(list, i + 1, Len(list))
      BY <3>1, <3>2
    <3>4. /\ Len(p) = i - 1 /\ Len(q) = Len(list) - i
          /\ \A k \in 1 .. i - 1 : p[k] = list[k]
          /\ \A k \in 1 .. Len(list) - i : q[k] = list[k + i]
      BY <3>1, <3>2, <3>3
    <3>0. PICK n \in Nat : n = Len(list) /\ i \in Int /\ 1 <= i /\ i <= n
      BY <1>0, <2>1
    <3>9. Len(p) = i - 1 /\ Len(q) = n - i
      BY <3>0, <3>4
    <3>5. p \o q \in Seq(Timers) /\ Len(p \o q) = Len(list) - 1
      <4>1. p \o q \in Seq(Timers) /\ Len(p \o q) = Len(p) + Len(q)
        BY <3>3
      <4> QED BY <3>0, <3>9, <4>1
    <3>6. ASSUME NEW k \in 1 .. Len(list) - 1
          PROVE  (p \o q)[k] = list[IF k < i THEN k ELSE k + 1]
      <4>1. CASE k < i
        <5>1. k \in 1 .. Len(p)
          BY <2>1, <3>4, <4>1
        <5> QED BY <3>3, <3>4, <4>1, <5>1
      <4>2. CASE ~(k < i)
        <5>1. k \in Len(p) + 1 .. Len(p) + Len(q) /\ k - Len(p) = k - i + 1 /\ (k - i + 1) + i = k + 1
              /\ k - i + 1 \in 1 .. Len(list) - i
          <6>1. k \in Int /\ k <= n - 1
            BY <3>0
          <6> QED BY <3>0, <3>9, <4>2, <6>1
        <5>2. (p \o q)[k] = q[k - Len(p)]
          BY <3>3, <5>1
        <5>3. q[k - i + 1] = list[(k - i + 1) + i]
          BY <3>4, <5>1
        <5> QED BY <4>2, <5>1, <5>2, <5>3
      <4> QED BY <4>1, <4>2
    <3> QED BY <3>3, <3>5, <3>6
  <2> DEFINE from(k) == IF k < i THEN k ELSE k + 1
  <2>4. ASSUME NEW k \in 1 .. Len(list) - 1 PROVE from(k) \in 1 .. Len(list) /\ from(k) # i
    <3>1. k \in Int /\ i \in Int /\ 1 <= k /\ k < Len(list)
      BY <1>0, <2>1
    <3>2. CASE k < i
      BY <1>0, <3>1, <3>2
    <3>3. CASE ~(k < i)
      BY <1>0, <3>1, <3>3
    <3> QED BY <3>2, <3>3
  <2>5. NoRepeat(r) /\ InOrder(r, v)
    <3> SUFFICES ASSUME NEW k \in 1 .. Len(list) - 1, NEW l \in 1 .. Len(list) - 1
                 PROVE  /\ r[k] = r[l] => k = l
                        /\ k <= l => v[r[k]] <= v[r[l]]
      BY <2>3 DEF NoRepeat, InOrder
    <3>1. r[k] = list[from(k)] /\ r[l] = list[from(l)]
      BY <2>3
    <3>2. (from(k) = from(l) => k = l) /\ (k <= l => from(k) <= from(l))
      BY <1>0, <2>1
    <3> HIDE DEF r, from
    <3> QED BY <2>4, <3>1, <3>2 DEF GoodList, NoRepeat, InOrder
  <2>6. ASSUME NEW u PROVE u \in Members(r) <=> u \in Members(list) /\ u # t
    <3>1. ASSUME u \in Members(r) PROVE u \in Members(list) /\ u # t
      <4>1. PICK k \in 1 .. Len(list) - 1 : u = list[from(k)]
        BY <2>3, <3>1 DEF Members
      <4> HIDE DEF from
      <4> QED BY <2>1, <2>4, <4>1 DEF GoodList, NoRepeat, Members
    <3>2. ASSUME u \in Members(list), u # t PROVE u \in Members(r)
      <4>1. PICK k \in 1 .. Len(list) : u = list[k]
        BY <3>2 DEF Members
      <4>2. k # i
        BY <2>1, <3>2, <4>1
      <4>3. CASE k < i
        <5>0. k \in 1 .. Len(list) - 1
          BY <1>0, <2>1, <4>1, <4>3
        <5>1. k \in 1 .. Len(list) - 1 /\ r[k] = list[k]
          BY <2>3, <4>3, <5>0
        <5> QED BY <2>3, <4>1, <5>1 DEF Members
      <4>4. CASE k > i
        <5>1. k - 1 \in 1 .. Len(list) - 1 /\ ~(k - 1 < i) /\ (k - 1) + 1 = k
          BY <1>0, <2>1, <4>1, <4>4
        <5>2. r[k - 1] = list[k]
          BY <2>3, <5>1
        <5> QED BY <2>3, <4>1, <5>1, <5>2 DEF Members
      <4> QED BY <1>0, <2>1, <4>1, <4>2, <4>3, <4>4
    <3> QED BY <3>1, <3>2
  <2> QED BY <2>2, <2>3, <2>5, <2>6 DEF GoodList
<1> QED BY <1>1, <1>2

(* A set of positions that is not empty has a last one.                    *)
LEMMA LastExists ==
  ASSUME NEW n \in Nat, NEW S \in SUBSET (1 .. n), S # {}
  PROVE  \E x \in S : \A y \in S : y <= x
<1> DEFINE up(x) == {y \in S : x < y}
           T == {up(x) : x \in S}
<1>1. IsFiniteSet(S)
  <2>1. IsFiniteSet(1 .. n)
    BY FS_Interval
  <2> QED BY <2>1, FS_Subset
<1>2. T \subseteq FiniteSubsetsOf(S) /\ T # {}
  <2>1. \A x \in S : up(x) \in SUBSET S /\ IsFiniteSet(up(x))
    BY <1>1, FS_Subset
  <2> QED BY <2>1 DEF FiniteSubsetsOf
<1>3. PICK m \in T : \A u \in T : ~(<<u, m>> \in StrictSubsetOrdering(S))
  <2>1. IsWellFoundedOn(StrictSubsetOrdering(S), FiniteSubsetsOf(S))
    BY FS_StrictSubsetOrderingWellFounded
  <2> HIDE DEF T
  <2> QED BY <1>2, <2>1, WFMin
<1>4. PICK x \in S : m = up(x)
  BY <1>3
<1>5. ASSUME NEW y \in S, ~(y <= x) PROVE FALSE
  <2>1. x \in Int /\ y \in Int /\ x < y
    BY <1>5
  <2>0. \A z \in S : z \in Int
    OBVIOUS
  <2>2. up(y) \subseteq up(x) /\ y \in up(x) /\ y \notin up(y)
    <3>1. ASSUME NEW z \in S, y < z PROVE x < z
      BY <2>0, <2>1, <3>1
    <3>2. ~(y < y)
      BY <2>1
    <3> QED BY <2>1, <3>1, <3>2
  <2>4. up(x) \in SUBSET S /\ up(y) \in SUBSET S
    OBVIOUS
  <2>5. up(y) \in T
    OBVIOUS
  <2>3. <<up(y), up(x)>> \in StrictSubsetOrdering(S)
    <3> HIDE DEF up
    <3> QED BY <2>2, <2>4 DEF StrictSubsetOrdering
  <2> QED BY <1>3, <1>4, <2>3, <2>5
<1> QED BY <1>5

LEMMA InsertGood ==
  ASSUME NEW list, NEW v \in [Timers -> Int], GoodList(list, v), NEW t \in Timers, t \notin Members(list)
  PROVE  /\ GoodList(InsertInOrder(list, t, v), v)
         /\ Members(InsertInOrder(list, t, v)) = Members(list) \cup {t}
<1>0. PICK m \in Nat : m = Len(list) /\ list \in Seq(Timers)
  BY DEF GoodList
<1>1. \A i \in 1 .. m : list[i] \in Timers /\ list[i] # t /\ v[list[i]] \in Int
  BY <1>0 DEF Members
<1>10. v[t] \in Int
  OBVIOUS
<1> DEFINE before == {i \in 1 .. Len(list) : v[list[i]] <= v[t]}
           p == IF before = {} THEN 0 ELSE CHOOSE i \in before : \A j \in before : j <= i
<1>2. /\ p \in 0 .. m
      /\ \A i \in 1 .. m : i <= p => v[list[i]] <= v[t]
      /\ \A i \in 1 .. m : i > p => v[list[i]] > v[t]
  <2>1. CASE before = {}
    <3>1. \A i \in 1 .. m : v[list[i]] > v[t]
      BY <1>0, <1>1, <1>10, <2>1
    <3> QED BY <1>0, <2>1, <3>1
  <2>2. CASE before # {}
    <3>1. PICK x \in before : \A y \in before : y <= x
      <4>1. before \in SUBSET (1 .. m)
        BY <1>0
      <4> HIDE DEF before
      <4> QED BY <2>2, <4>1, LastExists
    <3>2. p \in before /\ \A j \in before : j <= p
      <4> HIDE DEF before
      <4> QED BY <2>2, <3>1 DEF p
    <3>3. p \in 1 .. m /\ v[list[p]] <= v[t]
      BY <1>0, <3>2
    <3>4. ASSUME NEW i \in 1 .. m, i <= p PROVE v[list[i]] <= v[t]
      <4>1. v[list[i]] <= v[list[p]]
        BY <1>0, <3>3, <3>4 DEF GoodList, InOrder
      <4> HIDE DEF p
      <4> QED BY <1>1, <1>10, <3>3, <4>1
    <3>5. ASSUME NEW i \in 1 .. m, i > p PROVE v[list[i]] > v[t]
      <4>1. i \notin before
        <5> HIDE DEF before, p
        <5> QED BY <3>2, <3>3, <3>5
      <4> QED BY <1>0, <1>1, <1>10, <4>1
    <3> HIDE DEF p
    <3> QED BY <3>3, <3>4, <3>5
  <2> QED BY <2>1, <2>2
<1>3. PICK n \in Nat : n = p
  <2> HIDE DEF p
  <2>1. p \in Nat
    BY <1>0, <1>2
  <2> QED BY <2>1
<1> DEFINE r == SubSeq(list, 1, n) \o <<t>> \o SubSeq(list, n + 1, Len(list))
<1>4. InsertInOrder(list, t, v) = r
  BY <1>3 DEF InsertInOrder
<1>5. /\ n <= m
      /\ \A i \in 1 .. m : i <= n => v[list[i]] <= v[t]
      /\ \A i \in 1 .. m : i > n => v[list[i]] > v[t]
  <2> HIDE DEF p
  <2> QED BY <1>2, <1>3
<1> HIDE DEF p, before
<1>6. /\ r \in Seq(Timers) /\ Len(r) = m + 1 /\ r[n + 1] = t
      /\ \A i \in 1 .. n : r[i] = list[i]
      /\ \A i \in n + 1 .. m : r[i + 1] = list[i]
  <2>a. /\ SubSeq(list, 1, n) \in Seq(Timers) /\ Len(SubSeq(list, 1, n)) = n
        /\ \A i \in 1 .. n : SubSeq(list, 1, n)[i] = list[i]
    BY <1>0, <1>5
  <2>b. /\ SubSeq(list, n + 1, m) \in Seq(Timers) /\ Len(SubSeq(list, n + 1, m)) = m - n
        /\ \A i \in 1 .. m - n : SubSeq(list, n + 1, m)[i] = list[i + n]
    BY <1>0, <1>5
  <2>1. PICK a \in Seq(Timers) : /\ a = SubSeq(list, 1, n) /\ Len(a) = n
                                 /\ \A i \in 1 .. n : a[i] = list[i]
    BY <2>a
  <2>2. PICK b \in Seq(Timers) : /\ b = SubSeq(list, n + 1, Len(list)) /\ Len(b) = m - n
                                 /\ \A i \in 1 .. m - n : b[i] = list[i + n]
    BY <1>0, <2>b
  <2>c. /\ a \o <<t>> \in Seq(Timers) /\ Len(a \o <<t>>) = n + 1 /\ (a \o <<t>>)[n + 1] = t
        /\ \A i \in 1 .. n : (a \o <<t>>)[i] = a[i]
    <3>1. <<t>> \in Seq(Timers) /\ Len(<<t>>) = 1 /\ <<t>>[1] = t
      OBVIOUS
    <3>2. \A i \in 1 .. n : i \in 1 .. Len(a)
      BY <2>1
    <3> QED BY <2>1, <3>1, <3>2
  <2>3. PICK c \in Seq(Timers) : /\ c = a \o <<t>> /\ Len(c) = n + 1 /\ c[n + 1] = t
                                 /\ \A i \in 1 .. n : c[i] = list[i]
    BY <2>1, <2>c
  <2>4. r = c \o b /\ r \in Seq(Timers) /\ Len(r) = m + 1
    <3>1. r = c \o b
      BY <2>1, <2>2, <2>3
    <3>2. c \o b \in Seq(Timers) /\ Len(c \o b) = Len(c) + Len(b)
      OBVIOUS
    <3>3. Len(c) + Len(b) = m + 1
      BY <1>0, <1>5, <2>2, <2>3
    <3> HIDE DEF r
    <3> QED BY <3>1, <3>2, <3>3
  <2>5. r[n + 1] = t /\ \A i \in 1 .. n : r[i] = list[i]
    <3>1. \A i \in 1 .. Len(c) : (c \o b)[i] = c[i]
      OBVIOUS
    <3> HIDE DEF r
    <3> QED BY <2>3, <2>4, <3>1
  <2>6. ASSUME NEW i \in n + 1 .. m PROVE r[i + 1] = list[i]
    <3>1. /\ i + 1 \in Len(c) + 1 .. Len(c) + Len(b) /\ (i + 1) - Len(c) = i - n
          /\ i - n \in 1 .. m - n /\ (i - n) + n = i
      <4>1. m \in Nat /\ n \in Nat /\ n <= m /\ i \in Int /\ n + 1 <= i /\ i <= m
        BY <1>5
      <4>2. Len(c) = n + 1 /\ Len(b) = m - n
        BY <2>2, <2>3
      <4> QED BY <4>1, <4>2
    <3>2. (c \o b)[i + 1] = b[(i + 1) - Len(c)]
      BY <3>1
    <3> HIDE DEF r
    <3> QED BY <2>2, <2>4, <3>1, <3>2
  <2> QED BY <2>4, <2>5, <2>6
<1> HIDE DEF r
<1>7. ASSUME NEW k \in 1 .. m + 1
      PROVE  \/ k <= n /\ k \in 1 .. m /\ r[k] = list[k]
             \/ k = n + 1 /\ r[k] = t
             \/ k > n + 1 /\ k - 1 \in 1 .. m /\ k - 1 > n /\ r[k] = list[k - 1]
  <2>1. CASE k <= n
    BY <1>5, <1>6, <2>1
  <2>2. CASE k = n + 1
    BY <1>6, <2>2
  <2>3. CASE k > n + 1
    <3>1. k - 1 \in n + 1 .. m /\ (k - 1) + 1 = k
      BY <1>5, <2>3
    <3>2. r[(k - 1) + 1] = list[k - 1]
      BY <1>6, <3>1
    <3> QED BY <2>3, <3>1, <3>2
  <2> QED BY <2>1, <2>2, <2>3
<1>8. NoRepeat(r) /\ InOrder(r, v)
  <2> SUFFICES ASSUME NEW k \in 1 .. m + 1, NEW l \in 1 .. m + 1
               PROVE  /\ r[k] = r[l] => k = l
                      /\ k <= l => v[r[k]] <= v[r[l]]
    BY <1>6 DEF NoRepeat, InOrder
  <2>1. \A i, j \in 1 .. m : (list[i] = list[j] => i = j) /\ (i <= j => v[list[i]] <= v[list[j]])
    BY <1>0 DEF GoodList, NoRepeat, InOrder
  <2>2. CASE k <= n /\ k \in 1 .. m /\ r[k] = list[k]
    BY <1>1, <1>5, <1>7, <1>10, <2>1, <2>2
  <2>3. CASE k = n + 1 /\ r[k] = t
    BY <1>1, <1>5, <1>7, <1>10, <2>1, <2>3
  <2>4. CASE k > n + 1 /\ k - 1 \in 1 .. m /\ k - 1 > n /\ r[k] = list[k - 1]
    BY <1>1, <1>5, <1>7, <1>10, <2>1, <2>4
  <2> QED BY <1>7, <2>2, <2>3, <2>4
<1>9. ASSUME NEW u PROVE u \in Members(r) <=> u \in Members(list) \/ u = t
  <2>1. ASSUME u \in Members(r) PROVE u \in Members(list) \/ u = t
    <3>1. PICK k \in 1 .. m + 1 : u = r[k]
      BY <1>6, <2>1 DEF Members
    <3> QED BY <1>0, <1>7, <3>1 DEF Members
  <2>2. ASSUME u = t PROVE u \in Members(r)
    BY <1>5, <1>6, <2>2 DEF Members
  <2>3. ASSUME u \in Members(list) PROVE u \in Members(r)
    <3>1. PICK i \in 1 .. m : u = list[i]
      BY <1>0, <2>3 DEF Members
    <3>2. CASE i <= n
      <4>1. i \in 1 .. m + 1 /\ r[i] = list[i]
        BY <1>6, <3>2
      <4> QED BY <1>6, <3>1, <4>1 DEF Members
    <3>3. CASE i > n
      <4>1. i + 1 \in 1 .. m + 1 /\ r[i + 1] = list[i]
        BY <1>6, <3>3
      <4> QED BY <1>6, <3>1, <4>1 DEF Members
    <3> QED BY <3>2, <3>3
  <2> QED BY <2>1, <2>2, <2>3
<1> QED BY <1>4, <1>6, <1>8, <1>9 DEF GoodList

(* Two lists that share no timer hold as many as there are in them.        *)
LEMMA LengthsAdd ==
  ASSUME NEW l, NEW k, NEW v, GoodList(l, v), GoodList(k, v), Members(l) \cap Members(k) = {}
  PROVE  Len(l) + Len(k) = Cardinality(Members(l) \cup Members(k))
<1>1. ASSUME NEW s, GoodList(s, v)
      PROVE  IsFiniteSet(Members(s)) /\ Cardinality(Members(s)) = Len(s) /\ Len(s) \in Nat
  <2>1. s \in Seq(Timers) /\ Len(s) \in Nat
    BY <1>1 DEF GoodList
  <2> DEFINE f == [i \in 1 .. Len(s) |-> s[i]]
  <2>2. f \in Bijection(1 .. Len(s), Members(s))
    BY <1>1 DEF GoodList, NoRepeat, Members, Bijection, Injection, Surjection, IsInjective
  <2>3. ExistsBijection(1 .. Len(s), Members(s))
    BY <2>2 DEF ExistsBijection
  <2>4. Cardinality(Members(s)) = Len(s)
    BY <2>1, <2>3, FS_CountingElements
  <2>5. IsFiniteSet(Members(s))
    <3>1. IsFiniteSet(1 .. Len(s))
      BY <2>1, FS_Interval
    <3> QED BY <2>3, <3>1, FS_Bijection
  <2> QED BY <2>1, <2>4, <2>5
<1>2. Cardinality(Members(l) \cap Members(k)) = 0
  BY FS_EmptySet
<1>3. PICK S, T : S = Members(l) /\ T = Members(k)
  OBVIOUS
<1>4. /\ IsFiniteSet(S) /\ Cardinality(S) = Len(l) /\ Len(l) \in Nat
      /\ IsFiniteSet(T) /\ Cardinality(T) = Len(k) /\ Len(k) \in Nat
  BY <1>1, <1>3
<1>5. Cardinality(S \cup T) = Cardinality(S) + Cardinality(T) - Cardinality(S \cap T)
  BY ONLY <1>4, FS_Union
<1> QED BY <1>2, <1>3, <1>4, <1>5

(***************************************************************************)
(* The command queue.                                                      *)
(***************************************************************************)
(* Its memory is given back when it is deleted. *)
Deletable(t) == t \in Dynamic /\ "delete" \in TimerCalls[t]

(* The one premise: a timer whose memory is given back never reloads.  The *)
(* start that the service task sends itself for a timer that reloads may   *)
(* come behind a delete that is queued already, and uses freed memory.     *)
OneShotsAreDeleted ==
  \A t \in Timers : Deletable(t) => t \notin Reloading /\ "reloadMode" \notin TimerCalls[t]

Frees(c) == c.id = "delete" /\ c.pxTimer \in Dynamic

USE DEF Frees

CommandOK(c, made, now) ==
  /\ c \in Command
  /\ c.id = "pended" <=> c.pxTimer = NoTimer
  /\ c.id # "pended" => c.pxTimer \in made
  /\ c.id = "start" => c.value = Modulo(now - c.age)
  /\ c.id = "changePeriod" => c.value \in PeriodsInUse
  /\ Frees(c) => Deletable(c.pxTimer)

QueueOK(q, made, now) ==
  /\ q \in Seq(Command)
  /\ \A i \in 1 .. Len(q) : CommandOK(q[i], made, now)
  /\ \A i, j \in 1 .. Len(q) : i < j /\ Frees(q[i]) => q[j].pxTimer # q[i].pxTimer

ReloadIn(q, t) == \E i \in 1 .. Len(q) : q[i].id = "start" /\ q[i].pxTimer = t

LEMMA TailQueue ==
  ASSUME NEW q, NEW made, NEW now, QueueOK(q, made, now), q # <<>>
  PROVE  /\ QueueOK(Tail(q), made, now)
         /\ CommandOK(Head(q), made, now)
         /\ Frees(Head(q)) =>
              \A j \in 1 .. Len(Tail(q)) : Tail(q)[j].pxTimer # Head(q).pxTimer
         /\ \A u : ReloadIn(q, u) /\ Head(q).pxTimer # u => ReloadIn(Tail(q), u)
<1>1. /\ q \in Seq(Command) /\ Len(q) \in Nat /\ Len(q) > 0
      /\ Tail(q) \in Seq(Command) /\ Len(Tail(q)) = Len(q) - 1
      /\ \A i \in 1 .. Len(q) - 1 : Tail(q)[i] = q[i + 1]
      /\ Head(q) = q[1] /\ 1 \in 1 .. Len(q)
  BY DEF QueueOK
<1>2. ASSUME NEW i \in 1 .. Len(q) - 1 PROVE i + 1 \in 1 .. Len(q) /\ 1 < i + 1 /\ Tail(q)[i] = q[i + 1]
  BY <1>1
<1>3. CommandOK(Head(q), made, now) /\ \A i \in 1 .. Len(q) - 1 : CommandOK(Tail(q)[i], made, now)
  BY <1>1, <1>2 DEF QueueOK
<1>4. ASSUME NEW i \in 1 .. Len(q) - 1, NEW j \in 1 .. Len(q) - 1, i < j, Frees(Tail(q)[i])
      PROVE  Tail(q)[j].pxTimer # Tail(q)[i].pxTimer
  <2>1. i + 1 < j + 1
    BY <1>1, <1>4
  <2> QED BY <1>2, <1>4, <2>1 DEF QueueOK
<1>5. ASSUME Frees(Head(q)), NEW j \in 1 .. Len(q) - 1
      PROVE  Tail(q)[j].pxTimer # Head(q).pxTimer
  BY <1>1, <1>2, <1>5 DEF QueueOK
<1>6. ASSUME NEW u, ReloadIn(q, u), Head(q).pxTimer # u PROVE ReloadIn(Tail(q), u)
  <2>1. PICK i \in 1 .. Len(q) : q[i].id = "start" /\ q[i].pxTimer = u
    BY <1>6 DEF ReloadIn
  <2>2. i - 1 \in 1 .. Len(q) - 1 /\ (i - 1) + 1 = i
    BY <1>1, <1>6, <2>1
  <2>3. Tail(q)[i - 1] = q[i]
    BY <1>1, <2>2
  <2> QED BY <1>1, <2>1, <2>2, <2>3 DEF ReloadIn
<1> QED BY <1>1, <1>3, <1>4, <1>5, <1>6 DEF QueueOK

LEMMA AppendQueue ==
  ASSUME NEW q, NEW made, NEW now, QueueOK(q, made, now), NEW c, CommandOK(c, made, now),
         \A i \in 1 .. Len(q) : Frees(q[i]) => q[i].pxTimer # c.pxTimer
  PROVE  /\ QueueOK(Append(q, c), made, now)
         /\ c.id = "start" => ReloadIn(Append(q, c), c.pxTimer)
         /\ \A u : ReloadIn(q, u) => ReloadIn(Append(q, c), u)
<1>1. /\ c \in Command /\ q \in Seq(Command) /\ Len(q) \in Nat
      /\ Append(q, c) \in Seq(Command) /\ Len(Append(q, c)) = Len(q) + 1
      /\ \A i \in 1 .. Len(q) : Append(q, c)[i] = q[i]
      /\ Append(q, c)[Len(q) + 1] = c
  BY DEF QueueOK, CommandOK
<1>2. \A i \in 1 .. Len(q) + 1 : i \in 1 .. Len(q) \/ i = Len(q) + 1
  BY <1>1
<1>3. \A i \in 1 .. Len(q) + 1 : CommandOK(Append(q, c)[i], made, now)
  BY <1>1, <1>2 DEF QueueOK
<1>4. ASSUME NEW i \in 1 .. Len(q) + 1, NEW j \in 1 .. Len(q) + 1, i < j, Frees(Append(q, c)[i])
      PROVE  Append(q, c)[j].pxTimer # Append(q, c)[i].pxTimer
  <2>1. i \in 1 .. Len(q)
    BY <1>1, <1>4
  <2> QED BY <1>1, <1>2, <1>4, <2>1 DEF QueueOK
<1>5. c.id = "start" => ReloadIn(Append(q, c), c.pxTimer)
  <2>1. Len(q) + 1 \in 1 .. Len(Append(q, c))
    BY <1>1
  <2> QED BY <1>1, <2>1 DEF ReloadIn
<1>6. \A u : ReloadIn(q, u) => ReloadIn(Append(q, c), u)
  <2>1. \A i \in 1 .. Len(q) : i \in 1 .. Len(Append(q, c))
    BY <1>1
  <2> QED BY <1>1, <2>1 DEF ReloadIn
<1> QED BY <1>1, <1>3, <1>4, <1>5, <1>6 DEF QueueOK

LEMMA QueueOfOthers ==
  ASSUME NEW q, NEW made, NEW now, QueueOK(q, made, now), NEW made2,
         \A i \in 1 .. Len(q) : q[i].pxTimer \in made => q[i].pxTimer \in made2
  PROVE  QueueOK(q, made2, now)
  BY DEF QueueOK, CommandOK

(***************************************************************************)
(* The invariant.                                                          *)
(***************************************************************************)
Switching == daemon \in {"switch", "switchForCommand"}

(* The turns of the counter that the lists do not know of yet: one that    *)
(* the service task has not noticed, one for which it switches the lists.  *)
Unnoticed == IF Wraps THEN TimerTickRange ELSE 0
Turn == Unnoticed + (IF Switching THEN TimerTickRange ELSE 0)

(* The ticks since the service task has looked at the time. *)
Elapsed == timerNow + Unnoticed - xLastTime

InList(t) == t \in Members(pxCurrentTimerList) \cup Members(pxOverflowTimerList)

TypesInv ==
  /\ created \subseteq Timers /\ armed \subseteq created /\ reloadBit \subseteq created
  /\ xTimerPeriodInTicks \in [Timers -> PeriodsInUse]
  /\ xTimerListItem \in [Timers -> TimerTicks]
  /\ due \in [Timers -> Int]
  /\ timerNow \in TimerTicks /\ xLastTime \in TimerTicks
  /\ toWait \in Int /\ toWait >= -1
  /\ behind \in 0 .. MaxLate
  /\ early = FALSE
  /\ \A t \in reloadBit : ~Deletable(t)

QueueInv == QueueOK(xTimerQueue, created, timerNow)

ReceivedInv ==
  IF daemon \in {"switchForCommand", "apply"}
  THEN /\ CommandOK(pxCommand, created, timerNow) /\ pxCommand.id # "pended"
       /\ pxCommand.age >= behind
       /\ pxCommand.id = "changePeriod" => pxCommand.age = behind
       /\ pxCommand.pxTimer \notin armed
       /\ Frees(pxCommand) =>
            \A j \in 1 .. Len(xTimerQueue) : xTimerQueue[j].pxTimer # pxCommand.pxTimer
  ELSE daemon # "assertFailed" => pxCommand = NoCommand

ListsInv ==
  /\ GoodList(pxCurrentTimerList, xTimerListItem)
  /\ GoodList(pxOverflowTimerList, xTimerListItem)
  /\ Members(pxCurrentTimerList) \cap Members(pxOverflowTimerList) = {}

(* What is listed runs, and what runs is listed or about to be. *)
ArmedInv ==
  /\ \A t \in Timers : InList(t) => t \in armed
  /\ \A t \in armed : due[t] \in -MaxLate .. TimerTickRange - 1 - MaxLate
  /\ \A t \in armed : InList(t) \/ ReloadIn(xTimerQueue, t) \/ daemon = "assertFailed"

(* What is listed is so at the time it expires: in the current list before *)
(* the counter wraps, in the overflow list after it.                       *)
TimesInv ==
  /\ \A t \in Timers : InList(t) => xTimerListItem[t] = Modulo(timerNow + due[t])
  /\ daemon # "assertFailed" =>
       /\ \A t \in Members(pxCurrentTimerList) : xTimerListItem[t] = timerNow + Turn + due[t]
       /\ \A t \in Members(pxOverflowTimerList) :
            /\ xTimerListItem[t] + TimerTickRange = timerNow + Turn + due[t]
            /\ ~Switching => xTimerListItem[t] + MaxLate + 1 <= xLastTime

NothingListed == pxCurrentTimerList = <<>> /\ pxOverflowTimerList = <<>>

(* A turn of the counter is never missed while a timer is listed. *)
ClockInv ==
  /\ daemon \in {"notStarted", "look", "blocked", "commands", "switch", "switchForCommand", "apply",
                 "assertFailed"}
  /\ daemon = "notStarted" => NothingListed /\ timerNow = 0 /\ xLastTime = 0 /\ behind = 0
  /\ daemon = "blocked" =>
       /\ toWait = -1 => NothingListed
       /\ toWait >= 0 => Elapsed + toWait <= TimerTickRange - 1 - MaxLate + behind
       /\ ~Ready => behind = 0
  /\ daemon \in {"look", "commands"} =>
       NothingListed \/ Elapsed <= TimerTickRange - 1 - MaxLate + behind
  /\ daemon \in {"switch", "switchForCommand", "apply"} => Elapsed = behind

TimerInv == TypesInv /\ QueueInv /\ ReceivedInv /\ ListsInv /\ ArmedInv /\ TimesInv /\ ClockInv

LEMMA TimerInvInit == TimerInit => TimerInv
<1> SUFFICES ASSUME TimerInit PROVE TimerInv
  OBVIOUS
<1> USE DEF TimerInit
<1>1. TypesInv
  BY TimersAssumption, Numbers DEF TypesInv, TimerTicks
<1>2. QueueInv
  BY DEF QueueInv, QueueOK
<1>3. ReceivedInv
  BY DEF ReceivedInv
<1>4. ListsInv
  BY EmptyList DEF ListsInv
<1>5. ArmedInv
  BY EmptyList DEF ArmedInv, InList
<1>6. TimesInv
  BY EmptyList DEF TimesInv, InList
<1>7. ClockInv
  BY DEF ClockInv, NothingListed
<1> QED BY <1>1, <1>2, <1>3, <1>4, <1>5, <1>6, <1>7 DEF TimerInv

(* The value of a listed timer is the wrapped time at which it expires. *)
LEMMA ValueIsTime ==
  ASSUME NEW t \in Timers,
         NEW now \in TimerTicks, NEW d \in -MaxLate .. TimerTickRange - 1 - MaxLate,
         NEW value \in TimerTicks, NEW k \in Int,
         k \in {-TimerTickRange, 0, TimerTickRange, 2 * TimerTickRange}, value = now + k + d
  PROVE  value = Modulo(now + d)
<1> DEFINE R == TimerTickRange
<1>1. /\ R \in Nat /\ MaxLate \in Nat /\ now \in Nat /\ now < R /\ value \in Nat /\ value < R
      /\ d \in Int /\ -MaxLate <= d /\ d <= R - 1 - MaxLate
  BY Numbers DEF TimerTicks
<1>2. MaxLate < R
  BY <1>1, LateIsShort
<1>3. Modulo(now + d) = IF now + d < 0 THEN now + d + R ELSE IF now + d < R THEN now + d ELSE now + d - R
  BY <1>1, <1>2, Moved
<1> QED BY <1>1, <1>2, <1>3

LEMMA TurnIs ==
  ASSUME TypesInv
  PROVE  /\ Unnoticed \in {0, TimerTickRange} /\ Turn \in Int /\ Elapsed \in Int
         /\ Turn \in {0, TimerTickRange, 2 * TimerTickRange}
         /\ Turn = Unnoticed + (IF Switching THEN TimerTickRange ELSE 0)
         /\ Elapsed = timerNow + Unnoticed - xLastTime
         /\ Wraps <=> Unnoticed = TimerTickRange
         /\ Wraps <=> timerNow < xLastTime
         /\ 0 <= Elapsed /\ Elapsed < TimerTickRange
  BY Numbers DEF TypesInv, TimerTicks, Turn, Unnoticed, Elapsed, Wraps

(***************************************************************************)
(* What a step of the service task does with one timer.                    *)
(***************************************************************************)
LEMMA Places ==
  ASSUME TypesInv, NEW current, NEW overflow, NEW t \in Timers, NEW value \in TimerTicks, NEW now,
         GoodList(current, xTimerListItem), GoodList(overflow, xTimerListItem),
         Members(current) \cap Members(overflow) = {},
         t \notin Members(current), t \notin Members(overflow),
         InsertInActiveList(t, value, now, current, overflow)
  PROVE  /\ xTimerListItem' = [xTimerListItem EXCEPT ![t] = value]
         /\ xTimerListItem' \in [Timers -> TimerTicks]
         /\ ListsInv'
         /\ Members(pxCurrentTimerList') = IF value <= now THEN Members(current) ELSE Members(current) \cup {t}
         /\ Members(pxOverflowTimerList') = IF value <= now THEN Members(overflow) \cup {t} ELSE Members(overflow)
<1> DEFINE values == [xTimerListItem EXCEPT ![t] = value]
<1>1. values \in [Timers -> TimerTicks] /\ xTimerListItem \in [Timers -> TimerTicks]
  BY DEF TypesInv
<1>2. values \in [Timers -> Int]
  BY <1>1, Numbers DEF TimerTicks
<1>3. ASSUME NEW list, GoodList(list, xTimerListItem), t \notin Members(list) PROVE GoodList(list, values)
  <2>1. Members(list) \subseteq Timers
    BY <1>3, MembersAre
  <2>2. \A u \in Members(list) : values[u] = xTimerListItem[u]
    BY <1>1, <1>3, <2>1
  <2> HIDE DEF values
  <2> QED BY <1>3, <2>2, OrderKept
<1>4. xTimerListItem' = values
  BY DEF InsertInActiveList
<1>5. CASE value <= now
  <2>1. pxOverflowTimerList' = InsertInOrder(overflow, t, values) /\ pxCurrentTimerList' = current
    BY <1>5 DEF InsertInActiveList
  <2> HIDE DEF values
  <2>2. /\ GoodList(pxOverflowTimerList', values)
        /\ Members(pxOverflowTimerList') = Members(overflow) \cup {t}
    BY <1>2, <1>3, <2>1, InsertGood
  <2> QED BY <1>1, <1>3, <1>4, <1>5, <2>1, <2>2 DEF ListsInv, values
<1>6. CASE ~(value <= now)
  <2>1. pxCurrentTimerList' = InsertInOrder(current, t, values) /\ pxOverflowTimerList' = overflow
    BY <1>6 DEF InsertInActiveList
  <2> HIDE DEF values
  <2>2. /\ GoodList(pxCurrentTimerList', values)
        /\ Members(pxCurrentTimerList') = Members(current) \cup {t}
    BY <1>2, <1>3, <2>1, InsertGood
  <2> QED BY <1>1, <1>3, <1>4, <1>6, <2>1, <2>2 DEF ListsInv, values
<1> QED BY <1>5, <1>6

LEMMA KeepsOut ==
  ASSUME TypesInv, NEW current, NEW overflow, NEW t \in Timers, NEW value \in TimerTicks,
         GoodList(current, xTimerListItem), GoodList(overflow, xTimerListItem),
         Members(current) \cap Members(overflow) = {},
         t \notin Members(current), t \notin Members(overflow),
         KeepOut(t, value, current, overflow)
  PROVE  /\ xTimerListItem' = [xTimerListItem EXCEPT ![t] = value]
         /\ xTimerListItem' \in [Timers -> TimerTicks]
         /\ ListsInv'
         /\ Members(pxCurrentTimerList') = Members(current)
         /\ Members(pxOverflowTimerList') = Members(overflow)
<1> DEFINE values == [xTimerListItem EXCEPT ![t] = value]
<1>1. values \in [Timers -> TimerTicks] /\ xTimerListItem \in [Timers -> TimerTicks]
  BY DEF TypesInv
<1>3. ASSUME NEW list, GoodList(list, xTimerListItem), t \notin Members(list) PROVE GoodList(list, values)
  <2>1. Members(list) \subseteq Timers
    BY <1>3, MembersAre
  <2>2. \A u \in Members(list) : values[u] = xTimerListItem[u]
    BY <1>1, <1>3, <2>1
  <2> HIDE DEF values
  <2> QED BY <1>3, <2>2, OrderKept
<1>4. xTimerListItem' = values /\ pxCurrentTimerList' = current /\ pxOverflowTimerList' = overflow
  BY DEF KeepOut
<1> QED BY <1>1, <1>3, <1>4 DEF ListsInv, values

(* A step that handles timer t alone keeps what runs and when. *)
LEMMA Handled ==
  ASSUME TimerInv, NEW t \in Timers, TypesInv', ListsInv', daemon # "assertFailed",
         timerNow' = timerNow,
         \A u \in Timers : u # t =>
           /\ xTimerListItem'[u] = xTimerListItem[u] /\ due'[u] = due[u]
           /\ u \in armed' <=> u \in armed
           /\ u \in Members(pxCurrentTimerList)' <=> u \in Members(pxCurrentTimerList)
           /\ u \in Members(pxOverflowTimerList)' <=> u \in Members(pxOverflowTimerList)
           /\ ReloadIn(xTimerQueue, u) => ReloadIn(xTimerQueue', u),
         daemon' # "assertFailed" => Turn' = Turn,
         ~Switching' /\ daemon' # "assertFailed" => ~Switching /\ xLastTime <= xLastTime',
         t \in armed' => /\ due'[t] \in -MaxLate .. TimerTickRange - 1 - MaxLate
                         /\ InList(t)' \/ ReloadIn(xTimerQueue', t) \/ daemon' = "assertFailed",
         InList(t)' => t \in armed' /\ daemon' # "assertFailed",
         t \in Members(pxCurrentTimerList)' => xTimerListItem'[t] = timerNow + Turn + due'[t],
         t \in Members(pxOverflowTimerList)' =>
           /\ xTimerListItem'[t] + TimerTickRange = timerNow + Turn + due'[t]
           /\ ~Switching' => xTimerListItem'[t] + MaxLate + 1 <= xLastTime'
  PROVE  ArmedInv' /\ TimesInv'
<1>0. TypesInv /\ ArmedInv /\ TimesInv /\ ListsInv
  BY DEF TimerInv
<1>1. armed' \subseteq Timers /\ armed \subseteq Timers
  BY <1>0 DEF TypesInv
<1>2. /\ Members(pxCurrentTimerList)' \subseteq Timers /\ Members(pxOverflowTimerList)' \subseteq Timers
  <2>1. GoodList(pxCurrentTimerList', xTimerListItem') /\ GoodList(pxOverflowTimerList', xTimerListItem')
    BY DEF ListsInv
  <2>2. Members(pxCurrentTimerList') \subseteq Timers /\ Members(pxOverflowTimerList') \subseteq Timers
    BY <2>1, MembersAre
  <2> QED BY <2>2 DEF Members
<1>3. ASSUME NEW u \in Timers, u # t PROVE InList(u)' <=> InList(u)
  BY <1>3 DEF InList
<1>4. ArmedInv'
  <2>1. \A u \in Timers : InList(u)' => u \in armed'
    BY <1>0, <1>3 DEF ArmedInv
  <2>2. \A u \in armed' : (due[u])' \in -MaxLate .. TimerTickRange - 1 - MaxLate
    BY <1>0, <1>1 DEF ArmedInv
  <2>3. ASSUME NEW u \in armed'
        PROVE  InList(u)' \/ ReloadIn(xTimerQueue', u) \/ daemon' = "assertFailed"
    <3>1. CASE u = t
      BY <2>3, <3>1
    <3>2. CASE u # t
      <4>1. u \in armed /\ u \in Timers
        BY <1>1, <2>3, <3>2
      <4> QED BY <1>0, <1>3, <3>2, <4>1 DEF ArmedInv
    <3> QED BY <3>1, <3>2
  <2> QED BY <2>1, <2>2, <2>3 DEF ArmedInv, ReloadIn
<1>5. TimesInv'
  <2>1. ASSUME daemon' # "assertFailed"
        PROVE  /\ \A u \in Members(pxCurrentTimerList)' : xTimerListItem'[u] = (timerNow + Turn)' + due'[u]
               /\ \A u \in Members(pxOverflowTimerList)' :
                    /\ xTimerListItem'[u] + TimerTickRange = (timerNow + Turn)' + due'[u]
                    /\ ~Switching' => xTimerListItem'[u] + MaxLate + 1 <= xLastTime'
    <3>1. ASSUME NEW u \in Members(pxCurrentTimerList)'
          PROVE  xTimerListItem'[u] = (timerNow + Turn)' + due'[u]
      <4>1. CASE u = t
        BY <2>1, <3>1, <4>1
      <4>2. CASE u # t
        <5>1. u \in Members(pxCurrentTimerList) /\ u \in Timers
          BY <1>2, <3>1, <4>2
        <5>2. xTimerListItem[u] = timerNow + Turn + due[u]
          BY <1>0, <5>1 DEF TimesInv
        <5> QED BY <2>1, <4>2, <5>1, <5>2
      <4> QED BY <4>1, <4>2
    <3>2. ASSUME NEW u \in Members(pxOverflowTimerList)'
          PROVE  /\ xTimerListItem'[u] + TimerTickRange = (timerNow + Turn)' + due'[u]
                 /\ ~Switching' => xTimerListItem'[u] + MaxLate + 1 <= xLastTime'
      <4>1. CASE u = t
        BY <2>1, <3>2, <4>1
      <4>2. CASE u # t
        <5>1. u \in Members(pxOverflowTimerList) /\ u \in Timers
          BY <1>2, <3>2, <4>2
        <5>2. /\ xTimerListItem[u] + TimerTickRange = timerNow + Turn + due[u]
              /\ ~Switching => xTimerListItem[u] + MaxLate + 1 <= xLastTime
          BY <1>0, <5>1 DEF TimesInv
        <5>3. xTimerListItem'[u] + TimerTickRange = (timerNow + Turn)' + due'[u]
          BY <2>1, <4>2, <5>1, <5>2
        <5>4. ASSUME ~Switching' PROVE xTimerListItem'[u] + MaxLate + 1 <= xLastTime'
          <6>1. ~Switching /\ xLastTime <= xLastTime'
            BY <2>1, <5>4
          <6>2. xTimerListItem[u] \in Int /\ MaxLate \in Int /\ xLastTime \in Int /\ xLastTime' \in Int
            BY <1>0, <5>1, Numbers DEF TypesInv, TimerTicks
          <6>3. xTimerListItem'[u] = xTimerListItem[u]
            BY <4>2, <5>1
          <6> QED BY <5>2, <6>1, <6>2, <6>3
        <5> QED BY <5>3, <5>4
      <4> QED BY <4>1, <4>2
    <3> QED BY <3>1, <3>2
  <2>2. ASSUME NEW u \in Timers, InList(u)' PROVE (xTimerListItem[u])' = Modulo(timerNow' + due'[u])
    <3>1. CASE u # t
      BY <1>0, <1>3, <2>2, <3>1 DEF TimesInv
    <3>2. CASE u = t
      <4>1. /\ due'[t] \in -MaxLate .. TimerTickRange - 1 - MaxLate /\ xTimerListItem'[t] \in TimerTicks
            /\ timerNow \in TimerTicks
        BY <1>0, <2>2, <3>2 DEF TypesInv
      <4>2. Turn \in {0, TimerTickRange, 2 * TimerTickRange}
        BY <1>0, TurnIs
      <4>3. TimerTickRange \in Nat
        BY Numbers
      <4>4. CASE t \in Members(pxCurrentTimerList)'
        <5>1. PICK k \in Int : k = Turn /\ k \in {-TimerTickRange, 0, TimerTickRange, 2 * TimerTickRange}
          BY <4>2, <4>3
        <5>2. xTimerListItem'[t] = timerNow + k + due'[t]
          BY <4>4, <5>1
        <5> QED BY <3>2, <4>1, <5>1, <5>2, ValueIsTime
      <4>5. CASE t \in Members(pxOverflowTimerList)'
        <5>1. PICK k \in Int : /\ k = Turn - TimerTickRange
                               /\ k \in {-TimerTickRange, 0, TimerTickRange, 2 * TimerTickRange}
          BY <4>2, <4>3
        <5>2. xTimerListItem'[t] = timerNow + k + due'[t]
          <6>1. xTimerListItem'[t] + TimerTickRange = timerNow + Turn + due'[t]
            BY <4>5
          <6>2. xTimerListItem'[t] \in Int /\ timerNow \in Int /\ due'[t] \in Int /\ Turn \in Int
            BY <4>1, <4>2, <4>3, Numbers DEF TimerTicks
          <6> QED BY <4>3, <5>1, <6>1, <6>2
        <5> QED BY <3>2, <4>1, <5>1, <5>2, ValueIsTime
      <4> QED BY <2>2, <3>2, <4>4, <4>5 DEF InList
    <3> QED BY <3>1, <3>2
  <2> QED BY <2>1, <2>2 DEF TimesInv
<1> QED BY <1>4, <1>5

(***************************************************************************)
(* A command is applied.                                                   *)
(***************************************************************************)
(* The time reached period ticks after cmd, lag ticks before now. *)
LEMMA TimeReached ==
  ASSUME NEW period \in PeriodsInUse, NEW now \in TimerTicks, NEW lag \in 0 .. MaxLate
  PROVE  Modulo(Modulo(now - lag) + period) = Modulo(now - (lag - period))
<1> DEFINE R == TimerTickRange
<1>1. /\ R \in Nat /\ R > 1 /\ period \in Nat /\ period > 0 /\ period + MaxLate + 1 <= R
      /\ MaxLate \in Nat /\ lag \in Nat /\ lag <= MaxLate /\ now \in Nat /\ now < R
  BY Numbers DEF TimerTicks
<1>2. PICK n \in Int : n = now - lag /\ -R <= n /\ n < R
  BY <1>1
<1>3. PICK c \in Int : c = Modulo(n) /\ c = IF n < 0 THEN n + R ELSE n
  BY <1>1, <1>2, ModuloIs
<1>4. PICK m \in Int : m = c + period /\ -R <= m /\ m < 2 * R
  BY <1>1, <1>2, <1>3
<1>5. PICK k \in Int : k = now - (lag - period) /\ -R <= k /\ k < 2 * R /\ k = n + period
  BY <1>1, <1>2
<1>6. Modulo(m) = Modulo(k)
  <2>1. Modulo(m) = IF m < 0 THEN m + R ELSE IF m < R THEN m ELSE m - R
    BY <1>4, ModuloIs
  <2>2. Modulo(k) = IF k < 0 THEN k + R ELSE IF k < R THEN k ELSE k - R
    BY <1>5, ModuloIs
  <2> QED BY <1>1, <1>2, <1>3, <1>4, <1>5, <2>1, <2>2
<1>7. Modulo(now - lag) = c
  BY <1>2, <1>3
<1> QED BY <1>4, <1>5, <1>6, <1>7

(* The same moment, by a time sampled e ticks ago and by the counter. *)
LEMMA SameMoment ==
  ASSUME NEW now \in TimerTicks, NEW last \in TimerTicks, NEW turn \in {0, TimerTickRange},
         NEW e \in 0 .. MaxLate, now + turn = last + e, NEW t \in Timers, NEW a \in e .. MaxLate
  PROVE  Modulo(last - (a - e)) = Modulo(now - a)
<1> DEFINE R == TimerTickRange
<1>1. /\ R \in Nat /\ R > 1 /\ MaxLate \in Nat /\ now \in Nat /\ now < R /\ last \in Nat /\ last < R
      /\ e \in Nat /\ a \in Nat /\ e <= a /\ a <= MaxLate /\ MaxLate < R
  BY LateIsShort, Numbers DEF TimerTicks
<1>2. PICK n \in Int : n = last - (a - e) /\ -R <= n /\ n < R
  BY <1>1
<1>3. PICK m \in Int : m = now - a /\ -R <= m /\ m < R
  BY <1>1
<1>4. n = m \/ n = m + R
  BY <1>1, <1>2, <1>3
<1>5. Modulo(n) = IF n < 0 THEN n + R ELSE n
  BY <1>1, <1>2, ModuloIs
<1>6. Modulo(m) = IF m < 0 THEN m + R ELSE m
  BY <1>1, <1>3, ModuloIs
<1>7. Modulo(n) = Modulo(m)
  BY <1>1, <1>2, <1>3, <1>4, <1>5, <1>6
<1> QED BY <1>2, <1>3, <1>7

(* The service task sends itself a start for t, or asserts. *)
LEMMA SendsReload ==
  ASSUME NEW queue, NEW made, made \subseteq Timers, NEW now, NEW t \in made, ~Deletable(t),
         QueueOK(queue, made, now),
         NEW age \in 0 .. MaxLate, NEW value \in TimerTicks, value = Modulo(now - age), NEW then,
         SendsItself(t, value, age, queue, then)
  PROVE  /\ QueueOK(xTimerQueue', made, now)
         /\ \A u : ReloadIn(queue, u) => ReloadIn(xTimerQueue', u)
         /\ (daemon' = then /\ ReloadIn(xTimerQueue', t)) \/ daemon' = "assertFailed"
         /\ daemon' \in {then, "assertFailed"}
<1> DEFINE c == [id |-> "start", pxTimer |-> t, value |-> value, age |-> age]
<1>1. CommandOK(c, made, now)
  <2>1. c \in Command
    BY DEF Command
  <2>2. c.pxTimer # NoTimer
    BY TimersAssumption
  <2> QED BY <2>1, <2>2 DEF CommandOK
<1>2. \A i \in 1 .. Len(queue) : Frees(queue[i]) => queue[i].pxTimer # t
  BY DEF QueueOK, CommandOK
<1>3. c.id = "start" /\ c.pxTimer = t
  OBVIOUS
<1> HIDE DEF c
<1>4. /\ QueueOK(Append(queue, c), made, now) /\ ReloadIn(Append(queue, c), t)
      /\ \A u : ReloadIn(queue, u) => ReloadIn(Append(queue, c), u)
  BY <1>1, <1>2, <1>3, AppendQueue
<1>5. CASE Len(queue) < TimerQueueLength
  <2>1. xTimerQueue' = Append(queue, c) /\ daemon' = then
    BY <1>5 DEF SendsItself, c
  <2> QED BY <1>4, <2>1
<1>6. CASE ~(Len(queue) < TimerQueueLength)
  BY <1>6 DEF SendsItself
<1> QED BY <1>5, <1>6

(* The time at which the lists are up to date has been sampled e ticks     *)
(* ago; the command starts timer t, lag ticks ago.                         *)
LEMMA Started ==
  ASSUME TimerInv, NEW c, NEW t \in Timers, c.pxTimer = t, t \in created,
         c.id \in {"start", "changePeriod"}, daemon \in {"commands", "apply"},
         NEW now \in TimerTicks, NEW e \in 0 .. MaxLate, timerNow + Turn = now + e, xLastTime <= now,
         NEW lag \in e .. MaxLate, c.id = "changePeriod" => lag = e,
         NEW cmd, cmd = Modulo(now - (lag - e)), NEW period \in PeriodsInUse,
         NEW current, NEW overflow, NEW queue,
         GoodList(current, xTimerListItem), Members(current) = Members(pxCurrentTimerList) \ {t},
         GoodList(overflow, xTimerListItem), Members(overflow) = Members(pxOverflowTimerList) \ {t},
         QueueOK(queue, created, timerNow),
         \A u \in Timers : u # t /\ ReloadIn(xTimerQueue, u) => ReloadIn(queue, u),
         Starts(c, cmd, lag, period, now, current, overflow, queue),
         xTimerPeriodInTicks' \in [Timers -> PeriodsInUse],
         created' = created, reloadBit' = reloadBit, timerNow' = timerNow, xLastTime' = now,
         Unnoticed' = Turn, behind' = e, toWait' = toWait, pxCommand' = NoCommand
  PROVE  TimerInv'
<1>0. TypesInv /\ QueueInv /\ ListsInv /\ ArmedInv /\ TimesInv
  BY DEF TimerInv
<1> DEFINE R == TimerTickRange
           value == Modulo(cmd + period)
<1>1. /\ R \in Nat /\ MaxLate \in Nat /\ period \in Nat /\ period > 0 /\ period + MaxLate + 1 <= R
      /\ e \in Nat /\ lag \in Nat /\ e <= lag /\ lag <= MaxLate /\ lag - e \in 0 .. MaxLate
      /\ now \in Nat /\ timerNow \in TimerTicks /\ timerNow \in Nat /\ Turn \in Int
      /\ xLastTime \in Int /\ MaxLate < R
  <2>1. /\ R \in Nat /\ MaxLate \in Nat /\ period \in Nat /\ period > 0 /\ period + MaxLate + 1 <= R
        /\ MaxLate < R
    BY Numbers
  <2>2. /\ e \in Nat /\ lag \in Nat /\ e <= lag /\ lag <= MaxLate /\ lag - e \in 0 .. MaxLate
    BY <2>1
  <2>3. /\ now \in Nat /\ timerNow \in TimerTicks /\ timerNow \in Nat /\ xLastTime \in Int
    BY <1>0, <2>1 DEF TypesInv, TimerTicks
  <2>4. Turn \in Int
    BY <1>0, TurnIs
  <2> QED BY <2>1, <2>2, <2>3, <2>4
<1>2. /\ cmd \in TimerTicks /\ value \in TimerTicks
      /\ Expired(t, period, value, now, cmd) <=> lag - e >= period
      /\ lag - e < period /\ value > now => value = now + (period - (lag - e))
      /\ lag - e < period /\ value <= now => value + R = now + (period - (lag - e))
  <2>1. PICK lag0 \in 0 .. MaxLate : lag0 = lag - e
    BY <1>1
  <2> HIDE DEF value
  <2>2. value = Modulo(cmd + period) /\ cmd = Modulo(now - lag0)
    BY <2>1 DEF value
  <2>3. /\ cmd \in TimerTicks /\ value \in TimerTicks
        /\ Expired(t, period, value, now, cmd) <=> lag0 >= period
        /\ lag0 < period /\ value > now => value = now + (period - lag0)
        /\ lag0 < period /\ value <= now => value + R = now + (period - lag0)
    BY ONLY <2>2, ExpiredWhenLate, period \in PeriodsInUse, now \in TimerTicks, lag0 \in 0 .. MaxLate
  <2> QED BY <2>1, <2>3
<1>3. Turn \in {0, R}
  <2>1. Turn = Unnoticed + 0 /\ Unnoticed \in {0, R}
    BY <1>0, TurnIs DEF Switching
  <2> QED BY <1>1, <2>1
<1>4. /\ Members(current) \cap Members(overflow) = {} /\ t \notin Members(current) /\ t \notin Members(overflow)
  BY <1>0 DEF ListsInv
<1>5. daemon' \in {"commands", "assertFailed"} =>
        /\ daemon' # "assertFailed" => Turn' = Turn
        /\ ~Switching' /\ ~Switching
  BY <1>3 DEF Turn, Switching
<1>6. \A u \in Timers : u # t =>
        /\ u \in Members(current) <=> u \in Members(pxCurrentTimerList)
        /\ u \in Members(overflow) <=> u \in Members(pxOverflowTimerList)
  OBVIOUS
<1>7. ASSUME daemon' \in {"commands", "assertFailed"} PROVE ClockInv'
  <2>1. Elapsed' = e
    <3>1. Elapsed' = timerNow + Turn - now
      BY DEF Elapsed
    <3> QED BY <1>1, <3>1
  <2>2. Elapsed' <= R - 1 - MaxLate + behind'
    BY <1>1, <2>1
  <2> QED BY <1>7, <2>2 DEF ClockInv
<1>8. ASSUME daemon' \in {"commands", "assertFailed"} PROVE ReceivedInv'
  BY <1>8 DEF ReceivedInv
<1>9. CASE Expired(t, period, value, now, cmd) /\ c.id = "start"
  <2>1. /\ KeepOut(t, value, current, overflow)
        /\ early' = (early \/ lag < period)
        /\ IF t \in reloadBit
           THEN /\ SendsItself(t, value, lag - period, queue, "commands")
                /\ armed' = armed \cup {t}
                /\ due' = [due EXCEPT ![t] = period + period - lag]
           ELSE /\ xTimerQueue' = queue /\ daemon' = "commands"
                /\ armed' = armed \ {t} /\ due' = [due EXCEPT ![t] = 0]
    BY <1>9 DEF Starts
  <2>2. /\ xTimerListItem' = [xTimerListItem EXCEPT ![t] = value]
        /\ xTimerListItem' \in [Timers -> TimerTicks] /\ ListsInv'
        /\ Members(pxCurrentTimerList') = Members(current)
        /\ Members(pxOverflowTimerList') = Members(overflow)
    BY <1>0, <1>2, <1>4, <2>1, KeepsOut
  <2>3. lag - e >= period /\ early' = FALSE
    <3>1. early = FALSE
      BY <1>0 DEF TypesInv
    <3>2. lag - e >= period
      BY <1>2, <1>9
    <3>3. ~(lag < period)
      BY <1>1, <3>2
    <3> QED BY <2>1, <3>1, <3>2, <3>3
  <2>4. /\ due' \in [Timers -> Int] /\ armed' \subseteq created
        /\ \A u \in Timers : u # t => due'[u] = due[u] /\ (u \in armed' <=> u \in armed)
        /\ t \in armed' => t \in reloadBit /\ due'[t] = period + period - lag
    BY <1>0, <1>1, <2>1 DEF TypesInv
  <2>5. TypesInv'
    BY <1>0, <1>1, <2>2, <2>3, <2>4 DEF TypesInv
  <2>6. /\ QueueOK(xTimerQueue', created, timerNow) /\ daemon' \in {"commands", "assertFailed"}
        /\ \A u : ReloadIn(queue, u) => ReloadIn(xTimerQueue', u)
        /\ t \in armed' => ReloadIn(xTimerQueue', t) \/ daemon' = "assertFailed"
    <3>1. CASE t \in reloadBit
      <4>1. PICK age \in e .. MaxLate : age = lag - period
        BY <1>1, <2>3
      <4>2. value = Modulo(now - ((lag - e) - period))
        BY <1>1, TimeReached
      <4>3. (lag - e) - period = age - e
        BY <1>1, <4>1
      <4>4. Modulo(now - (age - e)) = Modulo(timerNow - age)
        <5>1. PICK turn \in {0, R} : turn = Turn /\ timerNow + turn = now + e
          BY <1>3
        <5> QED BY ONLY <1>1, <4>1, <5>1, SameMoment, now \in TimerTicks, e \in 0 .. MaxLate, t \in Timers
      <4>5. value = Modulo(timerNow - age) /\ age \in 0 .. MaxLate
        BY <1>1, <4>1, <4>2, <4>3, <4>4
      <4>6. SendsItself(t, value, age, queue, "commands")
        BY <2>1, <3>1, <4>1
      <4>7. ~Deletable(t) /\ created \subseteq Timers
        BY <1>0, <3>1 DEF TypesInv
      <4> HIDE DEF value
      <4> QED BY <1>2, <4>5, <4>6, <4>7, SendsReload
    <3>2. CASE t \notin reloadBit
      BY <2>1, <2>4, <3>2
    <3> QED BY <3>1, <3>2
  <2>7. ~InList(t)'
    <3>1. t \notin Members(pxCurrentTimerList') /\ t \notin Members(pxOverflowTimerList')
      BY <1>4, <2>2
    <3> QED BY <3>1 DEF InList, Members
  <2>8. ArmedInv' /\ TimesInv'
    <3>1. /\ t \notin Members(pxCurrentTimerList)' /\ t \notin Members(pxOverflowTimerList)'
      BY <2>7 DEF InList
    <3>2. t \in armed' => due'[t] \in -MaxLate .. R - 1 - MaxLate
      BY <1>1, <2>3, <2>4
    <3>3. \A u \in Timers : u # t =>
           /\ xTimerListItem'[u] = xTimerListItem[u] /\ due'[u] = due[u]
           /\ u \in armed' <=> u \in armed
           /\ u \in Members(pxCurrentTimerList)' <=> u \in Members(pxCurrentTimerList)
           /\ u \in Members(pxOverflowTimerList)' <=> u \in Members(pxOverflowTimerList)
           /\ ReloadIn(xTimerQueue, u) => ReloadIn(xTimerQueue', u)
      <4>1. xTimerListItem \in [Timers -> TimerTicks]
        BY <1>0 DEF TypesInv
      <4>2. Members(pxCurrentTimerList)' = Members(current) /\ Members(pxOverflowTimerList)' = Members(overflow)
        BY <2>2 DEF Members
      <4> QED BY <1>6, <2>2, <2>4, <2>6, <4>1, <4>2
    <3> QED BY <1>5, <2>2, <2>5, <2>6, <2>7, <3>1, <3>2, <3>3, Handled
  <2> QED BY <1>7, <1>8, <2>2, <2>5, <2>6, <2>8 DEF TimerInv, QueueInv
<1>10. CASE ~(Expired(t, period, value, now, cmd) /\ c.id = "start")
  <2>1. /\ InsertInActiveList(t, value, now, current, overflow)
        /\ armed' = armed \cup {t}
        /\ due' = [due EXCEPT ![t] = period - lag]
        /\ xTimerQueue' = queue /\ daemon' = "commands" /\ early' = early
    BY <1>10 DEF Starts
  <2>2. /\ xTimerListItem' = [xTimerListItem EXCEPT ![t] = value]
        /\ xTimerListItem' \in [Timers -> TimerTicks] /\ ListsInv'
        /\ Members(pxCurrentTimerList') = IF value <= now THEN Members(current) ELSE Members(current) \cup {t}
        /\ Members(pxOverflowTimerList') = IF value <= now THEN Members(overflow) \cup {t} ELSE Members(overflow)
    BY <1>0, <1>2, <1>4, <2>1, Places
  <2>3. lag - e < period
    <3>1. CASE c.id = "start"
      BY <1>1, <1>2, <1>10, <3>1
    <3>2. CASE c.id = "changePeriod"
      BY <1>1, <3>2
    <3> QED BY <3>1, <3>2
  <2>4. /\ due' \in [Timers -> Int] /\ armed' \subseteq created /\ t \in armed'
        /\ \A u \in Timers : u # t => due'[u] = due[u] /\ (u \in armed' <=> u \in armed)
        /\ due'[t] = period - lag
    BY <1>0, <1>1, <2>1 DEF TypesInv
  <2>5. TypesInv'
    BY <1>0, <1>1, <2>1, <2>2, <2>4 DEF TypesInv
  <2>6. /\ due'[t] \in -MaxLate .. R - 1 - MaxLate
    BY <1>1, <2>4
  <2>7. xTimerListItem'[t] = value /\ value \in Nat
    <3>1. xTimerListItem \in [Timers -> TimerTicks] /\ value \in Nat
      BY <1>0, <1>2 DEF TypesInv, TimerTicks
    <3> QED BY <2>2, <3>1
  <2>8. Members(pxCurrentTimerList)' = Members(pxCurrentTimerList') /\ Members(pxOverflowTimerList)' = Members(pxOverflowTimerList')
    BY DEF Members
  <2>9. InList(t)'
    BY <2>2, <2>8 DEF InList
  <2>10. t \in Members(pxCurrentTimerList)' => xTimerListItem'[t] = timerNow + Turn + due'[t]
    <3> SUFFICES ASSUME t \in Members(pxCurrentTimerList)' PROVE xTimerListItem'[t] = timerNow + Turn + due'[t]
      OBVIOUS
    <3>1. value > now
      BY <1>1, <1>4, <2>2, <2>7, <2>8
    <3> HIDE DEF value
    <3> QED BY <1>1, <1>2, <2>3, <2>4, <2>7, <3>1
  <2>11. t \in Members(pxOverflowTimerList)' =>
           /\ xTimerListItem'[t] + R = timerNow + Turn + due'[t]
           /\ xTimerListItem'[t] + MaxLate + 1 <= xLastTime'
    <3> SUFFICES ASSUME t \in Members(pxOverflowTimerList)'
                 PROVE  /\ xTimerListItem'[t] + R = timerNow + Turn + due'[t]
                        /\ xTimerListItem'[t] + MaxLate + 1 <= xLastTime'
      OBVIOUS
    <3>1. value <= now
      BY <1>1, <1>4, <2>2, <2>7, <2>8
    <3> HIDE DEF value
    <3>2. value + R = now + (period - (lag - e))
      BY <1>2, <2>3, <3>1
    <3>3. xTimerListItem'[t] + R = timerNow + Turn + due'[t]
      BY <1>1, <2>4, <2>7, <3>2
    <3>4. value + MaxLate + 1 <= now
      BY <1>1, <2>7, <3>2
    <3> QED BY <2>7, <3>3, <3>4
  <2>12. \A u \in Timers : u # t =>
           /\ xTimerListItem'[u] = xTimerListItem[u] /\ due'[u] = due[u]
           /\ u \in armed' <=> u \in armed
           /\ u \in Members(pxCurrentTimerList)' <=> u \in Members(pxCurrentTimerList)
           /\ u \in Members(pxOverflowTimerList)' <=> u \in Members(pxOverflowTimerList)
           /\ ReloadIn(xTimerQueue, u) => ReloadIn(xTimerQueue', u)
    <3>1. xTimerListItem \in [Timers -> TimerTicks]
      BY <1>0 DEF TypesInv
    <3> QED BY <1>6, <2>1, <2>2, <2>4, <2>8, <3>1
  <2>13. daemon' \in {"commands", "assertFailed"} /\ daemon' # "assertFailed"
    BY <2>1
  <2>14. ArmedInv' /\ TimesInv'
    <3> HIDE DEF value
    <3> QED BY <1>5, <2>2, <2>4, <2>5, <2>6, <2>9, <2>10, <2>11, <2>12, <2>13, Handled
  <2>15. QueueInv'
    BY <2>1 DEF QueueInv
  <2> QED BY <1>7, <1>8, <2>2, <2>5, <2>13, <2>14, <2>15 DEF TimerInv
<1> QED BY <1>9, <1>10

LEMMA Stopped ==
  ASSUME TimerInv, NEW c, NEW t \in Timers, c.pxTimer = t, c.id \in {"stop", "delete"},
         Frees(c) => Deletable(t),
         daemon \in {"commands", "apply"},
         NEW now \in TimerTicks, NEW e \in 0 .. MaxLate, timerNow + Turn = now + e, xLastTime <= now,
         NEW current, NEW overflow, NEW queue,
         GoodList(current, xTimerListItem), Members(current) = Members(pxCurrentTimerList) \ {t},
         GoodList(overflow, xTimerListItem), Members(overflow) = Members(pxOverflowTimerList) \ {t},
         QueueOK(queue, created, timerNow),
         Frees(c) => \A j \in 1 .. Len(queue) : queue[j].pxTimer # t,
         \A u \in Timers : u # t /\ ReloadIn(xTimerQueue, u) => ReloadIn(queue, u),
         pxCurrentTimerList' = current, pxOverflowTimerList' = overflow, xTimerQueue' = queue,
         armed' = armed \ {t}, due' = [due EXCEPT ![t] = 0], daemon' = "commands",
         IF c.id = "delete" /\ t \in Dynamic
         THEN created' = created \ {t} /\ reloadBit' = reloadBit \ {t}
         ELSE UNCHANGED <<created, reloadBit>>,
         UNCHANGED <<xTimerPeriodInTicks, xTimerListItem, early, timerNow, toWait>>,
         xLastTime' = now, Unnoticed' = Turn, behind' = e, pxCommand' = NoCommand
  PROVE  TimerInv'
<1>0. TypesInv /\ QueueInv /\ ListsInv /\ ArmedInv /\ TimesInv
  BY DEF TimerInv
<1> DEFINE R == TimerTickRange
<1>1. /\ R \in Nat /\ MaxLate \in Nat /\ e \in Nat /\ e <= MaxLate /\ MaxLate + 1 < R
      /\ now \in Nat /\ timerNow \in TimerTicks /\ timerNow \in Nat /\ Turn \in Int /\ xLastTime \in Int
  <2>1. R \in Nat /\ MaxLate \in Nat /\ MaxLate + 1 < R
    BY Numbers, LateIsShort
  <2>2. /\ now \in Nat /\ timerNow \in TimerTicks /\ timerNow \in Nat /\ xLastTime \in Int
    BY <1>0, <2>1 DEF TypesInv, TimerTicks
  <2>3. Turn \in Int
    BY <1>0, TurnIs
  <2> QED BY <2>1, <2>2, <2>3
<1>2. TypesInv'
  BY <1>0, <1>1 DEF TypesInv
<1>3. QueueInv'
  <2>1. CASE c.id = "delete" /\ t \in Dynamic
    <3>1. \A i \in 1 .. Len(queue) : queue[i].pxTimer \in created => queue[i].pxTimer \in created \ {t}
      BY <2>1
    <3>2. QueueOK(queue, created \ {t}, timerNow)
      BY <3>1, QueueOfOthers
    <3> QED BY <2>1, <3>2 DEF QueueInv
  <2>2. CASE ~(c.id = "delete" /\ t \in Dynamic)
    BY <2>2 DEF QueueInv
  <2> QED BY <2>1, <2>2
<1>4. ReceivedInv'
  BY DEF ReceivedInv
<1>5. ListsInv'
  BY <1>0 DEF ListsInv
<1>6. ClockInv'
  <2>1. Elapsed' = timerNow + Turn - now
    BY DEF Elapsed
  <2>2. Elapsed' <= R - 1 - MaxLate + behind'
    BY <1>1, <2>1
  <2> QED BY <2>2 DEF ClockInv
<1>7. ArmedInv' /\ TimesInv'
  <2>1. /\ Members(pxCurrentTimerList)' = Members(pxCurrentTimerList) \ {t}
        /\ Members(pxOverflowTimerList)' = Members(pxOverflowTimerList) \ {t}
    BY DEF Members
  <2>2. ~InList(t)' /\ t \notin armed'
    BY <2>1 DEF InList
  <2>3. Turn' = Turn /\ ~Switching' /\ ~Switching
    <3>1. Turn' = Unnoticed' + 0 /\ ~Switching' /\ ~Switching
      BY DEF Turn, Switching
    <3> QED BY <1>1, <3>1
  <2>4. \A u \in Timers : u # t =>
           /\ xTimerListItem'[u] = xTimerListItem[u] /\ due'[u] = due[u]
           /\ u \in armed' <=> u \in armed
           /\ u \in Members(pxCurrentTimerList)' <=> u \in Members(pxCurrentTimerList)
           /\ u \in Members(pxOverflowTimerList)' <=> u \in Members(pxOverflowTimerList)
           /\ ReloadIn(xTimerQueue, u) => ReloadIn(xTimerQueue', u)
    BY <1>0, <2>1 DEF TypesInv
  <2>5. t \notin Members(pxCurrentTimerList)' /\ t \notin Members(pxOverflowTimerList)'
    BY <2>1
  <2> QED BY <1>2, <1>5, <2>2, <2>3, <2>4, <2>5, Handled
<1> QED BY <1>2, <1>3, <1>4, <1>5, <1>6, <1>7 DEF TimerInv

LEMMA Applied ==
  ASSUME TimerInv, NEW c, CommandOK(c, created, timerNow), c.id # "pended",
         daemon \in {"commands", "apply"},
         NEW now \in TimerTicks, NEW e \in 0 .. MaxLate, timerNow + Turn = now + e, xLastTime <= now,
         NEW lag, c.id = "start" => e <= c.age, c.id = "changePeriod" => lag = e,
         NEW current, NEW overflow, NEW queue,
         GoodList(current, xTimerListItem), Members(current) = Members(pxCurrentTimerList) \ {c.pxTimer},
         GoodList(overflow, xTimerListItem), Members(overflow) = Members(pxOverflowTimerList) \ {c.pxTimer},
         QueueOK(queue, created, timerNow),
         Frees(c) => \A j \in 1 .. Len(queue) : queue[j].pxTimer # c.pxTimer,
         \A u \in Timers : u # c.pxTimer /\ ReloadIn(xTimerQueue, u) => ReloadIn(queue, u),
         Apply(c, now, lag, current, overflow, queue),
         timerNow' = timerNow, toWait' = toWait,
         xLastTime' = now, Unnoticed' = Turn, behind' = e, pxCommand' = NoCommand
  PROVE  TimerInv'
<1>0. TypesInv
  BY DEF TimerInv
<1>1. PICK t \in Timers : t = c.pxTimer /\ t \in created
  BY <1>0 DEF CommandOK, TypesInv
<1>2. CASE c.id = "start"
  <2>1. /\ Starts(c, c.value, c.age, xTimerPeriodInTicks[t], now, current, overflow, queue)
        /\ UNCHANGED <<created, reloadBit, xTimerPeriodInTicks>>
    BY <1>1, <1>2 DEF Apply
  <2>2. PICK period \in PeriodsInUse : period = xTimerPeriodInTicks[t]
    BY <1>0 DEF TypesInv
  <2>3. PICK lag1 \in e .. MaxLate : lag1 = c.age
    BY <1>2, Numbers DEF CommandOK, Command
  <2>4. PICK cmd : cmd = c.value
    OBVIOUS
  <2>5. cmd = Modulo(now - (lag1 - e))
    <3>1. PICK turn \in {0, TimerTickRange} : turn = Turn /\ timerNow + turn = now + e
      <4>1. Turn = Unnoticed + 0 /\ Unnoticed \in {0, TimerTickRange}
        BY <1>0, TurnIs DEF Switching
      <4>2. Unnoticed + 0 = Unnoticed
        BY <4>1, Numbers
      <4> QED BY <4>1, <4>2
    <3>2. timerNow \in TimerTicks
      BY <1>0 DEF TypesInv
    <3>3. Modulo(now - (lag1 - e)) = Modulo(timerNow - lag1)
      BY ONLY <3>1, <3>2, SameMoment, now \in TimerTicks, e \in 0 .. MaxLate, t \in Timers, lag1 \in e .. MaxLate
    <3> QED BY <1>2, <2>3, <2>4, <3>3 DEF CommandOK
  <2>6. Starts(c, cmd, lag1, period, now, current, overflow, queue)
    BY <2>1, <2>2, <2>3, <2>4
  <2>7. xTimerPeriodInTicks' \in [Timers -> PeriodsInUse]
    BY <1>0, <2>1 DEF TypesInv
  <2> QED BY <1>1, <1>2, <2>1, <2>5, <2>6, <2>7, Started
<1>3. CASE c.id = "changePeriod"
  <2>1. /\ xTimerPeriodInTicks' = [xTimerPeriodInTicks EXCEPT ![t] = c.value]
        /\ Starts(c, now, lag, c.value, now, current, overflow, queue)
        /\ UNCHANGED <<created, reloadBit>>
    BY <1>1, <1>3 DEF Apply
  <2>2. PICK period \in PeriodsInUse : period = c.value
    BY <1>3 DEF CommandOK
  <2>3. PICK lag1 \in e .. MaxLate : lag1 = lag
    BY <1>3, Numbers
  <2>5. now = Modulo(now - (lag1 - e))
    <3>1. now - (lag1 - e) = now + 0
      BY <1>3, <2>3, Numbers DEF TimerTicks
    <3>2. Modulo(now + 0) = now
      <4>1. now \in Nat /\ now < TimerTickRange /\ TimerTickRange \in Nat /\ now + 0 = now
        BY Numbers DEF TimerTicks
      <4>2. Modulo(now) = now
        BY <4>1, ModuloIs
      <4> QED BY <4>1, <4>2
    <3> QED BY <3>1, <3>2
  <2>6. Starts(c, now, lag1, period, now, current, overflow, queue)
    BY <2>1, <2>2, <2>3
  <2>7. xTimerPeriodInTicks' \in [Timers -> PeriodsInUse]
    BY <1>0, <2>1, <2>2 DEF TypesInv
  <2>8. lag1 = e
    BY <1>3, <2>3
  <2> QED BY <1>1, <1>3, <2>1, <2>5, <2>6, <2>7, <2>8, Started
<1>4. CASE c.id \in {"stop", "delete"}
  <2>1. /\ pxCurrentTimerList' = current /\ pxOverflowTimerList' = overflow
        /\ xTimerQueue' = queue /\ armed' = armed \ {t}
        /\ due' = [due EXCEPT ![t] = 0] /\ daemon' = "commands"
        /\ IF c.id = "delete" /\ t \in Dynamic
           THEN created' = created \ {t} /\ reloadBit' = reloadBit \ {t}
           ELSE UNCHANGED <<created, reloadBit>>
        /\ UNCHANGED <<xTimerPeriodInTicks, xTimerListItem, early>>
    BY <1>1, <1>4 DEF Apply
  <2>2. Frees(c) => Deletable(t)
    BY <1>1 DEF CommandOK
  <2> QED BY <1>1, <1>4, <2>1, <2>2, Stopped
<1> QED BY <1>2, <1>3, <1>4 DEF CommandOK, Command

(***************************************************************************)
(* The steps of the service task.                                          *)
(***************************************************************************)
(* Nothing changes but what waits in the queue. *)
LEMMA QueueChanges ==
  ASSUME TimerInv, NEW made, created' = made, created \subseteq made, made \subseteq Timers,
         TypesInv', QueueOK(xTimerQueue', made, timerNow),
         \A u \in Timers : ReloadIn(xTimerQueue, u) => ReloadIn(xTimerQueue', u),
         daemon \in {"switchForCommand", "apply"} /\ Frees(pxCommand) =>
           \A j \in 1 .. Len(xTimerQueue') : xTimerQueue'[j].pxTimer # pxCommand.pxTimer,
         daemon = "blocked" /\ ~Ready' => behind = 0,
         UNCHANGED <<timerLists, timerNow, timerTask, armed, due, behind>>
  PROVE  TimerInv'
<1>0. TypesInv /\ QueueInv /\ ReceivedInv /\ ListsInv /\ ArmedInv /\ TimesInv /\ ClockInv
  BY DEF TimerInv
<1>1. /\ UNCHANGED <<xTimerListItem, pxCurrentTimerList, pxOverflowTimerList, timerNow, xLastTime, daemon,
                     toWait, pxCommand, armed, due, behind>>
  BY DEF timerLists, timerTask
<1>2. UNCHANGED <<Wraps, Switching, Unnoticed, Turn, Elapsed, NothingListed>>
  BY <1>1 DEF Wraps, Switching, Unnoticed, Turn, Elapsed, NothingListed
<1>3. \A u \in Timers : InList(u)' <=> InList(u)
  BY <1>1 DEF InList, Members
<1>4. ListsInv' /\ TimesInv'
  BY <1>0, <1>1, <1>2, <1>3 DEF ListsInv, TimesInv, Members
<1>5. ArmedInv'
  <2>1. armed \subseteq Timers
    BY <1>0 DEF TypesInv
  <2> QED BY <1>0, <1>1, <1>3, <2>1 DEF ArmedInv
<1>6. ReceivedInv'
  <2>1. ASSUME CommandOK(pxCommand, created, timerNow) PROVE CommandOK(pxCommand, made, timerNow)
    BY <2>1 DEF CommandOK
  <2> QED BY <1>0, <1>1, <2>1 DEF ReceivedInv
<1>7. ClockInv'
  BY <1>0, <1>1, <1>2 DEF ClockInv
<1>8. QueueInv'
  BY <1>1 DEF QueueInv
<1> QED BY <1>4, <1>5, <1>6, <1>7, <1>8 DEF TimerInv

(* The service task moves on; what it may sample is timerNow. *)
LEMMA TaskMoves ==
  ASSUME TimerInv, daemon # "assertFailed", ~Switching, ~Switching',
         daemon' \notin {"assertFailed", "switchForCommand", "apply"},
         daemon \notin {"switchForCommand", "apply"},
         UNCHANGED <<timerBits, timerLists, xTimerQueue, timerNow, pxCommand, armed, due, early>>,
         xLastTime' \in TimerTicks, behind' \in 0 .. MaxLate, toWait' \in Int, toWait' >= -1,
         Unnoticed' = Unnoticed, xLastTime <= xLastTime',
         ClockInv'
  PROVE  TimerInv'
<1>0. TypesInv /\ QueueInv /\ ReceivedInv /\ ListsInv /\ ArmedInv /\ TimesInv
  BY DEF TimerInv
<1>1. UNCHANGED <<created, reloadBit, xTimerPeriodInTicks, xTimerListItem, pxCurrentTimerList,
                  pxOverflowTimerList, xTimerQueue, timerNow, pxCommand, armed, due, early>>
  BY DEF timerBits, timerLists
<1>2. Turn' = Turn
  BY DEF Turn
<1>3. \A u \in Timers : InList(u)' <=> InList(u)
  BY <1>1 DEF InList, Members
<1>4. TypesInv' /\ QueueInv' /\ ListsInv' /\ ReceivedInv'
  BY <1>0, <1>1 DEF TypesInv, QueueInv, ListsInv, ReceivedInv
<1>5. ArmedInv'
  <2>1. armed \subseteq Timers
    BY <1>0 DEF TypesInv
  <2> QED BY <1>0, <1>1, <1>3, <2>1 DEF ArmedInv
<1>6. TimesInv'
  <2>1. Members(pxCurrentTimerList)' = Members(pxCurrentTimerList)
        /\ Members(pxOverflowTimerList)' = Members(pxOverflowTimerList)
    BY <1>1 DEF Members
  <2>2. \A u \in Members(pxOverflowTimerList) : xTimerListItem[u] + MaxLate + 1 <= xLastTime'
    <3>1. \A u \in Members(pxOverflowTimerList) : u \in Timers
      BY <1>0, MembersAre DEF ListsInv
    <3> SUFFICES ASSUME NEW u \in Members(pxOverflowTimerList)
                 PROVE  xTimerListItem[u] + MaxLate + 1 <= xLastTime'
      OBVIOUS
    <3>2. xTimerListItem[u] + MaxLate + 1 <= xLastTime
      BY <1>0 DEF TimesInv
    <3>3. xTimerListItem[u] \in Int /\ MaxLate \in Int /\ xLastTime \in Int /\ xLastTime' \in Int
      BY <1>0, <3>1, Numbers DEF TypesInv, TimerTicks
    <3> QED BY <3>2, <3>3
  <2> QED BY <1>0, <1>1, <1>2, <1>3, <2>1, <2>2 DEF TimesInv
<1> QED BY <1>4, <1>5, <1>6 DEF TimerInv

LEMMA StartServiceKeeps == TimerInv /\ StartService => TimerInv'
<1> SUFFICES ASSUME TimerInv, StartService PROVE TimerInv'
  OBVIOUS
<1>0. TypesInv /\ ClockInv
  BY DEF TimerInv
<1>1. /\ daemon = "notStarted" /\ daemon' = "look"
      /\ UNCHANGED <<timerBits, timerLists, xTimerQueue, timerNow, xLastTime, toWait, pxCommand, timerGhost>>
  BY DEF StartService
<1>2. UNCHANGED <<armed, due, early, behind, pxCurrentTimerList, pxOverflowTimerList>>
  BY <1>1 DEF timerGhost, timerLists
<1>3. NothingListed' /\ ClockInv'
  BY <1>0, <1>1, <1>2 DEF ClockInv, NothingListed
<1>4. Unnoticed' = Unnoticed /\ ~Switching /\ ~Switching'
  BY <1>1 DEF Unnoticed, Wraps, Switching
<1>5. xLastTime' \in TimerTicks /\ xLastTime <= xLastTime' /\ behind' \in 0 .. MaxLate /\ toWait' \in Int /\ toWait' >= -1
  BY <1>0, <1>1, <1>2, Numbers DEF TypesInv, TimerTicks
<1> QED BY <1>1, <1>2, <1>3, <1>4, <1>5, TaskMoves

LEMMA UnblockKeeps == TimerInv /\ Unblock => TimerInv'
<1> SUFFICES ASSUME TimerInv, Unblock PROVE TimerInv'
  OBVIOUS
<1>0. TypesInv /\ ClockInv
  BY DEF TimerInv
<1>1. /\ daemon = "blocked" /\ daemon' = "commands" /\ toWait' = 0
      /\ UNCHANGED <<timerBits, timerLists, xTimerQueue, timerNow, xLastTime, pxCommand, timerGhost>>
  BY DEF Unblock
<1>2. UNCHANGED <<armed, due, early, behind, pxCurrentTimerList, pxOverflowTimerList>>
  BY <1>1 DEF timerGhost, timerLists
<1>4. Unnoticed' = Unnoticed /\ ~Switching /\ ~Switching' /\ NothingListed' = NothingListed /\ Elapsed' = Elapsed
  BY <1>1, <1>2 DEF Unnoticed, Wraps, Switching, NothingListed, Elapsed
<1>3. ClockInv'
  <2>1. toWait = -1 => NothingListed
    BY <1>0, <1>1 DEF ClockInv
  <2>2. toWait >= 0 => Elapsed + toWait <= TimerTickRange - 1 - MaxLate + behind
    BY <1>0, <1>1 DEF ClockInv
  <2>3. toWait \in Int /\ toWait >= -1 /\ Elapsed \in Int /\ behind \in Int
    <3>1. Elapsed \in Int
      BY <1>0, TurnIs
    <3> QED BY <1>0, <3>1, Numbers DEF TypesInv
  <2>4. NothingListed' \/ Elapsed' <= TimerTickRange - 1 - MaxLate + behind'
    BY <1>2, <1>4, <2>1, <2>2, <2>3, Numbers
  <2> QED BY <1>1, <2>4 DEF ClockInv
<1>5. xLastTime' \in TimerTicks /\ xLastTime <= xLastTime' /\ behind' \in 0 .. MaxLate /\ toWait' \in Int /\ toWait' >= -1
  BY <1>0, <1>1, <1>2, Numbers DEF TypesInv, TimerTicks
<1> QED BY <1>1, <1>2, <1>3, <1>4, <1>5, TaskMoves

LEMMA NoMoreCommandsKeeps == TimerInv /\ NoMoreCommands => TimerInv'
<1> SUFFICES ASSUME TimerInv, NoMoreCommands PROVE TimerInv'
  OBVIOUS
<1>0. TypesInv /\ ClockInv
  BY DEF TimerInv
<1>1. /\ daemon = "commands" /\ daemon' = "look"
      /\ UNCHANGED <<timerBits, timerLists, xTimerQueue, timerNow, xLastTime, toWait, pxCommand, timerGhost>>
  BY DEF NoMoreCommands
<1>2. UNCHANGED <<armed, due, early, behind, pxCurrentTimerList, pxOverflowTimerList>>
  BY <1>1 DEF timerGhost, timerLists
<1>4. Unnoticed' = Unnoticed /\ ~Switching /\ ~Switching' /\ NothingListed' = NothingListed /\ Elapsed' = Elapsed
  BY <1>1, <1>2 DEF Unnoticed, Wraps, Switching, NothingListed, Elapsed
<1>3. ClockInv'
  BY <1>0, <1>1, <1>2, <1>4 DEF ClockInv
<1>5. xLastTime' \in TimerTicks /\ xLastTime <= xLastTime' /\ behind' \in 0 .. MaxLate /\ toWait' \in Int /\ toWait' >= -1
  BY <1>0, <1>1, <1>2, Numbers DEF TypesInv, TimerTicks
<1> QED BY <1>1, <1>2, <1>3, <1>4, <1>5, TaskMoves

(* The time is sampled. *)
LEMMA Sampled ==
  ASSUME TypesInv, Samples, timerNow' = timerNow
  PROVE  /\ xLastTime' = timerNow /\ behind' = 0 /\ Unnoticed' = 0 /\ Elapsed' = 0
         /\ xLastTime' \in TimerTicks /\ behind' \in 0 .. MaxLate
         /\ ~Wraps => xLastTime <= xLastTime' /\ Unnoticed = 0
         /\ Wraps => Unnoticed = TimerTickRange
  BY Numbers DEF Samples, Unnoticed, Elapsed, Wraps, TypesInv, TimerTicks

(* When the service task has looked at the time, an overflow timer leaves  *)
(* it at least MaxLate ticks into this turn of the counter.                *)
LEMMA WaitIs ==
  ASSUME TimerInv, daemon = "look", ~Wraps, ~HeadExpired, ~NothingListed
  PROVE  /\ TicksToWait \in Int /\ TicksToWait > 0 /\ TicksToWait <= TimerTickRange - 1 - MaxLate
         /\ \A t \in Timers : InList(t) => TicksToWait <= due[t]
<1>0. TypesInv /\ ListsInv /\ ArmedInv /\ TimesInv
  BY DEF TimerInv
<1> DEFINE R == TimerTickRange
<1>1. /\ R \in Nat /\ MaxLate \in Nat /\ MaxLate > 0 /\ timerNow \in Nat /\ timerNow < R /\ xLastTime \in Nat /\ xLastTime <= timerNow
      /\ \A t \in Timers : xTimerListItem[t] \in Nat /\ xTimerListItem[t] < R /\ due[t] \in Int
  BY <1>0, Numbers DEF TypesInv, TimerTicks, Wraps
<1>2. Turn = 0 /\ ~Switching
  BY DEF Turn, Unnoticed, Switching
<1>3. Members(pxCurrentTimerList) \subseteq Timers /\ Members(pxOverflowTimerList) \subseteq Timers
  BY <1>0, MembersAre DEF ListsInv
<1>4. /\ \A t \in Members(pxCurrentTimerList) : xTimerListItem[t] = timerNow + due[t]
      /\ \A t \in Members(pxOverflowTimerList) :
           /\ xTimerListItem[t] + R = timerNow + due[t]
           /\ xTimerListItem[t] + MaxLate + 1 <= xLastTime
  <2>1. timerNow + 0 = timerNow
    BY <1>1
  <2> QED BY <1>0, <1>2, <2>1 DEF TimesInv
<1>5. \A t \in Timers : InList(t) => due[t] <= R - 1 - MaxLate
  BY <1>0, <1>1 DEF ArmedInv
<1>6. CASE pxCurrentTimerList # <<>>
  <2> DEFINE h == Head(pxCurrentTimerList)
  <2>1. /\ h \in Members(pxCurrentTimerList)
        /\ \A u \in Members(pxCurrentTimerList) : xTimerListItem[h] <= xTimerListItem[u]
    BY <1>0, <1>6, TailGood DEF ListsInv
  <2>2. TicksToWait = xTimerListItem[h] - timerNow
    BY <1>6 DEF TicksToWait
  <2>3. ~(xTimerListItem[h] <= timerNow)
    BY <1>6 DEF HeadExpired
  <2>4. h \in Timers /\ InList(h)
    BY <1>3, <2>1 DEF InList
  <2> HIDE DEF h
  <2>5. xTimerListItem[h] = timerNow + due[h] /\ due[h] <= R - 1 - MaxLate
    BY <1>4, <1>5, <2>1, <2>4
  <2>6. TicksToWait \in Int /\ TicksToWait > 0 /\ TicksToWait <= R - 1 - MaxLate
    BY <1>1, <2>2, <2>3, <2>4, <2>5
  <2>7. ASSUME NEW t \in Timers, InList(t) PROVE TicksToWait <= due[t]
    <3>1. CASE t \in Members(pxCurrentTimerList)
      <4>1. xTimerListItem[t] = timerNow + due[t] /\ xTimerListItem[h] <= xTimerListItem[t]
        BY <1>4, <2>1, <3>1
      <4> QED BY <1>1, <2>2, <2>4, <4>1
    <3>2. CASE t \in Members(pxOverflowTimerList)
      <4>1. xTimerListItem[t] + R = timerNow + due[t]
        BY <1>4, <3>2
      <4> QED BY <1>1, <2>2, <2>4, <4>1
    <3> QED BY <2>7, <3>1, <3>2 DEF InList
  <2> QED BY <2>6, <2>7
<1>7. CASE pxCurrentTimerList = <<>>
  <2>1. pxOverflowTimerList # <<>> /\ Members(pxCurrentTimerList) = {}
    BY <1>7, EmptyList DEF NothingListed
  <2>2. PICK o \in Members(pxOverflowTimerList) : TRUE
    BY <1>0, <2>1, MembersAre DEF ListsInv
  <2>3. xTimerListItem[o] + MaxLate + 1 <= xLastTime /\ o \in Timers
    BY <1>3, <1>4, <2>2
  <2>4. timerNow > MaxLate
    BY <1>1, <2>3
  <2>5. TicksToWait = R - timerNow
    <3>1. TicksToWait = Modulo(-timerNow)
      BY <1>7, <2>1 DEF TicksToWait
    <3>2. PICK n \in Int : n = -timerNow /\ -R <= n /\ n < 0
      BY <1>1, <2>4
    <3>3. Modulo(n) = n + R
      BY <1>1, <3>2, ModuloIs
    <3> QED BY <1>1, <3>1, <3>2, <3>3
  <2>6. ASSUME NEW t \in Timers, InList(t) PROVE TicksToWait <= due[t]
    <3>1. t \in Members(pxOverflowTimerList)
      BY <2>1, <2>6 DEF InList
    <3>2. xTimerListItem[t] + R = timerNow + due[t]
      BY <1>4, <3>1
    <3> QED BY <1>1, <2>5, <3>2
  <2>7. TicksToWait \in Int /\ TicksToWait > 0 /\ TicksToWait <= R - 1 - MaxLate
    BY <1>1, <2>4, <2>5
  <2> QED BY <2>6, <2>7
<1> QED BY <1>6, <1>7

LEMMA BlockForCommandKeeps == TimerInv /\ BlockForCommand => TimerInv'
<1> SUFFICES ASSUME TimerInv, BlockForCommand PROVE TimerInv'
  OBVIOUS
<1>0. TypesInv /\ ClockInv
  BY DEF TimerInv
<1>1. /\ daemon = "look" /\ ~Wraps /\ ~HeadExpired /\ Samples
      /\ IF xTimerQueue = <<>> THEN daemon' = "blocked" /\ toWait' = TicksToWait
                               ELSE daemon' = "commands" /\ UNCHANGED toWait
      /\ UNCHANGED <<timerBits, timerLists, xTimerQueue, timerNow, pxCommand, armed, due, early>>
  BY DEF BlockForCommand
<1>2. /\ xLastTime' = timerNow /\ behind' = 0 /\ Unnoticed' = 0 /\ Elapsed' = 0
      /\ xLastTime' \in TimerTicks /\ behind' \in 0 .. MaxLate
      /\ xLastTime <= xLastTime' /\ Unnoticed = 0
  BY <1>0, <1>1, Sampled
<1>3. NothingListed' = NothingListed
  BY <1>1 DEF NothingListed, timerLists
<1>4. NothingListed => TicksToWait = -1
  BY DEF NothingListed, TicksToWait
<1>5. ~NothingListed => /\ TicksToWait \in Int /\ TicksToWait > 0
                        /\ TicksToWait <= TimerTickRange - 1 - MaxLate
  BY <1>1, WaitIs
<1>6. toWait' \in Int /\ toWait' >= -1
  BY <1>0, <1>1, <1>4, <1>5 DEF TypesInv
<1>7. ~NothingListed => MaxLate + 1 < TimerTickRange
  <2> SUFFICES ASSUME ~NothingListed PROVE MaxLate + 1 < TimerTickRange
    OBVIOUS
  <2>1. TicksToWait \in Int /\ TicksToWait > 0 /\ TicksToWait <= TimerTickRange - 1 - MaxLate
    BY <1>5
  <2> QED BY <2>1, Numbers
<1>8. ClockInv'
  <2>1. CASE daemon' = "blocked"
    <3>1. toWait' = -1 => NothingListed'
      BY <1>1, <1>3, <1>5, <2>1
    <3>2. toWait' >= 0 => Elapsed' + toWait' <= TimerTickRange - 1 - MaxLate + behind'
      BY <1>1, <1>2, <1>4, <1>5, <2>1, Numbers
    <3> QED BY <1>2, <2>1, <3>1, <3>2 DEF ClockInv
  <2>2. CASE daemon' = "commands"
    <3>1. NothingListed' \/ Elapsed' <= TimerTickRange - 1 - MaxLate + behind'
      BY <1>2, <1>3, <1>7, Numbers
    <3> QED BY <2>2, <3>1 DEF ClockInv
  <2> QED BY <1>1, <2>1, <2>2
<1>9. ~Switching /\ ~Switching' /\ Unnoticed' = Unnoticed
  BY <1>1, <1>2 DEF Switching
<1> QED BY <1>1, <1>2, <1>6, <1>8, <1>9, TaskMoves

LEMMA FindsWrapKeeps == TimerInv /\ FindsWrap => TimerInv'
<1> SUFFICES ASSUME TimerInv, FindsWrap PROVE TimerInv'
  OBVIOUS
<1>0. TypesInv /\ QueueInv /\ ReceivedInv /\ ListsInv /\ ArmedInv /\ TimesInv
  BY DEF TimerInv
<1>1. /\ daemon = "look" /\ Wraps /\ daemon' = "switch" /\ Samples
      /\ UNCHANGED <<timerBits, timerLists, xTimerQueue, timerNow, toWait, pxCommand, armed, due, early>>
  BY DEF FindsWrap
<1>2. UNCHANGED <<created, reloadBit, xTimerPeriodInTicks, xTimerListItem, pxCurrentTimerList,
                  pxOverflowTimerList, xTimerQueue, timerNow, toWait, pxCommand, armed, due, early>>
  BY <1>1 DEF timerBits, timerLists
<1>3. /\ xLastTime' = timerNow /\ behind' = 0 /\ Unnoticed' = 0 /\ Elapsed' = 0
      /\ xLastTime' \in TimerTicks /\ behind' \in 0 .. MaxLate
      /\ Unnoticed = TimerTickRange
  BY <1>0, <1>1, Sampled
<1>4. Turn' = Turn /\ Switching'
  BY <1>1, <1>3, Numbers DEF Turn, Switching
<1>5. TypesInv' /\ QueueInv' /\ ListsInv'
  BY <1>0, <1>2, <1>3 DEF TypesInv, QueueInv, ListsInv
<1>6. ReceivedInv'
  BY <1>0, <1>1 DEF ReceivedInv
<1>7. \A u \in Timers : InList(u)' <=> InList(u)
  BY <1>2 DEF InList, Members
<1>8. ArmedInv'
  <2>1. armed \subseteq Timers
    BY <1>0 DEF TypesInv
  <2> QED BY <1>0, <1>1, <1>2, <1>7, <2>1 DEF ArmedInv
<1>9. TimesInv'
  <2>1. Members(pxCurrentTimerList)' = Members(pxCurrentTimerList)
        /\ Members(pxOverflowTimerList)' = Members(pxOverflowTimerList)
    BY <1>2 DEF Members
  <2> QED BY <1>0, <1>1, <1>2, <1>4, <1>7, <2>1 DEF TimesInv
<1>10. ClockInv'
  BY <1>1, <1>3 DEF ClockInv
<1> QED BY <1>5, <1>6, <1>8, <1>9, <1>10 DEF TimerInv

LEMMA SwitchListsKeeps == TimerInv /\ SwitchLists => TimerInv'
<1> SUFFICES ASSUME TimerInv, SwitchLists PROVE TimerInv'
  OBVIOUS
<1>0. TypesInv /\ QueueInv /\ ReceivedInv /\ ListsInv /\ ArmedInv /\ TimesInv /\ ClockInv
  BY DEF TimerInv
<1>1. /\ daemon \in {"switch", "switchForCommand"}
      /\ pxCurrentTimerList = <<>>
      /\ pxCurrentTimerList' = pxOverflowTimerList
      /\ pxOverflowTimerList' = <<>>
      /\ daemon' = IF daemon = "switch" THEN "commands" ELSE "apply"
      /\ UNCHANGED <<timerBits, xTimerListItem, xTimerQueue, timerNow, xLastTime, toWait, pxCommand, timerGhost>>
  BY DEF SwitchLists
<1>2. UNCHANGED <<created, reloadBit, xTimerPeriodInTicks, xTimerListItem, xTimerQueue, timerNow,
                  xLastTime, toWait, pxCommand, armed, due, behind, early>>
  BY <1>1 DEF timerBits, timerGhost
<1>3. Unnoticed' = Unnoticed /\ Elapsed' = Elapsed
  BY <1>2 DEF Unnoticed, Wraps, Elapsed
<1>4. Turn = Turn' + TimerTickRange /\ Turn' \in Int
  <2>1. Unnoticed \in {0, TimerTickRange}
    BY <1>0, TurnIs
  <2>2. Turn = Unnoticed + TimerTickRange /\ Turn' = Unnoticed + 0
    BY <1>1, <1>3 DEF Turn, Switching
  <2> QED BY <2>1, <2>2, Numbers
<1>5. TypesInv' /\ QueueInv'
  BY <1>0, <1>2 DEF TypesInv, QueueInv
<1>6. ReceivedInv'
  BY <1>0, <1>1, <1>2 DEF ReceivedInv
<1>7. ListsInv'
  <2>1. GoodList(<<>>, xTimerListItem) /\ Members(<<>>) = {}
    BY EmptyList
  <2>2. Members(pxCurrentTimerList)' \cap Members(pxOverflowTimerList)' = {}
    BY <1>1, <2>1 DEF Members
  <2> QED BY <1>0, <1>1, <1>2, <2>1, <2>2 DEF ListsInv
<1>8. /\ Members(pxCurrentTimerList) = {} /\ Members(pxCurrentTimerList)' = Members(pxOverflowTimerList)
      /\ Members(pxOverflowTimerList)' = {}
  BY <1>1, EmptyList DEF Members
<1>9. \A u \in Timers : InList(u)' <=> InList(u)
  BY <1>8 DEF InList
<1>10. ArmedInv'
  <2>1. armed \subseteq Timers
    BY <1>0 DEF TypesInv
  <2> QED BY <1>0, <1>1, <1>2, <1>9, <2>1 DEF ArmedInv
<1>11. TimesInv'
  <2>1. Members(pxOverflowTimerList) \subseteq Timers
    BY <1>0, MembersAre DEF ListsInv
  <2>2. ASSUME NEW u \in Members(pxOverflowTimerList)
        PROVE  xTimerListItem[u] = timerNow + Turn' + due[u]
    <3>1. xTimerListItem[u] + TimerTickRange = timerNow + Turn + due[u]
      BY <1>0, <1>1, <2>2 DEF TimesInv
    <3>2. xTimerListItem[u] \in Int /\ timerNow \in Int /\ due[u] \in Int /\ TimerTickRange \in Int
      BY <1>0, <2>1, <2>2, Numbers DEF TypesInv, TimerTicks
    <3> QED BY <1>4, <3>1, <3>2
  <2> QED BY <1>0, <1>2, <1>8, <1>9, <2>2 DEF TimesInv
<1>12. ClockInv'
  <2>1. Elapsed' = behind'
    BY <1>0, <1>1, <1>2, <1>3 DEF ClockInv
  <2>2. NothingListed' \/ Elapsed' <= TimerTickRange - 1 - MaxLate + behind'
    <3>1. CASE pxOverflowTimerList = <<>>
      BY <1>1, <3>1 DEF NothingListed
    <3>2. CASE pxOverflowTimerList # <<>>
      <4>1. PICK o \in Members(pxOverflowTimerList) : TRUE
        BY <1>0, <3>2, MembersAre DEF ListsInv
      <4>2. o \in Timers
        BY <1>0, MembersAre DEF ListsInv
      <4>3. MaxLate + 1 < TimerTickRange
        BY <4>2, LateIsShort
      <4>4. PICK b \in Int : b = behind'
        BY <1>0, <1>2, Numbers DEF TypesInv
      <4>5. b <= TimerTickRange - 1 - MaxLate + b
        BY ONLY <4>3, Numbers, b \in Int
      <4> QED BY <2>1, <4>4, <4>5
    <3> QED BY <3>1, <3>2
  <2> QED BY <1>1, <2>1, <2>2 DEF ClockInv
<1> QED BY <1>5, <1>6, <1>7, <1>10, <1>11, <1>12 DEF TimerInv

(* prvProcessReceivedCommands. *)
LEMMA OutOfLists ==
  ASSUME TimerInv, NEW t
  PROVE  /\ GoodList(Without(pxCurrentTimerList, t), xTimerListItem)
         /\ Members(Without(pxCurrentTimerList, t)) = Members(pxCurrentTimerList) \ {t}
         /\ GoodList(Without(pxOverflowTimerList, t), xTimerListItem)
         /\ Members(Without(pxOverflowTimerList, t)) = Members(pxOverflowTimerList) \ {t}
  BY WithoutGood DEF TimerInv, ListsInv

LEMMA ReceiveCommandKeeps == TimerInv /\ ReceiveCommand => TimerInv'
<1> SUFFICES ASSUME TimerInv, ReceiveCommand PROVE TimerInv'
  OBVIOUS
<1>0. TypesInv /\ QueueInv /\ ReceivedInv /\ ListsInv /\ ArmedInv /\ TimesInv /\ ClockInv
  BY DEF TimerInv
<1>1. PICK c : c = Head(xTimerQueue)
  OBVIOUS
<1>2. PICK queue : queue = Tail(xTimerQueue)
  OBVIOUS
<1>3. PICK current : current = Without(pxCurrentTimerList, c.pxTimer)
  OBVIOUS
<1>4. PICK overflow : overflow = Without(pxOverflowTimerList, c.pxTimer)
  OBVIOUS
<1>5. daemon = "commands" /\ xTimerQueue # <<>> /\ timerNow' = timerNow /\ ~Switching
  BY DEF ReceiveCommand, Switching
<1>6. /\ QueueOK(queue, created, timerNow) /\ CommandOK(c, created, timerNow)
      /\ Frees(c) => \A j \in 1 .. Len(queue) : queue[j].pxTimer # c.pxTimer
      /\ \A u : ReloadIn(xTimerQueue, u) /\ c.pxTimer # u => ReloadIn(queue, u)
  BY <1>0, <1>1, <1>2, <1>5, TailQueue DEF QueueInv
<1>7. CASE c.id = "pended"
  <2>1. xTimerQueue' = queue /\ UNCHANGED <<timerBits, timerLists, timerTask, timerGhost>>
    BY <1>1, <1>2, <1>7 DEF ReceiveCommand
  <2>2. UNCHANGED <<created, reloadBit, xTimerPeriodInTicks, timerLists, timerTask, xTimerListItem, xLastTime,
                    toWait, armed, due, behind, early>>
    BY <2>1 DEF timerBits, timerGhost, timerLists, timerTask
  <2>3. c.pxTimer = NoTimer /\ NoTimer \notin Timers
    BY <1>6, <1>7, TimersAssumption DEF CommandOK
  <2>4. TypesInv'
    BY <1>0, <1>5, <2>2 DEF TypesInv
  <2>5. created \subseteq Timers
    BY <1>0 DEF TypesInv
  <2>6. \A u \in Timers : ReloadIn(xTimerQueue, u) => ReloadIn(xTimerQueue', u)
    BY <1>6, <2>1, <2>3
  <2> QED BY <1>5, <1>6, <2>1, <2>2, <2>4, <2>5, <2>6, QueueChanges
<1>8. CASE c.id # "pended"
  <2>1. /\ Samples
        /\ IF Wraps
           THEN /\ daemon' = "switchForCommand"
                /\ pxCommand' = [c EXCEPT !.age = IF c.id = "changePeriod" THEN 0 ELSE @]
                /\ pxCurrentTimerList' = current /\ pxOverflowTimerList' = overflow
                /\ xTimerQueue' = queue /\ armed' = armed \ {c.pxTimer}
                /\ UNCHANGED <<timerBits, xTimerListItem, due, early>>
           ELSE Apply(c, timerNow, 0, current, overflow, queue) /\ UNCHANGED pxCommand
        /\ UNCHANGED toWait
    BY <1>1, <1>2, <1>3, <1>4, <1>8 DEF ReceiveCommand
  <2>2. /\ xLastTime' = timerNow /\ behind' = 0 /\ Unnoticed' = 0 /\ Elapsed' = 0
        /\ xLastTime' \in TimerTicks /\ behind' \in 0 .. MaxLate
        /\ ~Wraps => xLastTime <= xLastTime' /\ Unnoticed = 0
        /\ Wraps => Unnoticed = TimerTickRange
    BY <1>0, <1>5, <2>1, Sampled
  <2>3. PICK t \in Timers : t = c.pxTimer /\ t \in created
    BY <1>0, <1>6, <1>8 DEF CommandOK, TypesInv
  <2>4. /\ GoodList(current, xTimerListItem) /\ Members(current) = Members(pxCurrentTimerList) \ {t}
        /\ GoodList(overflow, xTimerListItem) /\ Members(overflow) = Members(pxOverflowTimerList) \ {t}
    BY <1>3, <1>4, <2>3, OutOfLists
  <2>5. CASE ~Wraps
    <3>1. /\ Apply(c, timerNow, 0, current, overflow, queue)
          /\ pxCommand' = NoCommand
      BY <1>0, <1>5, <2>1, <2>5 DEF ReceivedInv
    <3>2. Turn = 0 /\ Unnoticed' = Turn /\ timerNow + Turn = timerNow + 0
      BY <1>5, <2>2, <2>5 DEF Turn
    <3>3. timerNow \in TimerTicks /\ 0 \in 0 .. MaxLate
      BY <1>0, Numbers DEF TypesInv
    <3>4. c.id = "start" => 0 <= c.age
      BY <1>6, Numbers DEF CommandOK, Command
    <3>5. PICK now \in TimerTicks, e \in 0 .. MaxLate : now = timerNow /\ e = 0
      BY <3>3
    <3>6. /\ Apply(c, now, e, current, overflow, queue) /\ timerNow + Turn = now + e /\ xLastTime <= now
          /\ xLastTime' = now /\ behind' = e /\ (c.id = "start" => e <= c.age) /\ toWait' = toWait
      BY <2>1, <2>2, <2>5, <3>1, <3>2, <3>4, <3>5
    <3> QED BY <1>5, <1>6, <1>8, <2>3, <2>4, <3>1, <3>2, <3>6, Applied
  <2>6. CASE Wraps
    <3>1. /\ daemon' = "switchForCommand"
          /\ pxCommand' = [c EXCEPT !.age = IF c.id = "changePeriod" THEN 0 ELSE @]
          /\ pxCurrentTimerList' = current /\ pxOverflowTimerList' = overflow
          /\ xTimerQueue' = queue /\ armed' = armed \ {t}
          /\ UNCHANGED <<created, reloadBit, xTimerPeriodInTicks, xTimerListItem, due, early, toWait>>
      BY <2>1, <2>3, <2>6 DEF timerBits
    <3>2. Turn' = Turn /\ Switching'
      <4>1. Turn = TimerTickRange + 0 /\ Turn' = 0 + TimerTickRange /\ Switching'
        BY <1>5, <2>2, <2>6, <3>1 DEF Turn, Switching
      <4> QED BY <4>1, Numbers
    <3>3. TypesInv'
      BY <1>0, <1>5, <2>2, <3>1 DEF TypesInv
    <3>4. QueueInv'
      BY <1>5, <1>6, <3>1 DEF QueueInv
    <3>5. ReceivedInv'
      <4>1. /\ pxCommand'.id = c.id /\ pxCommand'.pxTimer = c.pxTimer /\ pxCommand'.value = c.value
            /\ pxCommand'.age = IF c.id = "changePeriod" THEN 0 ELSE c.age
            /\ pxCommand' \in Command
        BY <1>6, <3>1, Numbers DEF CommandOK, Command
      <4>2. c.age \in 0 .. MaxLate
        BY <1>6 DEF CommandOK, Command
      <4>3. CommandOK(pxCommand', created', timerNow')
        BY <1>5, <1>6, <3>1, <4>1 DEF CommandOK
      <4>4. pxCommand'.age >= behind' /\ (pxCommand'.id = "changePeriod" => pxCommand'.age = behind')
        BY <2>2, <4>1, <4>2, Numbers
      <4> QED BY <1>6, <1>8, <2>3, <3>1, <4>1, <4>3, <4>4 DEF ReceivedInv
    <3>6. ListsInv'
      <4>1. Members(current) \cap Members(overflow) = {}
        BY <1>0, <2>4 DEF ListsInv
      <4> QED BY <2>4, <3>1, <4>1 DEF ListsInv
    <3>7. /\ Members(pxCurrentTimerList)' = Members(pxCurrentTimerList) \ {t}
          /\ Members(pxOverflowTimerList)' = Members(pxOverflowTimerList) \ {t}
      BY <2>4, <3>1 DEF Members
    <3>8. ArmedInv' /\ TimesInv'
      <4>1. ~InList(t)' /\ t \notin armed'
        BY <3>1, <3>7 DEF InList
      <4>2. \A u \in Timers : u # t =>
             /\ xTimerListItem'[u] = xTimerListItem[u] /\ due'[u] = due[u]
             /\ u \in armed' <=> u \in armed
             /\ u \in Members(pxCurrentTimerList)' <=> u \in Members(pxCurrentTimerList)
             /\ u \in Members(pxOverflowTimerList)' <=> u \in Members(pxOverflowTimerList)
             /\ ReloadIn(xTimerQueue, u) => ReloadIn(xTimerQueue', u)
        BY <1>6, <2>3, <3>1, <3>7
      <4>3. t \notin Members(pxCurrentTimerList)' /\ t \notin Members(pxOverflowTimerList)'
        BY <3>7
      <4> QED BY <1>5, <3>2, <3>3, <3>6, <4>1, <4>2, <4>3, Handled
    <3>9. ClockInv'
      BY <2>2, <3>1 DEF ClockInv
    <3> QED BY <3>3, <3>4, <3>5, <3>6, <3>8, <3>9 DEF TimerInv
  <2> QED BY <2>5, <2>6
<1> QED BY <1>7, <1>8

LEMMA ApplyCommandKeeps == TimerInv /\ ApplyCommand => TimerInv'
<1> SUFFICES ASSUME TimerInv, ApplyCommand PROVE TimerInv'
  OBVIOUS
<1>0. TypesInv /\ QueueInv /\ ReceivedInv /\ ListsInv /\ ArmedInv /\ ClockInv
  BY DEF TimerInv
<1>1. /\ daemon = "apply"
      /\ Apply(pxCommand, xLastTime, pxCommand.age, pxCurrentTimerList, pxOverflowTimerList, xTimerQueue)
      /\ pxCommand' = NoCommand
      /\ UNCHANGED <<timerNow, xLastTime, toWait, behind>>
  BY DEF ApplyCommand
<1>2. PICK c : c = pxCommand
  OBVIOUS
<1>3. /\ CommandOK(c, created, timerNow) /\ c.id # "pended" /\ c.age >= behind
      /\ c.id = "changePeriod" => c.age = behind
      /\ c.pxTimer \notin armed
      /\ Frees(c) => \A j \in 1 .. Len(xTimerQueue) : xTimerQueue[j].pxTimer # c.pxTimer
  BY <1>0, <1>1, <1>2 DEF ReceivedInv
<1>4. PICK t \in Timers : t = c.pxTimer
  BY <1>0, <1>3 DEF CommandOK, TypesInv
<1>5. ~InList(t)
  BY <1>0, <1>3, <1>4 DEF ArmedInv
<1>6. PICK now \in TimerTicks, e \in 0 .. MaxLate : now = xLastTime /\ e = behind
  BY <1>0 DEF TypesInv
<1>7. Turn = Unnoticed /\ Unnoticed' = Unnoticed /\ timerNow + Turn = now + e
  <2>1. Turn = Unnoticed + 0 /\ Unnoticed' = Unnoticed
    BY <1>1 DEF Turn, Switching, Unnoticed, Wraps
  <2>2. Unnoticed \in {0, TimerTickRange}
    BY <1>0, TurnIs
  <2>3. timerNow + Unnoticed - xLastTime = behind
    BY <1>0, <1>1 DEF ClockInv, Elapsed
  <2>4. timerNow \in Int /\ xLastTime \in Int /\ behind \in Int /\ Unnoticed \in Int
    BY <1>0, <2>2, Numbers DEF TypesInv, TimerTicks
  <2> QED BY <1>6, <2>1, <2>3, <2>4
<1>8. /\ GoodList(pxCurrentTimerList, xTimerListItem) /\ GoodList(pxOverflowTimerList, xTimerListItem)
      /\ Members(pxCurrentTimerList) = Members(pxCurrentTimerList) \ {c.pxTimer}
      /\ Members(pxOverflowTimerList) = Members(pxOverflowTimerList) \ {c.pxTimer}
  BY <1>0, <1>4, <1>5 DEF ListsInv, InList
<1>9. /\ Apply(c, now, c.age, pxCurrentTimerList, pxOverflowTimerList, xTimerQueue)
      /\ xLastTime <= now /\ xLastTime' = now /\ behind' = e
      /\ c.id = "start" => e <= c.age
      /\ c.id = "changePeriod" => c.age = e
      /\ UNCHANGED <<timerNow, toWait>>
  <2>1. xLastTime \in Int /\ behind \in Int
    BY <1>0, Numbers DEF TypesInv, TimerTicks
  <2>2. c.age \in Int
    BY <1>3, Numbers DEF CommandOK, Command
  <2> QED BY <1>1, <1>2, <1>3, <1>6, <2>1, <2>2
<1>10. QueueOK(xTimerQueue, created, timerNow)
  BY <1>0 DEF QueueInv
<1> QED BY <1>1, <1>3, <1>7, <1>8, <1>9, <1>10, Applied

(* prvProcessExpiredTimer and prvSwitchTimerLists: the callback is in time. *)
LEMMA CalledBack ==
  ASSUME TypesInv, NEW t \in Timers, t \in armed, due[t] \in -MaxLate .. 0,
         NEW reloads \in BOOLEAN, NEW period \in PeriodsInUse, CallsBack(t, reloads, period)
  PROVE  /\ early' = FALSE /\ due' \in [Timers -> Int] /\ armed' \subseteq armed
         /\ \A u \in Timers : u # t => due'[u] = due[u] /\ (u \in armed' <=> u \in armed)
         /\ IF reloads THEN t \in armed' /\ due'[t] = due[t] + period ELSE t \notin armed'
         /\ t \in armed' => due'[t] \in -MaxLate .. TimerTickRange - 1 - MaxLate
<1>1. PICK n \in Nat : n = period /\ n > 0 /\ n + MaxLate + 1 <= TimerTickRange
  BY Numbers
<1>2. due \in [Timers -> Int] /\ due[t] \in Int /\ -MaxLate <= due[t] /\ due[t] <= 0 /\ early = FALSE
  BY Numbers DEF TypesInv
<1>3. due' = [due EXCEPT ![t] = IF reloads THEN due[t] + period ELSE 0] /\ early' = FALSE
  <2>1. due' = [due EXCEPT ![t] = IF reloads THEN due[t] + period ELSE 0]
    BY DEF CallsBack
  <2>2. ~(due[t] > 0)
    BY <1>2
  <2>3. early' = (early \/ due[t] > 0)
    BY DEF CallsBack
  <2> QED BY <1>2, <2>1, <2>2, <2>3
<1>4. armed' = IF reloads THEN armed ELSE armed \ {t}
  BY DEF CallsBack
<1>5. CASE reloads
  <2>1. due' = [due EXCEPT ![t] = due[t] + n] /\ armed' = armed
    BY <1>1, <1>3, <1>4, <1>5
  <2>2. due'[t] = due[t] + n /\ due[t] + n \in Int
    BY <1>2, <2>1
  <2>3. due'[t] \in -MaxLate .. TimerTickRange - 1 - MaxLate
    BY <1>1, <1>2, <2>2, Numbers
  <2> QED BY <1>1, <1>2, <1>3, <1>5, <2>1, <2>2, <2>3
<1>6. CASE ~reloads
  BY <1>2, <1>3, <1>4, <1>6
<1> QED BY <1>5, <1>6

(* The head of the current list, taken out. *)
LEMMA HeadOut ==
  ASSUME TimerInv, pxCurrentTimerList # <<>>
  PROVE  LET t == Head(pxCurrentTimerList) IN
         /\ t \in Timers /\ t \in armed /\ InList(t)
         /\ t \in Members(pxCurrentTimerList) /\ t \notin Members(pxOverflowTimerList)
         /\ GoodList(Tail(pxCurrentTimerList), xTimerListItem)
         /\ Members(Tail(pxCurrentTimerList)) = Members(pxCurrentTimerList) \ {t}
         /\ Members(Tail(pxCurrentTimerList)) \cap Members(pxOverflowTimerList) = {}
<1>1. ListsInv /\ ArmedInv
  BY DEF TimerInv
<1>2. PICK t : t = Head(pxCurrentTimerList)
  OBVIOUS
<1>3. /\ GoodList(Tail(pxCurrentTimerList), xTimerListItem)
      /\ Members(Tail(pxCurrentTimerList)) = Members(pxCurrentTimerList) \ {t}
      /\ t \in Members(pxCurrentTimerList)
  BY <1>1, <1>2, TailGood DEF ListsInv
<1>4. t \in Timers
  BY <1>1, <1>3, MembersAre DEF ListsInv
<1> QED BY <1>1, <1>2, <1>3, <1>4 DEF ListsInv, ArmedInv, InList

LEMMA ProcessExpiredTimerKeeps == TimerInv /\ ProcessExpiredTimer => TimerInv'
<1> SUFFICES ASSUME TimerInv, ProcessExpiredTimer PROVE TimerInv'
  OBVIOUS
<1>0. TypesInv /\ QueueInv /\ ReceivedInv /\ ListsInv /\ ArmedInv /\ TimesInv
  BY DEF TimerInv
<1>1. daemon = "look" /\ ~Wraps /\ HeadExpired /\ Samples /\ timerNow' = timerNow /\ pxCurrentTimerList # <<>>
  BY DEF ProcessExpiredTimer, HeadExpired
<1>2. PICK t \in Timers : /\ t = Head(pxCurrentTimerList) /\ t \in armed /\ InList(t)
                          /\ t \in Members(pxCurrentTimerList) /\ t \notin Members(pxOverflowTimerList)
  BY <1>1, HeadOut
<1>3. PICK rest : rest = Tail(pxCurrentTimerList)
  OBVIOUS
<1>4. /\ GoodList(rest, xTimerListItem) /\ Members(rest) = Members(pxCurrentTimerList) \ {t}
      /\ Members(rest) \cap Members(pxOverflowTimerList) = {}
      /\ GoodList(pxOverflowTimerList, xTimerListItem)
  BY <1>0, <1>1, <1>2, <1>3, HeadOut DEF ListsInv
<1>5. PICK expiry \in TimerTicks : expiry = xTimerListItem[t]
  BY <1>0 DEF TypesInv
<1>6. PICK period \in PeriodsInUse : period = xTimerPeriodInTicks[t]
  BY <1>0 DEF TypesInv
<1>7. PICK next : next = Modulo(expiry + period)
  OBVIOUS
<1>8. PICK reloads \in BOOLEAN : reloads = (t \in reloadBit)
  <2>1. (t \in reloadBit) \in BOOLEAN
    OBVIOUS
  <2> QED BY ONLY <2>1, Zenon
<1>9. /\ CallsBack(t, reloads, period)
      /\ IF ~reloads
         THEN /\ pxCurrentTimerList' = rest /\ daemon' = "commands"
              /\ UNCHANGED <<xTimerListItem, pxOverflowTimerList, xTimerQueue>>
         ELSE IF Expired(t, period, next, timerNow, expiry)
              THEN /\ KeepOut(t, next, rest, pxOverflowTimerList)
                   /\ SendsItself(t, expiry, -due[t], xTimerQueue, "commands")
              ELSE /\ InsertInActiveList(t, next, timerNow, rest, pxOverflowTimerList)
                   /\ daemon' = "commands"
                   /\ UNCHANGED xTimerQueue
      /\ UNCHANGED <<created, reloadBit, xTimerPeriodInTicks, toWait, pxCommand>>
  BY <1>2, <1>3, <1>5, <1>6, <1>7, <1>8 DEF ProcessExpiredTimer
<1> DEFINE R == TimerTickRange
<1>10. /\ xLastTime' = timerNow /\ behind' = 0 /\ Unnoticed' = 0 /\ Elapsed' = 0
       /\ xLastTime' \in TimerTicks /\ behind' \in 0 .. MaxLate
       /\ xLastTime <= xLastTime' /\ Unnoticed = 0
  BY <1>0, <1>1, Sampled
<1>11. Turn = 0 /\ ~Switching
  BY <1>1, <1>10 DEF Turn, Switching
<1>12. /\ R \in Nat /\ MaxLate \in Nat /\ MaxLate + 1 < R /\ period \in Nat /\ period > 0
       /\ timerNow \in Nat /\ timerNow \in TimerTicks /\ expiry \in Nat /\ due[t] \in Int
       /\ -MaxLate <= due[t]
  <2>1. R \in Nat /\ MaxLate \in Nat /\ MaxLate + 1 < R /\ period \in Nat /\ period > 0
    BY Numbers, LateIsShort
  <2>2. timerNow \in TimerTicks /\ timerNow \in Nat /\ expiry \in Nat /\ due[t] \in Int
    BY <1>0, <2>1 DEF TypesInv, TimerTicks
  <2>3. due[t] \in -MaxLate .. R - 1 - MaxLate
    BY <1>0, <1>2 DEF ArmedInv
  <2> QED BY <2>1, <2>2, <2>3
<1>13. expiry = timerNow + due[t] /\ due[t] \in -MaxLate .. 0
  <2>1. expiry = timerNow + 0 + due[t]
    BY <1>0, <1>1, <1>2, <1>5, <1>11 DEF TimesInv
  <2>2. expiry <= timerNow
    BY <1>1, <1>2, <1>5 DEF HeadExpired
  <2> QED BY <1>12, <2>1, <2>2
<1>14. /\ early' = FALSE /\ due' \in [Timers -> Int] /\ armed' \subseteq armed
       /\ \A u \in Timers : u # t => due'[u] = due[u] /\ (u \in armed' <=> u \in armed)
       /\ IF reloads THEN t \in armed' /\ due'[t] = due[t] + period ELSE t \notin armed'
       /\ t \in armed' => due'[t] \in -MaxLate .. R - 1 - MaxLate
  BY <1>0, <1>2, <1>9, <1>13, CalledBack
<1>15. PICK lag \in 0 .. MaxLate : lag = -due[t]
  BY <1>12, <1>13
<1>16. expiry = Modulo(timerNow - lag)
  <2>1. timerNow - lag = timerNow + due[t]
    BY <1>12, <1>15
  <2>2. expiry = Modulo(timerNow + due[t])
    BY <1>0, <1>2, <1>5 DEF TimesInv
  <2> QED BY <2>1, <2>2
<1>17. /\ next \in TimerTicks
       /\ Expired(t, period, next, timerNow, expiry) <=> lag >= period
       /\ lag < period /\ next > timerNow => next = timerNow + (period - lag)
       /\ lag < period /\ next <= timerNow => next + R = timerNow + (period - lag)
  BY ONLY <1>7, <1>16, <1>12, ExpiredWhenLate, lag \in 0 .. MaxLate, period \in PeriodsInUse
<1>18. ASSUME TypesInv', QueueInv', ListsInv', ArmedInv', TimesInv',
              daemon' \in {"commands", "assertFailed"}
       PROVE  TimerInv'
  <2>1. ReceivedInv'
    BY <1>0, <1>1, <1>9, <1>18 DEF ReceivedInv
  <2>2. Elapsed' <= R - 1 - MaxLate + behind'
    BY <1>10, <1>12
  <2>3. ClockInv'
    BY <1>18, <2>2 DEF ClockInv
  <2> QED BY <1>18, <2>1, <2>3 DEF TimerInv
<1>19. ASSUME xTimerListItem' \in [Timers -> TimerTicks] PROVE TypesInv'
  BY <1>0, <1>1, <1>9, <1>10, <1>14, <1>19 DEF TypesInv
<1>20. ASSUME daemon' \in {"commands", "assertFailed"}
       PROVE  /\ daemon' # "assertFailed" => Turn' = Turn
              /\ ~Switching'
  <2>1. ~Switching'
    BY <1>20 DEF Switching
  <2> QED BY <1>10, <1>11, <2>1 DEF Turn
<1>21. CASE ~reloads
  <2>1. /\ pxCurrentTimerList' = rest /\ daemon' = "commands"
        /\ UNCHANGED <<xTimerListItem, pxOverflowTimerList, xTimerQueue>>
    BY <1>9, <1>21
  <2>2. TypesInv'
    BY <1>0, <1>19, <2>1 DEF TypesInv
  <2>3. ListsInv'
    BY <1>4, <2>1 DEF ListsInv
  <2>4. QueueInv'
    BY <1>0, <1>1, <1>9, <2>1 DEF QueueInv
  <2>5. /\ Members(pxCurrentTimerList)' = Members(pxCurrentTimerList) \ {t}
        /\ Members(pxOverflowTimerList)' = Members(pxOverflowTimerList)
    BY <1>4, <2>1 DEF Members
  <2>6. /\ t \notin Members(pxCurrentTimerList)' /\ t \notin Members(pxOverflowTimerList)' /\ t \notin armed'
        /\ ~InList(t)'
    BY <1>2, <1>14, <1>21, <2>5 DEF InList
  <2>7. \A u \in Timers : u # t =>
           /\ xTimerListItem'[u] = xTimerListItem[u] /\ due'[u] = due[u]
           /\ u \in armed' <=> u \in armed
           /\ u \in Members(pxCurrentTimerList)' <=> u \in Members(pxCurrentTimerList)
           /\ u \in Members(pxOverflowTimerList)' <=> u \in Members(pxOverflowTimerList)
           /\ ReloadIn(xTimerQueue, u) => ReloadIn(xTimerQueue', u)
    BY <1>14, <2>1, <2>5
  <2>8. ArmedInv' /\ TimesInv'
    BY <1>1, <1>10, <1>11, <1>20, <2>1, <2>2, <2>3, <2>6, <2>7, Handled
  <2> QED BY <1>18, <2>1, <2>2, <2>3, <2>4, <2>8
<1>22. CASE reloads /\ Expired(t, period, next, timerNow, expiry)
  <2>1. /\ KeepOut(t, next, rest, pxOverflowTimerList)
        /\ SendsItself(t, expiry, lag, xTimerQueue, "commands")
    BY <1>9, <1>15, <1>22
  <2>2. /\ xTimerListItem' = [xTimerListItem EXCEPT ![t] = next]
        /\ xTimerListItem' \in [Timers -> TimerTicks] /\ ListsInv'
        /\ Members(pxCurrentTimerList') = Members(rest)
        /\ Members(pxOverflowTimerList') = Members(pxOverflowTimerList)
    BY <1>0, <1>2, <1>4, <1>17, <2>1, KeepsOut
  <2>3. TypesInv'
    BY <1>19, <2>2
  <2>4. /\ QueueOK(xTimerQueue', created, timerNow)
        /\ \A u : ReloadIn(xTimerQueue, u) => ReloadIn(xTimerQueue', u)
        /\ ReloadIn(xTimerQueue', t) \/ daemon' = "assertFailed"
        /\ daemon' \in {"commands", "assertFailed"}
    <3>1. t \in created /\ created \subseteq Timers /\ ~Deletable(t) /\ QueueOK(xTimerQueue, created, timerNow)
      BY <1>0, <1>8, <1>22 DEF TypesInv, QueueInv
    <3> QED BY <1>16, <2>1, <3>1, SendsReload
  <2>5. QueueInv'
    BY <1>1, <1>9, <2>4 DEF QueueInv
  <2>6. /\ Members(pxCurrentTimerList)' = Members(pxCurrentTimerList) \ {t}
        /\ Members(pxOverflowTimerList)' = Members(pxOverflowTimerList)
    BY <1>4, <2>2 DEF Members
  <2>7. /\ t \notin Members(pxCurrentTimerList)' /\ t \notin Members(pxOverflowTimerList)' /\ ~InList(t)'
    BY <1>2, <2>6 DEF InList
  <2>8. \A u \in Timers : u # t =>
           /\ xTimerListItem'[u] = xTimerListItem[u] /\ due'[u] = due[u]
           /\ u \in armed' <=> u \in armed
           /\ u \in Members(pxCurrentTimerList)' <=> u \in Members(pxCurrentTimerList)
           /\ u \in Members(pxOverflowTimerList)' <=> u \in Members(pxOverflowTimerList)
           /\ ReloadIn(xTimerQueue, u) => ReloadIn(xTimerQueue', u)
    BY <1>0, <1>14, <2>2, <2>4, <2>6 DEF TypesInv
  <2>9. ArmedInv' /\ TimesInv'
    BY <1>1, <1>10, <1>11, <1>14, <1>20, <2>2, <2>3, <2>4, <2>7, <2>8, Handled
  <2> QED BY <1>18, <2>2, <2>3, <2>4, <2>5, <2>9
<1>23. CASE reloads /\ ~Expired(t, period, next, timerNow, expiry)
  <2>1. /\ InsertInActiveList(t, next, timerNow, rest, pxOverflowTimerList)
        /\ daemon' = "commands" /\ UNCHANGED xTimerQueue
    BY <1>9, <1>23
  <2>2. /\ xTimerListItem' = [xTimerListItem EXCEPT ![t] = next]
        /\ xTimerListItem' \in [Timers -> TimerTicks] /\ ListsInv'
        /\ Members(pxCurrentTimerList') = IF next <= timerNow THEN Members(rest) ELSE Members(rest) \cup {t}
        /\ Members(pxOverflowTimerList') = IF next <= timerNow THEN Members(pxOverflowTimerList) \cup {t}
                                           ELSE Members(pxOverflowTimerList)
    BY <1>0, <1>2, <1>4, <1>17, <2>1, Places
  <2>3. TypesInv'
    BY <1>19, <2>2
  <2>4. QueueInv'
    BY <1>0, <1>1, <1>9, <2>1 DEF QueueInv
  <2>5. lag < period /\ xTimerListItem'[t] = next /\ next \in Nat /\ t \in armed' /\ due'[t] = due[t] + period
    <3>1. xTimerListItem \in [Timers -> TimerTicks] /\ next \in Nat
      BY <1>0, <1>12, <1>17 DEF TypesInv, TimerTicks
    <3>2. lag < period
      BY <1>12, <1>17, <1>23
    <3> QED BY <1>14, <1>23, <2>2, <3>1, <3>2
  <2>6. /\ Members(pxCurrentTimerList)' = Members(pxCurrentTimerList')
        /\ Members(pxOverflowTimerList)' = Members(pxOverflowTimerList')
    BY DEF Members
  <2>7. InList(t)'
    BY <2>2, <2>6 DEF InList
  <2>8. \A u \in Timers : u # t =>
           /\ xTimerListItem'[u] = xTimerListItem[u] /\ due'[u] = due[u]
           /\ u \in armed' <=> u \in armed
           /\ u \in Members(pxCurrentTimerList)' <=> u \in Members(pxCurrentTimerList)
           /\ u \in Members(pxOverflowTimerList)' <=> u \in Members(pxOverflowTimerList)
           /\ ReloadIn(xTimerQueue, u) => ReloadIn(xTimerQueue', u)
    BY <1>0, <1>4, <1>14, <2>1, <2>2, <2>6 DEF TypesInv
  <2>9. t \in Members(pxCurrentTimerList)' => xTimerListItem'[t] = timerNow + Turn + due'[t]
    <3> SUFFICES ASSUME t \in Members(pxCurrentTimerList)' PROVE xTimerListItem'[t] = timerNow + Turn + due'[t]
      OBVIOUS
    <3>1. next > timerNow
      BY <1>4, <1>12, <2>2, <2>5, <2>6
    <3> QED BY <1>11, <1>12, <1>15, <1>17, <2>5, <3>1
  <2>10. t \in Members(pxOverflowTimerList)' =>
           /\ xTimerListItem'[t] + R = timerNow + Turn + due'[t]
           /\ xTimerListItem'[t] + MaxLate + 1 <= xLastTime'
    <3> SUFFICES ASSUME t \in Members(pxOverflowTimerList)'
                 PROVE  /\ xTimerListItem'[t] + R = timerNow + Turn + due'[t]
                        /\ xTimerListItem'[t] + MaxLate + 1 <= xLastTime'
      OBVIOUS
    <3>1. next <= timerNow
      BY <1>2, <1>12, <2>2, <2>5, <2>6
    <3>2. next + R = timerNow + (period - lag) /\ period + MaxLate + 1 <= R
      BY <1>17, <2>5, <3>1, Numbers
    <3>3. next + R = timerNow + 0 + due'[t]
      BY <1>12, <1>15, <2>5, <3>2
    <3>4. next + MaxLate + 1 <= timerNow
      BY <1>12, <2>5, <3>2
    <3> QED BY <1>10, <1>11, <2>5, <3>3, <3>4
  <2>11. ArmedInv' /\ TimesInv'
    BY <1>1, <1>10, <1>11, <1>14, <1>20, <2>1, <2>2, <2>3, <2>5, <2>7, <2>8, <2>9, <2>10, Handled
  <2> QED BY <1>18, <2>1, <2>2, <2>3, <2>4, <2>11
<1> QED BY <1>21, <1>22, <1>23

(* prvSwitchTimerLists: what is in the list that is retired has expired,   *)
(* before the counter wrapped.                                             *)
LEMMA SwitchOneKeeps == TimerInv /\ SwitchOne => TimerInv'
<1> SUFFICES ASSUME TimerInv, SwitchOne PROVE TimerInv'
  OBVIOUS
<1>0. TypesInv /\ QueueInv /\ ReceivedInv /\ ListsInv /\ ArmedInv /\ TimesInv /\ ClockInv
  BY DEF TimerInv
<1>1. /\ daemon \in {"switch", "switchForCommand"} /\ Switching /\ pxCurrentTimerList # <<>>
      /\ UNCHANGED <<created, reloadBit, xTimerPeriodInTicks, pxOverflowTimerList, timerNow, xLastTime,
                     toWait, pxCommand, behind>>
  BY DEF SwitchOne, Switching, timerBits
<1>2. PICK t \in Timers : /\ t = Head(pxCurrentTimerList) /\ t \in armed /\ InList(t)
                          /\ t \in Members(pxCurrentTimerList) /\ t \notin Members(pxOverflowTimerList)
  BY <1>1, HeadOut
<1>3. PICK rest : rest = Tail(pxCurrentTimerList)
  OBVIOUS
<1>4. /\ GoodList(rest, xTimerListItem) /\ Members(rest) = Members(pxCurrentTimerList) \ {t}
      /\ Members(rest) \cap Members(pxOverflowTimerList) = {}
      /\ GoodList(pxOverflowTimerList, xTimerListItem)
  BY <1>0, <1>1, <1>2, <1>3, HeadOut DEF ListsInv
<1>5. PICK expiry \in TimerTicks : expiry = xTimerListItem[t]
  BY <1>0 DEF TypesInv
<1>6. PICK period \in PeriodsInUse : period = xTimerPeriodInTicks[t]
  BY <1>0 DEF TypesInv
<1>7. PICK next : next = Modulo(expiry + period)
  OBVIOUS
<1>8. PICK reloads \in BOOLEAN : reloads = (t \in reloadBit)
  <2>1. (t \in reloadBit) \in BOOLEAN
    OBVIOUS
  <2> QED BY ONLY <2>1, Zenon
<1>9. /\ CallsBack(t, reloads, period)
      /\ IF reloads /\ next > expiry
         THEN /\ xTimerListItem' = [xTimerListItem EXCEPT ![t] = next]
              /\ pxCurrentTimerList' = InsertInOrder(rest, t, xTimerListItem')
              /\ UNCHANGED <<xTimerQueue, daemon>>
         ELSE /\ pxCurrentTimerList' = rest
              /\ UNCHANGED xTimerListItem
              /\ IF reloads THEN SendsItself(t, expiry, -due[t], xTimerQueue, daemon)
                            ELSE UNCHANGED <<xTimerQueue, daemon>>
  BY <1>2, <1>3, <1>5, <1>6, <1>7, <1>8 DEF SwitchOne
<1> DEFINE R == TimerTickRange
<1>10. /\ R \in Nat /\ MaxLate \in Nat /\ MaxLate + 1 < R
       /\ period \in Nat /\ period > 0 /\ period + MaxLate + 1 <= R
       /\ timerNow \in Nat /\ timerNow \in TimerTicks /\ expiry \in Nat /\ expiry < R /\ due[t] \in Int
       /\ -MaxLate <= due[t] /\ Turn \in Int /\ Turn >= R
  <2>1. R \in Nat /\ MaxLate \in Nat /\ MaxLate + 1 < R
        /\ period \in Nat /\ period > 0 /\ period + MaxLate + 1 <= R
    BY Numbers, LateIsShort
  <2>2. timerNow \in TimerTicks /\ timerNow \in Nat /\ expiry \in Nat /\ expiry < R /\ due[t] \in Int
    BY <1>0, <2>1 DEF TypesInv, TimerTicks
  <2>3. due[t] \in -MaxLate .. R - 1 - MaxLate
    BY <1>0, <1>2 DEF ArmedInv
  <2>4. Turn \in Int /\ Turn = Unnoticed + R /\ Unnoticed \in {0, R}
    BY <1>0, <1>1, TurnIs
  <2> QED BY <2>1, <2>2, <2>3, <2>4
<1>11. expiry = timerNow + Turn + due[t] /\ due[t] \in -MaxLate .. 0
  <2>1. expiry = timerNow + Turn + due[t]
    BY <1>0, <1>1, <1>2, <1>5 DEF TimesInv
  <2> QED BY <1>10, <2>1
<1>12. /\ early' = FALSE /\ due' \in [Timers -> Int] /\ armed' \subseteq armed
       /\ \A u \in Timers : u # t => due'[u] = due[u] /\ (u \in armed' <=> u \in armed)
       /\ IF reloads THEN t \in armed' /\ due'[t] = due[t] + period ELSE t \notin armed'
       /\ t \in armed' => due'[t] \in -MaxLate .. R - 1 - MaxLate
  BY <1>0, <1>2, <1>9, <1>11, CalledBack
<1>13. PICK lag \in 0 .. MaxLate : lag = -due[t]
  BY <1>10, <1>11
<1>14. expiry = Modulo(timerNow - lag)
  <2>1. timerNow - lag = timerNow + due[t]
    BY <1>10, <1>13
  <2>2. expiry = Modulo(timerNow + due[t])
    BY <1>0, <1>2, <1>5 DEF TimesInv
  <2> QED BY <2>1, <2>2
<1>15. next \in TimerTicks /\ (next > expiry => next = expiry + period)
  <2>1. PICK p \in Int : p = period /\ -R <= p /\ p <= R
    BY <1>10
  <2>2. /\ Modulo(expiry + p) \in TimerTicks
        /\ Modulo(expiry + p) = IF expiry + p < 0 THEN expiry + p + R
                                ELSE IF expiry + p < R THEN expiry + p ELSE expiry + p - R
    BY <2>1, Moved
  <2> QED BY <1>7, <1>10, <2>1, <2>2
<1>16. ASSUME TypesInv', QueueInv', ListsInv', ArmedInv', TimesInv', daemon' \in {daemon, "assertFailed"},
              \A j \in 1 .. Len(xTimerQueue') :
                (j \in 1 .. Len(xTimerQueue) /\ xTimerQueue'[j] = xTimerQueue[j]) \/ xTimerQueue'[j].pxTimer = t
       PROVE  TimerInv'
  <2>1. ReceivedInv'
    <3>1. CASE daemon' = "assertFailed"
      BY <3>1 DEF ReceivedInv
    <3>2. CASE daemon' = "switch"
      BY <1>0, <1>1, <1>16, <3>2 DEF ReceivedInv
    <3>3. CASE daemon' = "switchForCommand"
      <4>1. daemon = "switchForCommand"
        BY <1>16, <3>3
      <4>2. /\ CommandOK(pxCommand, created, timerNow) /\ pxCommand.id # "pended"
            /\ pxCommand.age >= behind
            /\ pxCommand.id = "changePeriod" => pxCommand.age = behind
            /\ pxCommand.pxTimer \notin armed
            /\ Frees(pxCommand) =>
                 \A j \in 1 .. Len(xTimerQueue) : xTimerQueue[j].pxTimer # pxCommand.pxTimer
        BY <1>0, <4>1 DEF ReceivedInv
      <4>3. pxCommand.pxTimer # t /\ pxCommand.pxTimer \notin armed'
        BY <1>2, <1>12, <4>2
      <4>4. Frees(pxCommand) =>
              \A j \in 1 .. Len(xTimerQueue') : xTimerQueue'[j].pxTimer # pxCommand.pxTimer
        BY <1>16, <4>2, <4>3
      <4> QED BY <1>1, <3>3, <4>2, <4>3, <4>4 DEF ReceivedInv
    <3> QED BY <1>1, <1>16, <3>1, <3>2, <3>3
  <2>2. ClockInv'
    <3>1. Elapsed' = Elapsed
      BY <1>1 DEF Elapsed, Unnoticed, Wraps
    <3> QED BY <1>0, <1>1, <1>16, <3>1 DEF ClockInv
  <2> QED BY <1>16, <2>1, <2>2 DEF TimerInv
<1>17. ASSUME xTimerListItem' \in [Timers -> TimerTicks] PROVE TypesInv'
  BY <1>0, <1>1, <1>12, <1>17 DEF TypesInv
<1>18. ASSUME daemon' \in {daemon, "assertFailed"}
       PROVE  /\ daemon' # "assertFailed" => Turn' = Turn
              /\ ~Switching' /\ daemon' # "assertFailed" => ~Switching /\ xLastTime <= xLastTime'
  <2>1. Unnoticed' = Unnoticed
    BY <1>1 DEF Unnoticed, Wraps
  <2> QED BY <1>1, <1>18, <2>1 DEF Turn, Switching
<1>19. daemon # "assertFailed"
  BY <1>1
<1>20. CASE reloads /\ next > expiry
  <2>1. /\ InsertInActiveList(t, next, expiry, rest, pxOverflowTimerList)
        /\ UNCHANGED <<xTimerQueue, daemon>>
    <3>1. ~(next <= expiry)
      BY <1>10, <1>15, <1>20 DEF TimerTicks
    <3> QED BY <1>1, <1>9, <1>20, <3>1 DEF InsertInActiveList
  <2>2. /\ xTimerListItem' = [xTimerListItem EXCEPT ![t] = next]
        /\ xTimerListItem' \in [Timers -> TimerTicks] /\ ListsInv'
        /\ Members(pxCurrentTimerList') = IF next <= expiry THEN Members(rest) ELSE Members(rest) \cup {t}
        /\ Members(pxOverflowTimerList') = IF next <= expiry THEN Members(pxOverflowTimerList) \cup {t}
                                           ELSE Members(pxOverflowTimerList)
    BY <1>0, <1>2, <1>4, <1>15, <2>1, Places
  <2>3. TypesInv'
    BY <1>17, <2>2
  <2>4. QueueInv'
    BY <1>0, <1>1, <2>1 DEF QueueInv
  <2>5. /\ xTimerListItem'[t] = next /\ next = expiry + period /\ t \in armed'
        /\ due'[t] = due[t] + period /\ ~(next <= expiry)
    <3>1. xTimerListItem \in [Timers -> TimerTicks] /\ ~(next <= expiry)
      BY <1>0, <1>10, <1>15, <1>20 DEF TypesInv, TimerTicks
    <3> QED BY <1>12, <1>15, <1>20, <2>2, <3>1
  <2>6. /\ Members(pxCurrentTimerList)' = Members(rest) \cup {t}
        /\ Members(pxOverflowTimerList)' = Members(pxOverflowTimerList)
    BY <2>2, <2>5 DEF Members
  <2>7. InList(t)' /\ t \notin Members(pxOverflowTimerList)'
    BY <1>2, <2>6 DEF InList
  <2>8. \A u \in Timers : u # t =>
           /\ xTimerListItem'[u] = xTimerListItem[u] /\ due'[u] = due[u]
           /\ u \in armed' <=> u \in armed
           /\ u \in Members(pxCurrentTimerList)' <=> u \in Members(pxCurrentTimerList)
           /\ u \in Members(pxOverflowTimerList)' <=> u \in Members(pxOverflowTimerList)
           /\ ReloadIn(xTimerQueue, u) => ReloadIn(xTimerQueue', u)
    BY <1>0, <1>4, <1>12, <2>1, <2>2, <2>6 DEF TypesInv
  <2>9. xTimerListItem'[t] = timerNow + Turn + due'[t]
    BY <1>10, <1>11, <2>5
  <2>10. ArmedInv' /\ TimesInv'
    BY <1>1, <1>12, <1>18, <1>19, <2>1, <2>2, <2>3, <2>5, <2>7, <2>8, <2>9, Handled
  <2> QED BY <1>16, <2>1, <2>2, <2>3, <2>4, <2>10
<1>21. CASE ~(reloads /\ next > expiry)
  <2>1. /\ pxCurrentTimerList' = rest /\ xTimerListItem' = xTimerListItem
        /\ IF reloads THEN SendsItself(t, expiry, lag, xTimerQueue, daemon)
                      ELSE UNCHANGED <<xTimerQueue, daemon>>
    BY <1>9, <1>13, <1>21
  <2>2. ListsInv'
    BY <1>1, <1>4, <2>1 DEF ListsInv
  <2>3. TypesInv'
    BY <1>0, <1>17, <2>1 DEF TypesInv
  <2>4. /\ QueueOK(xTimerQueue', created, timerNow)
        /\ \A u : ReloadIn(xTimerQueue, u) => ReloadIn(xTimerQueue', u)
        /\ reloads => ReloadIn(xTimerQueue', t) \/ daemon' = "assertFailed"
        /\ daemon' \in {daemon, "assertFailed"}
    <3>1. QueueOK(xTimerQueue, created, timerNow)
      BY <1>0 DEF QueueInv
    <3>2. CASE ~reloads
      BY <2>1, <3>1, <3>2
    <3>3. CASE reloads
      <4>1. t \in created /\ created \subseteq Timers /\ ~Deletable(t)
        BY <1>0, <1>8, <3>3 DEF TypesInv
      <4>2. SendsItself(t, expiry, lag, xTimerQueue, daemon)
        BY <2>1, <3>3
      <4> QED BY <1>14, <3>1, <4>1, <4>2, SendsReload
    <3> QED BY <3>2, <3>3
  <2>5. QueueInv'
    BY <1>1, <2>4 DEF QueueInv
  <2>6. \A j \in 1 .. Len(xTimerQueue') :
          (j \in 1 .. Len(xTimerQueue) /\ xTimerQueue'[j] = xTimerQueue[j]) \/ xTimerQueue'[j].pxTimer = t
    <3>1. CASE xTimerQueue' = xTimerQueue
      BY <3>1
    <3>2. CASE xTimerQueue' # xTimerQueue
      <4>1. xTimerQueue' = Append(xTimerQueue, [id |-> "start", pxTimer |-> t, value |-> expiry, age |-> lag])
        BY <2>1, <3>2 DEF SendsItself
      <4>2. PICK c : xTimerQueue' = Append(xTimerQueue, c) /\ c.pxTimer = t
        BY <4>1
      <4>3. xTimerQueue \in Seq(Command) /\ Len(xTimerQueue) \in Nat
        BY <1>0 DEF QueueInv, QueueOK
      <4>4. /\ Len(xTimerQueue') = Len(xTimerQueue) + 1
            /\ \A j \in 1 .. Len(xTimerQueue) : xTimerQueue'[j] = xTimerQueue[j]
            /\ xTimerQueue'[Len(xTimerQueue) + 1] = c
        BY <4>2, <4>3
      <4> QED BY <4>2, <4>3, <4>4
    <3> QED BY <3>1, <3>2
  <2>7. /\ Members(pxCurrentTimerList)' = Members(pxCurrentTimerList) \ {t}
        /\ Members(pxOverflowTimerList)' = Members(pxOverflowTimerList)
    BY <1>1, <1>4, <2>1 DEF Members
  <2>8. /\ t \notin Members(pxCurrentTimerList)' /\ t \notin Members(pxOverflowTimerList)' /\ ~InList(t)'
    BY <1>2, <2>7 DEF InList
  <2>9. \A u \in Timers : u # t =>
           /\ xTimerListItem'[u] = xTimerListItem[u] /\ due'[u] = due[u]
           /\ u \in armed' <=> u \in armed
           /\ u \in Members(pxCurrentTimerList)' <=> u \in Members(pxCurrentTimerList)
           /\ u \in Members(pxOverflowTimerList)' <=> u \in Members(pxOverflowTimerList)
           /\ ReloadIn(xTimerQueue, u) => ReloadIn(xTimerQueue', u)
    BY <1>12, <2>1, <2>4, <2>7
  <2>10. ArmedInv' /\ TimesInv'
    BY <1>1, <1>12, <1>18, <1>19, <2>2, <2>3, <2>4, <2>8, <2>9, Handled
  <2> QED BY <1>16, <2>2, <2>3, <2>4, <2>5, <2>6, <2>10
<1> QED BY <1>20, <1>21

(***************************************************************************)
(* A tick.                                                                 *)
(***************************************************************************)
(* The counter moves, and the turn it completes is noticed or pending. *)
LEMMA ClockMoves ==
  ASSUME TypesInv, timerNow' = Modulo(timerNow + 1), xLastTime' = xLastTime, daemon' = daemon
  PROVE  /\ timerNow' \in TimerTicks
         /\ Turn' \in {0, TimerTickRange, 2 * TimerTickRange}
         /\ Elapsed < TimerTickRange - 1 =>
              /\ Elapsed' = Elapsed + 1 /\ timerNow' + Turn' = timerNow + Turn + 1
<1> DEFINE R == TimerTickRange
<1>1. PICK now \in TimerTicks, last \in TimerTicks : now = timerNow /\ last = xLastTime
  BY DEF TypesInv
<1>2. R \in Nat /\ R > 1 /\ now \in Nat /\ now < R /\ last \in Nat /\ last < R
  BY Numbers DEF TimerTicks
<1>3. timerNow' = (IF now + 1 < R THEN now + 1 ELSE 0) /\ timerNow' \in TimerTicks
  <2>1. PICK n \in Int : n = now + 1 /\ 0 <= n /\ n <= R
    BY <1>2
  <2>2. Modulo(n) = IF n < 0 THEN n + R ELSE IF n < R THEN n ELSE n - R
    BY <1>2, <2>1, ModuloIs
  <2>3. timerNow' = Modulo(n)
    BY <1>1, <2>1
  <2> QED BY <1>2, <2>1, <2>2, <2>3 DEF TimerTicks
<1>4. PICK next \in TimerTicks : next = timerNow' /\ next = (IF now + 1 < R THEN now + 1 ELSE 0) /\ next \in Nat
  BY <1>2, <1>3 DEF TimerTicks
<1>5. /\ Unnoticed = (IF now < last THEN R ELSE 0) /\ Unnoticed' = (IF next < last THEN R ELSE 0)
      /\ Elapsed = now + Unnoticed - last /\ Elapsed' = next + Unnoticed' - last
  BY <1>1, <1>4 DEF Unnoticed, Wraps, Elapsed
<1>6. PICK u \in {0, R}, v \in {0, R} : u = Unnoticed /\ v = Unnoticed'
  BY <1>5
<1>7. PICK s \in {0, R} : Turn = u + s /\ Turn' = v + s
  <2>1. Switching' = Switching
    BY DEF Switching
  <2>2. PICK s \in {0, R} : s = IF Switching THEN R ELSE 0
    OBVIOUS
  <2> QED BY <1>6, <2>1, <2>2 DEF Turn
<1>8. Turn' \in {0, R, 2 * R}
  <2>1. v + s \in {0, R, 2 * R}
    BY ONLY <1>2, u \in {0, R}, v \in {0, R}, s \in {0, R}
  <2> QED BY <1>7, <2>1
<1>9. ASSUME Elapsed < R - 1 PROVE next + v = now + u + 1
  BY <1>2, <1>4, <1>5, <1>6, <1>9
<1>10. ASSUME Elapsed < R - 1 PROVE Elapsed' = Elapsed + 1
  BY <1>2, <1>5, <1>6, <1>9, <1>10
<1>11. ASSUME Elapsed < R - 1 PROVE timerNow' + Turn' = timerNow + Turn + 1
  <2>1. next + (v + s) = now + (u + s) + 1
    BY <1>2, <1>9, <1>11
  <2> QED BY <1>1, <1>4, <1>7, <2>1
<1> QED BY <1>3, <1>8, <1>10, <1>11

(* A command a tick later. *)
LEMMA OlderOK ==
  ASSUME NEW c, NEW made, NEW now \in TimerTicks, CommandOK(c, made, now), c.age < MaxLate
  PROVE  /\ CommandOK(Older(c), made, Modulo(now + 1))
         /\ Older(c).id = c.id /\ Older(c).pxTimer = c.pxTimer /\ Older(c).value = c.value
         /\ c.id # "pended" => Older(c).age = c.age + 1
<1> DEFINE R == TimerTickRange
<1>1. /\ c \in Command /\ c.id # "none"
      /\ c.age \in Nat /\ R \in Nat /\ MaxLate \in Nat /\ MaxLate + 1 < R /\ now \in Nat /\ now < R
  BY Numbers, LateIsShort DEF CommandOK, Command, TimerTicks
<1>2. CASE c.id = "pended"
  BY <1>1, <1>2 DEF Older, CommandOK
<1>3. CASE c.id # "pended"
  <2> DEFINE d == [c EXCEPT !.age = c.age + 1]
  <2>1. Older(c) = d
    BY <1>1, <1>3 DEF Older
  <2>2. /\ d.id = c.id /\ d.pxTimer = c.pxTimer /\ d.value = c.value /\ d.age = c.age + 1
        /\ d \in Command
    <3>1. c.age + 1 \in 0 .. MaxLate
      BY <1>1
    <3> QED BY <1>1, <3>1 DEF Command
  <2> HIDE DEF d
  <2>3. PICK next \in Int : next = Modulo(now + 1) /\ next = IF now + 1 < R THEN now + 1 ELSE 0
    <3>1. PICK n \in Int : n = now + 1 /\ 0 <= n /\ n <= R
      BY <1>1
    <3>2. Modulo(n) = IF n < 0 THEN n + R ELSE IF n < R THEN n ELSE n - R
      BY <1>1, <3>1, ModuloIs
    <3> QED BY <1>1, <3>1, <3>2
  <2>4. PICK a \in Nat : a = c.age /\ a < MaxLate
    BY <1>1
  <2>5. PICK m \in Int : m = now - a /\ -R <= m /\ m < R
    BY <1>1, <2>4
  <2>6. PICK k \in Int : k = next - (a + 1) /\ -R <= k /\ k < R
    BY <1>1, <2>3, <2>4
  <2>7. Modulo(m) = IF m < 0 THEN m + R ELSE m
    BY <1>1, <2>5, ModuloIs
  <2>8. Modulo(k) = IF k < 0 THEN k + R ELSE k
    BY <1>1, <2>6, ModuloIs
  <2>9. Modulo(m) = Modulo(k)
    BY <1>1, <2>3, <2>4, <2>5, <2>6, <2>7, <2>8
  <2>10. Modulo(next - d.age) = Modulo(now - c.age)
    BY <2>2, <2>4, <2>5, <2>6, <2>9
  <2>11. CommandOK(d, made, next)
    BY <2>2, <2>10 DEF CommandOK
  <2> QED BY <1>3, <2>1, <2>2, <2>3, <2>11
<1> QED BY <1>2, <1>3

(* What is queued, a tick later. *)
LEMMA QueueAges ==
  ASSUME NEW q, NEW made, NEW now \in TimerTicks, QueueOK(q, made, now),
         \A i \in 1 .. Len(q) : q[i].age < MaxLate,
         NEW r, r = [i \in 1 .. Len(q) |-> Older(q[i])]
  PROVE  /\ QueueOK(r, made, Modulo(now + 1))
         /\ Len(r) = Len(q) /\ \A i \in 1 .. Len(q) : r[i].pxTimer = q[i].pxTimer
         /\ \A u : ReloadIn(q, u) => ReloadIn(r, u)
<1>1. q \in Seq(Command) /\ Len(q) \in Nat
  BY DEF QueueOK
<1>2. ASSUME NEW i \in 1 .. Len(q)
      PROVE  /\ CommandOK(r[i], made, Modulo(now + 1))
             /\ r[i].id = q[i].id /\ r[i].pxTimer = q[i].pxTimer
  <2>1. r[i] = Older(q[i])
    OBVIOUS
  <2>2. CommandOK(q[i], made, now) /\ q[i].age < MaxLate
    BY DEF QueueOK
  <2> QED BY <2>1, <2>2, OlderOK
<1>3. r \in Seq(Command) /\ Len(r) = Len(q)
  <2>1. \A i \in 1 .. Len(q) : r[i] \in Command
    BY <1>2 DEF CommandOK
  <2> QED BY <1>1, <2>1
<1>4. QueueOK(r, made, Modulo(now + 1))
  BY <1>2, <1>3 DEF QueueOK
<1> QED BY <1>2, <1>3, <1>4 DEF ReloadIn

LEMMA TimerTickKeeps == TimerInv /\ TimerTick => TimerInv'
<1> SUFFICES ASSUME TimerInv, TimerTick PROVE TimerInv'
  OBVIOUS
<1>0. TypesInv /\ QueueInv /\ ReceivedInv /\ ListsInv /\ ArmedInv /\ TimesInv /\ ClockInv
  BY DEF TimerInv
<1> DEFINE R == TimerTickRange
<1>1. /\ daemon \notin {"notStarted", "assertFailed"} /\ daemon' = daemon
      /\ Ready => behind < MaxLate
      /\ behind' = IF Ready THEN behind + 1 ELSE 0
      /\ \A t \in armed : -due[t] < MaxLate
      /\ \A i \in 1 .. Len(xTimerQueue) : xTimerQueue[i].age < MaxLate
      /\ pxCommand.age < MaxLate
      /\ timerNow' = Modulo(timerNow + 1)
      /\ toWait' = IF daemon = "blocked" /\ toWait > 0 THEN toWait - 1 ELSE toWait
      /\ due' = [t \in Timers |-> IF t \in armed THEN due[t] - 1 ELSE due[t]]
      /\ xTimerQueue' = [i \in 1 .. Len(xTimerQueue) |-> Older(xTimerQueue[i])]
      /\ pxCommand' = Older(pxCommand)
  BY DEF TimerTick
<1>2. UNCHANGED <<created, reloadBit, xTimerPeriodInTicks, xTimerListItem, pxCurrentTimerList,
                  pxOverflowTimerList, xLastTime, armed, early>>
  BY DEF TimerTick, timerBits, timerLists
<1>3. /\ R \in Nat /\ MaxLate \in Nat /\ MaxLate + 1 < R /\ MaxLate > 0
      /\ timerNow \in TimerTicks /\ timerNow \in Nat /\ Elapsed \in Int /\ Elapsed < R /\ Turn \in Int
      /\ behind \in Nat /\ behind <= MaxLate /\ toWait \in Int /\ toWait >= -1
      /\ armed \subseteq Timers /\ \A t \in Timers : due[t] \in Int
  <2>1. Elapsed \in Int /\ Elapsed < R /\ Turn \in Int
    BY <1>0, TurnIs
  <2> QED BY <1>0, <2>1, Numbers, LateIsShort DEF TypesInv, TimerTicks
<1>4. daemon # "blocked" => Ready
  BY DEF Ready
<1>5. /\ timerNow' \in TimerTicks /\ Turn' \in {0, R, 2 * R}
      /\ Elapsed < R - 1 => Elapsed' = Elapsed + 1 /\ timerNow' + Turn' = timerNow + Turn + 1
  BY <1>0, <1>1, <1>2, ClockMoves
<1>6. NothingListed' <=> NothingListed
  BY <1>2 DEF NothingListed
<1>7. ~NothingListed => Elapsed < R - 1
  <2>1. CASE daemon = "blocked"
    <3>1. /\ toWait = -1 => NothingListed
          /\ toWait >= 0 => Elapsed + toWait <= R - 1 - MaxLate + behind
          /\ ~Ready => behind = 0
          /\ toWait = 0 => Ready
      BY <1>0, <2>1 DEF ClockInv, Ready
    <3> QED BY <1>1, <1>3, <3>1
  <2>2. CASE daemon \in {"look", "commands"}
    <3>1. NothingListed \/ Elapsed <= R - 1 - MaxLate + behind
      BY <1>0, <2>2 DEF ClockInv
    <3> QED BY <1>1, <1>3, <1>4, <2>2, <3>1
  <2>3. CASE daemon \in {"switch", "switchForCommand", "apply"}
    <3>1. Elapsed = behind
      BY <1>0, <2>3 DEF ClockInv
    <3> QED BY <1>3, <3>1
  <2>4. CASE daemon \notin {"blocked", "look", "commands", "switch", "switchForCommand", "apply"}
    BY <1>0, <1>1, <2>4 DEF ClockInv
  <2> QED BY <2>1, <2>2, <2>3, <2>4
<1>8. behind' \in 0 .. MaxLate /\ toWait' \in Int /\ toWait' >= -1
  BY <1>1, <1>3
<1>9. due' \in [Timers -> Int] /\ \A t \in Timers : due'[t] = IF t \in armed THEN due[t] - 1 ELSE due[t]
  BY <1>1, <1>3
<1>10. TypesInv'
  BY <1>0, <1>2, <1>5, <1>8, <1>9 DEF TypesInv
<1>11. /\ QueueOK(xTimerQueue', created, timerNow')
       /\ Len(xTimerQueue') = Len(xTimerQueue)
       /\ \A i \in 1 .. Len(xTimerQueue) : xTimerQueue'[i].pxTimer = xTimerQueue[i].pxTimer
       /\ \A u : ReloadIn(xTimerQueue, u) => ReloadIn(xTimerQueue', u)
  <2>1. QueueOK(xTimerQueue, created, timerNow)
    BY <1>0 DEF QueueInv
  <2> QED BY <1>1, <1>3, <2>1, QueueAges
<1>12. QueueInv'
  BY <1>2, <1>11 DEF QueueInv
<1>13. ListsInv'
  BY <1>0, <1>2 DEF ListsInv, Members
<1>14. \A u \in Timers : InList(u)' <=> InList(u)
  BY <1>2 DEF InList, Members
<1>15. ArmedInv'
  <2>1. ASSUME NEW t \in armed PROVE (due[t])' \in -MaxLate .. R - 1 - MaxLate
    <3>1. due[t] \in -MaxLate .. R - 1 - MaxLate /\ -due[t] < MaxLate
      BY <1>0, <1>1 DEF ArmedInv
    <3>2. due'[t] = due[t] - 1 /\ due[t] \in Int
      BY <1>3, <1>9
    <3> QED BY <1>3, <3>1, <3>2
  <2> QED BY <1>0, <1>1, <1>2, <1>3, <1>11, <1>14, <2>1 DEF ArmedInv
<1>16. TimesInv'
  <2>1. /\ Members(pxCurrentTimerList)' = Members(pxCurrentTimerList)
        /\ Members(pxOverflowTimerList)' = Members(pxOverflowTimerList)
    BY <1>2 DEF Members
  <2>2. ASSUME NEW u \in Timers, InList(u)
        PROVE  /\ u \in armed /\ due'[u] = due[u] - 1 /\ due[u] \in Int /\ xTimerListItem[u] \in Int
               /\ timerNow' + Turn' = timerNow + Turn + 1
               /\ timerNow' + Turn' + due'[u] = timerNow + Turn + due[u]
    <3>1. u \in armed
      BY <1>0, <2>2 DEF ArmedInv
    <3>2. ~NothingListed
      BY <2>2, EmptyList DEF InList, NothingListed
    <3>3. timerNow' + Turn' = timerNow + Turn + 1
      BY <1>5, <1>7, <3>2
    <3>4. due'[u] = due[u] - 1 /\ due[u] \in Int /\ xTimerListItem[u] \in Int
      BY <1>0, <1>3, <1>9, <3>1, Numbers DEF TypesInv, TimerTicks
    <3>5. PICK n \in Int, d \in Int : n = timerNow + Turn /\ d = due[u]
      BY <1>3, <3>4
    <3>6. (n + 1) + (d - 1) = n + d
      BY <3>5
    <3> QED BY <3>1, <3>3, <3>4, <3>5, <3>6
  <2>3. ASSUME NEW u \in Members(pxCurrentTimerList)
        PROVE  u \in Timers /\ InList(u) /\ xTimerListItem[u] = timerNow' + Turn' + due'[u]
    <3>1. u \in Timers /\ InList(u)
      BY <1>0, MembersAre DEF ListsInv, InList
    <3>2. xTimerListItem[u] = timerNow + Turn + due[u]
      BY <1>0, <1>1 DEF TimesInv
    <3> QED BY <2>2, <3>1, <3>2
  <2>4. ASSUME NEW u \in Members(pxOverflowTimerList)
        PROVE  /\ u \in Timers /\ InList(u) /\ xTimerListItem[u] + R = timerNow' + Turn' + due'[u]
               /\ ~Switching => xTimerListItem[u] + MaxLate + 1 <= xLastTime
    <3>1. u \in Timers /\ InList(u)
      BY <1>0, MembersAre DEF ListsInv, InList
    <3>2. /\ xTimerListItem[u] + R = timerNow + Turn + due[u]
          /\ ~Switching => xTimerListItem[u] + MaxLate + 1 <= xLastTime
      BY <1>0, <1>1 DEF TimesInv
    <3> QED BY <2>2, <3>1, <3>2
  <2>5. ASSUME NEW u \in Timers, InList(u)
        PROVE  xTimerListItem[u] = Modulo(timerNow' + due'[u])
    <3>1. PICK now \in TimerTicks, turn \in {0, R, 2 * R} :
            now = timerNow' /\ turn = Turn' /\ turn \in Int /\ now \in Int
      BY <1>3, <1>5 DEF TimerTicks
    <3>6. R \in Int /\ turn \in {0, R, 2 * R}
      BY <1>3
    <3>2. PICK d \in -MaxLate .. R - 1 - MaxLate : d = due'[u] /\ d \in Int
      <4>1. (due[u])' \in -MaxLate .. R - 1 - MaxLate
        BY <1>2, <1>15, <2>2, <2>5 DEF ArmedInv
      <4> QED BY <1>3, <4>1
    <3>3. PICK value \in TimerTicks : value = xTimerListItem[u] /\ value \in Int
      BY <1>0, <1>3 DEF TypesInv, TimerTicks
    <3>4. CASE u \in Members(pxCurrentTimerList)
      <4>1. value = now + turn + d
        BY <2>3, <3>1, <3>2, <3>3, <3>4
      <4>2. turn \in {-R, 0, R, 2 * R}
        OBVIOUS
      <4>3. value = Modulo(now + d)
        BY ONLY u \in Timers, now \in TimerTicks, d \in -MaxLate .. R - 1 - MaxLate, value \in TimerTicks,
                <3>1, <4>1, <4>2, ValueIsTime
      <4> QED BY <3>1, <3>2, <3>3, <4>3
    <3>5. CASE u \in Members(pxOverflowTimerList)
      <4>1. value + R = now + turn + d
        BY <2>4, <3>1, <3>2, <3>3, <3>5
      <4>5. turn \in Int /\ now \in Int /\ d \in Int /\ value \in Int
        BY <3>1, <3>2, <3>3
      <4>2. PICK k \in Int : k = turn - R
        BY ONLY <3>6, <4>5
      <4>3. k \in {-R, 0, R, 2 * R}
        BY ONLY <3>6, <4>2, k \in Int
      <4>6. value = now + k + d
        BY ONLY <3>6, <4>5, <4>1, <4>2, k \in Int
      <4>4. value = Modulo(now + d)
        BY ONLY u \in Timers, now \in TimerTicks, d \in -MaxLate .. R - 1 - MaxLate, value \in TimerTicks,
                k \in Int, <4>3, <4>6, ValueIsTime
      <4> QED BY <3>1, <3>2, <3>3, <4>4
    <3> QED BY <2>5, <3>4, <3>5 DEF InList
  <2>6. Switching' = Switching
    BY <1>1 DEF Switching
  <2> QED BY <1>1, <1>2, <1>14, <2>1, <2>3, <2>4, <2>5, <2>6 DEF TimesInv
<1>17. ReceivedInv'
  <2>1. CASE daemon \in {"switchForCommand", "apply"}
    <3>1. /\ CommandOK(pxCommand, created, timerNow) /\ pxCommand.id # "pended"
          /\ pxCommand.age >= behind
          /\ pxCommand.id = "changePeriod" => pxCommand.age = behind
          /\ pxCommand.pxTimer \notin armed
          /\ Frees(pxCommand) =>
               \A j \in 1 .. Len(xTimerQueue) : xTimerQueue[j].pxTimer # pxCommand.pxTimer
      BY <1>0, <2>1 DEF ReceivedInv
    <3>2. /\ CommandOK(pxCommand', created, timerNow') /\ pxCommand'.id = pxCommand.id
          /\ pxCommand'.pxTimer = pxCommand.pxTimer /\ pxCommand'.age = pxCommand.age + 1
      BY <1>1, <1>3, <3>1, OlderOK
    <3>3. behind' = behind + 1
      BY <1>1, <1>4, <2>1
    <3>4. pxCommand.age \in Int
      BY <1>3, <3>1 DEF CommandOK, Command
    <3>5. pxCommand'.age >= behind' /\ (pxCommand.id = "changePeriod" => pxCommand'.age = behind')
      BY <1>3, <3>1, <3>2, <3>3, <3>4
    <3>6. Frees(pxCommand) =>
            \A j \in 1 .. Len(xTimerQueue') : xTimerQueue'[j].pxTimer # pxCommand.pxTimer
      BY <1>11, <3>1
    <3> QED BY <1>1, <1>2, <2>1, <3>1, <3>2, <3>5, <3>6 DEF ReceivedInv
  <2>2. CASE daemon \notin {"switchForCommand", "apply"}
    <3>1. pxCommand = NoCommand
      BY <1>0, <1>1, <2>2 DEF ReceivedInv
    <3>2. pxCommand' = NoCommand
      BY <1>1, <3>1 DEF Older, NoCommand
    <3> QED BY <1>1, <2>2, <3>2 DEF ReceivedInv
  <2> QED BY <2>1, <2>2
<1>18. ClockInv'
  <2>1. CASE daemon = "blocked"
    <3>1. /\ toWait = -1 => NothingListed
          /\ toWait >= 0 => Elapsed + toWait <= R - 1 - MaxLate + behind
          /\ ~Ready => behind = 0
          /\ toWait = 0 => Ready
      BY <1>0, <2>1 DEF ClockInv, Ready
    <3>2. toWait' = IF toWait > 0 THEN toWait - 1 ELSE toWait
      BY <1>1, <2>1
    <3>3. toWait' = -1 => NothingListed'
      BY <1>3, <1>6, <3>1, <3>2
    <3>4. toWait' >= 0 => Elapsed' + toWait' <= R - 1 - MaxLate + behind'
      <4> SUFFICES ASSUME toWait' >= 0 PROVE Elapsed' + toWait' <= R - 1 - MaxLate + behind'
        OBVIOUS
      <4>1. toWait >= 0
        BY <1>3, <3>2
      <4>2. Elapsed < R - 1
        BY <1>1, <1>3, <3>1, <4>1
      <4>3. Elapsed' = Elapsed + 1
        BY <1>5, <4>2
      <4> QED BY <1>1, <1>3, <3>1, <3>2, <4>1, <4>3
    <3>5. ~Ready' => behind' = 0
      <4>1. ASSUME Ready PROVE Ready'
        <5>1. CASE xTimerQueue # <<>>
          <6>1. Len(xTimerQueue) # 0
            BY <1>0, <5>1 DEF QueueInv, QueueOK
          <6>2. xTimerQueue' # <<>>
            BY <1>11, <6>1
          <6> QED BY <6>2 DEF Ready
        <5>2. CASE toWait = 0
          BY <3>2, <5>2 DEF Ready
        <5> QED BY <2>1, <4>1, <5>1, <5>2 DEF Ready
      <4> QED BY <1>1, <4>1
    <3> QED BY <1>1, <2>1, <3>3, <3>4, <3>5 DEF ClockInv
  <2>2. CASE daemon \in {"look", "commands"}
    <3>1. NothingListed \/ Elapsed <= R - 1 - MaxLate + behind
      BY <1>0, <2>2 DEF ClockInv
    <3>2. behind' = behind + 1
      BY <1>1, <1>4, <2>2
    <3>3. ASSUME ~NothingListed PROVE Elapsed' <= R - 1 - MaxLate + behind'
      <4>1. Elapsed' = Elapsed + 1
        BY <1>5, <1>7, <3>3
      <4>2. PICK e \in Int, b \in Int : e = Elapsed /\ b = behind
        BY <1>3
      <4>3. e + 1 <= R - 1 - MaxLate + (b + 1)
        BY <1>3, <3>1, <3>3, <4>2
      <4> QED BY <3>2, <4>1, <4>2, <4>3
    <3> QED BY <1>1, <1>6, <2>2, <3>3 DEF ClockInv
  <2>3. CASE daemon \in {"switch", "switchForCommand", "apply"}
    <3>1. Elapsed = behind
      BY <1>0, <2>3 DEF ClockInv
    <3>2. behind' = behind + 1
      BY <1>1, <1>4, <2>3
    <3>3. Elapsed' = behind'
      <4>1. behind < R - 1
        BY <1>1, <1>3, <1>4, <2>3
      <4> QED BY <1>5, <3>1, <3>2, <4>1
    <3> QED BY <1>1, <2>3, <3>3 DEF ClockInv
  <2>4. CASE daemon \notin {"blocked", "look", "commands", "switch", "switchForCommand", "apply"}
    BY <1>0, <1>1, <2>4 DEF ClockInv
  <2> QED BY <2>1, <2>2, <2>3, <2>4
<1> QED BY <1>10, <1>12, <1>13, <1>15, <1>16, <1>17, <1>18 DEF TimerInv

(***************************************************************************)
(* The calls.                                                              *)
(***************************************************************************)
LEMMA GenericCommandKeeps ==
  ASSUME TimerInv, NEW c, CommandOK(c, created, timerNow), GenericCommand(c),
         \A i \in 1 .. Len(xTimerQueue) : Frees(xTimerQueue[i]) => xTimerQueue[i].pxTimer # c.pxTimer,
         daemon \in {"switchForCommand", "apply"} /\ Frees(pxCommand) => pxCommand.pxTimer # c.pxTimer
  PROVE  TimerInv'
<1>0. TypesInv /\ QueueInv /\ ReceivedInv
  BY DEF TimerInv
<1>1. /\ xTimerQueue' = Append(xTimerQueue, c)
      /\ UNCHANGED <<timerBits, timerLists, timerNow, timerTask, timerGhost>>
  BY DEF GenericCommand
<1>2. UNCHANGED <<created, reloadBit, xTimerPeriodInTicks, xTimerListItem, timerNow, xLastTime, toWait,
                  daemon, armed, due, behind, early>>
  BY <1>1 DEF timerBits, timerLists, timerTask, timerGhost
<1>3. TypesInv' /\ created \subseteq Timers
  BY <1>0, <1>2 DEF TypesInv
<1>4. xTimerQueue \in Seq(Command) /\ Len(xTimerQueue) \in Nat /\ QueueOK(xTimerQueue, created, timerNow)
  BY <1>0 DEF QueueInv, QueueOK
<1>5. /\ QueueOK(xTimerQueue', created, timerNow)
      /\ \A u : ReloadIn(xTimerQueue, u) => ReloadIn(xTimerQueue', u)
  BY <1>1, <1>4, AppendQueue
<1>6. Ready'
  BY <1>1, <1>4 DEF Ready
<1>7. daemon \in {"switchForCommand", "apply"} /\ Frees(pxCommand) =>
        \A j \in 1 .. Len(xTimerQueue') : xTimerQueue'[j].pxTimer # pxCommand.pxTimer
  <2>1. \A j \in 1 .. Len(xTimerQueue') : xTimerQueue'[j] = IF j = Len(xTimerQueue) + 1 THEN c ELSE xTimerQueue[j]
    BY <1>1, <1>4
  <2>2. \A j \in 1 .. Len(xTimerQueue') : j = Len(xTimerQueue) + 1 \/ j \in 1 .. Len(xTimerQueue)
    BY <1>1, <1>4
  <2> QED BY <1>0, <2>1, <2>2 DEF ReceivedInv
<1>8. created' = created /\ UNCHANGED <<timerLists, timerNow, timerTask, armed, due, behind>>
  BY <1>1, <1>2
<1> QED BY <1>3, <1>5, <1>6, <1>7, <1>8, QueueChanges

(* xTimerStart, xTimerStop, xTimerChangePeriod and xTimerDelete. *)
LEMMA CommandKeeps ==
  ASSUME TimerInv, NEW t \in Timers, InUse(t),
         NEW id \in {"start", "stop", "changePeriod", "delete"}, NEW value \in TimerTicks,
         id = "start" => value = timerNow, id = "changePeriod" => value \in PeriodsInUse,
         id = "delete" /\ t \in Dynamic => Deletable(t),
         GenericCommand([id |-> id, pxTimer |-> t, value |-> value, age |-> 0])
  PROVE  TimerInv'
<1>1. PICK c : c = [id |-> id, pxTimer |-> t, value |-> value, age |-> 0]
  OBVIOUS
<1>2. timerNow \in TimerTicks /\ timerNow = Modulo(timerNow - 0)
  <2>1. PICK now \in TimerTicks : now = timerNow
    BY DEF TimerInv, TypesInv
  <2>2. now - 0 = now /\ Modulo(now) = now
    BY Numbers DEF Modulo, TimerTicks
  <2> QED BY <2>1, <2>2
<1>3. CommandOK(c, created, timerNow)
  <2>1. c \in Command
    BY <1>1, Numbers DEF Command
  <2>2. t # NoTimer /\ t \in created
    BY TimersAssumption DEF InUse
  <2> QED BY <1>1, <1>2, <2>1, <2>2 DEF CommandOK
<1>4. /\ \A i \in 1 .. Len(xTimerQueue) : Frees(xTimerQueue[i]) => xTimerQueue[i].pxTimer # c.pxTimer
      /\ Frees(pxCommand) => pxCommand.pxTimer # c.pxTimer
  BY <1>1 DEF InUse
<1>5. GenericCommand(c)
  BY <1>1
<1> QED BY <1>3, <1>4, <1>5, GenericCommandKeeps

LEMMA PendFunctionCallKeeps == TimerInv /\ PendFunctionCall => TimerInv'
<1> SUFFICES ASSUME TimerInv, PendFunctionCall PROVE TimerInv'
  OBVIOUS
<1>1. PICK c : c = [id |-> "pended", pxTimer |-> NoTimer, value |-> 0, age |-> 0]
  OBVIOUS
<1>2. QueueInv /\ ReceivedInv /\ created \subseteq Timers /\ NoTimer \notin created
  BY TimersAssumption DEF TimerInv, TypesInv
<1>3. CommandOK(c, created, timerNow)
  <2>1. c \in Command
    BY <1>1, Numbers DEF Command, TimerTicks
  <2> QED BY <1>1, <2>1 DEF CommandOK
<1>4. \A i \in 1 .. Len(xTimerQueue) : Frees(xTimerQueue[i]) => xTimerQueue[i].pxTimer # c.pxTimer
  BY <1>1, <1>2 DEF QueueInv, QueueOK, CommandOK
<1>5. daemon \in {"switchForCommand", "apply"} /\ Frees(pxCommand) => pxCommand.pxTimer # c.pxTimer
  BY <1>1, <1>2 DEF ReceivedInv, CommandOK
<1>6. GenericCommand(c)
  BY <1>1 DEF PendFunctionCall
<1> QED BY <1>3, <1>4, <1>5, <1>6, GenericCommandKeeps

LEMMA CreateTimerKeeps ==
  ASSUME OneShotsAreDeleted, TimerInv, NEW t \in Timers, CreateTimer(t)
  PROVE  TimerInv'
<1>0. TypesInv /\ QueueInv /\ ReceivedInv /\ ClockInv
  BY DEF TimerInv
<1>1. /\ created' = created \cup {t}
      /\ reloadBit' = IF t \in Reloading THEN reloadBit \cup {t} ELSE reloadBit
      /\ xTimerPeriodInTicks' = [xTimerPeriodInTicks EXCEPT ![t] = FirstPeriod[t]]
      /\ UNCHANGED <<timerLists, xTimerQueue, timerNow, timerTask, timerGhost>>
  BY DEF CreateTimer
<1>2. UNCHANGED <<xTimerListItem, timerNow, xLastTime, toWait, daemon, pxCommand, armed, due, behind, early>>
  BY <1>1 DEF timerLists, timerTask, timerGhost
<1>3. \A u \in reloadBit' : ~Deletable(u)
  BY <1>0, <1>1 DEF OneShotsAreDeleted, TypesInv
<1>4. xTimerPeriodInTicks' \in [Timers -> PeriodsInUse]
  <2>1. FirstPeriod[t] \in PeriodsInUse
    BY TimersAssumption
  <2> QED BY <1>0, <1>1, <2>1 DEF TypesInv
<1>5. TypesInv' /\ created' \subseteq Timers
  BY <1>0, <1>1, <1>2, <1>3, <1>4 DEF TypesInv
<1>6. QueueOK(xTimerQueue', created', timerNow)
  BY <1>0, <1>1, QueueOfOthers DEF QueueInv
<1>7. daemon \in {"switchForCommand", "apply"} /\ Frees(pxCommand) =>
        \A j \in 1 .. Len(xTimerQueue') : xTimerQueue'[j].pxTimer # pxCommand.pxTimer
  BY <1>0, <1>1 DEF ReceivedInv
<1>8. daemon = "blocked" /\ ~Ready' => behind = 0
  BY <1>0, <1>1, <1>2 DEF ClockInv, Ready
<1>9. created \subseteq created'
  BY <1>1
<1> QED BY <1>1, <1>2, <1>5, <1>6, <1>7, <1>8, <1>9, QueueChanges

(* What leaves the timers that exist, their lists and the queue alone. *)
LEMMA ModeKeeps ==
  ASSUME TimerInv, TypesInv', UNCHANGED <<created, timerLists, xTimerQueue, timerNow, timerTask, timerGhost>>
  PROVE  TimerInv'
<1>0. TypesInv /\ QueueInv /\ ReceivedInv /\ ClockInv
  BY DEF TimerInv
<1>1. UNCHANGED <<timerNow, toWait, daemon, armed, due, behind>>
  BY DEF timerTask, timerGhost
<1>2. QueueOK(xTimerQueue', created, timerNow) /\ created \subseteq Timers
  BY <1>0 DEF QueueInv, TypesInv
<1>3. daemon \in {"switchForCommand", "apply"} /\ Frees(pxCommand) =>
        \A j \in 1 .. Len(xTimerQueue') : xTimerQueue'[j].pxTimer # pxCommand.pxTimer
  BY <1>0 DEF ReceivedInv
<1>4. daemon = "blocked" /\ ~Ready' => behind = 0
  BY <1>0, <1>1 DEF ClockInv, Ready
<1> QED BY <1>1, <1>2, <1>3, <1>4, QueueChanges

LEMMA SetReloadModeKeeps ==
  ASSUME OneShotsAreDeleted, TimerInv, NEW t \in Timers, "reloadMode" \in TimerCalls[t], SetReloadMode(t)
  PROVE  TimerInv'
<1>0. TypesInv
  BY DEF TimerInv
<1>1. /\ t \in created /\ reloadBit' \in {reloadBit \cup {t}, reloadBit \ {t}}
      /\ UNCHANGED <<created, xTimerPeriodInTicks, timerLists, xTimerQueue, timerNow, timerTask, timerGhost>>
  BY DEF SetReloadMode, InUse
<1>2. UNCHANGED <<xTimerListItem, xLastTime, toWait, armed, due, behind, early>>
  BY <1>1 DEF timerLists, timerTask, timerGhost
<1>3. \A u \in reloadBit' : ~Deletable(u)
  BY <1>0, <1>1 DEF OneShotsAreDeleted, TypesInv
<1>4. TypesInv'
  BY <1>0, <1>1, <1>2, <1>3 DEF TypesInv
<1> QED BY <1>1, <1>4, ModeKeeps

LEMMA TimerCallKeeps == ASSUME OneShotsAreDeleted PROVE TimerInv /\ TimerCall => TimerInv'
<1> SUFFICES ASSUME TimerInv, TimerCall PROVE TimerInv'
  OBVIOUS
<1>1. timerNow \in TimerTicks /\ 0 \in TimerTicks
  BY Numbers DEF TimerInv, TypesInv, TimerTicks
<1>2. CASE PendFunctionCall
  BY <1>2, PendFunctionCallKeeps
<1>3. ASSUME NEW t \in Timers, CreateTimer(t) PROVE TimerInv'
  BY <1>3, CreateTimerKeeps
<1>4. ASSUME NEW t \in Timers, "start" \in TimerCalls[t], StartTimer(t) PROVE TimerInv'
  <2>1. InUse(t) /\ GenericCommand([id |-> "start", pxTimer |-> t, value |-> timerNow, age |-> 0])
    BY <1>4 DEF StartTimer
  <2> QED BY <1>1, <2>1, CommandKeeps
<1>5. ASSUME NEW t \in Timers, "stop" \in TimerCalls[t], StopTimer(t) PROVE TimerInv'
  <2>1. InUse(t) /\ GenericCommand([id |-> "stop", pxTimer |-> t, value |-> 0, age |-> 0])
    BY <1>5 DEF StopTimer
  <2> QED BY <1>1, <2>1, CommandKeeps
<1>6. ASSUME NEW t \in Timers, "delete" \in TimerCalls[t], DeleteTimer(t) PROVE TimerInv'
  <2>1. InUse(t) /\ GenericCommand([id |-> "delete", pxTimer |-> t, value |-> 0, age |-> 0])
        /\ (t \in Dynamic => Deletable(t))
    BY <1>6 DEF DeleteTimer, Deletable
  <2> QED BY <1>1, <2>1, CommandKeeps
<1>7. ASSUME NEW t \in Timers, "reloadMode" \in TimerCalls[t], SetReloadMode(t) PROVE TimerInv'
  BY <1>7, SetReloadModeKeeps
<1>8. ASSUME NEW t \in Timers, "changePeriod" \in TimerCalls[t], NEW n \in NewPeriods, ChangePeriod(t, n)
      PROVE  TimerInv'
  <2>1. InUse(t) /\ GenericCommand([id |-> "changePeriod", pxTimer |-> t, value |-> n, age |-> 0])
    BY <1>8 DEF ChangePeriod
  <2>2. n \in PeriodsInUse /\ n \in TimerTicks
    BY TimersAssumption, Numbers DEF PeriodsInUse, TimerTicks
  <2> QED BY <2>1, <2>2, CommandKeeps
<1> QED BY <1>2, <1>3, <1>4, <1>5, <1>6, <1>7, <1>8 DEF TimerCall

(***************************************************************************)
(* The theorems.                                                           *)
(***************************************************************************)
LEMMA TimerStepKeeps == ASSUME OneShotsAreDeleted PROVE TimerInv /\ [TimerNext]_timerVars => TimerInv'
<1> SUFFICES ASSUME TimerInv, [TimerNext]_timerVars PROVE TimerInv'
  OBVIOUS
<1>1. CASE StartService
  BY <1>1, StartServiceKeeps
<1>2. CASE ServiceStep
  BY <1>2, FindsWrapKeeps, ProcessExpiredTimerKeeps, BlockForCommandKeeps, UnblockKeeps, SwitchOneKeeps,
     SwitchListsKeeps, ReceiveCommandKeeps, ApplyCommandKeeps, NoMoreCommandsKeeps DEF ServiceStep
<1>3. CASE TimerTick
  BY <1>3, TimerTickKeeps
<1>4. CASE TimerCall
  BY <1>4, TimerCallKeeps
<1>5. CASE UNCHANGED timerVars
  <2>1. UNCHANGED <<created, timerLists, xTimerQueue, timerNow, timerTask, timerGhost>> /\ UNCHANGED timerBits
    BY <1>5 DEF timerVars, timerBits
  <2>2. TypesInv'
    BY <2>1 DEF TimerInv, TypesInv, timerBits, timerLists, timerTask, timerGhost
  <2> QED BY <2>1, <2>2, ModeKeeps
<1> QED BY <1>1, <1>2, <1>3, <1>4, <1>5 DEF TimerNext

LEMMA TimerInvariant == ASSUME OneShotsAreDeleted PROVE TimerSpec => []TimerInv
<1>1. TimerInit => TimerInv
  BY TimerInvInit
<1>2. TimerInv /\ [TimerNext]_timerVars => TimerInv'
  BY TimerStepKeeps
<1> QED BY <1>1, <1>2, PTL DEF TimerSpec

(* No timer is lost, doubled or early, whatever commands, ticks and wraps  *)
(* of the counter come between the steps of the service task, for every    *)
(* set of timers, periods and length of the queue: what runs is in one     *)
(* list, once, at the time it expires, or about to be put back (timers.c). *)
THEOREM TimersAreListedExactly ==
  ASSUME OneShotsAreDeleted
  PROVE  TimerSpec => []TimersListedExactly
<1>1. ASSUME TimerInv PROVE TimersListedExactly
  <2>0. TypesInv /\ QueueInv /\ ListsInv /\ ArmedInv /\ TimesInv
    BY <1>1 DEF TimerInv
  <2>1. Listed = Members(pxCurrentTimerList) \cup Members(pxOverflowTimerList)
    BY DEF Listed, Members
  <2>2. Listed \subseteq Timers /\ \A t : t \in Listed <=> InList(t)
    BY <2>0, <2>1, MembersAre DEF ListsInv, InList
  <2>3. Len(pxCurrentTimerList) + Len(pxOverflowTimerList) = Cardinality(Listed)
    BY <2>0, <2>1, LengthsAdd DEF ListsInv
  <2>4. Listed \subseteq armed /\ \A t \in Listed : xTimerListItem[t] = Modulo(timerNow + due[t])
    BY <2>0, <2>2 DEF ArmedInv, TimesInv
  <2>5. \A t \in armed \ Listed : Reload(t) \/ daemon = "assertFailed"
    BY <2>0, <2>2 DEF ArmedInv, Reload, ReloadIn
  <2>6. \A i \in 1 .. Len(xTimerQueue) : xTimerQueue[i].pxTimer \in created \cup {NoTimer}
    BY <2>0 DEF QueueInv, QueueOK, CommandOK
  <2>7. ~early /\ armed \subseteq created
    BY <2>0 DEF TypesInv
  <2> QED BY <2>3, <2>4, <2>5, <2>6, <2>7 DEF TimersListedExactly
<1>2. TimerSpec => []TimerInv
  BY TimerInvariant
<1> QED BY <1>1, <1>2, PTL

(* The service task blocks only when every expired timer has been called,  *)
(* and no longer than until the next one, also when that is beyond the     *)
(* wrap of the counter (timers.c, prvProcessTimerOrBlockTask).             *)
THEOREM BlocksNoLonger ==
  ASSUME OneShotsAreDeleted
  PROVE  TimerSpec => BlocksUntilNextExpiry
<1>1. ASSUME TimerInv, [TimerNext]_timerVars, daemon # "blocked", daemon' = "blocked",
             NEW t \in armed
      PROVE  0 < toWait' /\ toWait' <= due[t]
  <2>0. TypesInv /\ ArmedInv
    BY <1>1 DEF TimerInv
  <2>1. TimerNext /\ daemon' # daemon
    BY <1>1 DEF timerVars, timerTask
  <2>2. ~TimerCall
    BY <1>1 DEF TimerCall, PendFunctionCall, CreateTimer, StartTimer, StopTimer, DeleteTimer, SetReloadMode,
                ChangePeriod, GenericCommand, timerTask
  <2>3. ~StartService /\ ~TimerTick
    BY <1>1, <2>1 DEF StartService, TimerTick
  <2>4. ~FindsWrap /\ ~Unblock /\ ~SwitchLists /\ ~NoMoreCommands
    BY <1>1 DEF FindsWrap, Unblock, SwitchLists, NoMoreCommands
  <2>5. ~ProcessExpiredTimer /\ ~SwitchOne
    BY <1>1 DEF ProcessExpiredTimer, SwitchOne, SendsItself, InsertInActiveList, KeepOut
  <2>6. ASSUME NEW c, NEW now, NEW lag, NEW current, NEW overflow, NEW queue
        PROVE  ~Apply(c, now, lag, current, overflow, queue)
    BY <1>1 DEF Apply, Starts, SendsItself
  <2>7. ~ReceiveCommand /\ ~ApplyCommand
    BY <1>1, <2>6 DEF ReceiveCommand, ApplyCommand, timerTask
  <2>8. BlockForCommand
    BY <2>1, <2>2, <2>3, <2>4, <2>5, <2>7 DEF TimerNext, ServiceStep
  <2>9. /\ daemon = "look" /\ ~Wraps /\ ~HeadExpired /\ xTimerQueue = <<>> /\ toWait' = TicksToWait
    BY <1>1, <2>8 DEF BlockForCommand
  <2>10. t \in Timers /\ InList(t)
    BY <2>0, <2>9 DEF TypesInv, ArmedInv, ReloadIn
  <2>11. ~NothingListed
    BY <2>10, EmptyList DEF InList, NothingListed
  <2>12. TicksToWait > 0 /\ TicksToWait <= due[t]
    BY <1>1, <2>9, <2>10, <2>11, WaitIs
  <2> QED BY <2>9, <2>12, WaitIs, <1>1, <2>11
<1>2. TimerInv /\ [TimerNext]_timerVars =>
        [daemon # "blocked" /\ daemon' = "blocked" =>
           \A t \in armed : 0 < toWait' /\ toWait' <= due[t]]_timerVars
  BY <1>1
<1>3. TimerSpec => []TimerInv
  BY TimerInvariant
<1> QED BY <1>2, <1>3, PTL DEF TimerSpec, BlocksUntilNextExpiry
=============================================================================
