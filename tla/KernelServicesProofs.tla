------------------------ MODULE KernelServicesProofs ------------------------
(***************************************************************************)
(* What the proof system establishes of the kernel's services, for every   *)
(* number of tasks, every set of event bits, every size of the heap and of *)
(* a stream buffer.                                                        *)
(***************************************************************************)
EXTENDS EventGroup, Heap4, StreamBuffer, FiniteSetTheorems, TLAPS

(***************************************************************************)
(* Event groups.                                                           *)
(***************************************************************************)
EventCallSet == [op : {"none", "sync", "wait", "set", "clear", "delete"},
                 set : SUBSET Bits, want : SUBSET Bits, clear : BOOLEAN, all : BOOLEAN,
                 block : {"no", "limit", "forever"}]

(* The types, with those of the calls.                                     *)
EventTypes ==
  /\ EventTypeOK
  /\ eventCall \in [EventTasks -> EventCallSet]
  /\ deferred \in Seq([op : {"set", "clear"}, bits : SUBSET Bits])

(* The bits a task was released with met its condition.                    *)
ReleasedRightly ==
  \A t \in EventTasks : eventPc[t] = "released" /\ groupExists => Met(itemValue[t], eventCall[t])

EventInv == EventTypes /\ NobodyForgotten /\ ReleasedRightly

(* The condition of a waiting task is not met by fewer bits either.        *)
LEMMA MetIsMonotone ==
  ASSUME NEW bits, NEW fewer \in SUBSET bits, NEW c, Met(fewer, c)
  PROVE  Met(bits, c)
  BY DEF Met

LEMMA CallTypes ==
  ASSUME NEW t \in EventTasks, NEW c \in EventCalls[t]
  PROVE  /\ c \in EventCallSet /\ c.op \in {"sync", "wait", "set", "clear", "delete"}
         /\ c.set \subseteq Bits /\ c.want \subseteq Bits
<1>1. EventCalls[t] \subseteq [op : {"sync", "wait", "set", "clear", "delete"},
                               set : SUBSET Bits, want : SUBSET Bits,
                               clear : BOOLEAN, all : BOOLEAN,
                               block : {"no", "limit", "forever"}]
  BY EventsAssumption
<1> QED BY <1>1 DEF EventCallSet

LEMMA EventInitInv == EventInit => EventInv
<1> SUFFICES ASSUME EventInit PROVE EventInv
  OBVIOUS
<1>1. NoEventCall \in EventCallSet
  BY DEF NoEventCall, EventCallSet
<1>2. Len(<<>>) <= DeferredLimit
  BY EventsAssumption
<1> QED BY <1>1, <1>2 DEF EventInit, EventInv, EventTypes, EventTypeOK, NobodyForgotten, ReleasedRightly

(* A step that sets bits: it lets those tasks go whose condition is met,   *)
(* and those in J begin to wait for what they do not get.                  *)
LEMMA ReleaseKeeps ==
  ASSUME EventInv, NEW bits \in SUBSET Bits, NEW J \in SUBSET EventTasks,
         \A u \in J : u \notin xTasksWaitingForBits /\ groupExists /\ ~Met(uxEventBits', eventCall'[u]),
         uxEventBits' \in SUBSET bits,
         xTasksWaitingForBits' = (xTasksWaitingForBits \ SetMatches(bits)) \cup J,
         itemValue' = [u \in EventTasks |-> IF u \in SetMatches(bits) THEN bits ELSE itemValue[u]],
         eventPc' \in [EventTasks -> {"run", "waiting", "released", "timedOut"}],
         \A u \in EventTasks : IF u \in SetMatches(bits) THEN eventPc'[u] = "released"
                               ELSE IF u \in J THEN eventPc'[u] = "waiting"
                               ELSE eventPc'[u] = eventPc[u],
         eventCall' \in [EventTasks -> EventCallSet],
         \A u \in EventTasks \ J : eventCall'[u] = eventCall[u],
         uxReturn' \in [EventTasks -> SUBSET Bits],
         deferred' \in Seq([op : {"set", "clear"}, bits : SUBSET Bits]),
         Len(deferred') <= DeferredLimit,
         UNCHANGED groupExists
  PROVE  EventInv'
<1>1. /\ SetMatches(bits) \subseteq xTasksWaitingForBits
      /\ xTasksWaitingForBits \subseteq EventTasks
      /\ \A u \in xTasksWaitingForBits : u \in SetMatches(bits) <=> Met(bits, eventCall[u])
  BY DEF SetMatches, EventInv, EventTypes, EventTypeOK
<1>2. EventTypes'
  BY <1>1 DEF EventInv, EventTypes, EventTypeOK
<1>3. \A u \in xTasksWaitingForBits' : groupExists /\ ~Met(uxEventBits', eventCall'[u])
  <2> SUFFICES ASSUME NEW u \in xTasksWaitingForBits', u \notin J
               PROVE  groupExists /\ ~Met(uxEventBits', eventCall'[u])
    OBVIOUS
  <2>1. u \in xTasksWaitingForBits /\ ~Met(bits, eventCall[u]) /\ eventCall'[u] = eventCall[u]
    BY <1>1
  <2> QED BY <2>1, MetIsMonotone DEF EventInv, NobodyForgotten
<1>4. xTasksWaitingForBits' = {t \in EventTasks : eventPc'[t] = "waiting"}
  BY <1>1 DEF EventInv, NobodyForgotten
<1>5. \A u \in EventTasks : eventPc'[u] = "released" /\ groupExists => Met(itemValue'[u], eventCall'[u])
  <2> SUFFICES ASSUME NEW u \in EventTasks, eventPc'[u] = "released", groupExists
               PROVE  Met(itemValue'[u], eventCall'[u])
    OBVIOUS
  <2>1. CASE u \in SetMatches(bits)
    BY <1>1, <2>1
  <2>2. CASE u \notin SetMatches(bits)
    BY <2>2 DEF EventInv, ReleasedRightly
  <2> QED BY <2>1, <2>2
<1>6. NobodyForgotten'
  BY <1>3, <1>4 DEF NobodyForgotten, Met
<1>7. ReleasedRightly'
  BY <1>5 DEF ReleasedRightly, Met
<1> QED BY <1>2, <1>6, <1>7 DEF EventInv

(* ... and without any that begins to wait.                                *)
LEMMA ReleaseOnlyKeeps ==
  ASSUME EventInv, NEW bits \in SUBSET Bits,
         uxEventBits' \in SUBSET bits,
         xTasksWaitingForBits' = xTasksWaitingForBits \ SetMatches(bits),
         itemValue' = [u \in EventTasks |-> IF u \in SetMatches(bits) THEN bits ELSE itemValue[u]],
         eventPc' \in [EventTasks -> {"run", "waiting", "released", "timedOut"}],
         \A u \in EventTasks : IF u \in SetMatches(bits) THEN eventPc'[u] = "released"
                               ELSE eventPc'[u] = eventPc[u],
         uxReturn' \in [EventTasks -> SUBSET Bits],
         deferred' \in Seq([op : {"set", "clear"}, bits : SUBSET Bits]),
         Len(deferred') <= DeferredLimit,
         UNCHANGED <<groupExists, eventCall>>
  PROVE  EventInv'
<1> DEFINE J == {}
<1>1. /\ J \in SUBSET EventTasks
      /\ xTasksWaitingForBits' = (xTasksWaitingForBits \ SetMatches(bits)) \cup J
      /\ \A u \in J : u \notin xTasksWaitingForBits /\ groupExists /\ ~Met(uxEventBits', eventCall'[u])
      /\ \A u \in EventTasks : IF u \in SetMatches(bits) THEN eventPc'[u] = "released"
                               ELSE IF u \in J THEN eventPc'[u] = "waiting"
                               ELSE eventPc'[u] = eventPc[u]
      /\ \A u \in EventTasks \ J : eventCall'[u] = eventCall[u]
      /\ eventCall' \in [EventTasks -> EventCallSet]
  BY DEF EventInv, EventTypes
<1> HIDE DEF J
<1> QED BY <1>1, ReleaseKeeps

(* A step of task t that takes bits away at most, and after which t has    *)
(* the call c and is at place p; t waits only for what it does not get.    *)
LEMMA OneTaskKeeps ==
  ASSUME EventInv, NEW t \in EventTasks, NEW c \in EventCallSet,
         NEW p \in {"run", "waiting", "timedOut"},
         uxEventBits' \in SUBSET uxEventBits,
         eventCall' = [eventCall EXCEPT ![t] = c],
         eventPc' = [eventPc EXCEPT ![t] = p],
         xTasksWaitingForBits' = IF p = "waiting" THEN xTasksWaitingForBits \cup {t}
                                                  ELSE xTasksWaitingForBits \ {t},
         p = "waiting" => groupExists /\ ~Met(uxEventBits', c),
         itemValue' \in [EventTasks -> SUBSET Bits],
         \A u \in EventTasks \ {t} : itemValue'[u] = itemValue[u],
         uxReturn' \in [EventTasks -> SUBSET Bits],
         UNCHANGED <<groupExists, deferred>>
  PROVE  EventInv'
<1>1. EventTypes'
  BY DEF EventInv, EventTypes, EventTypeOK
<1>2. /\ \A u \in EventTasks \ {t} : eventCall'[u] = eventCall[u] /\ eventPc'[u] = eventPc[u]
      /\ eventCall'[t] = c /\ eventPc'[t] = p
  BY DEF EventInv, EventTypes, EventTypeOK
<1>3. \A u \in xTasksWaitingForBits' : groupExists /\ ~Met(uxEventBits', eventCall'[u])
  <2> SUFFICES ASSUME NEW u \in xTasksWaitingForBits' PROVE groupExists /\ ~Met(uxEventBits', eventCall'[u])
    OBVIOUS
  <2>1. CASE u = t
    BY <2>1, <1>2
  <2>2. CASE u # t
    <3>1. u \in xTasksWaitingForBits /\ u \in EventTasks
      BY <2>2 DEF EventInv, EventTypes, EventTypeOK
    <3> QED BY <2>2, <3>1, <1>2, MetIsMonotone DEF EventInv, NobodyForgotten
  <2> QED BY <2>1, <2>2
<1>4. xTasksWaitingForBits' = {u \in EventTasks : eventPc'[u] = "waiting"}
  BY <1>2 DEF EventInv, NobodyForgotten
<1>5. \A u \in EventTasks : eventPc'[u] = "released" /\ groupExists => Met(itemValue'[u], eventCall'[u])
  BY <1>2 DEF EventInv, ReleasedRightly
<1>6. NobodyForgotten'
  BY <1>3, <1>4 DEF NobodyForgotten, Met
<1>7. ReleasedRightly'
  BY <1>5 DEF ReleasedRightly, Met
<1> QED BY <1>1, <1>6, <1>7 DEF EventInv


LEMMA EventNextInv == EventInv /\ [EventNext]_eventVars => EventInv'
<1> SUFFICES ASSUME EventInv, [EventNext]_eventVars PROVE EventInv'
  OBVIOUS
<1>t. /\ groupExists \in BOOLEAN /\ uxEventBits \in SUBSET Bits
      /\ xTasksWaitingForBits \subseteq EventTasks
      /\ eventPc \in [EventTasks -> {"run", "waiting", "released", "timedOut"}]
      /\ itemValue \in [EventTasks -> SUBSET Bits] /\ uxReturn \in [EventTasks -> SUBSET Bits]
      /\ eventCall \in [EventTasks -> EventCallSet]
      /\ deferred \in Seq([op : {"set", "clear"}, bits : SUBSET Bits]) /\ Len(deferred) <= DeferredLimit
  BY DEF EventInv, EventTypes, EventTypeOK
<1>w. xTasksWaitingForBits = {t \in EventTasks : eventPc[t] = "waiting"}
  BY DEF EventInv, NobodyForgotten
<1>s. \A bits : SetMatches(bits) \subseteq xTasksWaitingForBits
  BY DEF SetMatches
<1>n. NoEventCall \in EventCallSet
  BY DEF NoEventCall, EventCallSet
<1>1. ASSUME NEW t \in EventTasks, EventCall(t) PROVE EventInv'
  <2>1. PICK c \in EventCalls[t] :
           \/ c.op = "set" /\ SetBits(t, c)
           \/ c.op = "clear" /\ ClearBits(t, c)
           \/ c.op = "wait" /\ WaitBits(t, c)
           \/ c.op = "sync" /\ Sync(t, c)
           \/ c.op = "delete" /\ DeleteGroup(t)
    BY <1>1 DEF EventCall
  <2>2. groupExists /\ eventPc[t] = "run" /\ t \notin xTasksWaitingForBits
    BY <1>1, <1>w DEF EventCall
  <2>3. c \in EventCallSet /\ c.set \subseteq Bits /\ c.want \subseteq Bits
    BY CallTypes
  <2>4. CASE SetBits(t, c)
    <3> DEFINE bits == uxEventBits \cup c.set
    <3>1. bits \in SUBSET Bits /\ BitsAfterSet(bits) \in SUBSET bits
      BY <1>t, <2>3 DEF BitsAfterSet
    <3> HIDE DEF bits
    <3>2. /\ uxEventBits' = BitsAfterSet(bits)
          /\ xTasksWaitingForBits' = xTasksWaitingForBits \ SetMatches(bits)
          /\ itemValue' = [u \in EventTasks |-> IF u \in SetMatches(bits) THEN bits ELSE itemValue[u]]
          /\ eventPc' = [u \in EventTasks |-> IF u \in SetMatches(bits) THEN "released"
                                              ELSE IF u = t THEN "run" ELSE eventPc[u]]
          /\ uxReturn' = [uxReturn EXCEPT ![t] = uxEventBits']
          /\ UNCHANGED <<groupExists, eventCall, deferred>>
      BY <2>4 DEF SetBits, Released, MovesTo, bits
    <3>3. eventPc' \in [EventTasks -> {"run", "waiting", "released", "timedOut"}]
      BY <1>t, <3>2
    <3>4. uxReturn' \in [EventTasks -> SUBSET Bits]
      BY <1>t, <3>1, <3>2
    <3>5. \A u \in EventTasks : IF u \in SetMatches(bits) THEN eventPc'[u] = "released"
                               ELSE eventPc'[u] = eventPc[u]
      BY <2>2, <3>2
    <3> QED BY <1>t, <3>1, <3>2, <3>3, <3>4, <3>5, ReleaseOnlyKeeps
  <2>5. CASE ClearBits(t, c)
    BY <1>t, <2>5 DEF ClearBits, EventInv, EventTypes, EventTypeOK, NobodyForgotten, ReleasedRightly, Met
  <2>6. CASE WaitBits(t, c)
    <3>1. CASE Met(uxEventBits, c) \/ c.block = "no"
      <4>1. /\ uxEventBits' \in SUBSET uxEventBits
            /\ uxReturn' \in [EventTasks -> SUBSET Bits]
            /\ UNCHANGED <<groupExists, xTasksWaitingForBits, eventCall, eventPc, itemValue, deferred>>
        BY <1>t, <2>6, <3>1 DEF WaitBits
      <4> QED BY <1>t, <4>1 DEF EventInv, EventTypes, EventTypeOK, NobodyForgotten, ReleasedRightly, Met
    <3>2. CASE ~(Met(uxEventBits, c) \/ c.block = "no")
      <4>1. /\ eventCall' = [eventCall EXCEPT ![t] = c]
            /\ xTasksWaitingForBits' = xTasksWaitingForBits \cup {t}
            /\ eventPc' = [eventPc EXCEPT ![t] = "waiting"]
            /\ UNCHANGED <<groupExists, uxEventBits, itemValue, uxReturn, deferred>>
        BY <2>6, <3>2 DEF WaitBits, BlocksOn
      <4> QED BY <1>t, <2>2, <2>3, <3>2, <4>1, OneTaskKeeps
    <3> QED BY <3>1, <3>2
  <2>7. CASE Sync(t, c)
    <3> DEFINE bits == uxEventBits \cup c.set
               d == [c EXCEPT !.clear = TRUE, !.all = TRUE]
    <3>1. bits \in SUBSET Bits /\ BitsAfterSet(bits) \in SUBSET bits
      BY <1>t, <2>3 DEF BitsAfterSet
    <3>2. d \in EventCallSet /\ d.want = c.want /\ d.all = TRUE
      BY <2>3 DEF EventCallSet
    <3>3. itemValue' = [u \in EventTasks |-> IF u \in SetMatches(bits) THEN bits ELSE itemValue[u]]
          /\ UNCHANGED <<groupExists, deferred>>
      BY <2>7 DEF Sync
    <3>4. CASE c.want \subseteq bits \/ c.block = "no"
      <4>0. \E result \in SUBSET Bits :
              /\ uxEventBits' \in {BitsAfterSet(bits), BitsAfterSet(bits) \ c.want}
              /\ uxReturn' = [uxReturn EXCEPT ![t] = result]
              /\ MovesTo(t, SetMatches(bits), "run")
              /\ xTasksWaitingForBits' = xTasksWaitingForBits \ SetMatches(bits)
              /\ UNCHANGED eventCall
        <5>1. CASE c.want \subseteq bits
          BY <2>7, <3>1, <5>1 DEF Sync
        <5>2. CASE ~(c.want \subseteq bits) /\ c.block = "no"
          <6>1. BitsAfterSet(bits) \in SUBSET Bits
            BY <3>1
          <6> QED BY <2>7, <5>2, <6>1 DEF Sync
        <5> QED BY <3>4, <5>1, <5>2
      <4>1. /\ uxEventBits' \in SUBSET BitsAfterSet(bits)
            /\ uxReturn' \in [EventTasks -> SUBSET Bits]
            /\ eventPc' = [u \in EventTasks |-> IF u \in SetMatches(bits) THEN "released"
                                                ELSE IF u = t THEN "run" ELSE eventPc[u]]
            /\ xTasksWaitingForBits' = xTasksWaitingForBits \ SetMatches(bits)
            /\ UNCHANGED eventCall
        <5> HIDE DEF bits, d
        <5>1. \A result \in SUBSET Bits :
                [uxReturn EXCEPT ![t] = result] \in [EventTasks -> SUBSET Bits]
          BY <1>t DEF EventTypes, EventTypeOK
        <5>2. \A B \in {BitsAfterSet(bits), BitsAfterSet(bits) \ c.want} : B \in SUBSET BitsAfterSet(bits)
          OBVIOUS
        <5> QED BY <4>0, <5>1, <5>2 DEF MovesTo
      <4> HIDE DEF bits, d
      <4>2. eventPc' \in [EventTasks -> {"run", "waiting", "released", "timedOut"}]
        BY <1>t, <4>1
      <4>3. uxEventBits' \in SUBSET bits
        BY <4>1, <3>1
      <4>4. \A u \in EventTasks : IF u \in SetMatches(bits) THEN eventPc'[u] = "released"
                                 ELSE eventPc'[u] = eventPc[u]
        BY <2>2, <4>1
      <4> QED BY <1>t, <3>1, <3>3, <4>1, <4>2, <4>3, <4>4, ReleaseOnlyKeeps
    <3>5. CASE ~(c.want \subseteq bits \/ c.block = "no")
      <4>1. /\ uxEventBits' = BitsAfterSet(bits)
            /\ eventPc' = [u \in EventTasks |-> IF u \in SetMatches(bits) THEN "released"
                                                ELSE IF u = t THEN "waiting" ELSE eventPc[u]]
            /\ xTasksWaitingForBits' = (xTasksWaitingForBits \ SetMatches(bits)) \cup {t}
            /\ eventCall' = [eventCall EXCEPT ![t] = d]
            /\ UNCHANGED uxReturn
        BY <2>7, <3>5 DEF Sync, MovesTo
      <4>2. ~Met(uxEventBits', d)
        BY <3>1, <3>2, <3>5, <4>1 DEF Met
      <4>3. t \notin SetMatches(bits)
        BY <1>s, <2>2
      <4> HIDE DEF bits, d
      <4>4. eventPc' \in [EventTasks -> {"run", "waiting", "released", "timedOut"}]
        BY <1>t, <4>1
      <4>5. eventCall' \in [EventTasks -> EventCallSet] /\ eventCall'[t] = d
            /\ \A u \in EventTasks \ {t} : eventCall'[u] = eventCall[u]
        BY <1>t, <3>2, <4>1
      <4>6. \A u \in EventTasks : IF u \in SetMatches(bits) THEN eventPc'[u] = "released"
                               ELSE IF u \in {t} THEN eventPc'[u] = "waiting"
                               ELSE eventPc'[u] = eventPc[u]
        BY <4>1
      <4>7. \A u \in {t} : u \notin xTasksWaitingForBits /\ groupExists /\ ~Met(uxEventBits', eventCall'[u])
        BY <2>2, <4>2, <4>5
      <4>8. {t} \in SUBSET EventTasks
        OBVIOUS
      <4> QED BY <1>t, <3>1, <3>3, <4>1, <4>4, <4>5, <4>6, <4>7, <4>8, ReleaseKeeps
    <3> QED BY <3>4, <3>5
  <2>8. CASE DeleteGroup(t)
    <3>1. /\ groupExists' = FALSE /\ xTasksWaitingForBits' = {}
          /\ itemValue' = [u \in EventTasks |-> IF u \in xTasksWaitingForBits THEN {} ELSE itemValue[u]]
          /\ eventPc' = [u \in EventTasks |-> IF u \in xTasksWaitingForBits THEN "released"
                                              ELSE IF u = t THEN "run" ELSE eventPc[u]]
          /\ UNCHANGED <<uxEventBits, eventCall, deferred, uxReturn>>
      BY <2>8 DEF DeleteGroup, Released, MovesTo
    <3>2. EventTypes'
      BY <1>t, <3>1 DEF EventTypes, EventTypeOK
    <3>3. NobodyForgotten'
      BY <1>w, <3>1 DEF NobodyForgotten
    <3> QED BY <3>1, <3>2, <3>3 DEF EventInv, ReleasedRightly
  <2> QED BY <2>1, <2>4, <2>5, <2>6, <2>7, <2>8
<1>2. ASSUME NEW t \in EventTasks, EventTimeout(t) PROVE EventInv'
  <2>1. eventPc' = [eventPc EXCEPT ![t] = "timedOut"] /\ xTasksWaitingForBits' = xTasksWaitingForBits \ {t}
        /\ UNCHANGED <<groupExists, uxEventBits, eventCall, itemValue, deferred, uxReturn>>
    BY <1>2 DEF EventTimeout
  <2>2. eventCall' = [eventCall EXCEPT ![t] = eventCall[t]] /\ eventCall[t] \in EventCallSet
    BY <1>t, <2>1
  <2> QED BY <1>t, <2>1, <2>2, OneTaskKeeps
<1>3. ASSUME NEW t \in EventTasks, LeaveReleased(t) \/ LeaveTimedOut(t) PROVE EventInv'
  <2>1. PICK bits \in SUBSET Bits : Leaves(t, bits)
    BY <1>3, <1>t DEF LeaveReleased, LeaveTimedOut
  <2>2. /\ eventPc' = [eventPc EXCEPT ![t] = "run"] /\ eventCall' = [eventCall EXCEPT ![t] = NoEventCall]
        /\ uxReturn' \in [EventTasks -> SUBSET Bits] /\ itemValue' \in [EventTasks -> SUBSET Bits]
        /\ \A u \in EventTasks \ {t} : itemValue'[u] = itemValue[u]
    BY <2>1, <1>t DEF Leaves
  <2>3. /\ uxEventBits' \in SUBSET uxEventBits /\ UNCHANGED <<groupExists, xTasksWaitingForBits, deferred>>
        /\ t \notin xTasksWaitingForBits
    BY <1>3, <1>t, <1>w DEF LeaveReleased, LeaveTimedOut
  <2>4. xTasksWaitingForBits' = xTasksWaitingForBits \ {t}
    BY <2>3
  <2> QED BY <1>n, <2>2, <2>3, <2>4, OneTaskKeeps
<1>4. ASSUME NEW c \in FromISR, DeferFromISR(c) PROVE EventInv'
  <2>1. c \in [op : {"set", "clear"}, bits : SUBSET Bits]
    BY EventsAssumption
  <2>2. deferred' \in Seq([op : {"set", "clear"}, bits : SUBSET Bits]) /\ Len(deferred') <= DeferredLimit
    BY <1>4, <1>t, <2>1, EventsAssumption DEF DeferFromISR
  <2> QED BY <1>4, <1>t, <2>2
          DEF DeferFromISR, EventInv, EventTypes, EventTypeOK, NobodyForgotten, ReleasedRightly, Met
<1>5. ASSUME RunDeferred PROVE EventInv'
  <2> DEFINE c == Head(deferred)
             bits == uxEventBits \cup c.bits
  <2>1. /\ c \in [op : {"set", "clear"}, bits : SUBSET Bits] /\ groupExists
        /\ deferred' \in Seq([op : {"set", "clear"}, bits : SUBSET Bits]) /\ Len(deferred') <= DeferredLimit
    <3>1. deferred # <<>> /\ groupExists /\ deferred' = Tail(deferred)
      BY <1>5 DEF RunDeferred
    <3>2. c \in [op : {"set", "clear"}, bits : SUBSET Bits]
      <4> DEFINE D == [op : {"set", "clear"}, bits : SUBSET Bits]
      <4>1. deferred \in Seq(D)
        BY <1>t
      <4> HIDE DEF D
      <4>2. Head(deferred) \in D
        BY <3>1, <4>1
      <4> QED BY <4>2 DEF D
    <3>3. deferred' \in Seq([op : {"set", "clear"}, bits : SUBSET Bits]) /\ Len(deferred') = Len(deferred) - 1
      BY <1>t, <3>1
    <3>4. Len(deferred) \in Nat /\ DeferredLimit \in Nat
      BY <1>t, EventsAssumption
    <3> QED BY <1>t, <3>1, <3>2, <3>3, <3>4
  <2>2. bits \in SUBSET Bits /\ BitsAfterSet(bits) \in SUBSET bits
    BY <1>t, <2>1 DEF BitsAfterSet
  <2>3. CASE c.op = "set"
    <3>1. /\ uxEventBits' = BitsAfterSet(bits)
          /\ xTasksWaitingForBits' = xTasksWaitingForBits \ SetMatches(bits)
          /\ itemValue' = [u \in EventTasks |-> IF u \in SetMatches(bits) THEN bits ELSE itemValue[u]]
          /\ eventPc' = [u \in EventTasks |-> IF u \in SetMatches(bits) THEN "released" ELSE eventPc[u]]
          /\ UNCHANGED <<groupExists, eventCall, uxReturn>>
      BY <1>5, <2>3 DEF RunDeferred, Released
    <3> HIDE DEF bits, c
    <3>2. eventPc' \in [EventTasks -> {"run", "waiting", "released", "timedOut"}]
      BY <1>t, <3>1
    <3> QED BY <1>t, <2>1, <2>2, <3>1, <3>2, ReleaseOnlyKeeps
  <2>4. CASE c.op # "set"
    <3>1. uxEventBits' \in SUBSET uxEventBits
          /\ UNCHANGED <<xTasksWaitingForBits, itemValue, eventPc, groupExists, eventCall, uxReturn>>
      BY <1>5, <2>4 DEF RunDeferred
    <3> QED BY <1>t, <2>1, <3>1 DEF EventInv, EventTypes, EventTypeOK, NobodyForgotten, ReleasedRightly, Met
  <2> QED BY <2>3, <2>4
<1>6. CASE UNCHANGED eventVars
  BY <1>6 DEF eventVars, EventInv, EventTypes, EventTypeOK, NobodyForgotten, ReleasedRightly, Met
<1> QED BY <1>1, <1>2, <1>3, <1>4, <1>5, <1>6 DEF EventNext

LEMMA EventInvariant == EventSpec => []EventInv
BY EventInitInv, EventNextInv, PTL DEF EventSpec

(* No task stays on the list of a group whose bits already are what it     *)
(* waits for, nor on that of a deleted group, for every set of bits and    *)
(* every repertoire of calls (xEventGroupSetBits, vEventGroupDelete).      *)
THEOREM NobodyIsForgotten == EventSpec => [](EventTypeOK /\ NobodyForgotten)
<1>1. EventInv => EventTypeOK /\ NobodyForgotten
  BY DEF EventInv, EventTypes
<1> QED BY <1>1, EventInvariant, PTL

(* What a call that blocked returns met its condition, unless its time was *)
(* up and the bits are not there at that moment (xEventGroupWaitBits).     *)
THEOREM AnswersDoHold == EventSpec => AnswersHold
<1> DEFINE Answer(t) ==
      eventPc[t] \in {"released", "timedOut"} /\ eventPc'[t] = "run" /\ groupExists =>
         IF eventPc[t] = "released" THEN Met(uxReturn'[t], eventCall[t])
         ELSE Met(uxReturn'[t], eventCall[t]) \/ ~Met(uxEventBits, eventCall[t])
<1>1. EventInv /\ [EventNext]_eventVars => [\A t \in EventTasks : Answer(t)]_eventVars
  <2> SUFFICES ASSUME EventInv, EventNext, NEW t \in EventTasks,
                      eventPc[t] \in {"released", "timedOut"}, eventPc'[t] = "run", groupExists
               PROVE  IF eventPc[t] = "released" THEN Met(uxReturn'[t], eventCall[t])
                      ELSE Met(uxReturn'[t], eventCall[t]) \/ ~Met(uxEventBits, eventCall[t])
    OBVIOUS
  <2>t. eventPc \in [EventTasks -> {"run", "waiting", "released", "timedOut"}]
        /\ uxReturn \in [EventTasks -> SUBSET Bits]
    BY DEF EventInv, EventTypes, EventTypeOK
  <2>1. LeaveReleased(t) \/ LeaveTimedOut(t)
    <3>1. ASSUME NEW u \in EventTasks, EventCall(u) PROVE FALSE
      <4>1. eventPc[u] = "run" /\ u # t
        BY <3>1 DEF EventCall
      <4>2. PICK c \in EventCalls[u] :
               \/ SetBits(u, c) \/ ClearBits(u, c) \/ WaitBits(u, c) \/ Sync(u, c) \/ DeleteGroup(u)
        BY <3>1 DEF EventCall
      <4>3. eventPc'[t] \in {"released", eventPc[t]}
        <5>1. CASE SetBits(u, c)
          BY <5>1, <4>1 DEF SetBits, MovesTo
        <5>2. CASE ClearBits(u, c)
          BY <5>2 DEF ClearBits
        <5>3. CASE WaitBits(u, c)
          BY <5>3, <4>1, <2>t DEF WaitBits
        <5>4. CASE Sync(u, c)
          BY <5>4, <4>1 DEF Sync, MovesTo
        <5>5. CASE DeleteGroup(u)
          BY <5>5, <4>1 DEF DeleteGroup, MovesTo
        <5> QED BY <4>2, <5>1, <5>2, <5>3, <5>4, <5>5
      <4> QED BY <4>3
    <3>2. ASSUME NEW u \in EventTasks, EventTimeout(u) PROVE FALSE
      BY <3>2, <2>t DEF EventTimeout
    <3>3. ASSUME NEW u \in EventTasks, LeaveReleased(u) \/ LeaveTimedOut(u) PROVE u = t
      BY <3>3, <2>t DEF LeaveReleased, LeaveTimedOut, Leaves
    <3>4. ASSUME NEW c \in FromISR, DeferFromISR(c) PROVE FALSE
      BY <3>4 DEF DeferFromISR
    <3>5. ASSUME RunDeferred PROVE FALSE
      BY <3>5, <2>t DEF RunDeferred
    <3> QED BY <3>1, <3>2, <3>3, <3>4, <3>5 DEF EventNext
  <2>2. CASE LeaveReleased(t)
    <3>1. eventPc[t] = "released" /\ uxReturn'[t] = itemValue[t]
      BY <2>2, <2>t DEF LeaveReleased, Leaves
    <3> QED BY <3>1 DEF EventInv, ReleasedRightly
  <2>3. CASE LeaveTimedOut(t)
    <3>1. eventPc[t] = "timedOut" /\ uxReturn'[t] = uxEventBits
      BY <2>3, <2>t DEF LeaveTimedOut, Leaves
    <3> QED BY <3>1
  <2> QED BY <2>1, <2>2, <2>3
<1> QED BY <1>1, EventInvariant, PTL DEF EventSpec, AnswersHold

(***************************************************************************)
(* A meeting of tasks, each of which has a bit.                            *)
(***************************************************************************)
MeetingBits(bit) == {bit[p] : p \in Participants}

(* Each task of the meeting sets its bit and waits for those of all,       *)
(* without limit; nobody else sets one of them.  Others may clear them,    *)
(* wait for them, and delete the group.                                    *)
MeetingCalls(bit) ==
  /\ \A p, q \in Participants : bit[p] = bit[q] => p = q
  /\ \A t \in EventTasks : \A c \in EventCalls[t] :
       /\ c.op = "sync" => /\ t \in Participants /\ c.set = {bit[t]}
                           /\ c.want = MeetingBits(bit) /\ c.block = "forever"
       /\ c.op = "set" => c.set \cap MeetingBits(bit) = {}
  /\ \A c \in FromISR : c.op = "set" => c.bits \cap MeetingBits(bit) = {}

Meets(t) == t \in xTasksWaitingForBits /\ eventCall[t].op = "sync"

SyncCalls(bit) ==
  \A t \in EventTasks : eventCall[t].op = "sync" =>
    eventCall[t].all /\ eventCall[t].want = MeetingBits(bit) /\ eventCall[t].block = "forever"

DeferredCalls(bit) ==
  \A i \in 1 .. Len(deferred) : deferred[i].op = "set" => deferred[i].bits \cap MeetingBits(bit) = {}

(* All have passed n times, and those who wait have arrived once more.     *)
Round(n) ==
  \A p \in Participants :
    /\ passed[p] = n
    /\ IF groupExists THEN arrived[p] = (IF Meets(p) THEN (n + 1) % 4 ELSE n)
                      ELSE arrived[p] \in {n, (n + 1) % 4}

(* Whose bit is set has arrived and waits.                                 *)
BitsOfWaiting(bit) ==
  groupExists => \A p \in Participants : bit[p] \in uxEventBits => Meets(p)

MeetingInv(bit) ==
  /\ arrived \in [EventTasks -> 0 .. 3] /\ passed \in [EventTasks -> 0 .. 3]
  /\ SyncCalls(bit) /\ DeferredCalls(bit) /\ BitsOfWaiting(bit)
  /\ \E n \in 0 .. 3 : Round(n)

LEMMA MeetingInit ==
  ASSUME NEW bit, EventInit
  PROVE  MeetingInv(bit)
<1>1. SyncCalls(bit) /\ DeferredCalls(bit) /\ BitsOfWaiting(bit)
  BY DEF EventInit, SyncCalls, DeferredCalls, BitsOfWaiting, NoEventCall
<1>2. Participants \subseteq EventTasks
  BY EventsAssumption
<1>3. Round(0)
  BY <1>2 DEF EventInit, Round, Meets
<1> QED BY <1>1, <1>3 DEF EventInit, MeetingInv

(* While one task of the meeting is missing, no other is let go.           *)
LEMMA NobodyPasses ==
  ASSUME NEW bit, EventInv, MeetingInv(bit), NEW bits, ~(MeetingBits(bit) \subseteq bits)
  PROVE  \A u \in SetMatches(bits) : u \in EventTasks /\ eventCall[u].op # "sync"
<1> SUFFICES ASSUME NEW u \in SetMatches(bits) PROVE u \in EventTasks /\ eventCall[u].op # "sync"
  OBVIOUS
<1>1. u \in xTasksWaitingForBits /\ u \in EventTasks /\ Met(bits, eventCall[u])
  BY DEF SetMatches, EventInv, EventTypes, EventTypeOK
<1> QED BY <1>1 DEF Met, MeetingInv, SyncCalls

(* As long as the group exists, not all bits of the meeting are set.       *)
LEMMA SomeoneIsMissing ==
  ASSUME NEW bit, EventInv, MeetingInv(bit), groupExists, Participants # {}
  PROVE  ~(MeetingBits(bit) \subseteq uxEventBits)
<1> SUFFICES ASSUME MeetingBits(bit) \subseteq uxEventBits PROVE FALSE
  OBVIOUS
<1>1. PICK p \in Participants : TRUE
  OBVIOUS
<1>2. Meets(p) /\ p \in EventTasks
  BY EventsAssumption DEF MeetingInv, BitsOfWaiting, MeetingBits
<1>3. Met(uxEventBits, eventCall[p])
  BY <1>2 DEF MeetingInv, SyncCalls, Met, Meets
<1> QED BY <1>2, <1>3 DEF EventInv, NobodyForgotten, Meets

(* A step that brings nobody to the meeting and lets nobody go.            *)
LEMMA MeetingKept ==
  ASSUME NEW bit, EventInv, MeetingInv(bit),
         UNCHANGED <<groupExists, arrived, passed>>,
         SyncCalls(bit)', DeferredCalls(bit)',
         groupExists => \A p \in Participants : Meets(p)' <=> Meets(p),
         groupExists => uxEventBits' \cap MeetingBits(bit) \subseteq uxEventBits
  PROVE  MeetingInv(bit)'
<1>1. PICK n \in 0 .. 3 : Round(n)
  BY DEF MeetingInv
<1>2. Round(n)'
  BY <1>1 DEF Round
<1>3. BitsOfWaiting(bit)'
  BY DEF MeetingInv, BitsOfWaiting, MeetingBits
<1> QED BY <1>2, <1>3 DEF MeetingInv

(* Setting bits that are not of the meeting.                               *)
LEMMA OthersSet ==
  ASSUME NEW bit, EventInv, MeetingInv(bit), NEW new, groupExists,
         new \cap MeetingBits(bit) = {},
         NEW bits, bits = uxEventBits \cup new,
         uxEventBits' = BitsAfterSet(bits),
         Released(SetMatches(bits), bits), Passes(SetMatches(bits)),
         UNCHANGED <<groupExists, eventCall, arrived>>, DeferredCalls(bit)'
  PROVE  MeetingInv(bit)'
<1>1. CASE Participants = {}
  <2>1. SyncCalls(bit)' /\ BitsOfWaiting(bit)'
    BY <1>1 DEF MeetingInv, SyncCalls, BitsOfWaiting
  <2>2. passed' = [t \in EventTasks |-> passed[t]]
    BY <1>1 DEF Passes
  <2>3. passed' \in [EventTasks -> 0 .. 3]
    BY <2>2 DEF MeetingInv
  <2>4. Round(0)'
    BY <1>1 DEF Round
  <2> QED BY <2>1, <2>3, <2>4 DEF MeetingInv
<1>2. CASE Participants # {}
  <2>1. ~(MeetingBits(bit) \subseteq bits)
    BY <1>2, SomeoneIsMissing
  <2>2. \A u \in SetMatches(bits) : eventCall[u].op # "sync"
    BY <2>1, NobodyPasses
  <2>3. passed' = passed
    <3>1. passed' = [t \in EventTasks |-> passed[t]]
      BY <2>2 DEF Passes
    <3> QED BY <3>1 DEF MeetingInv
  <2>4. SyncCalls(bit)'
    BY DEF MeetingInv, SyncCalls
  <2>5. \A p \in Participants : Meets(p)' <=> Meets(p)
    BY <2>2 DEF Released, Meets
  <2>6. uxEventBits' \cap MeetingBits(bit) \subseteq uxEventBits
    BY DEF BitsAfterSet
  <2> QED BY <2>3, <2>4, <2>5, <2>6, MeetingKept
<1> QED BY <1>1, <1>2

(* One more task comes to the meeting.                                     *)
LEMMA SyncMeets ==
  ASSUME NEW bit, MeetingCalls(bit), EventInv, MeetingInv(bit), groupExists,
         NEW t \in EventTasks, NEW c \in EventCalls[t], c.op = "sync", eventPc[t] = "run",
         Sync(t, c)
  PROVE  MeetingInv(bit)'
<1>1. t \in Participants /\ c.set = {bit[t]} /\ c.want = MeetingBits(bit) /\ c.block = "forever"
  BY DEF MeetingCalls
<1>2. t \notin xTasksWaitingForBits /\ ~Meets(t)
  BY DEF EventInv, NobodyForgotten, Meets
<1>3. Participants \subseteq EventTasks /\ c \in EventCallSet
  BY EventsAssumption, CallTypes
<1>4. PICK n \in 0 .. 3 : Round(n)
  BY DEF MeetingInv
<1> DEFINE bits == uxEventBits \cup c.set
           S == SetMatches(bits)
<1>5. \A p \in Participants : bit[p] \in bits => p = t \/ Meets(p)
  BY <1>1 DEF MeetingCalls, MeetingInv, BitsOfWaiting
<1>6. arrived' = [arrived EXCEPT ![t] = (@ + 1) % 4] /\ UNCHANGED <<groupExists, deferred>>
  BY DEF Sync
<1>7. arrived' \in [EventTasks -> 0 .. 3]
  <2>1. (arrived[t] + 1) % 4 \in 0 .. 3
    BY DEF MeetingInv
  <2> QED BY <1>6, <2>1 DEF MeetingInv
<1>8. passed' = [u \in EventTasks |-> IF \/ u = t /\ c.want \subseteq bits
                                         \/ u \in S /\ eventCall[u].op = "sync"
                                      THEN (passed[u] + 1) % 4 ELSE passed[u]]
  BY DEF Sync
<1>9. passed' \in [EventTasks -> 0 .. 3]
  <2>1. \A u \in EventTasks : passed[u] \in 0 .. 3 /\ (passed[u] + 1) % 4 \in 0 .. 3
    BY DEF MeetingInv
  <2> QED BY <1>8, <2>1
<1>10. DeferredCalls(bit)'
  BY <1>6 DEF MeetingInv, DeferredCalls
<1>11. CASE c.want \subseteq bits
  <2>1. /\ uxEventBits' = BitsAfterSet(bits) \ c.want
        /\ xTasksWaitingForBits' = xTasksWaitingForBits \ S
        /\ UNCHANGED eventCall
    BY <1>11 DEF Sync
  <2>2. SyncCalls(bit)'
    BY <2>1 DEF MeetingInv, SyncCalls
  <2>3. BitsOfWaiting(bit)'
    BY <1>1, <2>1 DEF BitsOfWaiting, MeetingBits
  <2>4. ASSUME NEW p \in Participants, p # t
        PROVE  Meets(p) /\ p \in S /\ eventCall[p].op = "sync"
    <3>1. Meets(p)
      BY <1>1, <1>5, <1>11, <2>4 DEF MeetingBits
    <3>2. Met(bits, eventCall[p])
      BY <1>1, <1>3, <1>11, <3>1 DEF MeetingInv, SyncCalls, Met, Meets
    <3> QED BY <3>1, <3>2 DEF SetMatches, Meets
  <2> HIDE DEF bits, S
  <2>5. \A p \in Participants : passed'[p] = (n + 1) % 4
    BY <1>3, <1>4, <1>8, <1>11, <2>4 DEF Round
  <2>6. \A p \in Participants : arrived'[p] = (n + 1) % 4
    <3>1. \A p \in Participants : p # t => arrived[p] = (n + 1) % 4
      BY <1>4, <2>4 DEF Round
    <3>2. arrived[t] = n
      BY <1>1, <1>2, <1>4 DEF Round
    <3> QED BY <1>3, <1>6, <3>1, <3>2 DEF MeetingInv
  <2>7. \A p \in Participants : ~Meets(p)'
    BY <1>2, <2>1, <2>4 DEF Meets
  <2>8. PICK k \in 0 .. 3 : k = (n + 1) % 4
    OBVIOUS
  <2>9. Round(k)'
    BY <1>6, <2>5, <2>6, <2>7, <2>8 DEF Round
  <2> QED BY <1>7, <1>9, <1>10, <2>2, <2>3, <2>9 DEF MeetingInv
<1>12. CASE ~(c.want \subseteq bits)
  <2>1. /\ uxEventBits' = BitsAfterSet(bits)
        /\ xTasksWaitingForBits' = (xTasksWaitingForBits \ S) \cup {t}
        /\ eventCall' = [eventCall EXCEPT ![t] = [c EXCEPT !.clear = TRUE, !.all = TRUE]]
    BY <1>1, <1>12 DEF Sync
  <2>2. \A u \in S : u \in EventTasks /\ eventCall[u].op # "sync"
    BY <1>1, <1>12, NobodyPasses
  <2>3. passed' = passed
    <3>1. passed' = [u \in EventTasks |-> passed[u]]
      BY <1>8, <1>12, <2>2
    <3> QED BY <3>1 DEF MeetingInv
  <2>4. eventCall'[t].op = "sync" /\ eventCall'[t].all
        /\ eventCall'[t].want = MeetingBits(bit) /\ eventCall'[t].block = "forever"
        /\ \A u \in EventTasks \ {t} : eventCall'[u] = eventCall[u]
    BY <1>1, <1>3, <2>1 DEF EventCallSet, EventInv, EventTypes
  <2>5. SyncCalls(bit)'
    <3> SUFFICES ASSUME NEW u \in EventTasks, eventCall'[u].op = "sync"
                 PROVE  eventCall'[u].all /\ eventCall'[u].want = MeetingBits(bit)
                        /\ eventCall'[u].block = "forever"
      BY DEF SyncCalls, MeetingBits
    <3> QED BY <2>4 DEF MeetingInv, SyncCalls
  <2>6. Meets(t)'
    BY <2>1, <2>4 DEF Meets
  <2>7. \A p \in Participants \ {t} : Meets(p)' <=> Meets(p)
    BY <1>3, <2>1, <2>2, <2>4 DEF Meets
  <2>8. uxEventBits' \subseteq bits
    BY <2>1 DEF BitsAfterSet
  <2> HIDE DEF bits, S
  <2>9. BitsOfWaiting(bit)'
    BY <1>5, <2>6, <2>7, <2>8 DEF BitsOfWaiting
  <2>10. Round(n)'
    <3>1. arrived'[t] = (n + 1) % 4 /\ passed'[t] = n
      <4>1. arrived[t] = n /\ passed[t] = n
        BY <1>1, <1>2, <1>4 DEF Round
      <4> QED BY <1>6, <2>3, <4>1 DEF MeetingInv
    <3>2. \A p \in Participants \ {t} : arrived'[p] = arrived[p]
      BY <1>3, <1>6 DEF MeetingInv
    <3>3. groupExists'
      BY <1>6
    <3> SUFFICES ASSUME NEW p \in Participants
                 PROVE  passed'[p] = n /\ arrived'[p] = (IF Meets(p)' THEN (n + 1) % 4 ELSE n)
      BY <3>3 DEF Round
    <3>4. CASE p = t
      BY <2>6, <3>1, <3>4
    <3>5. CASE p # t
      BY <1>4, <2>3, <2>7, <3>2, <3>5 DEF Round
    <3> QED BY <3>4, <3>5
  <2> QED BY <1>7, <1>9, <1>10, <2>5, <2>9, <2>10 DEF MeetingInv
<1> QED BY <1>11, <1>12

(* Who waits for the others waits without limit.                           *)
NoMeetingTimedOut == \A t \in EventTasks : eventPc[t] = "timedOut" => eventCall[t].op # "sync"

LEMMA NoMeetingTimesOut ==
  ASSUME NEW bit, EventInv, MeetingInv(bit), NoMeetingTimedOut, [EventNext]_eventVars
  PROVE  NoMeetingTimedOut'
<1> SUFFICES ASSUME NEW u \in EventTasks, eventPc'[u] = "timedOut"
             PROVE  eventCall'[u].op # "sync"
  BY DEF NoMeetingTimedOut
<1>t. /\ eventPc \in [EventTasks -> {"run", "waiting", "released", "timedOut"}]
      /\ eventCall \in [EventTasks -> EventCallSet]
  BY DEF EventInv, EventTypes, EventTypeOK
<1>1. ASSUME NEW t \in EventTasks, EventCall(t)
      PROVE  eventPc[u] = "timedOut" /\ eventCall'[u] = eventCall[u]
  <2>1. PICK c \in EventCalls[t] :
           SetBits(t, c) \/ ClearBits(t, c) \/ WaitBits(t, c) \/ Sync(t, c) \/ DeleteGroup(t)
    BY <1>1 DEF EventCall
  <2>2. CASE SetBits(t, c)
    BY <1>1, <1>t, <2>2 DEF SetBits, MovesTo
  <2>3. CASE ClearBits(t, c)
    BY <2>3 DEF ClearBits
  <2>4. CASE WaitBits(t, c)
    <3>1. UNCHANGED <<eventPc, eventCall>> \/ (BlocksOn(t, c) /\ eventPc' = [eventPc EXCEPT ![t] = "waiting"])
      BY <2>4 DEF WaitBits
    <3> QED BY <1>t, <3>1 DEF BlocksOn
  <2>5. CASE Sync(t, c)
    <3>1. \E S : MovesTo(t, S, "run") \/ MovesTo(t, S, "waiting")
      BY <2>5 DEF Sync
    <3>2. eventPc'[u] = eventPc[u] /\ u # t
      BY <3>1 DEF MovesTo
    <3>3. \/ UNCHANGED eventCall
          \/ eventCall' = [eventCall EXCEPT ![t] = [c EXCEPT !.clear = TRUE, !.all = TRUE]]
      BY <2>5 DEF Sync
    <3> QED BY <1>t, <3>2, <3>3
  <2>6. CASE DeleteGroup(t)
    BY <2>6 DEF DeleteGroup, MovesTo
  <2> QED BY <2>1, <2>2, <2>3, <2>4, <2>5, <2>6
<1>2. ASSUME NEW t \in EventTasks, EventTimeout(t)
      PROVE  eventCall'[u].op # "sync"
  <2>1. CASE u = t
    BY <1>2, <2>1 DEF EventTimeout, MeetingInv, SyncCalls
  <2>2. CASE u # t
    BY <1>2, <1>t, <2>2 DEF EventTimeout, NoMeetingTimedOut
  <2> QED BY <2>1, <2>2
<1>3. ASSUME NEW t \in EventTasks, LeaveReleased(t) \/ LeaveTimedOut(t)
      PROVE  eventPc[u] = "timedOut" /\ eventCall'[u] = eventCall[u]
  BY <1>3, <1>t DEF LeaveReleased, LeaveTimedOut, Leaves
<1>4. ASSUME NEW c \in FromISR, DeferFromISR(c)
      PROVE  eventPc[u] = "timedOut" /\ eventCall'[u] = eventCall[u]
  BY <1>4 DEF DeferFromISR
<1>5. CASE RunDeferred
  <2>1. \/ eventPc' = [t \in EventTasks |->
                         IF t \in SetMatches(uxEventBits \cup Head(deferred).bits)
                         THEN "released" ELSE eventPc[t]]
        \/ UNCHANGED eventPc
    BY <1>5 DEF RunDeferred
  <2>2. eventPc[u] = "timedOut" /\ UNCHANGED eventCall
    BY <1>5, <2>1 DEF RunDeferred
  <2> QED BY <2>2 DEF NoMeetingTimedOut
<1>6. CASE UNCHANGED eventVars
  BY <1>6 DEF eventVars, NoMeetingTimedOut
<1> QED BY <1>1, <1>2, <1>3, <1>4, <1>5, <1>6 DEF EventNext, NoMeetingTimedOut

LEMMA MeetingNext ==
  ASSUME NEW bit, MeetingCalls(bit), EventInv, MeetingInv(bit), NoMeetingTimedOut,
         [EventNext]_eventVars
  PROVE  MeetingInv(bit)'
<1>p. Participants \subseteq EventTasks
  BY EventsAssumption
<1>w. xTasksWaitingForBits = {t \in EventTasks : eventPc[t] = "waiting"}
      /\ eventCall \in [EventTasks -> EventCallSet]
  BY DEF EventInv, NobodyForgotten, EventTypes
<1>1. ASSUME NEW t \in EventTasks, EventCall(t) PROVE MeetingInv(bit)'
  <2>1. PICK c \in EventCalls[t] :
           \/ c.op = "set" /\ SetBits(t, c)
           \/ c.op = "clear" /\ ClearBits(t, c)
           \/ c.op = "wait" /\ WaitBits(t, c)
           \/ c.op = "sync" /\ Sync(t, c)
           \/ c.op = "delete" /\ DeleteGroup(t)
    BY <1>1 DEF EventCall
  <2>2. groupExists /\ eventPc[t] = "run" /\ t \notin xTasksWaitingForBits
    BY <1>1, <1>w DEF EventCall
  <2>3. CASE c.op = "set" /\ SetBits(t, c)
    <3>1. c.set \cap MeetingBits(bit) = {}
      BY <2>3 DEF MeetingCalls
    <3>2. DeferredCalls(bit)'
      BY <2>3 DEF SetBits, MeetingInv, DeferredCalls
    <3> QED BY <2>2, <2>3, <3>1, <3>2, OthersSet DEF SetBits
  <2>4. CASE ClearBits(t, c)
    BY <2>4, MeetingKept DEF ClearBits, MeetingInv, SyncCalls, DeferredCalls, Meets
  <2>5. CASE c.op = "wait" /\ WaitBits(t, c)
    <3>1. CASE UNCHANGED <<xTasksWaitingForBits, eventCall>>
      <4>1. /\ UNCHANGED <<groupExists, arrived, passed, deferred>> /\ uxEventBits' \subseteq uxEventBits
        BY <2>5 DEF WaitBits
      <4> QED BY <3>1, <4>1, MeetingKept DEF MeetingInv, SyncCalls, DeferredCalls, Meets
    <3>2. CASE BlocksOn(t, c)
      <4>1. UNCHANGED <<groupExists, arrived, passed, deferred>> /\ uxEventBits' \subseteq uxEventBits
        BY <2>5 DEF WaitBits
      <4>2. /\ xTasksWaitingForBits' = xTasksWaitingForBits \cup {t}
            /\ eventCall'[t] = c /\ \A u \in EventTasks \ {t} : eventCall'[u] = eventCall[u]
        BY <1>w, <3>2 DEF BlocksOn
      <4>3. SyncCalls(bit)'
        <5> SUFFICES ASSUME NEW u \in EventTasks, eventCall'[u].op = "sync"
                     PROVE  eventCall'[u].all /\ eventCall'[u].want = MeetingBits(bit)
                            /\ eventCall'[u].block = "forever"
          BY DEF SyncCalls, MeetingBits
        <5>1. u # t
          BY <2>5, <4>2
        <5> QED BY <4>2, <5>1 DEF MeetingInv, SyncCalls
      <4>4. \A p \in Participants : Meets(p)' <=> Meets(p)
        BY <1>p, <2>2, <2>5, <4>2 DEF Meets
      <4>5. DeferredCalls(bit)'
        BY <4>1 DEF MeetingInv, DeferredCalls
      <4> QED BY <4>1, <4>3, <4>4, <4>5, MeetingKept
    <3> QED BY <2>5, <3>1, <3>2 DEF WaitBits
  <2>6. CASE c.op = "sync" /\ Sync(t, c)
    BY <2>2, <2>6, SyncMeets
  <2>7. CASE DeleteGroup(t)
    <3>1. PICK n \in 0 .. 3 : Round(n)
      BY DEF MeetingInv
    <3>2. Round(n)'
      BY <2>2, <2>7, <3>1 DEF DeleteGroup, Round
    <3>3. SyncCalls(bit)' /\ DeferredCalls(bit)' /\ BitsOfWaiting(bit)'
      BY <2>7 DEF DeleteGroup, MeetingInv, SyncCalls, DeferredCalls, BitsOfWaiting
    <3> QED BY <2>7, <3>2, <3>3 DEF DeleteGroup, MeetingInv
  <2> QED BY <2>1, <2>3, <2>4, <2>5, <2>6, <2>7
<1>2. ASSUME NEW t \in EventTasks, EventTimeout(t) PROVE MeetingInv(bit)'
  <2>1. eventCall[t].op # "sync"
    BY <1>2 DEF EventTimeout, MeetingInv, SyncCalls
  <2>2. /\ UNCHANGED <<groupExists, uxEventBits, arrived, passed, deferred, eventCall>>
        /\ xTasksWaitingForBits' = xTasksWaitingForBits \ {t}
    BY <1>2 DEF EventTimeout
  <2>3. \A p \in Participants : Meets(p)' <=> Meets(p)
    BY <2>1, <2>2 DEF Meets
  <2>4. SyncCalls(bit)' /\ DeferredCalls(bit)'
    BY <2>2 DEF MeetingInv, SyncCalls, DeferredCalls
  <2> QED BY <2>2, <2>3, <2>4, MeetingKept
<1>3. ASSUME NEW t \in EventTasks, LeaveReleased(t) \/ LeaveTimedOut(t) PROVE MeetingInv(bit)'
  <2>1. t \notin xTasksWaitingForBits
    BY <1>3, <1>w DEF LeaveReleased, LeaveTimedOut
  <2>2. /\ eventCall'[t] = NoEventCall /\ \A u \in EventTasks \ {t} : eventCall'[u] = eventCall[u]
        /\ UNCHANGED <<groupExists, xTasksWaitingForBits, deferred, arrived>>
    BY <1>3, <1>w DEF LeaveReleased, LeaveTimedOut, Leaves
  <2>3. groupExists => uxEventBits' \subseteq uxEventBits
    BY <1>3 DEF LeaveReleased, LeaveTimedOut
  <2>4. passed' = passed
    <3>1. CASE LeaveReleased(t)
      BY <3>1 DEF LeaveReleased
    <3>2. CASE LeaveTimedOut(t)
      BY <3>2 DEF LeaveTimedOut, NoMeetingTimedOut
    <3> QED BY <1>3, <3>1, <3>2
  <2>5. SyncCalls(bit)'
    BY <2>2 DEF MeetingInv, SyncCalls, NoEventCall, MeetingBits
  <2>6. DeferredCalls(bit)'
    BY <2>2 DEF MeetingInv, DeferredCalls
  <2>7. \A p \in Participants : Meets(p)' <=> Meets(p)
    BY <1>p, <2>1, <2>2 DEF Meets
  <2> QED BY <2>2, <2>3, <2>4, <2>5, <2>6, <2>7, MeetingKept
<1>4. ASSUME NEW c \in FromISR, DeferFromISR(c) PROVE MeetingInv(bit)'
  <2>1. DeferredCalls(bit)'
    <3>1. deferred' = Append(deferred, c) /\ deferred \in Seq([op : {"set", "clear"}, bits : SUBSET Bits])
      BY <1>4 DEF DeferFromISR, EventInv, EventTypes
    <3>2. c \in [op : {"set", "clear"}, bits : SUBSET Bits]
      BY EventsAssumption
    <3>3. c.op = "set" => c.bits \cap MeetingBits(bit) = {}
      BY DEF MeetingCalls
    <3> QED BY <3>1, <3>2, <3>3 DEF MeetingInv, DeferredCalls, MeetingBits
  <2> QED BY <1>4, <2>1, MeetingKept DEF DeferFromISR, MeetingInv, SyncCalls, Meets
<1>5. CASE RunDeferred
  <2> DEFINE c == Head(deferred)
             bits == uxEventBits \cup c.bits
  <2>1. groupExists /\ deferred # <<>> /\ deferred' = Tail(deferred)
        /\ deferred \in Seq([op : {"set", "clear"}, bits : SUBSET Bits])
    BY <1>5 DEF RunDeferred, EventInv, EventTypes
  <2>2. DeferredCalls(bit)'
    <3>1. \A i \in 1 .. Len(deferred') : i + 1 \in 1 .. Len(deferred) /\ deferred'[i] = deferred[i + 1]
      BY <2>1
    <3> QED BY <3>1 DEF MeetingInv, DeferredCalls, MeetingBits
  <2>3. c.op = "set" => c.bits \cap MeetingBits(bit) = {}
    BY <2>1 DEF MeetingInv, DeferredCalls
  <2>4. CASE c.op = "set"
    <3>1. /\ uxEventBits' = BitsAfterSet(bits)
          /\ Released(SetMatches(bits), bits) /\ Passes(SetMatches(bits))
          /\ UNCHANGED <<groupExists, eventCall, arrived>>
      BY <1>5, <2>4 DEF RunDeferred
    <3> HIDE DEF c
    <3> QED BY <2>1, <2>2, <2>3, <2>4, <3>1, OthersSet
  <2>5. CASE c.op # "set"
    <3>1. /\ uxEventBits' \subseteq uxEventBits
          /\ UNCHANGED <<groupExists, eventCall, arrived, passed, xTasksWaitingForBits>>
      BY <1>5, <2>5 DEF RunDeferred
    <3>2. SyncCalls(bit)' /\ \A p \in Participants : Meets(p)' <=> Meets(p)
      BY <3>1 DEF MeetingInv, SyncCalls, Meets
    <3> QED BY <2>2, <3>1, <3>2, MeetingKept
  <2> QED BY <2>4, <2>5
<1>6. CASE UNCHANGED eventVars
  BY <1>6, MeetingKept DEF eventVars, MeetingInv, SyncCalls, DeferredCalls, Meets
<1> QED BY <1>1, <1>2, <1>3, <1>4, <1>5, <1>6 DEF EventNext

(* No task leaves a meeting before all have come to it, and none is        *)
(* overtaken by a round, for any number of tasks that meet, whatever       *)
(* others do with the other bits and whether they clear those of the       *)
(* meeting or delete the group.                                            *)
THEOREM MeetingIsHeld ==
  ASSUME NEW CONSTANT bit, MeetingCalls(bit)
  PROVE  EventSpec => []MeetingHeld
<1>1. MeetingInv(bit) => MeetingHeld
  <2> SUFFICES ASSUME MeetingInv(bit), NEW t \in Participants, NEW u \in Participants
               PROVE  (arrived[u] + 4 - passed[t]) % 4 # 3
    BY DEF MeetingHeld
  <2>1. PICK n \in 0 .. 3 : passed[t] = n /\ arrived[u] \in {n, (n + 1) % 4}
    BY DEF MeetingInv, Round
  <2>2. CASE n = 0
    BY <2>1, <2>2
  <2>3. CASE n = 1
    BY <2>1, <2>3
  <2>4. CASE n = 2
    BY <2>1, <2>4
  <2>5. CASE n = 3
    BY <2>1, <2>5
  <2> QED BY <2>2, <2>3, <2>4, <2>5
<1>2. EventInit => EventInv /\ MeetingInv(bit) /\ NoMeetingTimedOut
  BY EventInitInv, MeetingInit DEF EventInit, NoMeetingTimedOut
<1>3. EventInv /\ MeetingInv(bit) /\ NoMeetingTimedOut /\ [EventNext]_eventVars
        => (EventInv /\ MeetingInv(bit) /\ NoMeetingTimedOut)'
  BY EventNextInv, MeetingNext, NoMeetingTimesOut
<1> QED BY <1>1, <1>2, <1>3, PTL DEF EventSpec

(***************************************************************************)
(* The heap.                                                               *)
(***************************************************************************)

(* A set of numbers with every smaller one ends at its cardinality.        *)
LEMMA InitialSegment ==
  ASSUME NEW n \in Nat, NEW S \in SUBSET (1 .. n), \A i \in S : \A j \in 1 .. i : j \in S
  PROVE  Cardinality(S) \in 0 .. n /\ S = 1 .. Cardinality(S)
<1>1. IsFiniteSet(1 .. n) /\ Cardinality(1 .. n) = n
  BY FS_Interval
<1>2. IsFiniteSet(S) /\ Cardinality(S) \in Nat /\ Cardinality(S) <= n
  <2>1. IsFiniteSet(S) /\ Cardinality(S) <= Cardinality(1 .. n)
    BY <1>1, FS_Subset
  <2>2. Cardinality(S) \in Nat
    BY <2>1, FS_CardinalityType
  <2> QED BY <1>1, <2>1, <2>2
<1>3. S \subseteq 1 .. Cardinality(S)
  <2> SUFFICES ASSUME NEW i \in S PROVE i \in 1 .. Cardinality(S)
    OBVIOUS
  <2>1. i \in Nat /\ i > 0 /\ 1 .. i \subseteq S
    OBVIOUS
  <2>2. Cardinality(1 .. i) = i
    BY <2>1, FS_Interval
  <2>3. i <= Cardinality(S)
    BY <1>2, <2>1, <2>2, FS_Subset
  <2> QED BY <1>2, <2>1, <2>3
<1>4. IsFiniteSet(1 .. Cardinality(S)) /\ Cardinality(1 .. Cardinality(S)) = Cardinality(S)
  BY <1>2, FS_Interval
<1>5. Cardinality(S) = Cardinality(1 .. Cardinality(S)) => S = 1 .. Cardinality(S)
  BY <1>3, <1>4, FS_Subset
<1> QED BY <1>2, <1>4, <1>5

(***************************************************************************)
(* Alignment.                                                              *)
(***************************************************************************)
Aligned(n) == n % Alignment = 0

LEMMA AlignedIs ==
  ASSUME NEW n \in Nat
  PROVE  /\ n % Alignment \in 0 .. Alignment - 1
         /\ n \div Alignment \in Nat
         /\ n = (n \div Alignment) * Alignment + (n % Alignment)
  BY HeapAssumption

LEMMA MultipleAligned ==
  ASSUME NEW k \in Nat
  PROVE  k * Alignment \in Nat /\ Aligned(k * Alignment)
<1> DEFINE n == k * Alignment
           q == n \div Alignment
           r == n % Alignment
<1>1. n \in Nat
  BY HeapAssumption
<1>2. r \in 0 .. Alignment - 1 /\ q \in Nat /\ n = q * Alignment + r
  BY <1>1, AlignedIs
<1>3. Alignment \in Nat /\ Alignment > 0
  BY HeapAssumption
<1>4. k * Alignment = q * Alignment + r
  BY <1>2
<1> HIDE DEF q, r
<1>5. r = 0
  <2>1. CASE k > q
    <3>1. k * Alignment >= (q + 1) * Alignment
      BY <2>1, <1>2, <1>3
    <3>2. (q + 1) * Alignment = q * Alignment + Alignment
      BY <1>2, <1>3
    <3> QED BY <3>1, <3>2, <1>2, <1>3, <1>4
  <2>2. CASE k < q
    <3>1. q * Alignment >= (k + 1) * Alignment
      BY <2>2, <1>2, <1>3
    <3>2. (k + 1) * Alignment = k * Alignment + Alignment
      BY <1>3
    <3> QED BY <3>1, <3>2, <1>2, <1>3, <1>4
  <2>3. CASE k = q
    BY <2>3, <1>2, <1>3, <1>4
  <2> QED BY <2>1, <2>2, <2>3, <1>2
<1> QED BY <1>1, <1>5 DEF Aligned, r

LEMMA SumAligned ==
  ASSUME NEW m \in Nat, NEW n \in Nat, Aligned(m), Aligned(n)
  PROVE  /\ Aligned(m + n)
         /\ m >= n => Aligned(m - n)
<1> DEFINE k == m \div Alignment
           l == n \div Alignment
<1>2. Alignment \in Nat /\ Alignment > 0
  BY HeapAssumption
<1>1. k \in Nat /\ l \in Nat /\ m = k * Alignment /\ n = l * Alignment
  <2>1. k \in Nat /\ m = k * Alignment + (m % Alignment) /\ m % Alignment = 0
    BY AlignedIs DEF Aligned
  <2>2. l \in Nat /\ n = l * Alignment + (n % Alignment) /\ n % Alignment = 0
    BY AlignedIs DEF Aligned
  <2> HIDE DEF k, l
  <2> QED BY <1>2, <2>1, <2>2
<1> HIDE DEF k, l
<1>3. m + n = (k + l) * Alignment
  BY <1>1, <1>2
<1>4. Aligned(m + n)
  BY <1>1, <1>3, MultipleAligned
<1>5. ASSUME m >= n PROVE Aligned(m - n)
  <2>1. k >= l
    BY <1>1, <1>2, <1>5
  <2>2. m - n = (k - l) * Alignment /\ k - l \in Nat
    BY <1>1, <1>2, <2>1
  <2> QED BY <2>2, MultipleAligned
<1> QED BY <1>4, <1>5

LEMMA WantedFits ==
  ASSUME NEW n \in Nat, 0 < WantedSize(n)
  PROVE  WantedSize(n) \in Nat /\ Aligned(WantedSize(n)) /\ WantedSize(n) >= StructSize
<1> DEFINE m == n + StructSize + Alignment - 1
<1>1. n > 0
  BY DEF WantedSize
<1>2. WantedSize(n) = (m \div Alignment) * Alignment
  BY <1>1 DEF WantedSize
<1>3. m \in Nat /\ m >= StructSize + Alignment
  BY <1>1, HeapAssumption
<1> HIDE DEF m
<1>4. m \div Alignment \in Nat /\ m % Alignment \in 0 .. Alignment - 1
      /\ m = (m \div Alignment) * Alignment + (m % Alignment)
  BY <1>3, AlignedIs
<1> DEFINE q == m \div Alignment
           r == m % Alignment
<1> HIDE DEF q, r
<1>5. q \in Nat /\ r \in 0 .. Alignment - 1 /\ m = q * Alignment + r /\ WantedSize(n) = q * Alignment
  BY <1>2, <1>4 DEF q, r
<1> QED BY <1>3, <1>5, MultipleAligned, HeapAssumption

(***************************************************************************)
(* Blocks and lists of them.                                               *)
(***************************************************************************)
Good(b) == /\ Aligned(b.addr) /\ Aligned(b.size)
           /\ b.size >= StructSize /\ b.addr + b.size <= HeapBytes

GoodBlock == {b \in HeapBlock : Good(b)}

(* In the order of the addresses, and no two touch.                        *)
InOrder(L) == \A i, j \in 1 .. Len(L) : i < j => L[i].addr + L[i].size < L[j].addr

Members(L) == {L[i] : i \in 1 .. Len(L)}

LEMMA GoodSizes ==
  ASSUME NEW b \in GoodBlock
  PROVE  b.addr \in Nat /\ b.size \in Nat /\ b.size > 0
  BY HeapAssumption DEF GoodBlock, Good, HeapBlock

LEMMA ApartIsDisjoint ==
  ASSUME NEW b \in GoodBlock, NEW c \in GoodBlock, Apart(b, c)
  PROVE  Apart(c, b) /\ Bytes(b) \cap Bytes(c) = {} /\ b # c
<1>1. b.addr \in Nat /\ b.size \in Nat /\ b.size > 0 /\ c.addr \in Nat /\ c.size \in Nat /\ c.size > 0
  BY GoodSizes
<1> QED BY <1>1 DEF Apart, Bytes

(* Of two blocks that are apart and do not touch, one ends before the other. *)
LEMMA ApartInOrder ==
  ASSUME NEW b \in GoodBlock, NEW c \in GoodBlock, Apart(b, c),
         ~(c.addr < b.addr), b.addr + b.size # c.addr
  PROVE  b.addr + b.size < c.addr
<1>1. b.addr \in Nat /\ b.size \in Nat /\ c.addr \in Nat /\ c.size \in Nat /\ c.size > 0
  BY GoodSizes
<1>2. b.addr + b.size <= c.addr \/ c.addr + c.size <= b.addr
  BY DEF Apart
<1> QED BY <1>1, <1>2

LEMMA JoinedBlocks ==
  ASSUME NEW b \in GoodBlock, NEW c \in GoodBlock, Touches(b, c)
  PROVE  /\ Joined(b, c) \in GoodBlock
         /\ Joined(b, c).addr = b.addr /\ Joined(b, c).addr + Joined(b, c).size = c.addr + c.size
         /\ Bytes(Joined(b, c)) = Bytes(b) \cup Bytes(c)
         /\ \A d \in GoodBlock : Apart(d, b) /\ Apart(d, c) => Apart(d, Joined(b, c))
<1> DEFINE m == Joined(b, c)
<1>1. m = [addr |-> b.addr, size |-> b.size + c.size] /\ b.addr + b.size = c.addr
  BY DEF Joined, Block, Touches
<1>2. b.addr \in Nat /\ b.size \in Nat /\ b.size > 0 /\ c.addr \in Nat /\ c.size \in Nat /\ c.size > 0
  BY GoodSizes
<1>3. m \in HeapBlock /\ m.addr = b.addr /\ m.size = b.size + c.size
  BY <1>1, <1>2 DEF HeapBlock
<1> HIDE DEF m
<1>4. Good(b) /\ Good(c)
  BY DEF GoodBlock
<1>5. Aligned(b.size + c.size)
  BY <1>2, <1>4, SumAligned DEF Good
<1>6. m \in GoodBlock
  BY <1>1, <1>2, <1>3, <1>4, <1>5, HeapAssumption DEF GoodBlock, Good
<1>7. Bytes(m) = Bytes(b) \cup Bytes(c)
  BY <1>1, <1>2, <1>3 DEF Bytes
<1>8. \A d \in GoodBlock : Apart(d, b) /\ Apart(d, c) => Apart(d, m)
  <2> SUFFICES ASSUME NEW d \in GoodBlock, Apart(d, b), Apart(d, c) PROVE Apart(d, m)
    OBVIOUS
  <2>1. d.addr \in Nat /\ d.size \in Nat /\ d.size > 0
    BY GoodSizes
  <2> QED BY <1>1, <1>2, <1>3, <2>1 DEF Apart
<1> QED BY <1>1, <1>2, <1>3, <1>6, <1>7, <1>8 DEF m

(* R is L with its elements from p + 1 up to q - 1 replaced by m.          *)
IsSplice(R, L, p, m, q) ==
  /\ R \in Seq(GoodBlock) /\ Len(R) = p + 1 + Len(L) + 1 - q
  /\ \A j \in 1 .. p : R[j] = L[j]
  /\ R[p + 1] = m
  /\ \A j \in p + 2 .. Len(R) : R[j] = L[(j + q) - (p + 2)]

LEMMA Concatenation ==
  ASSUME NEW S, NEW C \in Seq(S), NEW B \in Seq(S)
  PROVE  /\ C \o B \in Seq(S) /\ Len(C) \in Nat /\ Len(B) \in Nat
         /\ Len(C \o B) = Len(C) + Len(B)
         /\ \A j \in 1 .. Len(C) : (C \o B)[j] = C[j]
         /\ \A j \in Len(C) + 1 .. Len(C) + Len(B) : (C \o B)[j] = B[j - Len(C)]
  OBVIOUS

LEMMA Splices ==
  ASSUME NEW L \in Seq(GoodBlock), NEW p \in 0 .. Len(L), NEW q \in p + 1 .. Len(L) + 1,
         NEW m \in GoodBlock, NEW A \in Seq(GoodBlock), NEW B \in Seq(GoodBlock),
         Len(A) = p, \A j \in 1 .. p : A[j] = L[j],
         Len(B) = Len(L) + 1 - q, \A j \in 1 .. Len(B) : B[j] = L[(j + q) - 1]
  PROVE  IsSplice(A \o <<m>> \o B, L, p, m, q)
<1> DEFINE C == A \o <<m>>
           R == C \o B
<1>1. C \in Seq(GoodBlock) /\ Len(C) = p + 1 /\ C[p + 1] = m /\ \A j \in 1 .. p : C[j] = L[j]
  OBVIOUS
<1> HIDE DEF C
<1>2. R \in Seq(GoodBlock) /\ Len(R) = p + 1 + Len(B)
      /\ (\A j \in 1 .. p + 1 : R[j] = C[j]) /\ \A j \in p + 2 .. Len(R) : R[j] = B[j - (p + 1)]
  <2>1. R \in Seq(GoodBlock) /\ Len(R) = Len(C) + Len(B) /\ Len(C) \in Nat /\ Len(B) \in Nat
    BY <1>1, Concatenation
  <2>2. \A j \in 1 .. Len(C) : R[j] = C[j]
    BY <1>1
  <2>3. \A j \in Len(C) + 1 .. Len(C) + Len(B) : R[j] = B[j - Len(C)]
    BY <1>1
  <2> HIDE DEF R
  <2>4. /\ p \in Nat /\ Len(R) = p + 1 + Len(B)
        /\ (Len(C) + 1 .. Len(C) + Len(B)) = (p + 2 .. Len(R)) /\ (1 .. Len(C)) = (1 .. p + 1)
    BY <1>1, <2>1
  <2>5. \A j \in p + 2 .. Len(R) : R[j] = B[j - (p + 1)]
    BY <1>1, <2>3, <2>4
  <2> QED BY <2>1, <2>2, <2>4, <2>5
<1> HIDE DEF R
<1>3. \A j \in p + 2 .. Len(R) : R[j] = L[(j + q) - (p + 2)]
  <2> TAKE j \in p + 2 .. Len(R)
  <2>1. j - (p + 1) \in 1 .. Len(B)
    <3>1. Len(R) = (p + 1) + Len(B) /\ Len(B) \in Nat
      BY <1>1, <1>2
    <3> QED BY <3>1
  <2>2. B[j - (p + 1)] = L[((j - (p + 1)) + q) - 1]
    BY <2>1
  <2>3. ((j - (p + 1)) + q) - 1 = (j + q) - (p + 2)
    OBVIOUS
  <2> QED BY <1>2, <2>2, <2>3
<1>4. IsSplice(R, L, p, m, q)
  BY <1>1, <1>2, <1>3 DEF IsSplice
<1> QED BY <1>4 DEF R, C

LEMMA SpliceMembers ==
  ASSUME NEW L \in Seq(GoodBlock), NEW p \in 0 .. Len(L), NEW q \in p + 1 .. Len(L) + 1,
         NEW m, NEW R, IsSplice(R, L, p, m, q)
  PROVE  Members(R) = {L[i] : i \in 1 .. p} \cup {m} \cup {L[i] : i \in q .. Len(L)}
<1>1. Len(L) \in Nat /\ Len(R) = p + 1 + Len(L) + 1 - q /\ Len(R) \in Nat
  BY DEF IsSplice
<1>2. \A j \in 1 .. Len(R) : \/ j \in 1 .. p /\ R[j] = L[j]
                             \/ R[j] = m
                             \/ (j + q) - (p + 2) \in q .. Len(L) /\ R[j] = L[(j + q) - (p + 2)]
  BY <1>1 DEF IsSplice
<1>3. \A i \in 1 .. p : i \in 1 .. Len(R) /\ R[i] = L[i]
  BY <1>1 DEF IsSplice
<1>4. p + 1 \in 1 .. Len(R) /\ R[p + 1] = m
  BY <1>1 DEF IsSplice
<1>5. \A i \in q .. Len(L) : \E j \in 1 .. Len(R) : R[j] = L[i]
  <2> TAKE i \in q .. Len(L)
  <2> DEFINE j == (i + p + 2) - q
  <2>1. j \in p + 2 .. Len(R) /\ j \in 1 .. Len(R) /\ (j + q) - (p + 2) = i
    BY <1>1
  <2>2. R[j] = L[(j + q) - (p + 2)]
    BY <2>1 DEF IsSplice
  <2> HIDE DEF j
  <2> QED BY <2>1, <2>2
<1> DEFINE M == {L[i] : i \in 1 .. p} \cup {m} \cup {L[i] : i \in q .. Len(L)}
<1>6. \A j \in 1 .. Len(R) : R[j] \in M
  <2> SUFFICES ASSUME NEW j \in 1 .. Len(R) PROVE R[j] \in M
    OBVIOUS
  <2>1. CASE j \in 1 .. p /\ R[j] = L[j]
    BY <2>1
  <2>2. CASE R[j] = m
    BY <2>2
  <2>3. CASE (j + q) - (p + 2) \in q .. Len(L) /\ R[j] = L[(j + q) - (p + 2)]
    BY <2>3
  <2> QED BY <1>2, <2>1, <2>2, <2>3
<1>7. \A x \in M : \E j \in 1 .. Len(R) : R[j] = x
  BY <1>3, <1>4, <1>5
<1>8. Members(R) \subseteq M
  BY <1>6 DEF Members
<1>9. M \subseteq Members(R)
  BY <1>7 DEF Members
<1> QED BY <1>8, <1>9

LEMMA SpliceInOrder ==
  ASSUME NEW L \in Seq(GoodBlock), NEW p \in 0 .. Len(L), NEW q \in p + 1 .. Len(L) + 1,
         NEW m \in GoodBlock, NEW R, IsSplice(R, L, p, m, q), InOrder(L),
         \A i \in 1 .. p : L[i].addr + L[i].size < m.addr,
         \A i \in q .. Len(L) : m.addr + m.size < L[i].addr
  PROVE  InOrder(R)
<1>1. Len(L) \in Nat /\ Len(R) = p + 1 + Len(L) + 1 - q /\ Len(R) \in Nat
  BY DEF IsSplice
<1> SUFFICES ASSUME NEW i \in 1 .. Len(R), NEW j \in 1 .. Len(R), i < j
             PROVE  R[i].addr + R[i].size < R[j].addr
  BY DEF InOrder
<1> DEFINE x(k) == (k + q) - (p + 2)
<1>2. CASE j <= p
  <2>1. R[i] = L[i] /\ R[j] = L[j] /\ i \in 1 .. Len(L) /\ j \in 1 .. Len(L)
    BY <1>1, <1>2 DEF IsSplice
  <2> QED BY <2>1 DEF InOrder
<1>3. CASE j = p + 1
  <2>1. R[i] = L[i] /\ i \in 1 .. p /\ R[j] = m
    BY <1>1, <1>3 DEF IsSplice
  <2> QED BY <2>1
<1>4. CASE j > p + 1 /\ i <= p
  <2>1. R[i] = L[i] /\ i \in 1 .. Len(L) /\ R[j] = L[x(j)] /\ x(j) \in 1 .. Len(L) /\ i < x(j)
    BY <1>1, <1>4 DEF IsSplice
  <2> QED BY <2>1 DEF InOrder
<1>5. CASE i = p + 1
  <2>1. R[i] = m
    BY <1>5 DEF IsSplice
  <2>2. j \in p + 2 .. Len(R)
    BY <1>1, <1>5
  <2>3. R[j] = L[x(j)]
    BY <2>2 DEF IsSplice
  <2>4. x(j) \in q .. Len(L)
    BY <1>1, <2>2
  <2> HIDE DEF x
  <2> QED BY <2>1, <2>3, <2>4
<1>6. CASE i > p + 1
  <2>1. R[i] = L[x(i)] /\ x(i) \in 1 .. Len(L) /\ R[j] = L[x(j)] /\ x(j) \in 1 .. Len(L) /\ x(i) < x(j)
    BY <1>1, <1>6 DEF IsSplice
  <2> HIDE DEF x
  <2> QED BY <2>1 DEF InOrder
<1>7. j <= p \/ j = p + 1 \/ (j > p + 1 /\ i <= p) \/ i = p + 1 \/ i > p + 1
  BY <1>1
<1> QED BY <1>2, <1>3, <1>4, <1>5, <1>6, <1>7

(* What prvInsertBlockIntoFreeList does: the block, joined with those it   *)
(* touches, takes their place.                                             *)
LEMMA InsertShape ==
  ASSUME NEW L \in Seq(GoodBlock), InOrder(L), NEW b \in GoodBlock,
         \A i \in 1 .. Len(L) : Apart(L[i], b)
  PROVE  \E p \in 0 .. Len(L) : \E q \in p + 1 .. Len(L) + 1 : \E m \in GoodBlock :
           /\ IsSplice(InsertBlock(L, b), L, p, m, q)
           /\ \A i \in 1 .. p : L[i].addr + L[i].size < m.addr
           /\ \A i \in q .. Len(L) : m.addr + m.size < L[i].addr
           /\ Bytes(m) = Bytes(b) \cup UNION {Bytes(L[i]) : i \in p + 1 .. q - 1}
           /\ \A d \in GoodBlock : Apart(d, b) /\ (\A i \in 1 .. Len(L) : Apart(d, L[i])) => Apart(d, m)
<1> DEFINE n == Len(L)
           S == {i \in 1 .. Len(L) : L[i].addr < b.addr}
           k == Cardinality(S)
           prev == SubSeq(L, 1, k)
           next == SubSeq(L, k + 1, Len(L))
           below == k > 0 /\ Touches(prev[k], b)
           b1 == IF below THEN Joined(prev[k], b) ELSE b
           above == next # <<>> /\ Touches(b1, Head(next))
           b2 == IF above THEN Joined(b1, Head(next)) ELSE b1
           A == IF below THEN SubSeq(prev, 1, k - 1) ELSE prev
           B == IF above THEN Tail(next) ELSE next
           p == IF below THEN k - 1 ELSE k
           q == IF above THEN k + 2 ELSE k + 1
<1>0. InsertBlock(L, b) = A \o <<b2>> \o B
  BY DEF InsertBlock
<1>n. /\ n \in Nat
      /\ \A i \in 1 .. n : /\ L[i] \in GoodBlock /\ L[i].addr \in Nat /\ L[i].size \in Nat /\ L[i].size > 0
      /\ b.addr \in Nat /\ b.size \in Nat /\ b.size > 0
  BY GoodSizes
<1>1. k \in 0 .. n /\ \A i \in 1 .. n : i <= k <=> L[i].addr < b.addr
  <2>1. S \in SUBSET (1 .. n) /\ \A i \in S : \A j \in 1 .. i : j \in S
    <3> SUFFICES ASSUME NEW i \in S, NEW j \in 1 .. i PROVE j \in S
      BY <1>n
    <3>1. i \in 1 .. n /\ j \in 1 .. n /\ L[i].addr < b.addr /\ (j < i \/ j = i)
      BY <1>n
    <3>2. j < i => L[j].addr + L[j].size < L[i].addr
      BY <3>1 DEF InOrder
    <3>3. L[j].addr < b.addr
      BY <1>n, <3>1, <3>2
    <3> QED BY <3>1, <3>3
  <2>2. k \in 0 .. n /\ S = 1 .. k
    BY <1>n, <2>1, InitialSegment
  <2> QED BY <2>2
<1> HIDE DEF S, k, n
<1> USE DEF n
<1>2. prev \in Seq(GoodBlock) /\ Len(prev) = k /\ \A j \in 1 .. k : prev[j] = L[j]
  BY <1>1, <1>n
<1>3. next \in Seq(GoodBlock) /\ Len(next) = n - k /\ \A j \in 1 .. n - k : next[j] = L[k + j]
  BY <1>1, <1>n
<1> HIDE DEF prev, next
<1>4. next # <<>> => k + 1 \in 1 .. n /\ Head(next) = L[k + 1]
                     /\ Tail(next) \in Seq(GoodBlock) /\ Len(Tail(next)) = n - k - 1
                     /\ \A j \in 1 .. n - k - 1 : Tail(next)[j] = L[k + 1 + j]
  <2> SUFFICES ASSUME next # <<>>
               PROVE  k + 1 \in 1 .. n /\ Head(next) = L[k + 1]
                     /\ Tail(next) \in Seq(GoodBlock) /\ Len(Tail(next)) = n - k - 1
                     /\ \A j \in 1 .. n - k - 1 : Tail(next)[j] = L[k + 1 + j]
    OBVIOUS
  <2>1. n - k > 0 /\ n - k \in Nat
    BY <1>1, <1>3, <1>n
  <2>2. Head(next) = next[1] /\ Tail(next) \in Seq(GoodBlock) /\ Len(Tail(next)) = n - k - 1
        /\ \A j \in 1 .. n - k - 1 : Tail(next)[j] = next[j + 1]
    BY <1>3, <2>1
  <2>3. \A j \in 1 .. n - k - 1 : j + 1 \in 1 .. n - k /\ k + (j + 1) = k + 1 + j
    BY <1>1, <1>n
  <2> QED BY <1>1, <1>3, <1>n, <2>1, <2>2, <2>3
<1>5. /\ below => k \in 1 .. n /\ prev[k] = L[k] /\ L[k].addr + L[k].size = b.addr
      /\ ~below /\ k > 0 => L[k].addr + L[k].size # b.addr
  BY <1>1, <1>2 DEF Touches
<1>6. /\ b1 \in GoodBlock /\ b1.addr + b1.size = b.addr + b.size
      /\ b1.addr = IF below THEN L[k].addr ELSE b.addr
      /\ Bytes(b1) = Bytes(b) \cup (IF below THEN Bytes(L[k]) ELSE {})
      /\ \A d \in GoodBlock : Apart(d, b) /\ (\A i \in 1 .. n : Apart(d, L[i])) => Apart(d, b1)
  <2>1. CASE below
    <3>1. prev[k] = L[k] /\ k \in 1 .. n /\ L[k] \in GoodBlock /\ Touches(L[k], b) /\ b1 = Joined(L[k], b)
      BY <1>5, <1>n, <2>1
    <3> HIDE DEF b1, below
    <3>2. /\ b1 \in GoodBlock /\ b1.addr = L[k].addr /\ b1.addr + b1.size = b.addr + b.size
          /\ Bytes(b1) = Bytes(L[k]) \cup Bytes(b)
          /\ \A d \in GoodBlock : Apart(d, L[k]) /\ Apart(d, b) => Apart(d, b1)
      BY <3>1, JoinedBlocks
    <3> QED BY <2>1, <3>1, <3>2
  <2>2. CASE ~below
    BY <2>2
  <2> QED BY <2>1, <2>2
<1> HIDE DEF b1, below
<1>7. /\ above => k + 1 \in 1 .. n /\ Head(next) = L[k + 1] /\ b1.addr + b1.size = L[k + 1].addr
      /\ ~above /\ k < n => b1.addr + b1.size # L[k + 1].addr
  <2>1. k < n => next # <<>>
    BY <1>1, <1>3, <1>n
  <2> QED BY <1>4, <2>1 DEF Touches
<1>8. /\ b2 \in GoodBlock /\ b2.addr = b1.addr
      /\ b2.addr + b2.size = IF above THEN L[k + 1].addr + L[k + 1].size ELSE b.addr + b.size
      /\ Bytes(b2) = Bytes(b1) \cup (IF above THEN Bytes(L[k + 1]) ELSE {})
      /\ \A d \in GoodBlock : Apart(d, b1) /\ (\A i \in 1 .. n : Apart(d, L[i])) => Apart(d, b2)
  <2>1. CASE above
    <3>1. Head(next) = L[k + 1] /\ k + 1 \in 1 .. n /\ L[k + 1] \in GoodBlock
          /\ Touches(b1, L[k + 1]) /\ b2 = Joined(b1, L[k + 1])
      BY <1>7, <1>n, <2>1
    <3> HIDE DEF b2, above
    <3>2. /\ b2 \in GoodBlock /\ b2.addr = b1.addr /\ b2.addr + b2.size = L[k + 1].addr + L[k + 1].size
          /\ Bytes(b2) = Bytes(b1) \cup Bytes(L[k + 1])
          /\ \A d \in GoodBlock : Apart(d, b1) /\ Apart(d, L[k + 1]) => Apart(d, b2)
      BY <1>6, <3>1, JoinedBlocks
    <3> QED BY <2>1, <3>1, <3>2
  <2>2. CASE ~above
    BY <1>6, <2>2
  <2> QED BY <2>1, <2>2
<1>9. p \in 0 .. n /\ q \in p + 1 .. n + 1
  BY <1>1, <1>5, <1>7, <1>n
<1>10. A \in Seq(GoodBlock) /\ Len(A) = p /\ \A j \in 1 .. p : A[j] = L[j]
  <2>1. CASE below
    <3>1. k \in 1 .. n
      BY <1>5, <2>1
    <3> QED BY <1>2, <2>1, <3>1
  <2>2. CASE ~below
    BY <1>2, <2>2
  <2> QED BY <2>1, <2>2
<1>11. B \in Seq(GoodBlock) /\ Len(B) = n + 1 - q /\ \A j \in 1 .. Len(B) : B[j] = L[(j + q) - 1]
  <2>1. CASE above
    <3>1. next # <<>> /\ B = Tail(next) /\ q = k + 2
      BY <2>1
    <3>2. Len(B) = n - k - 1 /\ n - k - 1 = n + 1 - q
      BY <1>1, <1>4, <1>n, <3>1
    <3>3. \A j \in 1 .. Len(B) : B[j] = L[k + 1 + j] /\ k + 1 + j = (j + q) - 1
      BY <1>1, <1>4, <1>n, <3>1, <3>2
    <3> QED BY <1>4, <3>1, <3>2, <3>3
  <2>2. CASE ~above
    <3>1. B = next /\ q = k + 1
      BY <2>2
    <3>2. Len(B) = n - k /\ n - k = n + 1 - q /\ B \in Seq(GoodBlock)
      BY <1>1, <1>3, <1>n, <3>1
    <3>3. \A j \in 1 .. Len(B) : B[j] = L[k + j]
      BY <1>3, <3>1, <3>2
    <3>4. \A j \in 1 .. Len(B) : k + j = (j + q) - 1
      BY <1>1, <1>n, <3>1, <3>2
    <3> QED BY <3>2, <3>3, <3>4
  <2> QED BY <2>1, <2>2
<1>12. \A i \in 1 .. p : L[i].addr + L[i].size < b2.addr
  <2> SUFFICES ASSUME NEW i \in 1 .. p PROVE L[i].addr + L[i].size < b2.addr
    OBVIOUS
  <2>0. i \in 1 .. n
    BY <1>9, <1>n
  <2>1. CASE below
    <3>1. b2.addr = L[k].addr /\ i < k /\ k \in 1 .. n
      BY <1>5, <1>6, <1>8, <2>1
    <3> QED BY <2>0, <3>1 DEF InOrder
  <2>2. CASE ~below
    <3>1. b2.addr = b.addr /\ i <= k /\ k \in 1 .. n
      BY <1>1, <1>6, <1>8, <2>2
    <3>2. L[k].addr < b.addr /\ Apart(L[k], b) /\ L[k].addr + L[k].size # b.addr
      BY <1>1, <1>5, <2>2, <3>1
    <3>3. L[k].addr + L[k].size < b.addr
      <4>1. L[k] \in GoodBlock
        BY <1>n, <3>1
      <4>2. L[k].addr \in Nat /\ b.addr \in Nat
        BY <4>1, GoodSizes
      <4>3. ~(b.addr < L[k].addr)
        BY <3>2, <4>2
      <4> QED BY <3>2, <4>1, <4>3, ApartInOrder
    <3>4. i < k => L[i].addr + L[i].size < L[k].addr
      BY <2>0, <3>1 DEF InOrder
    <3>5. L[i].addr + L[i].size < b.addr
      BY <1>n, <2>0, <3>1, <3>2, <3>3, <3>4
    <3> QED BY <3>1, <3>5
  <2> QED BY <2>1, <2>2
<1>13. \A i \in q .. n : b2.addr + b2.size < L[i].addr
  <2> SUFFICES ASSUME NEW i \in q .. n PROVE b2.addr + b2.size < L[i].addr
    OBVIOUS
  <2>0. i \in 1 .. n
    BY <1>9, <1>n
  <2>1. CASE above
    <3>1. b2.addr + b2.size = L[k + 1].addr + L[k + 1].size /\ k + 1 < i /\ k + 1 \in 1 .. n
      BY <1>1, <1>7, <1>8, <2>1
    <3> QED BY <2>0, <3>1 DEF InOrder
  <2>2. CASE ~above
    <3>1. b2.addr + b2.size = b.addr + b.size /\ k + 1 <= i /\ k + 1 \in 1 .. n /\ k < n
      BY <1>1, <1>8, <1>n, <2>2
    <3>2. ~(L[k + 1].addr < b.addr) /\ Apart(L[k + 1], b) /\ b.addr + b.size # L[k + 1].addr
      BY <1>1, <1>6, <1>7, <2>2, <3>1
    <3>3. b.addr + b.size < L[k + 1].addr
      <4>1. L[k + 1] \in GoodBlock /\ Apart(b, L[k + 1])
        BY <1>n, <3>1, <3>2, ApartIsDisjoint
      <4> QED BY <3>2, <4>1, ApartInOrder
    <3>4. k + 1 < i => L[k + 1].addr + L[k + 1].size < L[i].addr
      BY <2>0, <3>1 DEF InOrder
    <3>5. b.addr + b.size < L[i].addr
      BY <1>n, <2>0, <3>1, <3>3, <3>4
    <3> QED BY <3>1, <3>5
  <2> QED BY <2>1, <2>2
<1>14. Bytes(b2) = Bytes(b) \cup UNION {Bytes(L[i]) : i \in p + 1 .. q - 1}
  <2>1. \A i : i \in p + 1 .. q - 1 <=> (below /\ i = k) \/ (above /\ i = k + 1)
    BY <1>1, <1>n
  <2> QED BY <1>6, <1>8, <2>1
<1> HIDE DEF A, B, b2, p, q, above
<1>15. IsSplice(InsertBlock(L, b), L, p, b2, q)
  BY <1>0, <1>8, <1>9, <1>10, <1>11, Splices
<1>16. \A d \in GoodBlock : Apart(d, b) /\ (\A i \in 1 .. n : Apart(d, L[i])) => Apart(d, b2)
  BY <1>6, <1>8
<1> QED BY <1>8, <1>9, <1>12, <1>13, <1>14, <1>15, <1>16

LEMMA InsertKeeps ==
  ASSUME NEW L \in Seq(GoodBlock), InOrder(L), NEW b \in GoodBlock,
         \A i \in 1 .. Len(L) : Apart(L[i], b)
  PROVE  /\ InsertBlock(L, b) \in Seq(GoodBlock) /\ InOrder(InsertBlock(L, b))
         /\ BytesOf(Members(InsertBlock(L, b))) = BytesOf(Members(L)) \cup Bytes(b)
         /\ \A d \in GoodBlock : Apart(d, b) /\ (\A c \in Members(L) : Apart(d, c)) =>
              \A c \in Members(InsertBlock(L, b)) : Apart(d, c)
<1> DEFINE R == InsertBlock(L, b)
<1> DEFINE Shape(p, q, m) ==
           /\ IsSplice(R, L, p, m, q)
           /\ \A i \in 1 .. p : L[i].addr + L[i].size < m.addr
           /\ \A i \in q .. Len(L) : m.addr + m.size < L[i].addr
           /\ Bytes(m) = Bytes(b) \cup UNION {Bytes(L[i]) : i \in p + 1 .. q - 1}
           /\ \A d \in GoodBlock : Apart(d, b) /\ (\A i \in 1 .. Len(L) : Apart(d, L[i])) => Apart(d, m)
<1>a. PICK p \in 0 .. Len(L) : \E q \in p + 1 .. Len(L) + 1 : \E m \in GoodBlock : Shape(p, q, m)
  BY InsertShape
<1>b. PICK q \in p + 1 .. Len(L) + 1 : \E m \in GoodBlock : Shape(p, q, m)
  BY <1>a
<1>1. PICK m \in GoodBlock : Shape(p, q, m)
  BY <1>b
<1> HIDE DEF R
<1>2. R \in Seq(GoodBlock) /\ InOrder(R)
  <2>1. InOrder(R)
    BY <1>1, SpliceInOrder
  <2> QED BY <1>1, <2>1 DEF IsSplice
<1>3. Members(R) = {L[i] : i \in 1 .. p} \cup {m} \cup {L[i] : i \in q .. Len(L)}
  BY <1>1, SpliceMembers
<1>4. \A i : i \in 1 .. Len(L) <=> i \in 1 .. p \/ i \in p + 1 .. q - 1 \/ i \in q .. Len(L)
  <2>1. Len(L) \in Nat
    OBVIOUS
  <2> QED BY <2>1
<1>5. BytesOf(Members(R)) = BytesOf(Members(L)) \cup Bytes(b)
  <2>1. \A x : x \in BytesOf(Members(L)) <=> \E i \in 1 .. Len(L) : x \in Bytes(L[i])
    BY DEF BytesOf, Members
  <2>2. \A x : x \in BytesOf(Members(R)) <=>
           \/ \E i \in 1 .. p : x \in Bytes(L[i])
           \/ x \in Bytes(m)
           \/ \E i \in q .. Len(L) : x \in Bytes(L[i])
    BY <1>3 DEF BytesOf
  <2>3. \A x : x \in Bytes(m) <=> x \in Bytes(b) \/ \E i \in p + 1 .. q - 1 : x \in Bytes(L[i])
    BY <1>1
  <2>4. \A x : x \in BytesOf(Members(R)) <=> x \in BytesOf(Members(L)) \/ x \in Bytes(b)
    BY <1>4, <2>1, <2>2, <2>3
  <2> QED BY <2>4
<1>6. ASSUME NEW d \in GoodBlock, Apart(d, b), \A c \in Members(L) : Apart(d, c), NEW c \in Members(R)
      PROVE  Apart(d, c)
  <2>1. \A i \in 1 .. Len(L) : Apart(d, L[i])
    BY <1>6 DEF Members
  <2>2. c = m \/ \E i \in 1 .. Len(L) : c = L[i]
    BY <1>3, <1>4
  <2> QED BY <1>1, <1>6, <2>1, <2>2
<1> QED BY <1>2, <1>5, <1>6 DEF R

(* A list without one of its blocks.                                       *)
LEMMA WithoutKeeps ==
  ASSUME NEW L \in Seq(GoodBlock), InOrder(L), NEW i \in 1 .. Len(L)
  PROVE  /\ WithoutIndex(L, i) \in Seq(GoodBlock) /\ InOrder(WithoutIndex(L, i))
         /\ Members(WithoutIndex(L, i)) = {L[j] : j \in (1 .. Len(L)) \ {i}}
<1> DEFINE n == Len(L)
           A == SubSeq(L, 1, i - 1)
           B == SubSeq(L, i + 1, n)
           W == A \o B
<1>1. n \in Nat /\ i \in Nat /\ i > 0 /\ i <= n
  OBVIOUS
<1>2. A \in Seq(GoodBlock) /\ Len(A) = i - 1 /\ \A j \in 1 .. i - 1 : A[j] = L[j]
  BY <1>1
<1>3. B \in Seq(GoodBlock) /\ Len(B) = n - i /\ \A j \in 1 .. n - i : B[j] = L[i + j]
  BY <1>1
<1>4. /\ W \in Seq(GoodBlock) /\ Len(W) = Len(A) + Len(B)
      /\ \A j \in 1 .. Len(A) : W[j] = A[j]
      /\ \A j \in Len(A) + 1 .. Len(A) + Len(B) : W[j] = B[j - Len(A)]
  <2> HIDE DEF A, B
  <2>1. A \in Seq(GoodBlock) /\ B \in Seq(GoodBlock)
    BY <1>2, <1>3
  <2> QED BY <2>1, Concatenation
<1>5. WithoutIndex(L, i) = W
  BY DEF WithoutIndex
<1> DEFINE x(j) == IF j < i THEN j ELSE j + 1
<1> HIDE DEF W, A, B
<1>6. Len(W) = n - 1 /\ \A j \in 1 .. n - 1 : x(j) \in (1 .. n) \ {i} /\ W[j] = L[x(j)]
  <2>1. Len(W) = n - 1
    BY <1>1, <1>2, <1>3, <1>4
  <2>2. ASSUME NEW j \in 1 .. n - 1 PROVE x(j) \in (1 .. n) \ {i} /\ W[j] = L[x(j)]
    <3>1. CASE j < i
      BY <1>1, <1>2, <1>4, <2>2, <3>1
    <3>2. CASE ~(j < i)
      <4>1. j \in Len(A) + 1 .. Len(A) + Len(B) /\ j - Len(A) \in 1 .. n - i /\ i + (j - Len(A)) = j + 1
        BY <1>1, <1>2, <1>3, <2>2, <3>2
      <4>2. W[j] = L[j + 1]
        BY <1>3, <1>4, <4>1
      <4> QED BY <1>1, <2>2, <3>2, <4>2
    <3> QED BY <3>1, <3>2
  <2> QED BY <2>1, <2>2
<1>7. InOrder(W)
  <2> SUFFICES ASSUME NEW j \in 1 .. n - 1, NEW k \in 1 .. n - 1, j < k
               PROVE  W[j].addr + W[j].size < W[k].addr
    BY <1>6 DEF InOrder
  <2>1. x(j) < x(k) /\ x(j) \in 1 .. n /\ x(k) \in 1 .. n
    BY <1>1, <1>6
  <2> HIDE DEF x
  <2> QED BY <1>6, <2>1 DEF InOrder
<1>8. Members(W) = {L[j] : j \in (1 .. n) \ {i}}
  <2>1. \A j \in (1 .. n) \ {i} : \E k \in 1 .. n - 1 : x(k) = j
    <3> SUFFICES ASSUME NEW j \in (1 .. n) \ {i} PROVE \E k \in 1 .. n - 1 : x(k) = j
      OBVIOUS
    <3>1. CASE j < i
      BY <1>1, <3>1
    <3>2. CASE j > i
      <4>1. j - 1 \in 1 .. n - 1 /\ x(j - 1) = j
        BY <1>1, <3>2
      <4> QED BY <4>1
    <3> QED BY <1>1, <3>1, <3>2
  <2> HIDE DEF x
  <2>2. \A y : (\E k \in 1 .. n - 1 : y = W[k]) <=> \E j \in (1 .. n) \ {i} : y = L[j]
    BY <1>6, <2>1
  <2>3. \A y : y \in Members(W) <=> \E k \in 1 .. n - 1 : y = W[k]
    BY <1>6 DEF Members
  <2> QED BY <2>2, <2>3
<1> QED BY <1>4, <1>5, <1>7, <1>8

(***************************************************************************)
(* The free blocks and those in use.                                       *)
(***************************************************************************)
Partition(L, used) ==
  /\ L \in Seq(GoodBlock) /\ InOrder(L) /\ used \subseteq GoodBlock
  /\ \A b, c \in used : b = c \/ Apart(b, c)
  /\ \A b \in used : \A c \in Members(L) : Apart(b, c)
  /\ BytesOf(Members(L)) \cup BytesOf(used) = 0 .. HeapBytes - 1

LEMMA BytesCount ==
  ASSUME NEW b \in GoodBlock
  PROVE  IsFiniteSet(Bytes(b)) /\ Cardinality(Bytes(b)) = b.size
<1>1. b.addr \in Nat /\ b.size \in Nat /\ b.size > 0
  BY GoodSizes
<1>2. b.addr \in Int /\ b.addr + b.size - 1 \in Int /\ (b.addr + b.size - 1) - b.addr + 1 = b.size
      /\ ~(b.addr > b.addr + b.size - 1)
  BY <1>1
<1> QED BY <1>2, FS_Interval DEF Bytes

LEMMA FreeKeeps ==
  ASSUME NEW L, NEW used, Partition(L, used), NEW b \in used
  PROVE  /\ Partition(InsertBlock(L, b), used \ {b})
         /\ BytesOf(Members(InsertBlock(L, b))) = BytesOf(Members(L)) \cup Bytes(b)
         /\ BytesOf(Members(L)) \cap Bytes(b) = {}
<1> DEFINE R == InsertBlock(L, b)
<1>1. /\ L \in Seq(GoodBlock) /\ InOrder(L) /\ used \subseteq GoodBlock /\ b \in GoodBlock
      /\ \A c \in used : \A d \in Members(L) : Apart(c, d)
      /\ \A c, d \in used : c = d \/ Apart(c, d)
  BY DEF Partition
<1>2. Members(L) \subseteq GoodBlock
  BY <1>1 DEF Members
<1>3. \A i \in 1 .. Len(L) : L[i] \in GoodBlock /\ Apart(L[i], b)
  BY <1>1, ApartIsDisjoint DEF Members
<1>4. /\ R \in Seq(GoodBlock) /\ InOrder(R)
      /\ BytesOf(Members(R)) = BytesOf(Members(L)) \cup Bytes(b)
      /\ \A d \in GoodBlock : Apart(d, b) /\ (\A c \in Members(L) : Apart(d, c)) => \A c \in Members(R) : Apart(d, c)
  BY <1>1, <1>3, InsertKeeps
<1> HIDE DEF R
<1>5. \A d \in used \ {b} : \A c \in Members(R) : Apart(d, c)
  BY <1>1, <1>4
<1>6. BytesOf(used) = BytesOf(used \ {b}) \cup Bytes(b)
  BY DEF BytesOf
<1>7. Partition(R, used \ {b})
  BY <1>1, <1>4, <1>5, <1>6 DEF Partition
<1>8. \A c \in Members(L) : Bytes(c) \cap Bytes(b) = {}
  BY <1>1, <1>2, ApartIsDisjoint
<1>9. BytesOf(Members(L)) \cap Bytes(b) = {}
  BY <1>8 DEF BytesOf
<1> QED BY <1>4, <1>7, <1>9 DEF R

(* A block, or its lower part, is taken from the list.                     *)
LEMMA TakeKeeps ==
  ASSUME NEW L, NEW used, Partition(L, used), NEW i \in 1 .. Len(L)
  PROVE  LET found == L[i]
             left == WithoutIndex(L, i)
         IN  /\ Partition(left, used \cup {found}) /\ found \in GoodBlock /\ found \notin used
             /\ BytesOf(Members(L)) = BytesOf(Members(left)) \cup Bytes(found)
             /\ BytesOf(Members(left)) \cap Bytes(found) = {}
<1> DEFINE found == L[i]
           left == WithoutIndex(L, i)
<1>1. /\ L \in Seq(GoodBlock) /\ InOrder(L) /\ used \subseteq GoodBlock
      /\ \A c \in used : \A d \in Members(L) : Apart(c, d)
      /\ \A c, d \in used : c = d \/ Apart(c, d)
      /\ BytesOf(Members(L)) \cup BytesOf(used) = 0 .. HeapBytes - 1
  BY DEF Partition
<1>2. /\ left \in Seq(GoodBlock) /\ InOrder(left)
      /\ Members(left) = {L[j] : j \in (1 .. Len(L)) \ {i}}
  BY <1>1, WithoutKeeps
<1>3. found \in GoodBlock /\ found \in Members(L) /\ \A j \in 1 .. Len(L) : L[j] \in GoodBlock
  BY <1>1 DEF Members
<1>4. \A j \in (1 .. Len(L)) \ {i} : Apart(L[j], found)
  <2> SUFFICES ASSUME NEW j \in (1 .. Len(L)) \ {i} PROVE Apart(L[j], found)
    OBVIOUS
  <2>1. L[j].addr \in Nat /\ L[j].size \in Nat /\ L[i].addr \in Nat /\ L[i].size \in Nat
    BY <1>3, GoodSizes
  <2>2. CASE j < i
    <3>1. L[j].addr + L[j].size < L[i].addr
      BY <1>1, <2>2 DEF InOrder
    <3> QED BY <2>1, <3>1 DEF Apart
  <2>3. CASE i < j
    <3>1. L[i].addr + L[i].size < L[j].addr
      BY <1>1, <2>3 DEF InOrder
    <3> QED BY <2>1, <3>1 DEF Apart
  <2> QED BY <1>1, <2>2, <2>3
<1>5. Members(L) = Members(left) \cup {found}
  BY <1>2 DEF Members
<1>6. \A c \in Members(left) : Apart(found, c) /\ Bytes(c) \cap Bytes(found) = {}
  BY <1>2, <1>3, <1>4, ApartIsDisjoint
<1>7. \A c \in used : Apart(c, found) /\ Apart(found, c) /\ c # found
  BY <1>1, <1>3, ApartIsDisjoint
<1> HIDE DEF found, left
<1>8. /\ \A c, d \in used \cup {found} : c = d \/ Apart(c, d)
      /\ \A c \in used \cup {found} : \A d \in Members(left) : Apart(c, d)
  BY <1>1, <1>5, <1>6, <1>7
<1>9. /\ BytesOf(Members(L)) = BytesOf(Members(left)) \cup Bytes(found)
      /\ BytesOf(used \cup {found}) = BytesOf(used) \cup Bytes(found)
      /\ BytesOf(Members(left)) \cap Bytes(found) = {}
  BY <1>5, <1>6 DEF BytesOf
<1>10. Partition(left, used \cup {found})
  BY <1>1, <1>2, <1>3, <1>8, <1>9 DEF Partition
<1>11. found \notin used
  BY <1>7
<1> QED BY <1>3, <1>9, <1>10, <1>11 DEF found, left

(* A block is cut in two.                                                  *)
LEMMA CutBlocks ==
  ASSUME NEW whole \in GoodBlock, NEW cut \in Nat, Aligned(cut), cut >= StructSize,
         NEW over \in Nat, over = whole.size - cut, over >= StructSize,
         NEW lower, lower = Block(whole.addr, cut), NEW upper, upper = Block(whole.addr + cut, over)
  PROVE  /\ lower \in GoodBlock /\ upper \in GoodBlock /\ Apart(lower, upper)
         /\ Bytes(whole) = Bytes(lower) \cup Bytes(upper)
         /\ \A d \in GoodBlock : Apart(d, whole) => Apart(d, lower) /\ Apart(d, upper)
<1>1. whole.addr \in Nat /\ whole.size \in Nat /\ whole.size > 0 /\ whole.size = cut + over
  BY GoodSizes
<1>2. Good(whole) /\ StructSize \in Nat /\ StructSize > 0
  BY HeapAssumption DEF GoodBlock
<1>3. /\ lower \in HeapBlock /\ lower.addr = whole.addr /\ lower.size = cut
      /\ upper \in HeapBlock /\ upper.addr = whole.addr + cut /\ upper.size = over
  BY <1>1 DEF Block, HeapBlock
<1>4. Aligned(whole.addr + cut) /\ Aligned(over)
  <2>1. Aligned(whole.addr) /\ Aligned(whole.size) /\ whole.size >= cut /\ whole.size - cut = over
    BY <1>1, <1>2 DEF Good
  <2>2. Aligned(whole.addr + cut)
    BY <1>1, <2>1, SumAligned
  <2>3. Aligned(whole.size - cut)
    BY <1>1, <2>1, SumAligned
  <2> QED BY <2>1, <2>2, <2>3
<1>5. lower \in GoodBlock /\ upper \in GoodBlock
  <2>1. HeapBytes \in Nat
    BY HeapAssumption
  <2> QED BY <1>1, <1>2, <1>3, <1>4, <2>1 DEF GoodBlock, Good
<1>b. lower.addr \in Nat /\ lower.size \in Nat /\ upper.addr \in Nat /\ upper.size \in Nat
  BY <1>3 DEF HeapBlock
<1>a. lower.addr + lower.size = upper.addr /\ upper.addr + upper.size = whole.addr + whole.size
  <2>1. lower.addr + lower.size = whole.addr + cut
    BY <1>3
  <2>2. (whole.addr + cut) + over = whole.addr + (cut + over)
    BY <1>1
  <2> QED BY <1>1, <1>3, <2>1, <2>2
<1>6. Apart(lower, upper) /\ Bytes(whole) = Bytes(lower) \cup Bytes(upper)
  <2>1. Apart(lower, upper)
    <3>1. lower.addr + lower.size <= upper.addr
      BY <1>1, <1>3, <1>a
    <3> QED BY <3>1 DEF Apart
  <2>2. \A i : i \in Bytes(whole) <=> i \in Bytes(lower) \/ i \in Bytes(upper)
    BY <1>1, <1>3, <1>a, <1>b DEF Bytes
  <2> QED BY <2>1, <2>2
<1>8. \A d \in GoodBlock : Apart(d, whole) => Apart(d, lower) /\ Apart(d, upper)
  <2> SUFFICES ASSUME NEW d \in GoodBlock, Apart(d, whole) PROVE Apart(d, lower) /\ Apart(d, upper)
    OBVIOUS
  <2>1. d.addr \in Nat /\ d.size \in Nat /\ d.size > 0
    BY GoodSizes
  <2>2. d.addr + d.size <= whole.addr \/ whole.addr + whole.size <= d.addr
    BY DEF Apart
  <2>3. /\ d.addr + d.size <= lower.addr \/ lower.addr + lower.size <= d.addr
        /\ d.addr + d.size <= upper.addr \/ upper.addr + upper.size <= d.addr
    BY <1>1, <1>3, <1>a, <1>b, <2>1, <2>2
  <2> QED BY <2>3 DEF Apart
<1> QED BY <1>5, <1>6, <1>8

(* ... of those in use.                                                    *)
LEMMA CutKeeps ==
  ASSUME NEW L, NEW used, NEW whole \in GoodBlock, whole \notin used,
         NEW lower \in GoodBlock, NEW upper \in GoodBlock, Apart(lower, upper),
         Bytes(whole) = Bytes(lower) \cup Bytes(upper),
         \A d \in GoodBlock : Apart(d, whole) => Apart(d, lower) /\ Apart(d, upper),
         Partition(L, used \cup {whole})
  PROVE  lower \notin used /\ upper \notin used /\ Partition(L, used \cup {lower, upper})
<1>1. Apart(upper, lower)
  BY ApartIsDisjoint
<1>2. /\ L \in Seq(GoodBlock) /\ InOrder(L) /\ used \subseteq GoodBlock
      /\ \A c \in used \cup {whole} : \A d \in Members(L) : Apart(c, d)
      /\ \A c, d \in used \cup {whole} : c = d \/ Apart(c, d)
      /\ BytesOf(Members(L)) \cup BytesOf(used \cup {whole}) = 0 .. HeapBytes - 1
  BY DEF Partition
<1>3. Members(L) \subseteq GoodBlock
  BY <1>2 DEF Members
<1>4. \A d \in used : /\ Apart(d, lower) /\ Apart(lower, d) /\ d # lower
                       /\ Apart(d, upper) /\ Apart(upper, d) /\ d # upper
  <2> SUFFICES ASSUME NEW d \in used
               PROVE  /\ Apart(d, lower) /\ Apart(lower, d) /\ d # lower
                      /\ Apart(d, upper) /\ Apart(upper, d) /\ d # upper
    OBVIOUS
  <2>1. d \in GoodBlock /\ Apart(d, whole)
    BY <1>2
  <2> QED BY <2>1, ApartIsDisjoint
<1>5. \A d \in Members(L) : Apart(lower, d) /\ Apart(upper, d)
  <2> SUFFICES ASSUME NEW d \in Members(L) PROVE Apart(lower, d) /\ Apart(upper, d)
    OBVIOUS
  <2>1. d \in GoodBlock /\ Apart(d, whole)
    BY <1>2, <1>3, ApartIsDisjoint
  <2> QED BY <2>1, ApartIsDisjoint
<1>6. BytesOf(used \cup {whole}) = BytesOf(used \cup {lower, upper})
  BY DEF BytesOf
<1>7. Partition(L, used \cup {lower, upper})
  <2>1. \A c, d \in used \cup {lower, upper} : c = d \/ Apart(c, d)
    BY <1>1, <1>2, <1>4
  <2>2. \A c \in used \cup {lower, upper} : \A d \in Members(L) : Apart(c, d)
    BY <1>2, <1>5
  <2> QED BY <1>2, <1>6, <2>1, <2>2 DEF Partition
<1> QED BY <1>4, <1>7

(* pvPortMalloc: the block found, or its lower part.                       *)
LEMMA MallocKeeps ==
  ASSUME NEW L, NEW used, Partition(L, used), NEW i \in 1 .. Len(L),
         NEW want \in Nat, Aligned(want), want >= StructSize, L[i].size >= want
  PROVE  LET found == L[i]
             rest  == found.size - want
             taken == IF Splits(rest) THEN Block(found.addr, want) ELSE found
             left  == WithoutIndex(L, i)
             R     == IF Splits(rest) THEN InsertBlock(left, Block(found.addr + want, rest)) ELSE left
         IN  /\ Partition(R, used \cup {taken}) /\ taken \in GoodBlock /\ taken \notin used
             /\ BytesOf(Members(L)) = BytesOf(Members(R)) \cup Bytes(taken)
             /\ BytesOf(Members(R)) \cap Bytes(taken) = {}
<1> DEFINE found == L[i]
           rest  == found.size - want
           left  == WithoutIndex(L, i)
           low   == Block(found.addr, want)
           rem   == Block(found.addr + want, rest)
           R     == InsertBlock(left, rem)
<1>1. /\ Partition(left, used \cup {found}) /\ found \in GoodBlock /\ found \notin used
      /\ BytesOf(Members(L)) = BytesOf(Members(left)) \cup Bytes(found)
      /\ BytesOf(Members(left)) \cap Bytes(found) = {}
  BY TakeKeeps
<1>2. rest \in Nat
  BY <1>1, GoodSizes
<1>3. ASSUME Splits(rest)
      PROVE  /\ Partition(R, used \cup {low}) /\ low \in GoodBlock /\ low \notin used
             /\ BytesOf(Members(L)) = BytesOf(Members(R)) \cup Bytes(low)
             /\ BytesOf(Members(R)) \cap Bytes(low) = {}
  <2>1. rest >= StructSize
    BY <1>2, <1>3, HeapAssumption DEF Splits
  <2>2. /\ rest = found.size - want
        /\ low = Block(found.addr, want) /\ rem = Block(found.addr + want, rest) /\ R = InsertBlock(left, rem)
    OBVIOUS
  <2> HIDE DEF found, rest, left, low, rem, R
  <2>3. /\ low \in GoodBlock /\ rem \in GoodBlock /\ Apart(low, rem)
        /\ Bytes(found) = Bytes(low) \cup Bytes(rem)
        /\ \A d \in GoodBlock : Apart(d, found) => Apart(d, low) /\ Apart(d, rem)
    BY <1>1, <1>2, <2>1, <2>2, CutBlocks
  <2>4. low \notin used /\ rem \notin used /\ Partition(left, used \cup {low, rem})
    BY <1>1, <2>3, CutKeeps
  <2> DEFINE both == used \cup {low, rem}
  <2>5. low # rem /\ Bytes(rem) \cap Bytes(low) = {}
    BY <2>3, ApartIsDisjoint
  <2>6. (used \cup {low, rem}) \ {rem} = used \cup {low}
    BY <2>5, <2>4
  <2>7. /\ Partition(R, both \ {rem})
        /\ BytesOf(Members(R)) = BytesOf(Members(left)) \cup Bytes(rem)
    <3>1. Partition(left, both) /\ rem \in both
      BY <2>4
    <3> HIDE DEF both
    <3> QED BY <2>2, <3>1, FreeKeeps
  <2> QED BY <1>1, <2>3, <2>7, <2>5, <2>6, <2>4
<1> QED BY <1>1, <1>3

(***************************************************************************)
(* The invariant.                                                          *)
(***************************************************************************)
HeapInv ==
  /\ Partition(freeList, allocated \cup freeing) /\ allocated \cap freeing = {}
  /\ xFreeBytesRemaining = Cardinality(BytesOf(Members(freeList)))
  /\ xMinimumEverFreeBytesRemaining \in Nat
  /\ xMinimumEverFreeBytesRemaining <= xFreeBytesRemaining

(* The bytes of the list are counted: those of a block leave it or come.   *)
LEMMA FreeCount ==
  ASSUME NEW L, NEW used, Partition(L, used)
  PROVE  /\ IsFiniteSet(BytesOf(Members(L)))
         /\ Cardinality(BytesOf(Members(L))) \in 0 .. HeapBytes
<1>1. BytesOf(Members(L)) \subseteq 0 .. HeapBytes - 1
  BY DEF Partition
<1>2. HeapBytes \in Nat /\ HeapBytes > 0 /\ 0 \in Int /\ HeapBytes - 1 \in Int
  BY HeapAssumption
<1>3. IsFiniteSet(0 .. HeapBytes - 1) /\ Cardinality(0 .. HeapBytes - 1) = HeapBytes
  <2>1. IsFiniteSet(0 .. HeapBytes - 1)
        /\ Cardinality(0 .. HeapBytes - 1) = IF 0 > HeapBytes - 1 THEN 0 ELSE (HeapBytes - 1) - 0 + 1
    BY <1>2, FS_Interval
  <2> QED BY <1>2, <2>1
<1> QED BY <1>1, <1>2, <1>3, FS_Subset, FS_CardinalityType

LEMMA BlockCounts ==
  ASSUME NEW S, IsFiniteSet(S), NEW b \in GoodBlock, S \cap Bytes(b) = {}
  PROVE  Cardinality(S \cup Bytes(b)) = Cardinality(S) + b.size
<1>1. IsFiniteSet(Bytes(b)) /\ Cardinality(Bytes(b)) = b.size
  BY BytesCount
<1>2. Cardinality(S \cup Bytes(b)) = Cardinality(S) + Cardinality(Bytes(b)) - Cardinality(S \cap Bytes(b))
  BY <1>1, FS_Union
<1>3. Cardinality({}) = 0
  BY FS_EmptySet
<1>4. Cardinality(S) \in Nat /\ b.size \in Nat
  BY FS_CardinalityType, GoodSizes
<1>5. Cardinality(S \cap Bytes(b)) = 0
  BY <1>3
<1> QED BY <1>1, <1>2, <1>4, <1>5

LEMMA HeapInitInv == HeapInit => HeapInv
<1> SUFFICES ASSUME HeapInit PROVE HeapInv
  OBVIOUS
<1> DEFINE b == Block(0, HeapBytes)
           L == <<b>>
<1>1. HeapBytes \in Nat /\ HeapBytes > 0 /\ HeapBytes >= StructSize
  BY HeapAssumption
<1>2. b \in HeapBlock /\ b.addr = 0 /\ b.size = HeapBytes
  BY <1>1 DEF Block, HeapBlock
<1> HIDE DEF b
<1>3. Aligned(0) /\ Aligned(HeapBytes)
  BY HeapAssumption DEF Aligned
<1>4. b \in GoodBlock
  BY <1>1, <1>2, <1>3 DEF GoodBlock, Good
<1>5. L \in Seq(GoodBlock) /\ InOrder(L) /\ Members(L) = {b}
  BY <1>4 DEF InOrder, Members
<1>6. Bytes(b) = 0 .. HeapBytes - 1 /\ BytesOf({b}) = Bytes(b) /\ BytesOf({}) = {}
  BY <1>1, <1>2 DEF Bytes, BytesOf
<1>7. Partition(L, {})
  BY <1>5, <1>6 DEF Partition
<1>8. Cardinality(BytesOf(Members(L))) = HeapBytes
  BY <1>2, <1>4, <1>5, <1>6, BytesCount
<1>9. freeList = L /\ allocated \cup freeing = {} /\ allocated \cap freeing = {}
  BY DEF HeapInit, b
<1> HIDE DEF L
<1> QED BY <1>1, <1>7, <1>8, <1>9 DEF HeapInv, HeapInit

LEMMA HeapMallocInv ==
  ASSUME HeapInv, NEW n \in Requests, Malloc(n)
  PROVE  HeapInv'
<1> DEFINE want == WantedSize(n)
           used == allocated \cup freeing
<1>1. n \in Nat
  BY HeapAssumption
<1>2. want \in Nat /\ Aligned(want) /\ want >= StructSize
  BY <1>1, WantedFits DEF Malloc
<1> DEFINE found(i) == freeList[i]
           rest(i)  == found(i).size - want
           taken(i) == IF Splits(rest(i)) THEN Block(found(i).addr, want) ELSE found(i)
           left(i)  == WithoutIndex(freeList, i)
           R(i)     == IF Splits(rest(i))
                       THEN InsertBlock(left(i), Block(found(i).addr + want, rest(i))) ELSE left(i)
<1>3. PICK i \in FirstFit(want) :
             /\ freeList' = R(i)
             /\ allocated' = allocated \cup {taken(i)}
             /\ xFreeBytesRemaining' = xFreeBytesRemaining - taken(i).size
             /\ xMinimumEverFreeBytesRemaining' =
                  IF xFreeBytesRemaining' < xMinimumEverFreeBytesRemaining
                  THEN xFreeBytesRemaining' ELSE xMinimumEverFreeBytesRemaining
             /\ UNCHANGED freeing
  BY DEF Malloc
<1>4. i \in 1 .. Len(freeList) /\ freeList[i].size >= want
  BY DEF FirstFit
<1>5. Partition(freeList, used)
  BY DEF HeapInv
<1>6. /\ Partition(R(i), used \cup {taken(i)}) /\ taken(i) \in GoodBlock /\ taken(i) \notin used
      /\ BytesOf(Members(freeList)) = BytesOf(Members(R(i))) \cup Bytes(taken(i))
      /\ BytesOf(Members(R(i))) \cap Bytes(taken(i)) = {}
  <2> HIDE DEF want, used
  <2> QED BY <1>2, <1>4, <1>5, MallocKeeps
<1> HIDE DEF R, taken
<1>7. Partition(freeList, used) /\ Partition(freeList', allocated' \cup freeing')
      /\ allocated' \cap freeing' = {}
  <2>1. allocated' \cup freeing' = used \cup {taken(i)}
    BY <1>3
  <2> QED BY <1>3, <1>5, <1>6, <2>1 DEF HeapInv
<1> DEFINE F == Cardinality(BytesOf(Members(freeList)))
           G == Cardinality(BytesOf(Members(freeList')))
<1>8. F = G + taken(i).size /\ F \in Nat /\ G \in Nat
  <2>1. /\ IsFiniteSet(BytesOf(Members(freeList')))
        /\ G \in 0 .. HeapBytes /\ F \in 0 .. HeapBytes
    <3> USE DEF used
    <3>1. IsFiniteSet(BytesOf(Members(freeList'))) /\ G \in 0 .. HeapBytes
      BY <1>7, FreeCount
    <3> QED BY <1>5, <3>1, FreeCount
  <2>2. F = G + taken(i).size
    BY <1>3, <1>6, <2>1, BlockCounts
  <2> QED BY <2>1, <2>2
<1>9. taken(i).size \in Nat
  BY <1>6, GoodSizes
<1>10. xFreeBytesRemaining = F /\ xMinimumEverFreeBytesRemaining \in Nat
       /\ xMinimumEverFreeBytesRemaining <= xFreeBytesRemaining
  BY DEF HeapInv
<1> HIDE DEF F, G
<1>11. xFreeBytesRemaining' = G
  BY <1>3, <1>8, <1>9, <1>10
<1>12. /\ xMinimumEverFreeBytesRemaining' \in Nat
       /\ xMinimumEverFreeBytesRemaining' <= xFreeBytesRemaining'
  BY <1>3, <1>8, <1>10, <1>11
<1> QED BY <1>7, <1>11, <1>12 DEF HeapInv, G

LEMMA HeapFreeInv ==
  ASSUME HeapInv, NEW b \in freeing, FreeBlock(b)
  PROVE  HeapInv'
<1> DEFINE used == allocated \cup freeing
           R == InsertBlock(freeList, b)
<1>1. Partition(freeList, used) /\ b \in used /\ b \notin allocated /\ b \in GoodBlock
  BY DEF HeapInv, Partition
<1>2. freeList' = R /\ freeing' = freeing \ {b} /\ allocated' = allocated
      /\ xFreeBytesRemaining' = xFreeBytesRemaining + b.size
      /\ xMinimumEverFreeBytesRemaining' = xMinimumEverFreeBytesRemaining
  BY DEF FreeBlock
<1>3. /\ Partition(R, used \ {b})
      /\ BytesOf(Members(R)) = BytesOf(Members(freeList)) \cup Bytes(b)
      /\ BytesOf(Members(freeList)) \cap Bytes(b) = {}
  BY <1>1, FreeKeeps
<1>4. allocated' \cup freeing' = used \ {b} /\ allocated' \cap freeing' = {}
  BY <1>1, <1>2 DEF HeapInv
<1> HIDE DEF R, used
<1>5. /\ IsFiniteSet(BytesOf(Members(freeList)))
      /\ Cardinality(BytesOf(Members(freeList))) \in Nat
  BY <1>1, FreeCount
<1>6. Cardinality(BytesOf(Members(freeList'))) = Cardinality(BytesOf(Members(freeList))) + b.size
  BY <1>1, <1>2, <1>3, <1>5, BlockCounts
<1>7. b.size \in Nat
  BY <1>1, GoodSizes
<1>8. Partition(freeList', allocated' \cup freeing')
  BY <1>2, <1>3, <1>4
<1> DEFINE F == Cardinality(BytesOf(Members(freeList)))
           G == Cardinality(BytesOf(Members(freeList')))
<1>9. xFreeBytesRemaining = F /\ F \in Nat /\ xMinimumEverFreeBytesRemaining \in Nat
      /\ xMinimumEverFreeBytesRemaining <= xFreeBytesRemaining
  BY <1>5 DEF HeapInv
<1>10. G = F + b.size
  BY <1>6
<1> HIDE DEF F, G
<1>11. /\ xFreeBytesRemaining' = G /\ xMinimumEverFreeBytesRemaining' \in Nat
       /\ xMinimumEverFreeBytesRemaining' <= xFreeBytesRemaining'
  BY <1>2, <1>7, <1>9, <1>10
<1> QED BY <1>4, <1>8, <1>11 DEF HeapInv, G

LEMMA HeapNextInv == HeapInv /\ [HeapNext]_heapVars => HeapInv'
<1> SUFFICES ASSUME HeapInv, [HeapNext]_heapVars PROVE HeapInv'
  OBVIOUS
<1>1. CASE \E n \in Requests : Malloc(n)
  BY <1>1, HeapMallocInv
<1>2. ASSUME NEW b \in allocated, ClearAllocatedBit(b) PROVE HeapInv'
  <2>1. /\ allocated' \cup freeing' = allocated \cup freeing
        /\ allocated' \cap freeing' = {}
    BY <1>2 DEF HeapInv, ClearAllocatedBit
  <2> QED BY <1>2, <2>1 DEF HeapInv, ClearAllocatedBit
<1>3. CASE \E b \in freeing : FreeBlock(b)
  BY <1>3, HeapFreeInv
<1>4. CASE UNCHANGED heapVars
  BY <1>4 DEF HeapInv, heapVars
<1> QED BY <1>1, <1>2, <1>3, <1>4 DEF HeapNext

LEMMA HeapInvImplies == HeapInv => HeapTypeOK /\ HeapIsPartitioned
<1> SUFFICES ASSUME HeapInv PROVE HeapTypeOK /\ HeapIsPartitioned
  OBVIOUS
<1> DEFINE used == allocated \cup freeing
<1>1. /\ freeList \in Seq(GoodBlock) /\ InOrder(freeList) /\ used \subseteq GoodBlock
      /\ \A b, c \in used : b = c \/ Apart(b, c)
      /\ \A b \in used : \A c \in Members(freeList) : Apart(b, c)
      /\ BytesOf(Members(freeList)) \cup BytesOf(used) = 0 .. HeapBytes - 1
  BY DEF HeapInv, Partition
<1>2. FreeBlocks = Members(freeList) /\ Blocks = Members(freeList) \cup used
  BY DEF FreeBlocks, Members, Blocks
<1>3. Members(freeList) \subseteq GoodBlock
  BY <1>1 DEF Members
<1>4. BytesOf(Blocks) = 0 .. HeapBytes - 1
  BY <1>1, <1>2 DEF BytesOf
<1>5. \A b, c \in Blocks : b = c \/ Apart(b, c)
  <2>1. \A b, c \in Members(freeList) : b = c \/ Apart(b, c)
    <3> SUFFICES ASSUME NEW i \in 1 .. Len(freeList), NEW j \in 1 .. Len(freeList),
                        freeList[i] # freeList[j]
                 PROVE  Apart(freeList[i], freeList[j])
      BY DEF Members
    <3>1. freeList[i] \in GoodBlock /\ freeList[j] \in GoodBlock
      BY <1>1
    <3>2. /\ freeList[i].addr \in Nat /\ freeList[i].size \in Nat
          /\ freeList[j].addr \in Nat /\ freeList[j].size \in Nat
      BY <3>1, GoodSizes
    <3>3. i < j \/ j < i
      OBVIOUS
    <3> QED BY <1>1, <3>2, <3>3 DEF InOrder, Apart
  <2>2. \A b \in used : \A c \in Members(freeList) : Apart(b, c) /\ Apart(c, b)
    BY <1>1, <1>3, ApartIsDisjoint
  <2> QED BY <1>1, <1>2, <2>1, <2>2
<1>6. \A b \in Blocks : /\ b.addr % Alignment = 0 /\ b.size % Alignment = 0
                        /\ b.size >= StructSize /\ b.addr + b.size <= HeapBytes
  BY <1>1, <1>2, <1>3 DEF GoodBlock, Good, Aligned
<1>7. \A i \in 1 .. Len(freeList) - 1 : freeList[i].addr + freeList[i].size < freeList[i + 1].addr
  <2> SUFFICES ASSUME NEW i \in 1 .. Len(freeList) - 1
               PROVE  freeList[i].addr + freeList[i].size < freeList[i + 1].addr
    OBVIOUS
  <2>1. i \in 1 .. Len(freeList) /\ i + 1 \in 1 .. Len(freeList) /\ i < i + 1
    BY <1>1
  <2> QED BY <1>1, <2>1 DEF InOrder
<1>8. HeapIsPartitioned
  BY <1>2, <1>4, <1>5, <1>6, <1>7 DEF HeapIsPartitioned, HeapInv
<1>9. HeapTypeOK
  <2>1. GoodBlock \subseteq HeapBlock
    BY DEF GoodBlock
  <2>2. freeList \in Seq(HeapBlock) /\ allocated \subseteq HeapBlock /\ freeing \subseteq HeapBlock
    BY <1>1, <2>1
  <2>3. xFreeBytesRemaining \in 0 .. HeapBytes
    BY FreeCount DEF HeapInv
  <2>4. HeapBytes \in Nat
    BY HeapAssumption
  <2> QED BY <2>2, <2>3, <2>4 DEF HeapTypeOK, HeapInv
<1> QED BY <1>8, <1>9

(* Whatever the sizes asked for and the order of the frees, every byte of  *)
(* the heap is in one block, and the free blocks are ordered, apart and    *)
(* counted (pvPortMalloc, vPortFree, prvInsertBlockIntoFreeList).          *)
THEOREM HeapIsAlwaysPartitioned == HeapSpec => [](HeapTypeOK /\ HeapIsPartitioned)
<1>1. HeapSpec => []HeapInv
  BY HeapInitInv, HeapNextInv, PTL DEF HeapSpec
<1> QED BY <1>1, HeapInvImplies, PTL

(***************************************************************************)
(* Stream and message buffers.                                             *)
(*                                                                         *)
(* Remainders.                                                             *)
(***************************************************************************)
LEMMA RemainderIs ==
  ASSUME NEW m \in Nat \ {0}, NEW q \in Int, NEW r \in 0 .. m - 1, NEW n \in Nat, n = m * q + r
  PROVE  n % m = r
<1> DEFINE a == n \div m
           b == n % m
<1>1. a \in Int /\ b \in 0 .. m - 1 /\ n = m * a + b
  OBVIOUS
<1> HIDE DEF a, b
<1>2. ASSUME a < q PROVE FALSE
  <2>1. m * (a + 1) <= m * q
    BY <1>1, <1>2
  <2>2. m * (a + 1) = m * a + m
    BY <1>1
  <2> QED BY <1>1, <2>1, <2>2
<1>3. ASSUME q < a PROVE FALSE
  <2>1. m * (q + 1) <= m * a
    BY <1>1, <1>3
  <2>2. m * (q + 1) = m * q + m
    OBVIOUS
  <2> QED BY <1>1, <2>1, <2>2
<1>4. a = q
  BY <1>1, <1>2, <1>3
<1>5. b = r
  BY <1>1, <1>4
<1> QED BY <1>5 DEF b

LEMMA SumRemainder ==
  ASSUME NEW m \in Nat \ {0}, NEW n \in Nat, NEW k \in Nat
  PROVE  ((n % m) + k) % m = (n + k) % m
<1> DEFINE a == n \div m
           b == n % m
           c == (b + k) \div m
           d == (b + k) % m
<1>1. a \in Int /\ b \in 0 .. m - 1 /\ n = m * a + b
  OBVIOUS
<1>2. b + k \in Nat /\ c \in Int /\ d \in 0 .. m - 1 /\ b + k = m * c + d
  BY <1>1
<1> HIDE DEF a, b, c
<1>3. m * (a + c) = m * a + m * c
  BY <1>1, <1>2
<1>4. n + k = m * (a + c) + d /\ a + c \in Int /\ n + k \in Nat
  <2> HIDE DEF d
  <2> QED BY <1>1, <1>2, <1>3
<1>5. (n + k) % m = d
  <2> DEFINE e == a + c
             x == n + k
  <2>1. x \in Nat /\ e \in Int /\ d \in 0 .. m - 1 /\ x = m * e + d
    BY <1>2, <1>4
  <2> HIDE DEF d, e, x
  <2>2. x % m = d
    BY <2>1, RemainderIs
  <2> QED BY <2>2 DEF x
<1> QED BY <1>5 DEF b, d

(* Numbers less than m apart have different remainders.                    *)
LEMMA RemaindersDiffer ==
  ASSUME NEW m \in Nat \ {0}, NEW p \in Nat, NEW q \in Nat, p < q, q < p + m
  PROVE  p % m # q % m
<1> DEFINE a == p \div m
           b == q \div m
           r == p % m
<1> SUFFICES ASSUME p % m = q % m PROVE FALSE
  OBVIOUS
<1>1. /\ a \in Int /\ r \in 0 .. m - 1 /\ p = m * a + r
      /\ b \in Int /\ q = m * b + r
  OBVIOUS
<1> HIDE DEF a, b, r
<1>2. ASSUME a < b PROVE FALSE
  <2>1. m * (a + 1) <= m * b
    BY <1>1, <1>2
  <2>2. m * (a + 1) = m * a + m
    BY <1>1
  <2> QED BY <1>1, <2>1, <2>2
<1>3. ASSUME b <= a PROVE FALSE
  <2>1. m * b <= m * a
    BY <1>1, <1>3
  <2> QED BY <1>1, <2>1
<1> QED BY <1>1, <1>2, <1>3

(* The position i of a ring of m comes the distance k after n.             *)
LEMMA DistanceRemainder ==
  ASSUME NEW m \in Nat \ {0}, NEW n \in Nat, NEW i \in 0 .. m - 1
  PROVE  LET k == (m + i - (n % m)) % m IN k \in 0 .. m - 1 /\ (n + k) % m = i
<1> DEFINE a == n \div m
           b == n % m
           c == (m + i - b) \div m
           k == (m + i - b) % m
<1>1. a \in Int /\ b \in 0 .. m - 1 /\ n = m * a + b
  OBVIOUS
<1>2. m + i - b \in Nat /\ c \in Int /\ k \in 0 .. m - 1 /\ m + i - b = m * c + k
  BY <1>1
<1> HIDE DEF a, b, c
<1>3. m * (a + 1 - c) = m * a + m - m * c
  BY <1>1, <1>2
<1>4. n + k = m * (a + 1 - c) + i /\ a + 1 - c \in Int /\ n + k \in Nat
  <2> HIDE DEF k
  <2> QED BY <1>1, <1>2, <1>3
<1>5. (n + k) % m = i
  <2> DEFINE e == a + 1 - c
             x == n + k
  <2>1. x \in Nat /\ e \in Int /\ x = m * e + i
    BY <1>4
  <2> HIDE DEF k, e, x
  <2>2. x % m = i
    BY <2>1, RemainderIs
  <2> QED BY <2>2 DEF x
<1> QED BY <1>2, <1>5 DEF b

(* What is between two positions of a ring, and what is beyond.            *)
LEMMA RingCounts ==
  ASSUME NEW m \in Nat \ {0}, NEW t \in Nat, NEW h \in Nat, t <= h, h <= t + m - 1
  PROVE  /\ (m + (h % m) - (t % m)) % m = h - t
         /\ (m + (t % m) - (h % m) - 1) % m = m - 1 - (h - t)
<1> DEFINE a == t \div m
           b == t % m
           c == h \div m
           d == h % m
<1>1. /\ a \in Int /\ b \in 0 .. m - 1 /\ t = m * a + b
      /\ c \in Int /\ d \in 0 .. m - 1 /\ h = m * c + d
  OBVIOUS
<1> HIDE DEF a, b, c, d
<1>2. (m + d - b) % m = h - t
  <2>1. m * (1 - c + a) = m - m * c + m * a
    BY <1>1
  <2>2. /\ m + d - b = m * (1 - c + a) + (h - t)
        /\ m + d - b \in Nat /\ h - t \in 0 .. m - 1 /\ 1 - c + a \in Int
    BY <1>1, <2>1
  <2> DEFINE e == 1 - c + a
             x == m + d - b
             y == h - t
  <2>3. x \in Nat /\ e \in Int /\ y \in 0 .. m - 1 /\ x = m * e + y
    BY <2>2
  <2> HIDE DEF e, x, y
  <2>4. x % m = y
    BY <2>3, RemainderIs
  <2> QED BY <2>4 DEF x, y
<1>3. (m + b - d - 1) % m = m - 1 - (h - t)
  <2>1. m * (c - a) = m * c - m * a
    BY <1>1
  <2>2. /\ m + b - d - 1 = m * (c - a) + (m - 1 - (h - t))
        /\ m + b - d - 1 \in Nat /\ m - 1 - (h - t) \in 0 .. m - 1 /\ c - a \in Int
    BY <1>1, <2>1
  <2> DEFINE e == c - a
             x == m + b - d - 1
             y == m - 1 - (h - t)
  <2>3. x \in Nat /\ e \in Int /\ y \in 0 .. m - 1 /\ x = m * e + y
    BY <2>2
  <2> HIDE DEF e, x, y
  <2>4. x % m = y
    BY <2>3, RemainderIs
  <2> QED BY <2>4 DEF x, y
<1> QED BY <1>2, <1>3 DEF b, d

(***************************************************************************)
(* The ring, with positions that never wrap: t and h are how many bytes    *)
(* have been read and written, c[p] is what was written as byte p.         *)
(***************************************************************************)
Holds(t, h, c) ==
  /\ t \in Nat /\ h \in Nat /\ t <= h /\ h <= t + StreamLength - 1
  /\ xTail = t % StreamLength /\ xHead = h % StreamLength
  /\ \A p \in t .. h - 1 : pucBuffer[p % StreamLength] = c[p]

LEMMA LengthIs == StreamLength \in Nat \ {0}
  BY StreamAssumption

LEMMA HoldsCounts ==
  ASSUME NEW t, NEW h, NEW c, Holds(t, h, c)
  PROVE  /\ BytesInBuffer = h - t
         /\ SpacesAvailable = StreamLength - 1 - (h - t)
         /\ BytesInBuffer \in 0 .. StreamLength - 1
         /\ SpacesAvailable \in 0 .. StreamLength - 1
         /\ xHead \in 0 .. StreamLength - 1 /\ xTail \in 0 .. StreamLength - 1
<1>1. t \in Nat /\ h \in Nat /\ t <= h /\ h <= t + StreamLength - 1
      /\ xTail = t % StreamLength /\ xHead = h % StreamLength
  BY DEF Holds
<1>2. /\ BytesInBuffer = h - t
      /\ SpacesAvailable = StreamLength - 1 - (h - t)
  BY <1>1, LengthIs, RingCounts DEF BytesInBuffer, SpacesAvailable
<1>3. xHead \in 0 .. StreamLength - 1 /\ xTail \in 0 .. StreamLength - 1
  BY <1>1, LengthIs
<1> QED BY <1>1, <1>2, <1>3, LengthIs

LEMMA HoldsCountsNext ==
  ASSUME NEW t, NEW h, NEW c, Holds(t, h, c)'
  PROVE  /\ BytesInBuffer' = h - t
         /\ SpacesAvailable' = StreamLength - 1 - (h - t)
         /\ xHead' \in 0 .. StreamLength - 1 /\ xTail' \in 0 .. StreamLength - 1
<1>1. t \in Nat /\ h \in Nat /\ t <= h /\ h <= t + StreamLength - 1
      /\ xTail' = t % StreamLength /\ xHead' = h % StreamLength
  BY DEF Holds
<1>2. /\ BytesInBuffer' = h - t
      /\ SpacesAvailable' = StreamLength - 1 - (h - t)
  BY <1>1, LengthIs, RingCounts DEF BytesInBuffer, SpacesAvailable
<1>3. xHead' \in 0 .. StreamLength - 1 /\ xTail' \in 0 .. StreamLength - 1
  BY <1>1, LengthIs
<1> QED BY <1>1, <1>2, <1>3, LengthIs

LEMMA ByteIs ==
  ASSUME NEW t, NEW h, NEW c, Holds(t, h, c), NEW k \in Nat, t + k < h
  PROVE  ByteAt(k) = c[t + k]
<1>1. t \in Nat /\ h \in Nat /\ xTail = t % StreamLength
  BY DEF Holds
<1>2. (xTail + k) % StreamLength = (t + k) % StreamLength
  BY <1>1, LengthIs, SumRemainder
<1>3. t + k \in t .. h - 1
  BY <1>1
<1>4. pucBuffer[(t + k) % StreamLength] = c[t + k]
  BY <1>3 DEF Holds
<1> QED BY <1>2, <1>4 DEF ByteAt

LEMMA ReadKeeps ==
  ASSUME NEW t, NEW h, NEW c, Holds(t, h, c), NEW n \in Nat, t + n <= h,
         ReadBytes(n), xHead' = xHead, pucBuffer' = pucBuffer
  PROVE  Holds(t + n, h, c)'
<1>1. t \in Nat /\ h \in Nat /\ h <= t + StreamLength - 1 /\ xTail = t % StreamLength
      /\ xHead = h % StreamLength
  BY DEF Holds
<1>2. xTail' = (t + n) % StreamLength
  BY <1>1, LengthIs, SumRemainder DEF ReadBytes
<1>3. \A p \in t .. h - 1 : pucBuffer[p % StreamLength] = c[p]
  BY DEF Holds
<1>4. \A p \in t + n .. h - 1 : pucBuffer'[p % StreamLength] = c[p]
  BY <1>1, <1>3
<1>5. t + n \in Nat /\ h <= t + n + StreamLength - 1
  BY <1>1, LengthIs
<1>6. xHead' = h % StreamLength
  BY <1>1
<1> HIDE <1>3
<1> QED BY <1>1, <1>2, <1>4, <1>5, <1>6 DEF Holds

(* What is written goes into bytes that are free.                          *)
LEMMA WriteKeeps ==
  ASSUME NEW t, NEW h, NEW c, Holds(t, h, c), NEW n \in Nat, NEW f, NEW e,
         h + n <= t + StreamLength - 1,
         WriteBytes(f, n), xTail' = xTail,
         \A p \in t .. h - 1 : e[p] = c[p],
         \A k \in 0 .. n - 1 : e[h + k] = f[k + 1]
  PROVE  Holds(t, h + n, e)'
<1>1. /\ t \in Nat /\ h \in Nat /\ t <= h /\ h <= t + StreamLength - 1
      /\ xTail = t % StreamLength /\ xHead = h % StreamLength
  BY DEF Holds
<1>2. xHead' = (h + n) % StreamLength
  BY <1>1, LengthIs, SumRemainder DEF WriteBytes
<1>3. ASSUME NEW p \in t .. h + n - 1
      PROVE  pucBuffer'[p % StreamLength] = e[p]
  <2> DEFINE i == p % StreamLength
             k == (StreamLength + i - xHead) % StreamLength
  <2>1. p \in Nat /\ i \in 0 .. StreamLength - 1
    BY <1>1, LengthIs
  <2>2. k \in 0 .. StreamLength - 1 /\ (h + k) % StreamLength = i
    BY <1>1, <2>1, LengthIs, DistanceRemainder
  <2>3. pucBuffer'[i] = IF k < n THEN f[k + 1] ELSE pucBuffer[i]
    BY <2>1 DEF WriteBytes
  <2>4. i = p % StreamLength
    OBVIOUS
  <2> HIDE DEF i, k
  <2>5. CASE p < h
    <3>1. pucBuffer[i] = c[p] /\ c[p] = e[p]
      BY <1>1, <2>1, <2>4, <2>5 DEF Holds
    <3>2. ASSUME k < n PROVE FALSE
      <4>1. h + k \in Nat /\ p < h + k /\ h + k < p + StreamLength
        BY <1>1, <2>1, <2>2, <2>5, <3>2, LengthIs
      <4>2. p % StreamLength # (h + k) % StreamLength
        BY <2>1, <4>1, LengthIs, RemaindersDiffer
      <4> QED BY <2>2, <2>4, <4>2
    <3> QED BY <2>3, <2>4, <3>1, <3>2
  <2>6. CASE p >= h
    <3>1. ASSUME h + k < p PROVE FALSE
      <4>1. h + k \in Nat /\ p < h + k + StreamLength
        BY <1>1, <2>1, <2>2, <2>6, LengthIs
      <4>2. (h + k) % StreamLength # p % StreamLength
        BY <2>1, <3>1, <4>1, LengthIs, RemaindersDiffer
      <4> QED BY <2>2, <2>4, <4>2
    <3>2. ASSUME p < h + k PROVE FALSE
      <4>1. h + k \in Nat /\ h + k < p + StreamLength
        BY <1>1, <2>1, <2>2, <2>6, LengthIs
      <4>2. p % StreamLength # (h + k) % StreamLength
        BY <2>1, <3>2, <4>1, LengthIs, RemaindersDiffer
      <4> QED BY <2>2, <2>4, <4>2
    <3>3. p = h + k /\ k < n /\ k \in 0 .. n - 1
      BY <1>1, <2>1, <2>2, <3>1, <3>2
    <3> QED BY <2>3, <2>4, <3>3
  <2> QED BY <1>1, <2>1, <2>5, <2>6
<1>4. h + n \in Nat /\ t <= h + n
  BY <1>1
<1> QED BY <1>1, <1>2, <1>3, <1>4 DEF Holds

(***************************************************************************)
(* What is in the ring.  In a message buffer each message starts at a      *)
(* member of S, ln is its length and d the number of the bytes before it.  *)
(***************************************************************************)
MessageAt(s, S, ln, d, c) ==
  /\ ln[s] \in WriteSizes
  /\ s + LengthBytes + ln[s] \in S
  /\ d[s + LengthBytes + ln[s]] = d[s] + ln[s]
  /\ \A j \in 0 .. LengthBytes - 1 : c[s + j] = ln[s]
  /\ \A j \in 0 .. ln[s] - 1 : c[s + LengthBytes + j] = Number(d[s] + j)

(* The messages from r to e.                                               *)
Messages(r, e, S, ln, d, c) ==
  /\ r \in S /\ e \in S /\ r <= e
  /\ \A s \in S : s \in Nat /\ s <= e /\ d[s] \in Nat
  /\ \A s \in S : r <= s /\ s < e => MessageAt(s, S, ln, d, c)

(* The writer has written the length of a message and not yet its data.    *)
WriterAt(h, e, c) ==
  IF writerPc = "writeData"
  THEN h = e + LengthBytes /\ \A j \in 0 .. LengthBytes - 1 : c[e + j] = toWrite
  ELSE h = e

(* The reader has read the length of a message and not yet its data; what  *)
(* it counts on is there.                                                  *)
ReaderAt(t, r, e, ln) ==
  /\ IF readerPc = "readData" THEN t = r + LengthBytes /\ nextLength = ln[r] ELSE t = r
  /\ readerPc \in {"read", "readData"} /\ xBytesAvailable > LengthBytes
       => r < e /\ LengthBytes + ln[r] <= xBytesAvailable

MessageContents(t, h, c) ==
  \E r, e, S, ln, d :
    /\ Messages(r, e, S, ln, d, c)
    /\ WriterAt(h, e, c) /\ ReaderAt(t, r, e, ln)
    /\ written = Number(d[e]) /\ consumed = Number(d[r])

(* The bytes of a stream.                                                  *)
StreamContents(t, h, c) ==
  /\ \A p \in t .. h - 1 : c[p] = Number(p)
  /\ written = Number(h) /\ consumed = Number(t)
  /\ readerPc = "read" => xBytesAvailable <= h - t

Contents(t, h, c) ==
  IF isMessageBuffer THEN MessageContents(t, h, c) ELSE StreamContents(t, h, c)

(***************************************************************************)
(* The invariant, where no message is put back: every reader has room for  *)
(* every message, and nobody asks for the length of the next one.          *)
(***************************************************************************)
NothingPutBack ==
  ~AsksLength /\ \A n \in WriteSizes, size \in MessageSizes : n <= size

StreamTypes ==
  /\ StreamTypeOK
  /\ toWrite \in Nat /\ toRead \in Nat

(* Where the two sides are in their calls.                                 *)
Positions ==
  /\ readerPc # "putBack"
  /\ readerPc \in {"blocked", "woken", "read", "readData"} => toRead \in BufferSizes
  /\ readerPc = "readData" => isMessageBuffer /\ xBytesAvailable > LengthBytes
  /\ writerPc # "idle" => toWrite \in WriteSizes
  /\ writerPc = "writeData" => isMessageBuffer /\ xSpace >= toWrite + LengthBytes

(* The space the writer counts on is there: only the reader changes it.    *)
SpaceIsThere ==
  /\ writerPc \in {"blocked", "again", "timedOut", "write"} => xSpace <= SpacesAvailable
  /\ writerPc = "writeData" => toWrite <= SpacesAvailable

(* Whoever waits and was not notified is still to be woken.                *)
WaitsAreKnown ==
  /\ readerPc = "blocked" /\ ~readerNotified => xTaskWaitingToReceive
  /\ writerPc = "blocked" /\ ~writerNotified => xTaskWaitingToSend

StreamInv ==
  /\ StreamTypes /\ Positions /\ SpaceIsThere /\ WaitsAreKnown /\ NoWakeUpLost
  /\ ~garbled
  /\ \E t, h, c : Holds(t, h, c) /\ Contents(t, h, c)

LEMMA StreamSizes ==
  /\ LengthBytes \in Nat \ {0} /\ StreamLength \in Nat /\ StreamLength > LengthBytes + 1
  /\ \A n \in WriteSizes : n \in Nat \ {0}
  /\ \A n \in ReadSizes : n \in Nat \ {0}
  /\ \A n \in MessageSizes : n \in Nat \ {0}
  /\ \A n \in TriggerLevels : n \in Nat
<1>1. /\ WriteSizes \subseteq Nat \ {0} /\ ReadSizes \subseteq Nat \ {0}
      /\ MessageSizes \subseteq Nat \ {0} /\ TriggerLevels \subseteq Nat
  BY StreamAssumption
<1> QED BY <1>1, StreamAssumption

LEMMA NumberIs == \A n \in Nat : Number(n) \in Numbers
<1> TAKE n \in Nat
<1> DEFINE m == StreamLength + 1
<1>1. m \in Nat \ {0} /\ StreamLength = m - 1
  BY StreamSizes
<1> HIDE DEF m
<1>2. n % m \in 0 .. m - 1
  BY <1>1
<1> QED BY <1>1, <1>2 DEF Number, Numbers, m

LEMMA NumberSum ==
  ASSUME NEW n \in Nat, NEW k \in Nat
  PROVE  Number(Number(n) + k) = Number(n + k)
<1>1. StreamLength + 1 \in Nat \ {0}
  BY StreamSizes
<1> QED BY <1>1, SumRemainder DEF Number

LEMMA HoldsStill ==
  ASSUME NEW t, NEW h, NEW c, Holds(t, h, c), ring' = ring
  PROVE  Holds(t, h, c)'
  BY DEF Holds, ring

(* What is in the ring is what was, when neither side begins or ends the   *)
(* second half of a message, and the reader counts on nothing new.         *)
LEMMA ContentsStill ==
  ASSUME NEW t, NEW h, NEW c, Contents(t, h, c),
         UNCHANGED <<isMessageBuffer, written, consumed>>,
         writerPc = "writeData" => writerPc' = "writeData" /\ toWrite' = toWrite,
         writerPc' = "writeData" => writerPc = "writeData",
         \/ UNCHANGED <<readerPc, xBytesAvailable, nextLength>>
         \/ readerPc # "readData" /\ readerPc' \notin {"read", "readData"}
  PROVE  Contents(t, h, c)'
<1>1. CASE isMessageBuffer
  <2>1. PICK r, e, S, ln, d :
          /\ Messages(r, e, S, ln, d, c)
          /\ WriterAt(h, e, c) /\ ReaderAt(t, r, e, ln)
          /\ written = Number(d[e]) /\ consumed = Number(d[r])
    BY <1>1 DEF Contents, MessageContents
  <2>2. WriterAt(h, e, c)'
    BY <2>1 DEF WriterAt
  <2>3. ReaderAt(t, r, e, ln)'
    BY <2>1 DEF ReaderAt
  <2>4. MessageContents(t, h, c)'
    BY <2>1, <2>2, <2>3 DEF MessageContents
  <2> QED BY <1>1, <2>4 DEF Contents
<1>2. CASE ~isMessageBuffer
  BY <1>2 DEF Contents, StreamContents
<1> QED BY <1>1, <1>2

(* The first message of the ring.                                          *)
LEMMA FirstMessage ==
  ASSUME NEW t, NEW h, NEW c, NEW r, NEW e, NEW S, NEW ln, NEW d,
         Holds(t, h, c), Messages(r, e, S, ln, d, c), WriterAt(h, e, c), r < e
  PROVE  /\ r \in Nat /\ e \in Nat /\ e <= h /\ ln[r] \in WriteSizes /\ ln[r] \in Nat \ {0}
         /\ d[r] \in Nat
         /\ r + LengthBytes + ln[r] <= e
         /\ t = r => ByteAt(0) = ln[r]
         /\ t = r => \A k \in 0 .. ln[r] - 1 : ByteAt(LengthBytes + k) = Number(d[r] + k)
         /\ t = r + LengthBytes => \A k \in 0 .. ln[r] - 1 : ByteAt(k) = Number(d[r] + k)
         /\ Messages(r + LengthBytes + ln[r], e, S, ln, d, c)
         /\ d[r + LengthBytes + ln[r]] = d[r] + ln[r]
<1>1. /\ r \in S /\ e \in S /\ r \in Nat /\ e \in Nat /\ d[r] \in Nat
      /\ MessageAt(r, S, ln, d, c)
  BY DEF Messages
<1>2. t \in Nat /\ h \in Nat /\ e <= h
  BY <1>1, StreamSizes DEF Holds, WriterAt
<1>3. ln[r] \in WriteSizes /\ ln[r] \in Nat \ {0} /\ r + LengthBytes + ln[r] \in S
      /\ d[r + LengthBytes + ln[r]] = d[r] + ln[r]
  BY <1>1, StreamSizes DEF MessageAt
<1>4. r + LengthBytes + ln[r] <= e
  BY <1>3 DEF Messages
<1>5. ASSUME t = r PROVE ByteAt(0) = ln[r]
  <2>1. t + 0 < h /\ 0 \in Nat /\ t + 0 = r + 0
    BY <1>1, <1>2, <1>3, <1>4, <1>5, StreamSizes
  <2>2. ByteAt(0) = c[t + 0]
    BY <2>1, ByteIs
  <2>3. 0 \in 0 .. LengthBytes - 1
    BY StreamSizes
  <2>4. c[r + 0] = ln[r]
    BY <1>1, <2>3 DEF MessageAt
  <2> QED BY <2>1, <2>2, <2>4
<1>6. ASSUME t = r, NEW k \in 0 .. ln[r] - 1
      PROVE  ByteAt(LengthBytes + k) = Number(d[r] + k)
  <2>1. LengthBytes + k \in Nat /\ t + (LengthBytes + k) < h /\ t + (LengthBytes + k) = r + LengthBytes + k
    BY <1>1, <1>2, <1>3, <1>4, <1>6, StreamSizes
  <2>2. ByteAt(LengthBytes + k) = c[t + (LengthBytes + k)]
    BY <2>1, ByteIs
  <2>3. c[r + LengthBytes + k] = Number(d[r] + k)
    BY <1>1 DEF MessageAt
  <2> QED BY <2>1, <2>2, <2>3
<1>7. ASSUME t = r + LengthBytes, NEW k \in 0 .. ln[r] - 1
      PROVE  ByteAt(k) = Number(d[r] + k)
  <2>1. k \in Nat /\ t + k < h /\ t + k = r + LengthBytes + k
    BY <1>1, <1>2, <1>3, <1>4, <1>7, StreamSizes
  <2>2. ByteAt(k) = c[t + k]
    BY <2>1, ByteIs
  <2>3. c[r + LengthBytes + k] = Number(d[r] + k)
    BY <1>1 DEF MessageAt
  <2> QED BY <2>1, <2>2, <2>3
<1>8. Messages(r + LengthBytes + ln[r], e, S, ln, d, c)
  <2> DEFINE q == r + LengthBytes + ln[r]
  <2>1. q \in S /\ q <= e /\ q > r
    BY <1>1, <1>3, <1>4, StreamSizes
  <2> HIDE DEF q
  <2>2. Messages(q, e, S, ln, d, c)
    <3>1. \A s \in S : q <= s /\ s < e => r <= s /\ s < e
      BY <2>1, <1>1 DEF Messages
    <3> QED BY <2>1, <3>1 DEF Messages
  <2> QED BY <2>2 DEF q
<1> QED BY <1>1, <1>2, <1>3, <1>4, <1>5, <1>6, <1>7, <1>8

(* The messages from r to e, and one of n bytes after them.                *)
OneMore(r, e, n, ln, d, b) ==
  \E R, k, a :
    /\ Messages(r, e + LengthBytes + n, R, k, a, b)
    /\ a[e + LengthBytes + n] = d[e] + n /\ a[r] = d[r]
    /\ r < e => k[r] = ln[r]
    /\ r = e => k[r] = n

LEMMA MessageAdded ==
  ASSUME NEW r, NEW e, NEW S, NEW ln, NEW d, NEW c, NEW b, NEW n \in WriteSizes,
         Messages(r, e, S, ln, d, c),
         \A p \in 0 .. e - 1 : b[p] = c[p],
         \A j \in 0 .. LengthBytes - 1 : b[e + j] = n,
         \A j \in 0 .. n - 1 : b[e + LengthBytes + j] = Number(d[e] + j)
  PROVE  OneMore(r, e, n, ln, d, b)
<1> DEFINE q == e + LengthBytes + n
           R == S \cup {q}
           k == [s \in Nat |-> IF s = e THEN n ELSE ln[s]]
           a == [s \in Nat |-> IF s = q THEN d[e] + n ELSE d[s]]
<1>1. /\ r \in S /\ e \in S /\ r <= e /\ r \in Nat /\ e \in Nat /\ d[e] \in Nat
      /\ \A s \in S : s \in Nat /\ s <= e /\ d[s] \in Nat
  BY DEF Messages
<1>2. n \in Nat \ {0} /\ q \in Nat /\ q > e
  BY <1>1, StreamSizes
<1>3. ASSUME NEW s \in S, r <= s, s < e PROVE MessageAt(s, R, k, a, b)
  <2>1. MessageAt(s, S, ln, d, c)
    BY <1>3 DEF Messages
  <2>2. k[s] = ln[s] /\ a[s] = d[s] /\ s \in Nat
    BY <1>1, <1>2, <1>3
  <2>3. ln[s] \in WriteSizes /\ ln[s] \in Nat \ {0} /\ s + LengthBytes + ln[s] \in S
    BY <2>1, StreamSizes DEF MessageAt
  <2>4. s + LengthBytes + ln[s] <= e /\ s + LengthBytes + ln[s] \in Nat
    BY <1>1, <2>3
  <2>5. a[s + LengthBytes + ln[s]] = d[s + LengthBytes + ln[s]]
    BY <1>1, <1>2, <2>4
  <2>6. \A j \in 0 .. LengthBytes - 1 : b[s + j] = c[s + j]
    <3>1. \A j \in 0 .. LengthBytes - 1 : s + j \in 0 .. e - 1
      BY <2>2, <2>3, <2>4, <1>1, StreamSizes
    <3> QED BY <3>1
  <2>7. \A j \in 0 .. ln[s] - 1 : b[s + LengthBytes + j] = c[s + LengthBytes + j]
    <3>1. \A j \in 0 .. ln[s] - 1 : s + LengthBytes + j \in 0 .. e - 1
      BY <2>2, <2>3, <2>4, <1>1, StreamSizes
    <3> QED BY <3>1
  <2> HIDE DEF q, k, a
  <2> QED BY <2>1, <2>2, <2>3, <2>5, <2>6, <2>7 DEF MessageAt
<1>4. MessageAt(e, R, k, a, b)
  <2>1. k[e] = n /\ a[e] = d[e] /\ a[q] = d[e] + n /\ q \in R /\ q = e + LengthBytes + n
    BY <1>1, <1>2
  <2> HIDE DEF q, k, a, R
  <2> QED BY <2>1 DEF MessageAt
<1>5. \A s \in R : s \in Nat /\ s <= q /\ a[s] \in Nat
  BY <1>1, <1>2
<1>6. r \in R /\ q \in R /\ r <= q
  BY <1>1, <1>2
<1>7. \A s \in R : r <= s /\ s < q => MessageAt(s, R, k, a, b)
  <2>1. \A s \in R : s < q => s \in S /\ (s = e \/ s < e)
    BY <1>1, <1>2
  <2> HIDE DEF k, a, R, q
  <2> QED BY <1>3, <1>4, <2>1
<1>8. a[q] = d[e] + n /\ a[r] = d[r] /\ (r < e => k[r] = ln[r]) /\ (r = e => k[r] = n)
  BY <1>1, <1>2
<1>9. Messages(r, q, R, k, a, b)
  <2> HIDE DEF k, a, R, q
  <2> QED BY <1>5, <1>6, <1>7 DEF Messages
<1> QED BY <1>8, <1>9 DEF OneMore

LEMMA StreamInvFacts ==
  ASSUME StreamInv
  PROVE  /\ BytesInBuffer \in 0 .. StreamLength - 1 /\ SpacesAvailable \in 0 .. StreamLength - 1
         /\ Prefix \in Nat /\ xTriggerLevelBytes \in Nat /\ toWrite \in Nat
<1>1. BytesInBuffer \in 0 .. StreamLength - 1 /\ SpacesAvailable \in 0 .. StreamLength - 1
  BY HoldsCounts DEF StreamInv
<1>2. xTriggerLevelBytes \in 1 .. StreamLength /\ toWrite \in Nat
  BY DEF StreamInv, StreamTypes, StreamTypeOK
<1>3. Prefix \in Nat
  BY StreamSizes DEF Prefix
<1> QED BY <1>1, <1>2, <1>3, StreamSizes

LEMMA CountsStill ==
  ASSUME ring' = ring
  PROVE  /\ BytesInBuffer' = BytesInBuffer /\ SpacesAvailable' = SpacesAvailable
         /\ isMessageBuffer' = isMessageBuffer /\ Prefix' = Prefix /\ BufferSizes' = BufferSizes
  BY DEF ring, BytesInBuffer, SpacesAvailable, Prefix, BufferSizes

LEMMA RingStill ==
  ASSUME StreamInv, ring' = ring, UNCHANGED <<written, consumed>>,
         writerPc = "writeData" => writerPc' = "writeData" /\ toWrite' = toWrite,
         writerPc' = "writeData" => writerPc = "writeData",
         \/ UNCHANGED <<readerPc, xBytesAvailable, nextLength>>
         \/ readerPc # "readData" /\ readerPc' \notin {"read", "readData"}
  PROVE  (\E t, h, c : Holds(t, h, c) /\ Contents(t, h, c))'
<1>1. PICK t, h, c : Holds(t, h, c) /\ Contents(t, h, c)
  BY DEF StreamInv
<1>2. Holds(t, h, c)'
  BY <1>1, HoldsStill
<1>3. Contents(t, h, c)'
  BY <1>1, ContentsStill DEF ring
<1> QED BY <1>2, <1>3

LEMMA LooksForSpaceInv ==
  ASSUME StreamInv, NEW n \in WriteSizes, NEW waits \in BOOLEAN,
         writerPc \in {"idle", "again"}, LooksForSpace(n, waits)
  PROVE  StreamInv'
<1> USE DEF LooksForSpace, readerLocal, levels
<1>1. ring' = ring
  OBVIOUS
<1>2. (\E t, h, c : Holds(t, h, c) /\ Contents(t, h, c))'
  BY <1>1, RingStill
<1>3. /\ SpacesAvailable \in 0 .. StreamLength - 1 /\ BytesInBuffer \in 0 .. StreamLength - 1
      /\ n \in Nat \ {0} /\ Prefix \in Nat
  BY StreamInvFacts, StreamSizes
<1>4. StreamTypes'
  BY <1>3 DEF StreamInv, StreamTypes, StreamTypeOK, ring
<1>5. Positions'
  BY <1>1, CountsStill DEF StreamInv, Positions
<1>6. SpaceIsThere'
  BY <1>1, <1>3, CountsStill DEF SpaceIsThere
<1>7. WaitsAreKnown'
  BY DEF StreamInv, WaitsAreKnown
<1>8. NoWakeUpLost'
  BY <1>1, <1>3, CountsStill DEF StreamInv, NoWakeUpLost, Required
<1> QED BY <1>2, <1>4, <1>5, <1>6, <1>7, <1>8 DEF StreamInv

LEMMA SenderWaitInv ==
  ASSUME StreamInv, SenderWakes \/ SenderTimesOut \/ WritesNothing
  PROVE  StreamInv'
<1> USE DEF SenderWakes, SenderTimesOut, WritesNothing, WriterDone, readerLocal, wakes, levels
<1>1. ring' = ring
  BY DEF ring
<1>2. (\E t, h, c : Holds(t, h, c) /\ Contents(t, h, c))'
  BY <1>1, RingStill
<1>3. SpacesAvailable \in 0 .. StreamLength - 1 /\ BytesInBuffer \in 0 .. StreamLength - 1
      /\ 0 \in 0 .. StreamLength - 1 /\ 0 \in Nat
  BY StreamInvFacts, StreamSizes
<1>4. StreamTypes'
  <2>1. /\ StreamTypeOK /\ toWrite \in Nat /\ toRead \in Nat
        /\ xTriggerLevelBytes' = xTriggerLevelBytes /\ levelLowered' = levelLowered
    BY DEF StreamInv, StreamTypes
  <2>2. CASE SenderWakes
    BY <1>3, <2>1, <2>2 DEF StreamTypes, StreamTypeOK, ring
  <2>3. CASE SenderTimesOut
    BY <1>3, <2>1, <2>3 DEF StreamTypes, StreamTypeOK, ring
  <2>4. CASE WritesNothing
    BY <1>3, <2>1, <2>4 DEF StreamTypes, StreamTypeOK, ring
  <2> QED BY <2>2, <2>3, <2>4
<1>5. Positions'
  BY <1>1, CountsStill DEF StreamInv, Positions
<1>6. SpaceIsThere'
  BY <1>1, <1>3, CountsStill DEF StreamInv, SpaceIsThere
<1>7. WaitsAreKnown'
  BY DEF StreamInv, WaitsAreKnown
<1>8. NoWakeUpLost'
  BY <1>1, <1>3, CountsStill DEF StreamInv, NoWakeUpLost, Required
<1> QED BY <1>2, <1>4, <1>5, <1>6, <1>7, <1>8 DEF StreamInv

LEMMA SendCompletesInv ==
  ASSUME StreamInv, SendCompletes
  PROVE  StreamInv'
<1> USE DEF SendCompletes, WriterDone, NotifiesReader, readerLocal, wakes, levels
<1>1. ring' = ring
  BY DEF ring
<1>2. (\E t, h, c : Holds(t, h, c) /\ Contents(t, h, c))'
  BY <1>1, RingStill
<1>3. SpacesAvailable \in 0 .. StreamLength - 1 /\ BytesInBuffer \in 0 .. StreamLength - 1
      /\ xTriggerLevelBytes \in Nat /\ 0 \in 0 .. StreamLength - 1
  BY StreamInvFacts, StreamSizes
<1>4. StreamTypes'
  BY <1>3 DEF StreamInv, StreamTypes, StreamTypeOK, ring
<1>5. Positions'
  BY <1>1, CountsStill DEF StreamInv, Positions
<1>6. SpaceIsThere'
  BY <1>1, <1>3, CountsStill DEF StreamInv, SpaceIsThere
<1>7. WaitsAreKnown'
  BY DEF StreamInv, WaitsAreKnown, StreamTypes, StreamTypeOK
<1>8. NoWakeUpLost'
  BY <1>1, <1>3, <1>7, CountsStill DEF StreamInv, NoWakeUpLost, Required, WaitsAreKnown, StreamTypes, StreamTypeOK
<1> QED BY <1>2, <1>4, <1>5, <1>6, <1>7, <1>8 DEF StreamInv

LEMMA ReceiverWaitInv ==
  ASSUME StreamInv, ReceiverWakes \/ ReadsNothing
  PROVE  StreamInv'
<1> USE DEF ReceiverWakes, ReadsNothing, ReaderDone, writerLocal, wakes, levels
<1>1. ring' = ring
  BY DEF ring
<1>2. (\E t, h, c : Holds(t, h, c) /\ Contents(t, h, c))'
  BY <1>1, RingStill
<1>3. SpacesAvailable \in 0 .. StreamLength - 1 /\ BytesInBuffer \in 0 .. StreamLength - 1
      /\ 0 \in 0 .. StreamLength - 1 /\ 0 \in Nat
  BY StreamInvFacts, StreamSizes
<1>4. StreamTypes'
  BY <1>3 DEF StreamInv, StreamTypes, StreamTypeOK, ring
<1>5. Positions'
  BY <1>1, CountsStill DEF StreamInv, Positions
<1>6. SpaceIsThere'
  BY <1>1, <1>3, CountsStill DEF StreamInv, SpaceIsThere
<1>7. WaitsAreKnown'
  BY DEF StreamInv, WaitsAreKnown
<1>8. NoWakeUpLost'
  BY <1>1, <1>3, CountsStill DEF StreamInv, NoWakeUpLost, Required
<1> QED BY <1>2, <1>4, <1>5, <1>6, <1>7, <1>8 DEF StreamInv

LEMMA ReceiveCompletesInv ==
  ASSUME StreamInv, ReceiveCompletes
  PROVE  StreamInv'
<1> USE DEF ReceiveCompletes, ReaderDone, NotifiesWriter, writerLocal, wakes, levels
<1>1. ring' = ring
  BY DEF ring
<1>2. (\E t, h, c : Holds(t, h, c) /\ Contents(t, h, c))'
  BY <1>1, RingStill
<1>3. SpacesAvailable \in 0 .. StreamLength - 1 /\ BytesInBuffer \in 0 .. StreamLength - 1
      /\ 0 \in 0 .. StreamLength - 1 /\ 0 \in Nat
  BY StreamInvFacts, StreamSizes
<1>4. StreamTypes'
  BY <1>3 DEF StreamInv, StreamTypes, StreamTypeOK, ring
<1>5. Positions'
  BY <1>1, CountsStill DEF StreamInv, Positions
<1>6. SpaceIsThere'
  BY <1>1, <1>3, CountsStill DEF StreamInv, SpaceIsThere
<1>7. WaitsAreKnown'
  BY DEF StreamInv, WaitsAreKnown, StreamTypes, StreamTypeOK
<1>8. NoWakeUpLost'
  BY <1>1, <1>3, <1>7, CountsStill DEF StreamInv, NoWakeUpLost, Required, WaitsAreKnown, StreamTypes, StreamTypeOK
<1> QED BY <1>2, <1>4, <1>5, <1>6, <1>7, <1>8 DEF StreamInv

LEMMA SetTriggerLevelInv ==
  ASSUME StreamInv, NEW n \in TriggerLevels, SetTriggerLevel(n)
  PROVE  StreamInv'
<1> USE DEF SetTriggerLevel, writerLocal, readerLocal, wakes, levels
<1>1. ring' = ring
  OBVIOUS
<1>2. (\E t, h, c : Holds(t, h, c) /\ Contents(t, h, c))'
  BY <1>1, RingStill
<1>3. /\ Level(n) \in 1 .. StreamLength /\ levelLowered' \in BOOLEAN
      /\ BytesInBuffer \in Nat /\ xTriggerLevelBytes \in Nat
  <2>1. n \in Nat /\ n <= StreamLength /\ StreamLength \in Nat /\ StreamLength > 0
    BY StreamSizes
  <2>2. Level(n) \in 1 .. StreamLength
    BY <2>1 DEF Level
  <2> QED BY <2>1, <2>2, StreamInvFacts DEF StreamInv, StreamTypes, StreamTypeOK
<1>4. StreamTypes'
  BY <1>3 DEF StreamInv, StreamTypes, StreamTypeOK, ring
<1>5. Positions'
  BY <1>1, CountsStill DEF StreamInv, Positions
<1>6. SpaceIsThere'
  BY <1>1, CountsStill DEF StreamInv, SpaceIsThere
<1>7. WaitsAreKnown'
  BY DEF StreamInv, WaitsAreKnown
<1>8. NoWakeUpLost'
  BY <1>1, <1>3, CountsStill DEF StreamInv, NoWakeUpLost, Required
<1> QED BY <1>2, <1>4, <1>5, <1>6, <1>7, <1>8 DEF StreamInv

LEMMA CompletedFromISRInv ==
  ASSUME StreamInv, CompletedFromISR
  PROVE  StreamInv'
<1> USE DEF CompletedFromISR, NotifiesReader, NotifiesWriter, writerLocal, readerLocal, levels
<1>1. ring' = ring
  OBVIOUS
<1>2. (\E t, h, c : Holds(t, h, c) /\ Contents(t, h, c))'
  BY <1>1, RingStill
<1>4. StreamTypes'
  BY DEF StreamInv, StreamTypes, StreamTypeOK, ring
<1>5. Positions'
  BY <1>1, CountsStill DEF StreamInv, Positions
<1>6. SpaceIsThere'
  BY <1>1, CountsStill DEF StreamInv, SpaceIsThere
<1>7. WaitsAreKnown'
  BY DEF StreamInv, WaitsAreKnown, StreamTypes, StreamTypeOK
<1>8. NoWakeUpLost'
  BY <1>1, CountsStill DEF StreamInv, NoWakeUpLost, Required, StreamTypes, StreamTypeOK
<1> QED BY <1>2, <1>4, <1>5, <1>6, <1>7, <1>8 DEF StreamInv

(* A reader looks at the buffer: what it sees ends with a message.         *)
LEMMA LooksAtBytes ==
  ASSUME StreamInv, ring' = ring, UNCHANGED <<written, consumed, writerPc, toWrite>>,
         readerPc # "readData", readerPc' # "readData", xBytesAvailable' = BytesInBuffer
  PROVE  (\E t, h, c : Holds(t, h, c) /\ Contents(t, h, c))'
<1>1. PICK t, h, c : Holds(t, h, c) /\ Contents(t, h, c)
  BY DEF StreamInv
<1>2. Holds(t, h, c)'
  BY <1>1, HoldsStill
<1>3. BytesInBuffer = h - t /\ t \in Nat /\ h \in Nat
  BY <1>1, HoldsCounts DEF Holds
<1>4. Contents(t, h, c)'
  <2>1. CASE isMessageBuffer
    <3>1. PICK r, e, S, ln, d :
            /\ Messages(r, e, S, ln, d, c)
            /\ WriterAt(h, e, c) /\ ReaderAt(t, r, e, ln)
            /\ written = Number(d[e]) /\ consumed = Number(d[r])
      BY <1>1, <2>1 DEF Contents, MessageContents
    <3>2. WriterAt(h, e, c)'
      BY <3>1 DEF WriterAt
    <3>3. t = r
      BY <3>1 DEF ReaderAt
    <3>4. ASSUME BytesInBuffer > LengthBytes PROVE r < e /\ LengthBytes + ln[r] <= BytesInBuffer
      <4>1. r \in Nat /\ e \in Nat /\ r <= e
        BY <3>1 DEF Messages
      <4>2. h = e + LengthBytes \/ h = e
        BY <3>1 DEF WriterAt
      <4>3. r < e
        BY <1>3, <3>3, <3>4, <4>1, <4>2, StreamSizes
      <4>4. e <= h /\ ln[r] \in Nat \ {0} /\ r + LengthBytes + ln[r] <= e
        BY <1>1, <3>1, <4>3, FirstMessage
      <4> QED BY <1>3, <3>3, <4>1, <4>3, <4>4, StreamSizes
    <3>5. ReaderAt(t, r, e, ln)'
      BY <3>3, <3>4 DEF ReaderAt
    <3>6. MessageContents(t, h, c)'
      BY <3>1, <3>2, <3>5 DEF MessageContents
    <3> QED BY <2>1, <3>6 DEF Contents, ring
  <2>2. CASE ~isMessageBuffer
    <3>1. StreamContents(t, h, c)
      BY <1>1, <2>2 DEF Contents
    <3>2. StreamContents(t, h, c)'
      BY <1>3, <3>1 DEF StreamContents
    <3> QED BY <2>2, <3>2 DEF Contents, ring
  <2> QED BY <2>1, <2>2
<1> QED BY <1>2, <1>4

LEMMA ReceiveInv ==
  ASSUME StreamInv, Receive
  PROVE  StreamInv'
<1> USE DEF Receive, writerLocal, levels
<1>1. ring' = ring /\ readerPc' \in {"blocked", "read"}
  OBVIOUS
<1>2. (\E t, h, c : Holds(t, h, c) /\ Contents(t, h, c))'
  BY <1>1, LooksAtBytes
<1>3. /\ SpacesAvailable \in 0 .. StreamLength - 1 /\ BytesInBuffer \in 0 .. StreamLength - 1
      /\ Prefix \in Nat /\ xTriggerLevelBytes \in Nat
  BY StreamInvFacts
<1>t. toRead' \in Nat
  BY StreamSizes DEF BufferSizes
<1>4. StreamTypes'
  BY <1>3, <1>t DEF StreamInv, StreamTypes, StreamTypeOK, ring
<1>5. Positions'
  BY <1>1, CountsStill DEF StreamInv, Positions
<1>6. SpaceIsThere'
  BY <1>1, <1>3, CountsStill DEF StreamInv, SpaceIsThere
<1>7. WaitsAreKnown'
  BY DEF StreamInv, WaitsAreKnown
<1>8. NoWakeUpLost'
  BY <1>1, <1>3, CountsStill DEF StreamInv, NoWakeUpLost, Required
<1> QED BY <1>2, <1>4, <1>5, <1>6, <1>7, <1>8 DEF StreamInv

LEMMA ReceiverLooksAgainInv ==
  ASSUME StreamInv, ReceiverLooksAgain
  PROVE  StreamInv'
<1> USE DEF ReceiverLooksAgain, writerLocal, levels
<1>1. ring' = ring
  OBVIOUS
<1>2. (\E t, h, c : Holds(t, h, c) /\ Contents(t, h, c))'
  BY <1>1, LooksAtBytes
<1>3. /\ SpacesAvailable \in 0 .. StreamLength - 1 /\ BytesInBuffer \in 0 .. StreamLength - 1
  BY StreamInvFacts
<1>4. StreamTypes'
  BY <1>3 DEF StreamInv, StreamTypes, StreamTypeOK, ring
<1>5. Positions'
  BY <1>1, CountsStill DEF StreamInv, Positions
<1>6. SpaceIsThere'
  BY <1>1, <1>3, CountsStill DEF StreamInv, SpaceIsThere
<1>7. WaitsAreKnown'
  BY DEF StreamInv, WaitsAreKnown
<1>8. NoWakeUpLost'
  BY <1>1, <1>3, CountsStill DEF StreamInv, NoWakeUpLost, Required
<1> QED BY <1>2, <1>4, <1>5, <1>6, <1>7, <1>8 DEF StreamInv

(* What is left of the invariant after n bytes were read.                  *)
LEMMA SpaceGrows ==
  ASSUME StreamInv, NEW n \in Nat, SpacesAvailable' = SpacesAvailable + n,
         UNCHANGED <<writerPc, toWrite, xSpace>>
  PROVE  SpaceIsThere'
<1>1. SpacesAvailable \in Nat /\ toWrite \in Nat /\ xSpace \in Nat
  BY StreamInvFacts DEF StreamInv, StreamTypes, StreamTypeOK
<1> QED BY <1>1 DEF StreamInv, SpaceIsThere

LEMMA ReadLengthInv ==
  ASSUME StreamInv, NothingPutBack, ReadLength
  PROVE  StreamInv'
<1> USE DEF ReadLength, writerLocal, wakes, levels
<1>0. Prefix = LengthBytes /\ isMessageBuffer /\ isMessageBuffer'
  BY StreamSizes DEF Prefix
<1>1. PICK t, h, c : Holds(t, h, c) /\ Contents(t, h, c)
  BY DEF StreamInv
<1>2. PICK r, e, S, ln, d :
        /\ Messages(r, e, S, ln, d, c)
        /\ WriterAt(h, e, c) /\ ReaderAt(t, r, e, ln)
        /\ written = Number(d[e]) /\ consumed = Number(d[r])
  BY <1>0, <1>1 DEF Contents, MessageContents
<1>3. t = r /\ r < e /\ LengthBytes + ln[r] <= xBytesAvailable
  BY <1>0, <1>2 DEF ReaderAt
<1>4. /\ r \in Nat /\ e \in Nat /\ e <= h /\ h \in Nat
      /\ ln[r] \in WriteSizes /\ ln[r] \in Nat \ {0}
      /\ r + LengthBytes + ln[r] <= e /\ ByteAt(0) = ln[r]
  BY <1>1, <1>2, <1>3, FirstMessage DEF Holds
<1>5. toRead \in MessageSizes /\ toRead \in Nat
  BY <1>0, StreamSizes DEF StreamInv, Positions, BufferSizes
<1>6. readerPc' = "readData" /\ nextLength' = ln[r]
  BY <1>4, <1>5, StreamSizes DEF NothingPutBack
<1>7. Holds(t + LengthBytes, h, c)'
  BY <1>0, <1>1, <1>3, <1>4, ReadKeeps, StreamSizes
<1>8. Contents(t + LengthBytes, h, c)'
  <2>1. WriterAt(h, e, c)'
    BY <1>2 DEF WriterAt
  <2>2. ReaderAt(t + LengthBytes, r, e, ln)'
    BY <1>3, <1>6 DEF ReaderAt
  <2>3. MessageContents(t + LengthBytes, h, c)'
    BY <1>2, <2>1, <2>2 DEF MessageContents
  <2> QED BY <1>0, <2>3 DEF Contents
<1>9. /\ SpacesAvailable' = SpacesAvailable + LengthBytes
      /\ LengthBytes \in Nat
  <2>1. SpacesAvailable' = StreamLength - 1 - (h - (t + LengthBytes))
    BY <1>7, HoldsCountsNext
  <2>2. SpacesAvailable = StreamLength - 1 - (h - t)
    BY <1>1, HoldsCounts
  <2> QED BY <1>3, <1>4, <2>1, <2>2, StreamSizes
<1>10. xTail' \in 0 .. StreamLength - 1
  BY <1>7, HoldsCountsNext
<1>11. StreamTypes'
  BY <1>6, <1>10 DEF StreamInv, StreamTypes, StreamTypeOK
<1>12. Positions'
  BY <1>0, <1>6 DEF StreamInv, Positions, BufferSizes
<1>13. SpaceIsThere'
  BY <1>9, SpaceGrows
<1>14. WaitsAreKnown' /\ NoWakeUpLost'
  BY <1>6 DEF StreamInv, WaitsAreKnown, NoWakeUpLost
<1> QED BY <1>7, <1>8, <1>11, <1>12, <1>13, <1>14 DEF StreamInv

LEMMA ReadDataInv ==
  ASSUME StreamInv, ReadData
  PROVE  StreamInv'
<1> USE DEF ReadData, writerLocal, wakes, levels
<1>n. PICK n : n = Smaller(IF Prefix > 0 THEN nextLength ELSE toRead, xBytesAvailable - Prefix)
  OBVIOUS
<1>0. readerPc' = "complete" /\ xBytesAvailable \in Nat /\ consumed' = Number(consumed + n)
      /\ garbled' = (garbled \/ ~Received(n)) /\ ReadBytes(n)
  BY <1>n DEF StreamInv, StreamTypes, StreamTypeOK
<1>1. PICK t, h, c : Holds(t, h, c) /\ Contents(t, h, c)
  BY DEF StreamInv
<1>2. t \in Nat /\ h \in Nat
  BY <1>1 DEF Holds
<1>3. n \in Nat /\ t + n <= h /\ Received(n) /\ Contents(t + n, h, c)'
  <2>1. CASE isMessageBuffer
    <3>0. Prefix = LengthBytes /\ readerPc = "readData" /\ xBytesAvailable > LengthBytes
          /\ isMessageBuffer'
      BY <2>1, StreamSizes DEF Prefix
    <3>1. PICK r, e, S, ln, d :
            /\ Messages(r, e, S, ln, d, c)
            /\ WriterAt(h, e, c) /\ ReaderAt(t, r, e, ln)
            /\ written = Number(d[e]) /\ consumed = Number(d[r])
      BY <1>1, <2>1 DEF Contents, MessageContents
    <3>2. t = r + LengthBytes /\ nextLength = ln[r] /\ r < e /\ LengthBytes + ln[r] <= xBytesAvailable
      BY <3>0, <3>1 DEF ReaderAt
    <3>3. /\ r \in Nat /\ e \in Nat /\ e <= h /\ ln[r] \in Nat \ {0} /\ d[r] \in Nat
          /\ r + LengthBytes + ln[r] <= e
          /\ \A k \in 0 .. ln[r] - 1 : ByteAt(k) = Number(d[r] + k)
          /\ Messages(r + LengthBytes + ln[r], e, S, ln, d, c)
          /\ d[r + LengthBytes + ln[r]] = d[r] + ln[r]
      BY <1>1, <3>1, <3>2, FirstMessage
    <3>4. n = ln[r]
      BY <1>0, <1>n, <3>0, <3>2, <3>3, StreamSizes DEF Smaller
    <3>5. Received(n)
      <4>1. ASSUME NEW k \in 0 .. n - 1 PROVE ByteAt(k) = Number(consumed + k)
        <5>1. k \in Nat /\ ByteAt(k) = Number(d[r] + k)
          BY <3>3, <3>4
        <5> QED BY <3>1, <3>3, <5>1, NumberSum
      <4> QED BY <4>1 DEF Received
    <3>6. Contents(t + n, h, c)'
      <4> DEFINE q == r + LengthBytes + ln[r]
      <4>1. WriterAt(h, e, c)'
        BY <3>1 DEF WriterAt
      <4>2. t + n = q
        BY <1>2, <3>2, <3>3, <3>4, StreamSizes
      <4>3. Messages(q, e, S, ln, d, c) /\ d[q] = d[r] + ln[r]
        BY <3>3
      <4>4. consumed' = Number(d[q])
        <5>1. consumed' = Number(consumed + ln[r])
          BY <1>0, <3>4
        <5>2. consumed = Number(d[r]) /\ d[r] \in Nat /\ ln[r] \in Nat
          BY <3>1, <3>3
        <5>3. Number(consumed + ln[r]) = Number(d[r] + ln[r])
          BY <5>2, NumberSum
        <5> QED BY <4>3, <5>1, <5>3
      <4>5. written' = Number(d[e])
        BY <3>1
      <4> HIDE DEF q
      <4>6. ReaderAt(t + n, q, e, ln)'
        BY <1>0, <4>2 DEF ReaderAt
      <4>7. MessageContents(t + n, h, c)'
        BY <4>1, <4>3, <4>4, <4>5, <4>6 DEF MessageContents
      <4> QED BY <3>0, <4>7 DEF Contents
    <3> QED BY <1>2, <3>2, <3>3, <3>4, <3>5, <3>6, StreamSizes
  <2>2. CASE ~isMessageBuffer
    <3>0. Prefix = 0 /\ ~isMessageBuffer' /\ toRead \in Nat /\ readerPc = "read"
      BY <2>2 DEF Prefix, StreamInv, StreamTypes
    <3>1. /\ \A p \in t .. h - 1 : c[p] = Number(p)
          /\ written = Number(h) /\ consumed = Number(t)
          /\ xBytesAvailable <= h - t
      BY <1>1, <2>2, <3>0 DEF Contents, StreamContents
    <3>2. n \in Nat /\ n <= xBytesAvailable /\ t + n <= h
      BY <1>0, <1>2, <1>n, <3>0, <3>1 DEF Smaller
    <3>3. Received(n)
      <4>1. ASSUME NEW k \in 0 .. n - 1 PROVE ByteAt(k) = Number(consumed + k)
        <5>1. k \in Nat /\ t + k < h /\ t + k \in t .. h - 1
          BY <1>2, <3>2
        <5>2. ByteAt(k) = c[t + k]
          BY <1>1, <5>1, ByteIs
        <5> QED BY <1>2, <3>1, <5>1, <5>2, NumberSum
      <4> QED BY <4>1 DEF Received
    <3>4. Contents(t + n, h, c)'
      <4>1. consumed' = Number(t + n)
        BY <1>0, <1>2, <3>1, <3>2, NumberSum
      <4>2. \A p \in t + n .. h - 1 : c[p] = Number(p)
        BY <1>2, <3>1, <3>2
      <4> QED BY <1>0, <3>0, <3>1, <4>1, <4>2 DEF Contents, StreamContents
    <3> QED BY <3>2, <3>3, <3>4
  <2> QED BY <2>1, <2>2
<1>4. Holds(t + n, h, c)'
  <2>1. ReadBytes(n) /\ xHead' = xHead /\ pucBuffer' = pucBuffer
    BY <1>0
  <2> QED BY <1>1, <1>3, <2>1, ReadKeeps
<1>5. SpacesAvailable' = SpacesAvailable + n
  <2>1. SpacesAvailable' = StreamLength - 1 - (h - (t + n))
    BY <1>4, HoldsCountsNext
  <2>2. SpacesAvailable = StreamLength - 1 - (h - t)
    BY <1>1, HoldsCounts
  <2> QED BY <1>2, <1>3, <2>1, <2>2, StreamSizes
<1>6. xTail' \in 0 .. StreamLength - 1
  BY <1>4, HoldsCountsNext
<1>7. consumed' \in Numbers
  <2>1. consumed + n \in Nat
    BY <1>3, StreamSizes DEF StreamInv, StreamTypes, StreamTypeOK, Numbers
  <2> QED BY <1>0, <2>1, NumberIs
<1>8. ~garbled'
  BY <1>0, <1>3 DEF StreamInv
<1>11. StreamTypes'
  BY <1>6, <1>7, <1>8 DEF StreamInv, StreamTypes, StreamTypeOK
<1>12. Positions'
  BY <1>0 DEF StreamInv, Positions, BufferSizes
<1>13. SpaceIsThere'
  BY <1>3, <1>5, SpaceGrows
<1>14. WaitsAreKnown' /\ NoWakeUpLost'
  BY <1>0 DEF StreamInv, WaitsAreKnown, NoWakeUpLost
<1> QED BY <1>3, <1>4, <1>8, <1>11, <1>12, <1>13, <1>14 DEF StreamInv

LEMMA ReceiveFromISRInv ==
  ASSUME StreamInv, NEW size \in BufferSizes, ReceiveFromISR(size)
  PROVE  StreamInv'
<1> USE DEF ReceiveFromISR, NotifiesWriter, writerLocal, readerLocal, levels
<1>n. PICK n : n = Smaller(IF Prefix > 0 THEN ByteAt(0) ELSE size, BytesInBuffer - Prefix)
  OBVIOUS
<1>0. /\ readerPc = "idle" /\ readerPc' = "idle" /\ consumed' = Number(consumed + n)
      /\ BytesInBuffer \in Nat /\ BytesInBuffer > Prefix /\ ReadBytes(Prefix + n)
      /\ garbled' = (garbled \/ \E k \in 0 .. n - 1 : ByteAt(Prefix + k) # Number(consumed + k))
  BY <1>n, StreamInvFacts
<1>1. PICK t, h, c : Holds(t, h, c) /\ Contents(t, h, c)
  BY DEF StreamInv
<1>2. t \in Nat /\ h \in Nat /\ BytesInBuffer = h - t /\ t <= h
  BY <1>1, HoldsCounts DEF Holds
<1>p. PICK m : m = Prefix + n
  OBVIOUS
<1>3. /\ n \in Nat /\ m \in Nat /\ t + m <= h
      /\ \A k \in 0 .. n - 1 : ByteAt(Prefix + k) = Number(consumed + k)
      /\ Contents(t + m, h, c)'
  <2>1. CASE isMessageBuffer
    <3>0. Prefix = LengthBytes /\ Prefix > 0 /\ isMessageBuffer'
      BY <2>1, StreamSizes DEF Prefix
    <3>1. PICK r, e, S, ln, d :
            /\ Messages(r, e, S, ln, d, c)
            /\ WriterAt(h, e, c) /\ ReaderAt(t, r, e, ln)
            /\ written = Number(d[e]) /\ consumed = Number(d[r])
      BY <1>1, <2>1 DEF Contents, MessageContents
    <3>2. t = r /\ r < e
      <4>1. r \in Nat /\ e \in Nat /\ r <= e
        BY <3>1 DEF Messages
      <4>2. t = r
        BY <1>0, <3>1 DEF ReaderAt
      <4>3. h = e + LengthBytes \/ h = e
        BY <3>1 DEF WriterAt
      <4> QED BY <1>0, <1>2, <3>0, <4>1, <4>2, <4>3, StreamSizes
    <3>3. /\ r \in Nat /\ e \in Nat /\ e <= h /\ ln[r] \in Nat \ {0} /\ d[r] \in Nat
          /\ r + LengthBytes + ln[r] <= e /\ ByteAt(0) = ln[r]
          /\ \A k \in 0 .. ln[r] - 1 : ByteAt(LengthBytes + k) = Number(d[r] + k)
          /\ Messages(r + LengthBytes + ln[r], e, S, ln, d, c)
          /\ d[r + LengthBytes + ln[r]] = d[r] + ln[r]
      BY <1>1, <3>1, <3>2, FirstMessage
    <3>4. n = ln[r] /\ m = LengthBytes + ln[r]
      BY <1>2, <1>n, <1>p, <3>0, <3>2, <3>3, StreamSizes DEF Smaller
    <3>5. \A k \in 0 .. n - 1 : ByteAt(Prefix + k) = Number(consumed + k)
      <4>1. ASSUME NEW k \in 0 .. n - 1 PROVE ByteAt(Prefix + k) = Number(consumed + k)
        <5>1. k \in Nat /\ ByteAt(LengthBytes + k) = Number(d[r] + k)
          BY <3>3, <3>4
        <5> QED BY <3>0, <3>1, <3>3, <5>1, NumberSum
      <4> QED BY <4>1
    <3>6. Contents(t + m, h, c)'
      <4> DEFINE q == r + LengthBytes + ln[r]
      <4>1. WriterAt(h, e, c)'
        BY <3>1 DEF WriterAt
      <4>2. t + m = q
        BY <1>2, <3>2, <3>3, <3>4, StreamSizes
      <4>3. Messages(q, e, S, ln, d, c) /\ d[q] = d[r] + ln[r]
        BY <3>3
      <4>4. consumed' = Number(d[q])
        <5>1. consumed' = Number(consumed + ln[r])
          BY <1>0, <3>4
        <5>2. consumed = Number(d[r]) /\ d[r] \in Nat /\ ln[r] \in Nat
          BY <3>1, <3>3
        <5>3. Number(consumed + ln[r]) = Number(d[r] + ln[r])
          BY <5>2, NumberSum
        <5> QED BY <4>3, <5>1, <5>3
      <4>5. written' = Number(d[e])
        BY <3>1
      <4> HIDE DEF q
      <4>6. ReaderAt(t + m, q, e, ln)'
        BY <1>0, <4>2 DEF ReaderAt
      <4>7. MessageContents(t + m, h, c)'
        BY <4>1, <4>3, <4>4, <4>5, <4>6 DEF MessageContents
      <4> QED BY <3>0, <4>7 DEF Contents
    <3> QED BY <1>2, <3>2, <3>3, <3>4, <3>5, <3>6, StreamSizes
  <2>2. CASE ~isMessageBuffer
    <3>0. Prefix = 0 /\ ~isMessageBuffer' /\ size \in Nat
      BY <2>2, StreamSizes DEF Prefix, BufferSizes
    <3>1. /\ \A p \in t .. h - 1 : c[p] = Number(p)
          /\ written = Number(h) /\ consumed = Number(t)
      BY <1>1, <2>2, <3>0 DEF Contents, StreamContents
    <3>2. n \in Nat /\ m = n /\ t + n <= h
      BY <1>0, <1>2, <1>n, <1>p, <3>0, <3>1 DEF Smaller
    <3>3. \A k \in 0 .. n - 1 : ByteAt(Prefix + k) = Number(consumed + k)
      <4>1. ASSUME NEW k \in 0 .. n - 1 PROVE ByteAt(Prefix + k) = Number(consumed + k)
        <5>1. k \in Nat /\ t + k < h /\ t + k \in t .. h - 1 /\ Prefix + k = k
          BY <1>2, <3>0, <3>2
        <5>2. ByteAt(k) = c[t + k]
          BY <1>1, <5>1, ByteIs
        <5> QED BY <1>2, <3>1, <5>1, <5>2, NumberSum
      <4> QED BY <4>1
    <3>4. Contents(t + m, h, c)'
      <4>1. consumed' = Number(t + m)
        BY <1>0, <1>2, <3>1, <3>2, NumberSum
      <4>2. \A p \in t + m .. h - 1 : c[p] = Number(p)
        BY <1>2, <3>1, <3>2
      <4> QED BY <1>0, <3>0, <3>1, <4>1, <4>2 DEF Contents, StreamContents
    <3> QED BY <3>2, <3>3, <3>4
  <2> QED BY <2>1, <2>2
<1>4. Holds(t + m, h, c)'
  <2>1. ReadBytes(m) /\ xHead' = xHead /\ pucBuffer' = pucBuffer
    BY <1>0, <1>p
  <2> QED BY <1>1, <1>3, <2>1, ReadKeeps
<1>5. SpacesAvailable' = SpacesAvailable + m
  <2>1. SpacesAvailable' = StreamLength - 1 - (h - (t + m))
    BY <1>4, HoldsCountsNext
  <2>2. SpacesAvailable = StreamLength - 1 - (h - t)
    BY <1>1, HoldsCounts
  <2> QED BY <1>2, <1>3, <2>1, <2>2, StreamSizes
<1>6. xTail' \in 0 .. StreamLength - 1
  BY <1>4, HoldsCountsNext
<1>7. consumed' \in Numbers
  <2>1. consumed + n \in Nat
    BY <1>3, StreamSizes DEF StreamInv, StreamTypes, StreamTypeOK, Numbers
  <2> QED BY <1>0, <2>1, NumberIs
<1>8. ~garbled'
  BY <1>0, <1>3 DEF StreamInv
<1>11. StreamTypes'
  BY <1>6, <1>7, <1>8 DEF StreamInv, StreamTypes, StreamTypeOK
<1>12. Positions'
  BY <1>0 DEF StreamInv, Positions, BufferSizes
<1>13. SpaceIsThere'
  BY <1>3, <1>5, SpaceGrows
<1>14. WaitsAreKnown'
  BY <1>0 DEF StreamInv, WaitsAreKnown, StreamTypes, StreamTypeOK
<1>15. NoWakeUpLost'
  BY <1>0 DEF StreamInv, WaitsAreKnown, NoWakeUpLost, StreamTypes, StreamTypeOK
<1> QED BY <1>3, <1>4, <1>8, <1>11, <1>12, <1>13, <1>14, <1>15 DEF StreamInv

(***************************************************************************)
(* Writing.                                                                *)
(***************************************************************************)
LEMMA WriteTypes ==
  ASSUME StreamTypeOK, NEW n \in Nat, NEW f, WriteBytes(f, n), \A k \in 0 .. n - 1 : f[k + 1] \in Nat
  PROVE  pucBuffer' \in [0 .. StreamLength - 1 -> Nat]
<1>1. ASSUME NEW i \in 0 .. StreamLength - 1
      PROVE  LET k == (StreamLength + i - xHead) % StreamLength
             IN  (IF k < n THEN f[k + 1] ELSE pucBuffer[i]) \in Nat
  <2> DEFINE k == (StreamLength + i - xHead) % StreamLength
  <2>1. k \in 0 .. StreamLength - 1
    BY LengthIs DEF StreamTypeOK
  <2>2. pucBuffer[i] \in Nat
    BY DEF StreamTypeOK
  <2> HIDE DEF k
  <2>3. (IF k < n THEN f[k + 1] ELSE pucBuffer[i]) \in Nat
    BY <2>1, <2>2
  <2> QED BY <2>3 DEF k
<1> QED BY <1>1 DEF WriteBytes

(* What fits is there.                                                     *)
LEMMA FittingIs ==
  ASSUME NEW n \in Nat, NEW s \in Nat
  PROVE  /\ Fitting(n, s) \in 0 .. n /\ Fitting(n, s) <= s
         /\ isMessageBuffer /\ Fitting(n, s) > 0 => Fitting(n, s) = n /\ n + LengthBytes <= s
         /\ isMessageBuffer /\ n > 0 /\ n + LengthBytes <= s => Fitting(n, s) = n
<1>1. Prefix = IF isMessageBuffer THEN LengthBytes ELSE 0
  BY DEF Prefix
<1> QED BY <1>1, StreamSizes DEF Fitting, Smaller, Required

(* The bytes after the last message are no part of the messages.           *)
LEMMA MessagesAgree ==
  ASSUME NEW r, NEW e, NEW S, NEW ln, NEW d, NEW c, NEW b,
         Messages(r, e, S, ln, d, c), \A p \in 0 .. e - 1 : b[p] = c[p]
  PROVE  Messages(r, e, S, ln, d, b)
<1>1. r \in Nat /\ e \in Nat /\ \A s \in S : s \in Nat /\ s <= e
  BY DEF Messages
<1>2. ASSUME NEW s \in S, r <= s, s < e PROVE MessageAt(s, S, ln, d, b)
  <2>1. MessageAt(s, S, ln, d, c)
    BY <1>2 DEF Messages
  <2>2. ln[s] \in Nat \ {0} /\ s + LengthBytes + ln[s] \in S /\ s \in Nat
    BY <1>1, <2>1, StreamSizes DEF MessageAt
  <2>3. s + LengthBytes + ln[s] <= e
    BY <1>1, <2>2
  <2>4. \A j \in 0 .. LengthBytes - 1 : b[s + j] = c[s + j]
    <3>1. \A j \in 0 .. LengthBytes - 1 : s + j \in 0 .. e - 1
      BY <1>1, <2>2, <2>3, StreamSizes
    <3> QED BY <3>1
  <2>5. \A j \in 0 .. ln[s] - 1 : b[s + LengthBytes + j] = c[s + LengthBytes + j]
    <3>1. \A j \in 0 .. ln[s] - 1 : s + LengthBytes + j \in 0 .. e - 1
      BY <1>1, <2>2, <2>3, StreamSizes
    <3> QED BY <3>1
  <2> QED BY <2>1, <2>4, <2>5 DEF MessageAt
<1> QED BY <1>2 DEF Messages

LEMMA WriteLengthInv ==
  ASSUME StreamInv, WriteLength
  PROVE  StreamInv'
<1> USE DEF WriteLength, readerLocal, wakes, levels
<1>0. Prefix = LengthBytes /\ isMessageBuffer /\ isMessageBuffer'
      /\ writerPc = "write" /\ writerPc' = "writeData" /\ toWrite' = toWrite
  BY StreamSizes DEF Prefix
<1>1. PICK t, h, c : Holds(t, h, c) /\ Contents(t, h, c)
  BY DEF StreamInv
<1>2. t \in Nat /\ h \in Nat /\ t <= h
  BY <1>1 DEF Holds
<1>3. /\ toWrite \in Nat /\ toWrite + LengthBytes <= xSpace
      /\ xSpace \in Nat /\ xSpace <= SpacesAvailable
  <2>1. toWrite \in Nat /\ xSpace \in Nat /\ xSpace <= SpacesAvailable
    BY <1>0 DEF StreamInv, StreamTypes, StreamTypeOK, SpaceIsThere
  <2> QED BY <1>0, <2>1, FittingIs
<1>4. SpacesAvailable = StreamLength - 1 - (h - t)
  BY <1>1, HoldsCounts
<1> DEFINE f == [k \in 1 .. LengthBytes |-> toWrite]
<1>5. WriteBytes(f, LengthBytes)
  BY <1>0
<1>w. PICK w : w = toWrite
  OBVIOUS
<1>b. PICK b : b = [p \in Nat |-> IF p < h THEN c[p] ELSE w]
  OBVIOUS
<1>6. /\ \A p \in 0 .. h - 1 : b[p] = c[p]
      /\ \A j \in 0 .. LengthBytes - 1 : b[h + j] = w
      /\ \A k \in 0 .. LengthBytes - 1 : f[k + 1] = w
  BY <1>2, <1>b, <1>w, StreamSizes
<1>7. Holds(t, h + LengthBytes, b)'
  <2>1. h + LengthBytes <= t + StreamLength - 1
    BY <1>2, <1>3, <1>4, StreamSizes
  <2>2. \A p \in t .. h - 1 : b[p] = c[p]
    BY <1>2, <1>6
  <2>3. \A k \in 0 .. LengthBytes - 1 : b[h + k] = f[k + 1]
    BY <1>6
  <2> HIDE DEF f
  <2> QED BY <1>1, <1>5, <2>1, <2>2, <2>3, WriteKeeps, StreamSizes
<1>8. Contents(t, h + LengthBytes, b)'
  <2>1. PICK r, e, S, ln, d :
          /\ Messages(r, e, S, ln, d, c)
          /\ WriterAt(h, e, c) /\ ReaderAt(t, r, e, ln)
          /\ written = Number(d[e]) /\ consumed = Number(d[r])
    BY <1>0, <1>1 DEF Contents, MessageContents
  <2>2. h = e
    BY <1>0, <2>1 DEF WriterAt
  <2>3. Messages(r, e, S, ln, d, b)
    BY <1>6, <2>1, <2>2, MessagesAgree
  <2>4. WriterAt(h + LengthBytes, e, b)'
    BY <1>0, <1>6, <1>w, <2>2 DEF WriterAt
  <2>5. ReaderAt(t, r, e, ln)'
    BY <2>1 DEF ReaderAt
  <2>6. MessageContents(t, h + LengthBytes, b)'
    BY <2>1, <2>3, <2>4, <2>5 DEF MessageContents
  <2> QED BY <1>0, <2>6 DEF Contents
<1>9. SpacesAvailable' = SpacesAvailable - LengthBytes
  <2>1. SpacesAvailable' = StreamLength - 1 - ((h + LengthBytes) - t)
    BY <1>7, HoldsCountsNext
  <2> QED BY <1>2, <1>4, <2>1, StreamSizes
<1>10. xHead' \in 0 .. StreamLength - 1
  BY <1>7, HoldsCountsNext
<1>11. pucBuffer' \in [0 .. StreamLength - 1 -> Nat]
  <2>1. \A k \in 0 .. LengthBytes - 1 : f[k + 1] \in Nat
    BY <1>3, <1>6, <1>w
  <2> HIDE DEF f
  <2> QED BY <1>5, <2>1, WriteTypes, StreamSizes DEF StreamInv, StreamTypes
<1>12. StreamTypes'
  BY <1>0, <1>10, <1>11 DEF StreamInv, StreamTypes, StreamTypeOK
<1>13. Positions'
  BY <1>0, <1>3 DEF StreamInv, Positions, BufferSizes
<1>14. SpaceIsThere'
  BY <1>0, <1>3, <1>4, <1>9, <1>2, StreamSizes DEF SpaceIsThere
<1>15. WaitsAreKnown' /\ NoWakeUpLost'
  BY <1>0 DEF StreamInv, WaitsAreKnown, NoWakeUpLost
<1>16. ~garbled'
  BY DEF StreamInv
<1> QED BY <1>7, <1>8, <1>12, <1>13, <1>14, <1>15, <1>16 DEF StreamInv

(* The data of a message, or bytes of a stream, is written.                *)
LEMMA WriteDataInv ==
  ASSUME StreamInv, WriteData
  PROVE  StreamInv'
<1> USE DEF WriteData, readerLocal, wakes, levels
<1>n. PICK n : n = Fitting(toWrite, xSpace)
  OBVIOUS
<1>0. /\ n > 0 /\ writerPc' = "complete" /\ written' = Number(written + n)
      /\ WriteBytes(NextBytes(n), n)
      /\ isMessageBuffer' = isMessageBuffer /\ toWrite \in Nat /\ xSpace \in Nat
      /\ written \in Nat
  BY <1>n, StreamSizes DEF StreamInv, StreamTypes, StreamTypeOK, Numbers
<1>1. PICK t, h, c : Holds(t, h, c) /\ Contents(t, h, c)
  BY DEF StreamInv
<1>2. t \in Nat /\ h \in Nat /\ t <= h /\ SpacesAvailable = StreamLength - 1 - (h - t)
  BY <1>1, HoldsCounts DEF Holds
<1>3. n \in Nat /\ n <= SpacesAvailable
  <2>1. n \in 0 .. toWrite /\ n <= xSpace
    BY <1>0, <1>n, FittingIs
  <2>2. CASE isMessageBuffer
    BY <1>0, <1>2, <2>1, <2>2, StreamSizes DEF Prefix, StreamInv, SpaceIsThere
  <2>3. CASE ~isMessageBuffer
    BY <1>0, <1>2, <2>1, <2>3, StreamSizes DEF Prefix, StreamInv, SpaceIsThere
  <2> QED BY <2>2, <2>3
<1>w. PICK w : w = written
  OBVIOUS
<1>b. PICK b : b = [p \in Nat |-> IF p < h THEN c[p] ELSE Number(w + (p - h))]
  OBVIOUS
<1> DEFINE f == NextBytes(n)
<1>6. /\ \A p \in 0 .. h - 1 : b[p] = c[p]
      /\ \A k \in 0 .. n - 1 : b[h + k] = Number(w + k)
      /\ \A k \in 0 .. n - 1 : f[k + 1] = Number(w + k)
  <2>1. \A p \in 0 .. h - 1 : b[p] = c[p]
    BY <1>2, <1>b
  <2>2. ASSUME NEW k \in 0 .. n - 1 PROVE b[h + k] = Number(w + k) /\ f[k + 1] = Number(w + k)
    <3>1. h + k \in Nat /\ ~(h + k < h) /\ w + ((h + k) - h) = w + k
      BY <1>0, <1>2, <1>3, <1>w
    <3>2. k + 1 \in 1 .. n /\ written + (k + 1) - 1 = w + k
      BY <1>0, <1>3, <1>w
    <3>3. b[h + k] = Number(w + ((h + k) - h))
      BY <1>b, <3>1
    <3>4. f[k + 1] = Number(written + (k + 1) - 1)
      BY <3>2 DEF NextBytes
    <3> HIDE DEF f
    <3> QED BY <3>1, <3>2, <3>3, <3>4
  <2> QED BY <2>1, <2>2
<1>7. Holds(t, h + n, b)'
  <2>1. h + n <= t + StreamLength - 1
    BY <1>2, <1>3, StreamSizes
  <2>2. \A p \in t .. h - 1 : b[p] = c[p]
    BY <1>2, <1>6
  <2>3. \A k \in 0 .. n - 1 : b[h + k] = f[k + 1]
    BY <1>6
  <2>4. WriteBytes(f, n)
    BY <1>0
  <2> HIDE DEF f
  <2> QED BY <1>1, <1>3, <2>1, <2>2, <2>3, <2>4, WriteKeeps
<1>8. Contents(t, h + n, b)'
  <2>1. CASE isMessageBuffer
    <3>0. writerPc = "writeData" /\ isMessageBuffer'
      BY <2>1, <1>0, StreamSizes DEF Prefix
    <3>1. PICK r, e, S, ln, d :
            /\ Messages(r, e, S, ln, d, c)
            /\ WriterAt(h, e, c) /\ ReaderAt(t, r, e, ln)
            /\ written = Number(d[e]) /\ consumed = Number(d[r])
      BY <1>1, <2>1 DEF Contents, MessageContents
    <3>2. /\ r \in Nat /\ e \in Nat /\ r <= e /\ d[e] \in Nat
          /\ h = e + LengthBytes /\ \A j \in 0 .. LengthBytes - 1 : c[e + j] = toWrite
      BY <3>0, <3>1 DEF Messages, WriterAt
    <3>3. n = toWrite /\ n \in WriteSizes
      <4>1. n = toWrite
        BY <1>0, <1>n, <2>1, FittingIs
      <4> QED BY <3>0, <4>1 DEF StreamInv, Positions
    <3>4. PICK R, k, a :
            /\ Messages(r, e + LengthBytes + n, R, k, a, b)
            /\ a[e + LengthBytes + n] = d[e] + n /\ a[r] = d[r]
            /\ r < e => k[r] = ln[r]
            /\ r = e => k[r] = n
      <4>1. \A p \in 0 .. e - 1 : b[p] = c[p]
        BY <1>6, <3>2, StreamSizes
      <4>2. \A j \in 0 .. LengthBytes - 1 : b[e + j] = n
        <5>1. \A j \in 0 .. LengthBytes - 1 : e + j \in 0 .. h - 1
          BY <3>2, StreamSizes
        <5> QED BY <1>6, <3>2, <3>3, <5>1
      <4>3. \A j \in 0 .. n - 1 : b[e + LengthBytes + j] = Number(d[e] + j)
        <5> TAKE j \in 0 .. n - 1
        <5>1. e + LengthBytes + j = h + j /\ j \in Nat
          BY <3>2, StreamSizes
        <5>2. Number(w + j) = Number(d[e] + j)
          BY <1>w, <3>1, <3>2, <5>1, NumberSum
        <5> QED BY <1>6, <5>1, <5>2
      <4>4. OneMore(r, e, n, ln, d, b)
        BY <3>1, <3>3, <4>1, <4>2, <4>3, MessageAdded
      <4> QED BY <4>4 DEF OneMore
    <3>5. e + LengthBytes + n = h + n
      BY <1>3, <3>2, StreamSizes
    <3>6. WriterAt(h + n, h + n, b)'
      BY <1>0 DEF WriterAt
    <3>7. ReaderAt(t, r, h + n, k)'
      <4>1. r < h + n
        BY <1>0, <1>3, <3>2, <3>5, StreamSizes
      <4>2. readerPc = "readData" => xBytesAvailable > LengthBytes
        BY DEF StreamInv, Positions
      <4>3. readerPc' = readerPc /\ xBytesAvailable' = xBytesAvailable /\ nextLength' = nextLength
        OBVIOUS
      <4>4. readerPc \in {"read", "readData"} /\ xBytesAvailable > LengthBytes => k[r] = ln[r]
        BY <3>1, <3>4 DEF ReaderAt
      <4> QED BY <3>1, <4>1, <4>2, <4>3, <4>4 DEF ReaderAt
    <3>8. written' = Number(a[h + n]) /\ consumed' = Number(a[r])
      <4>1. a[h + n] = d[e] + n
        BY <3>4, <3>5
      <4>2. written' = Number(d[e] + n)
        BY <1>0, <1>3, <3>1, <3>2, NumberSum
      <4>3. consumed' = consumed
        OBVIOUS
      <4> QED BY <3>1, <3>4, <4>1, <4>2, <4>3
    <3>9. Messages(r, h + n, R, k, a, b)
      BY <3>4, <3>5
    <3>10. MessageContents(t, h + n, b)'
      BY <3>6, <3>7, <3>8, <3>9 DEF MessageContents
    <3> QED BY <3>0, <3>10 DEF Contents
  <2>2. CASE ~isMessageBuffer
    <3>1. /\ \A p \in t .. h - 1 : c[p] = Number(p)
          /\ written = Number(h) /\ consumed = Number(t)
          /\ readerPc = "read" => xBytesAvailable <= h - t
      BY <1>1, <2>2 DEF Contents, StreamContents
    <3>2. ASSUME NEW p \in t .. (h + n) - 1 PROVE b[p] = Number(p)
      <4>1. CASE p < h
        <5>1. p \in 0 .. h - 1 /\ p \in t .. h - 1
          BY <1>2, <4>1
        <5> QED BY <1>6, <3>1, <5>1
      <4>2. CASE ~(p < h)
        <5>1. p - h \in 0 .. n - 1 /\ h + (p - h) = p
          BY <1>2, <1>3, <4>2
        <5>2. b[p] = Number(w + (p - h))
          BY <1>6, <5>1
        <5> QED BY <1>2, <1>w, <3>1, <5>1, <5>2, NumberSum
      <4> QED BY <4>1, <4>2
    <3>3. written' = Number(h + n) /\ consumed' = Number(t)
      BY <1>0, <1>2, <1>3, <3>1, NumberSum
    <3>4. readerPc' = "read" => xBytesAvailable' <= (h + n) - t
      <4>1. xBytesAvailable \in Nat /\ xBytesAvailable' = xBytesAvailable /\ readerPc' = readerPc
        BY DEF StreamInv, StreamTypes, StreamTypeOK
      <4> QED BY <1>2, <1>3, <3>1, <4>1
    <3> QED BY <1>0, <2>2, <3>2, <3>3, <3>4 DEF Contents, StreamContents
  <2> QED BY <2>1, <2>2
<1> HIDE DEF f
<1>9. SpacesAvailable' = StreamLength - 1 - ((h + n) - t)
  BY <1>7, HoldsCountsNext
<1>10. xHead' \in 0 .. StreamLength - 1
  BY <1>7, HoldsCountsNext
<1>11. pucBuffer' \in [0 .. StreamLength - 1 -> Nat] /\ written' \in Numbers
  <2>1. \A k \in 0 .. n - 1 : f[k + 1] \in Nat
    <3>1. \A k \in 0 .. n - 1 : w + k \in Nat
      BY <1>0, <1>3, <1>w
    <3>2. \A k \in Nat : Number(k) \in Nat
      BY NumberIs, StreamSizes DEF Numbers
    <3> QED BY <1>6, <3>1, <3>2
  <2>2. WriteBytes(f, n)
    BY <1>0 DEF f
  <2>3. written + n \in Nat
    BY <1>0, <1>3
  <2> QED BY <1>0, <1>3, <2>1, <2>2, <2>3, WriteTypes, NumberIs DEF StreamInv, StreamTypes
<1>12. StreamTypes'
  BY <1>0, <1>10, <1>11 DEF StreamInv, StreamTypes, StreamTypeOK
<1>13. Positions'
  BY <1>0 DEF StreamInv, Positions, BufferSizes
<1>14. SpaceIsThere'
  BY <1>0 DEF SpaceIsThere
<1>15. WaitsAreKnown' /\ NoWakeUpLost'
  BY <1>0 DEF StreamInv, WaitsAreKnown, NoWakeUpLost
<1>16. ~garbled'
  BY DEF StreamInv
<1> QED BY <1>7, <1>8, <1>12, <1>13, <1>14, <1>15, <1>16 DEF StreamInv

LEMMA SendFromISRInv ==
  ASSUME StreamInv, NEW n \in WriteSizes, SendFromISR(n)
  PROVE  StreamInv'
<1> USE DEF SendFromISR, NotifiesReader, readerLocal, writerLocal, levels
<1>m. PICK m : m = Fitting(n, SpacesAvailable)
  OBVIOUS
<1>q. PICK q : q = IF m > 0 THEN Prefix ELSE 0
  OBVIOUS
<1>l. PICK l : l = q + m
  OBVIOUS
<1>w. PICK w : w = written
  OBVIOUS
<1>f. PICK f : f = [k \in 1 .. l |-> IF k <= q THEN m ELSE Number(w + k - q - 1)]
  OBVIOUS
<1>0. /\ writerPc = "idle" /\ writerPc' = "idle" /\ written' = Number(written + m)
      /\ WriteBytes(f, l) /\ isMessageBuffer' = isMessageBuffer /\ toWrite' = toWrite
      /\ xTail' = xTail /\ levelLowered' = (levelLowered /\ m = 0)
      /\ IF m > 0 /\ (BytesInBuffer + q + m) >= xTriggerLevelBytes
         THEN NotifiesReader ELSE UNCHANGED <<readerNotified, xTaskWaitingToReceive>>
  BY <1>m, <1>q, <1>l, <1>w, <1>f
<1>1. PICK t, h, c : Holds(t, h, c) /\ Contents(t, h, c)
  BY DEF StreamInv
<1>2. /\ t \in Nat /\ h \in Nat /\ t <= h /\ SpacesAvailable = StreamLength - 1 - (h - t)
      /\ BytesInBuffer = h - t
  BY <1>1, HoldsCounts DEF Holds
<1>3. /\ n \in Nat \ {0} /\ SpacesAvailable \in Nat /\ written \in Nat /\ Prefix \in Nat
      /\ xTriggerLevelBytes \in Nat
  BY StreamInvFacts, StreamSizes DEF StreamInv, StreamTypes, StreamTypeOK, Numbers
<1>4. m \in Nat /\ q \in Nat /\ l \in Nat /\ l <= SpacesAvailable
      /\ (isMessageBuffer /\ m > 0 => m = n /\ q = LengthBytes)
      /\ (~isMessageBuffer => q = 0)
      /\ (m = 0 => q = 0 /\ l = 0)
  <2>1. /\ m \in 0 .. n /\ m <= SpacesAvailable
        /\ isMessageBuffer /\ m > 0 => m = n /\ n + LengthBytes <= SpacesAvailable
    BY <1>m, <1>3, FittingIs
  <2>2. Prefix = IF isMessageBuffer THEN LengthBytes ELSE 0
    BY DEF Prefix
  <2> QED BY <1>3, <1>q, <1>l, <2>1, <2>2, StreamSizes
<1>b. PICK b : b = [p \in Nat |-> IF p < h THEN c[p] ELSE f[(p - h) + 1]]
  OBVIOUS
<1>6. /\ \A p \in 0 .. h - 1 : b[p] = c[p]
      /\ \A k \in 0 .. l - 1 : b[h + k] = f[k + 1]
      /\ \A k \in 0 .. q - 1 : f[k + 1] = m
      /\ \A k \in 0 .. m - 1 : f[(q + k) + 1] = Number(w + k)
  <2>1. \A p \in 0 .. h - 1 : b[p] = c[p]
    BY <1>2, <1>b
  <2>2. ASSUME NEW k \in 0 .. l - 1 PROVE b[h + k] = f[k + 1]
    <3>1. h + k \in Nat /\ ~(h + k < h) /\ ((h + k) - h) + 1 = k + 1
      BY <1>2, <1>4
    <3>2. b[h + k] = f[((h + k) - h) + 1]
      BY <1>b, <3>1
    <3> QED BY <3>1, <3>2
  <2>3. ASSUME NEW k \in 0 .. q - 1 PROVE f[k + 1] = m
    <3>1. k + 1 \in 1 .. l /\ k + 1 <= q
      BY <1>4, <1>l
    <3> QED BY <1>f, <3>1
  <2>4. ASSUME NEW k \in 0 .. m - 1 PROVE f[(q + k) + 1] = Number(w + k)
    <3> DEFINE i == (q + k) + 1
    <3>1. i \in 1 .. l /\ ~(i <= q) /\ w + i - q - 1 = w + k
      BY <1>3, <1>4, <1>l, <1>w
    <3> HIDE DEF i
    <3>2. f[i] = Number(w + i - q - 1)
      BY <1>f, <3>1
    <3>3. f[i] = Number(w + k)
      BY <3>1, <3>2
    <3> QED BY <3>3 DEF i
  <2> QED BY <2>1, <2>2, <2>3, <2>4
<1>7. Holds(t, h + l, b)'
  <2>1. h + l <= t + StreamLength - 1
    BY <1>2, <1>4, StreamSizes
  <2>2. \A p \in t .. h - 1 : b[p] = c[p]
    BY <1>2, <1>6
  <2> QED BY <1>0, <1>1, <1>4, <1>6, <2>1, <2>2, WriteKeeps
<1>8. Contents(t, h + l, b)'
  <2>1. CASE isMessageBuffer
    <3>0. isMessageBuffer' /\ readerPc' = readerPc /\ consumed' = consumed
          /\ xBytesAvailable' = xBytesAvailable /\ nextLength' = nextLength
      BY <2>1, <1>0
    <3>1. PICK r, e, S, ln, d :
            /\ Messages(r, e, S, ln, d, c)
            /\ WriterAt(h, e, c) /\ ReaderAt(t, r, e, ln)
            /\ written = Number(d[e]) /\ consumed = Number(d[r])
      BY <1>1, <2>1 DEF Contents, MessageContents
    <3>2. /\ r \in Nat /\ e \in Nat /\ r <= e /\ d[e] \in Nat /\ h = e
      BY <1>0, <3>1 DEF Messages, WriterAt
    <3>3. CASE m = 0
      <4>1. Messages(r, e, S, ln, d, b)
        BY <1>6, <3>1, <3>2, MessagesAgree
      <4>2. WriterAt(h, e, b)'
        BY <1>0, <3>2 DEF WriterAt
      <4>3. ReaderAt(t, r, e, ln)'
        BY <3>0, <3>1 DEF ReaderAt
      <4>4. written' = Number(d[e]) /\ consumed' = Number(d[r])
        <5>1. d[e] + m = d[e]
          BY <3>2, <3>3
        <5>2. written' = Number(d[e] + m)
          BY <1>0, <1>4, <3>1, <3>2, NumberSum
        <5> QED BY <3>0, <3>1, <5>1, <5>2
      <4>5. MessageContents(t, h, b)'
        BY <4>1, <4>2, <4>3, <4>4 DEF MessageContents
      <4>6. h + l = h
        BY <1>2, <1>4, <3>3
      <4> QED BY <3>0, <4>5, <4>6 DEF Contents
    <3>4. CASE m > 0
      <4>0. m = n /\ q = LengthBytes /\ l = LengthBytes + n
        BY <1>4, <1>l, <2>1, <3>4
      <4>1. PICK R, k, a :
              /\ Messages(r, e + LengthBytes + n, R, k, a, b)
              /\ a[e + LengthBytes + n] = d[e] + n /\ a[r] = d[r]
              /\ r < e => k[r] = ln[r]
              /\ r = e => k[r] = n
        <5>1. \A p \in 0 .. e - 1 : b[p] = c[p]
          BY <1>6, <3>2
        <5>2. \A j \in 0 .. LengthBytes - 1 : b[e + j] = n
          <6>1. \A j \in 0 .. LengthBytes - 1 : j \in 0 .. l - 1 /\ j \in 0 .. q - 1
            BY <1>3, <4>0, StreamSizes
          <6> QED BY <1>6, <3>2, <4>0, <6>1
        <5>3. \A j \in 0 .. n - 1 : b[e + LengthBytes + j] = Number(d[e] + j)
          <6> TAKE j \in 0 .. n - 1
          <6>1. e + LengthBytes + j = h + (LengthBytes + j) /\ j \in Nat
                /\ LengthBytes + j \in 0 .. l - 1
            BY <1>3, <3>2, <4>0, StreamSizes
          <6>2. b[h + (LengthBytes + j)] = f[(LengthBytes + j) + 1]
            BY <1>6, <6>1
          <6>3. f[(LengthBytes + j) + 1] = Number(w + j)
            BY <1>6, <4>0
          <6>4. Number(w + j) = Number(d[e] + j)
            BY <1>w, <3>1, <3>2, <6>1, NumberSum
          <6> QED BY <6>1, <6>2, <6>3, <6>4
        <5>4. OneMore(r, e, n, ln, d, b)
          BY <3>1, <5>1, <5>2, <5>3, MessageAdded
        <5> QED BY <5>4 DEF OneMore
      <4>2. e + LengthBytes + n = h + l
        BY <1>3, <3>2, <4>0, StreamSizes
      <4>3. WriterAt(h + l, h + l, b)'
        BY <1>0 DEF WriterAt
      <4>4. ReaderAt(t, r, h + l, k)'
        <5>1. r < h + l
          BY <1>3, <3>2, <4>0, StreamSizes
        <5>2. readerPc = "readData" => xBytesAvailable > LengthBytes
          BY DEF StreamInv, Positions
        <5>3. readerPc \in {"read", "readData"} /\ xBytesAvailable > LengthBytes => k[r] = ln[r]
          BY <3>1, <4>1 DEF ReaderAt
        <5> QED BY <3>0, <3>1, <5>1, <5>2, <5>3 DEF ReaderAt
      <4>5. written' = Number(a[h + l]) /\ consumed' = Number(a[r])
        <5>1. a[h + l] = d[e] + n
          BY <4>1, <4>2
        <5>2. written' = Number(d[e] + n)
          BY <1>0, <1>3, <3>1, <3>2, <4>0, NumberSum
        <5> QED BY <3>0, <3>1, <4>1, <5>1, <5>2
      <4>6. Messages(r, h + l, R, k, a, b)
        BY <4>1, <4>2
      <4>7. MessageContents(t, h + l, b)'
        BY <4>3, <4>4, <4>5, <4>6 DEF MessageContents
      <4> QED BY <3>0, <4>7 DEF Contents
    <3> QED BY <1>4, <3>3, <3>4
  <2>2. CASE ~isMessageBuffer
    <3>1. /\ \A p \in t .. h - 1 : c[p] = Number(p)
          /\ written = Number(h) /\ consumed = Number(t)
          /\ readerPc = "read" => xBytesAvailable <= h - t
      BY <1>1, <2>2 DEF Contents, StreamContents
    <3>0. q = 0 /\ l = m
      BY <1>4, <1>l, <2>2
    <3>2. ASSUME NEW p \in t .. (h + l) - 1 PROVE b[p] = Number(p)
      <4>1. CASE p < h
        <5>1. p \in 0 .. h - 1 /\ p \in t .. h - 1
          BY <1>2, <4>1
        <5> QED BY <1>6, <3>1, <5>1
      <4>2. CASE ~(p < h)
        <5>1. p - h \in 0 .. l - 1 /\ h + (p - h) = p /\ p - h \in 0 .. m - 1
              /\ (q + (p - h)) + 1 = (p - h) + 1
          BY <1>2, <1>4, <3>0, <4>2
        <5>2. b[p] = f[(p - h) + 1]
          BY <1>6, <5>1
        <5>3. f[(p - h) + 1] = Number(w + (p - h))
          BY <1>6, <5>1
        <5> QED BY <1>2, <1>w, <3>1, <5>1, <5>2, <5>3, NumberSum
      <4> QED BY <4>1, <4>2
    <3>3. written' = Number(h + l) /\ consumed' = Number(t)
      BY <1>0, <1>2, <1>4, <3>0, <3>1, NumberSum
    <3>4. readerPc' = "read" => xBytesAvailable' <= (h + l) - t
      <4>1. xBytesAvailable \in Nat /\ xBytesAvailable' = xBytesAvailable /\ readerPc' = readerPc
        BY DEF StreamInv, StreamTypes, StreamTypeOK
      <4> QED BY <1>2, <1>4, <3>1, <4>1
    <3> QED BY <1>0, <2>2, <3>2, <3>3, <3>4 DEF Contents, StreamContents
  <2> QED BY <2>1, <2>2
<1>9. BytesInBuffer' = (h + l) - t
  BY <1>7, HoldsCountsNext
<1>10. xHead' \in 0 .. StreamLength - 1
  BY <1>7, HoldsCountsNext
<1>11. pucBuffer' \in [0 .. StreamLength - 1 -> Nat] /\ written' \in Numbers
  <2>0. Numbers \subseteq Nat
    BY StreamSizes DEF Numbers
  <2>1. \A k \in Nat : Number(k) \in Nat
    BY <2>0, NumberIs
  <2>2. ASSUME NEW k \in 0 .. l - 1 PROVE f[k + 1] \in Nat
    <3>1. CASE k < q
      BY <1>4, <1>6, <3>1
    <3>2. CASE ~(k < q)
      <4>1. k - q \in 0 .. m - 1 /\ (q + (k - q)) + 1 = k + 1 /\ w + (k - q) \in Nat
        BY <1>3, <1>4, <1>l, <1>w, <3>2
      <4>2. f[(q + (k - q)) + 1] = Number(w + (k - q))
        BY <1>6, <4>1
      <4> QED BY <2>1, <4>1, <4>2
    <3> QED BY <3>1, <3>2
  <2>3. written + m \in Nat
    BY <1>3, <1>4
  <2> QED BY <1>0, <1>4, <2>2, <2>3, WriteTypes, NumberIs DEF StreamInv, StreamTypes
<1>12. StreamTypes'
  BY <1>0, <1>10, <1>11 DEF StreamInv, StreamTypes, StreamTypeOK
<1>13. Positions'
  BY <1>0 DEF StreamInv, Positions, BufferSizes
<1>14. SpaceIsThere'
  BY <1>0 DEF SpaceIsThere
<1>15. WaitsAreKnown'
  BY <1>0 DEF StreamInv, WaitsAreKnown, StreamTypes, StreamTypeOK
<1>16. ~garbled'
  BY DEF StreamInv
<1>17. NoWakeUpLost'
  <2>1. Prefix' = Prefix
    BY <1>0 DEF Prefix
  <2>2. ASSUME readerPc = "blocked", ~readerNotified', BytesInBuffer' > Prefix,
               BytesInBuffer' >= xTriggerLevelBytes
        PROVE  levelLowered'
    <3>1. ~readerNotified
      BY <1>0, <2>2 DEF StreamInv, StreamTypes, StreamTypeOK
    <3>2. xTaskWaitingToReceive
      BY <2>2, <3>1 DEF StreamInv, WaitsAreKnown
    <3>3. CASE m = 0
      <4>1. BytesInBuffer' = BytesInBuffer
        BY <1>2, <1>4, <1>9, <3>3
      <4>2. levelLowered
        BY <1>0, <2>1, <2>2, <3>1, <4>1 DEF StreamInv, NoWakeUpLost
      <4> QED BY <1>0, <3>3, <4>2
    <3>4. CASE m > 0
      <4>1. BytesInBuffer + q + m >= xTriggerLevelBytes
        BY <1>2, <1>3, <1>4, <1>9, <1>l, <2>2
      <4> QED BY <1>0, <2>2, <3>2, <3>4, <4>1 DEF StreamInv, StreamTypes, StreamTypeOK
    <3> QED BY <1>4, <3>3, <3>4
  <2>3. /\ readerPc' = readerPc /\ xTriggerLevelBytes' = xTriggerLevelBytes
        /\ writerPc' # "blocked"
    BY <1>0
  <2> QED BY <2>1, <2>2, <2>3 DEF NoWakeUpLost
<1> QED BY <1>7, <1>8, <1>12, <1>13, <1>14, <1>15, <1>16, <1>17 DEF StreamInv

(***************************************************************************)
(* The whole.                                                              *)
(***************************************************************************)
LEMMA EmptyRing ==
  ASSUME xHead = 0, xTail = 0, written = 0, consumed = 0,
         writerPc = "idle", readerPc = "idle"
  PROVE  \E t, h, c : Holds(t, h, c) /\ Contents(t, h, c)
<1>n. Number(0) = 0
  <2>1. StreamLength + 1 \in Nat \ {0} /\ 0 = (StreamLength + 1) * 0 + 0 /\ 0 \in 0 .. (StreamLength + 1) - 1
    BY StreamSizes
  <2>2. 0 % (StreamLength + 1) = 0
    BY StreamSizes
  <2> QED BY <2>2 DEF Number
<1> DEFINE c == [p \in Nat |-> 0]
<1>1. Holds(0, 0, c)
  <2>1. 0 % StreamLength = 0
    BY StreamSizes
  <2> QED BY <2>1, StreamSizes DEF Holds
<1>2. Messages(0, 0, {0}, c, c, c)
  BY DEF Messages
<1>3. WriterAt(0, 0, c) /\ ReaderAt(0, 0, 0, c)
  BY DEF WriterAt, ReaderAt
<1>4. c[0] = 0
  OBVIOUS
<1> HIDE DEF c
<1>5. MessageContents(0, 0, c)
  BY <1>n, <1>2, <1>3, <1>4 DEF MessageContents
<1>6. StreamContents(0, 0, c)
  BY <1>n DEF StreamContents
<1> QED BY <1>1, <1>5, <1>6 DEF Contents

LEMMA StreamInitInv == StreamInit => StreamInv
<1> SUFFICES ASSUME StreamInit PROVE StreamInv
  OBVIOUS
<1> USE DEF StreamInit, levels
<1>1. \E t, h, c : Holds(t, h, c) /\ Contents(t, h, c)
  BY EmptyRing
<1>2. StreamTypes
  <2>1. /\ 0 \in 0 .. StreamLength - 1 /\ 0 \in Numbers /\ 0 \in Nat
        /\ pucBuffer \in [0 .. StreamLength - 1 -> Nat]
    BY StreamSizes DEF Numbers
  <2>2. xTriggerLevelBytes \in 1 .. StreamLength
    BY StreamSizes DEF Level
  <2> QED BY <2>1, <2>2 DEF StreamTypes, StreamTypeOK
<1>3. Positions /\ SpaceIsThere /\ WaitsAreKnown /\ NoWakeUpLost
  BY DEF Positions, SpaceIsThere, WaitsAreKnown, NoWakeUpLost
<1> QED BY <1>1, <1>2, <1>3 DEF StreamInv

LEMMA EmptyRingNext ==
  ASSUME xHead' = 0, xTail' = 0, written' = 0, consumed' = 0,
         writerPc' = "idle", readerPc' = "idle"
  PROVE  (\E t, h, c : Holds(t, h, c) /\ Contents(t, h, c))'
<1>n. Number(0) = 0
  <2>1. StreamLength + 1 \in Nat \ {0} /\ 0 = (StreamLength + 1) * 0 + 0 /\ 0 \in 0 .. (StreamLength + 1) - 1
    BY StreamSizes
  <2>2. 0 % (StreamLength + 1) = 0
    BY StreamSizes
  <2> QED BY <2>2 DEF Number
<1>c. PICK c : c = [p \in Nat |-> 0]
  OBVIOUS
<1>1. Holds(0, 0, c)'
  <2>1. 0 % StreamLength = 0
    BY StreamSizes
  <2> QED BY <2>1, StreamSizes DEF Holds
<1>2. Messages(0, 0, {0}, c, c, c)
  BY <1>c DEF Messages
<1>3. WriterAt(0, 0, c)' /\ ReaderAt(0, 0, 0, c)'
  BY DEF WriterAt, ReaderAt
<1>4. c[0] = 0
  BY <1>c
<1>5. MessageContents(0, 0, c)'
  BY <1>n, <1>2, <1>3, <1>4 DEF MessageContents
<1>6. StreamContents(0, 0, c)'
  BY <1>n DEF StreamContents
<1> QED BY <1>1, <1>5, <1>6 DEF Contents

LEMMA ResetInv ==
  ASSUME StreamInv, Reset
  PROVE  StreamInv'
<1> USE DEF Reset, writerLocal, readerLocal, wakes, levels
<1>1. (\E t, h, c : Holds(t, h, c) /\ Contents(t, h, c))'
  BY EmptyRingNext
<1>2. StreamTypes'
  BY StreamSizes DEF StreamInv, StreamTypes, StreamTypeOK, Numbers
<1>3. Positions' /\ SpaceIsThere' /\ WaitsAreKnown' /\ NoWakeUpLost'
  BY DEF StreamInv, Positions, SpaceIsThere, WaitsAreKnown, NoWakeUpLost
<1>4. ~garbled'
  BY DEF StreamInv
<1> QED BY <1>1, <1>2, <1>3, <1>4 DEF StreamInv

LEMMA StreamStutters ==
  ASSUME StreamInv, UNCHANGED streamVars
  PROVE  StreamInv'
<1> USE DEF streamVars, readerLocal, writerLocal, wakes, levels
<1>1. ring' = ring
  BY DEF streamVars
<1>2. (\E t, h, c : Holds(t, h, c) /\ Contents(t, h, c))'
  BY <1>1, RingStill
<1>4. StreamTypes'
  BY DEF StreamInv, StreamTypes, StreamTypeOK, ring
<1>5. Positions'
  BY <1>1, CountsStill DEF StreamInv, Positions
<1>6. SpaceIsThere'
  BY <1>1, CountsStill DEF StreamInv, SpaceIsThere
<1>7. WaitsAreKnown'
  BY DEF StreamInv, WaitsAreKnown
<1>8. NoWakeUpLost'
  BY <1>1, CountsStill DEF StreamInv, NoWakeUpLost, Required
<1> QED BY <1>2, <1>4, <1>5, <1>6, <1>7, <1>8 DEF StreamInv

LEMMA StreamNextInv ==
  ASSUME StreamInv, NothingPutBack, [StreamNext]_streamVars
  PROVE  StreamInv'
<1>1. CASE Send
  BY <1>1, LooksForSpaceInv DEF Send
<1>2. CASE SenderLooksAgain
  <2>1. toWrite \in WriteSizes /\ TRUE \in BOOLEAN
    BY <1>2 DEF SenderLooksAgain, StreamInv, Positions
  <2> QED BY <1>2, <2>1, LooksForSpaceInv DEF SenderLooksAgain
<1>3. CASE SenderWakes \/ SenderTimesOut \/ WritesNothing
  BY <1>3, SenderWaitInv
<1>4. CASE WriteLength
  BY <1>4, WriteLengthInv
<1>5. CASE WriteData
  BY <1>5, WriteDataInv
<1>6. CASE SendCompletes
  BY <1>6, SendCompletesInv
<1>7. CASE \E n \in WriteSizes : SendFromISR(n)
  BY <1>7, SendFromISRInv
<1>8. CASE Receive
  BY <1>8, ReceiveInv
<1>9. CASE ReceiverWakes \/ ReadsNothing
  BY <1>9, ReceiverWaitInv
<1>10. CASE ReceiverLooksAgain
  BY <1>10, ReceiverLooksAgainInv
<1>11. CASE ReadLength
  BY <1>11, ReadLengthInv
<1>12. CASE AskLength \/ PutBack
  BY <1>12 DEF AskLength, PutBack, NothingPutBack, StreamInv, Positions
<1>13. CASE ReadData
  BY <1>13, ReadDataInv
<1>14. CASE ReceiveCompletes
  BY <1>14, ReceiveCompletesInv
<1>15. CASE \E size \in BufferSizes : ReceiveFromISR(size)
  BY <1>15, ReceiveFromISRInv
<1>16. CASE Reset
  BY <1>16, ResetInv
<1>17. CASE CompletedFromISR
  BY <1>17, CompletedFromISRInv
<1>18. CASE \E n \in TriggerLevels : SetTriggerLevel(n)
  BY <1>18, SetTriggerLevelInv
<1>19. CASE UNCHANGED streamVars
  BY <1>19, StreamStutters
<1> QED BY <1>1, <1>2, <1>3, <1>4, <1>5, <1>6, <1>7, <1>8, <1>9, <1>10, <1>11, <1>12, <1>13,
           <1>14, <1>15, <1>16, <1>17, <1>18, <1>19 DEF StreamNext

LEMMA StreamInvImplies == StreamInv => StreamInOrder
<1> SUFFICES ASSUME StreamInv PROVE StreamInOrder
  OBVIOUS
<1>1. PICK t, h, c : Holds(t, h, c) /\ Contents(t, h, c)
  BY DEF StreamInv
<1>2. /\ t \in Nat /\ h \in Nat /\ t <= h /\ h <= t + StreamLength - 1
      /\ BytesInBuffer = h - t
  BY <1>1, HoldsCounts DEF Holds
<1>3. ASSUME Prefix = 0
      PROVE  BytesInBuffer = (written + StreamLength + 1 - consumed) % (StreamLength + 1)
  <2>1. ~isMessageBuffer
    BY <1>3, StreamSizes DEF Prefix
  <2>2. written = Number(h) /\ consumed = Number(t)
    BY <1>1, <2>1 DEF Contents, StreamContents
  <2> DEFINE m == StreamLength + 1
  <2>3. m \in Nat \ {0} /\ h <= t + m - 1
    BY <1>2, StreamSizes
  <2>4. (m + (h % m) - (t % m)) % m = h - t
    <3> HIDE DEF m
    <3> QED BY <1>2, <2>3, RingCounts
  <2>5. written = h % m /\ consumed = t % m
    BY <2>2 DEF Number
  <2>6. written \in Nat /\ consumed \in Nat
    BY DEF StreamInv, StreamTypes, StreamTypeOK, Numbers
  <2>7. written + StreamLength + 1 - consumed = m + written - consumed
    BY <2>6, StreamSizes
  <2> HIDE DEF m
  <2>8. (written + StreamLength + 1 - consumed) % m = h - t
    BY <2>4, <2>5, <2>7
  <2> QED BY <1>2, <2>8 DEF m
<1>4. ASSUME writerPc \in {"write", "writeData"}, Fitting(toWrite, xSpace) > 0
      PROVE  SpacesAvailable >= Fitting(toWrite, xSpace) + (IF writerPc = "write" THEN Prefix ELSE 0)
  <2> PICK n : n = Fitting(toWrite, xSpace)
    OBVIOUS
  <2>1. toWrite \in Nat /\ xSpace \in Nat /\ SpacesAvailable \in Nat
    BY StreamInvFacts DEF StreamInv, StreamTypes, StreamTypeOK
  <2>2. /\ n \in 0 .. toWrite /\ n <= xSpace
        /\ isMessageBuffer /\ n > 0 => n = toWrite /\ toWrite + LengthBytes <= xSpace
    BY <2>1, FittingIs
  <2>3. writerPc = "write" => xSpace <= SpacesAvailable
    BY DEF StreamInv, SpaceIsThere
  <2>4. writerPc = "writeData" => toWrite <= SpacesAvailable
    BY DEF StreamInv, SpaceIsThere
  <2>5. Prefix = IF isMessageBuffer THEN LengthBytes ELSE 0
    BY DEF Prefix
  <2>6. n > 0
    BY <1>4
  <2>7. SpacesAvailable >= n + (IF writerPc = "write" THEN Prefix ELSE 0)
    BY <1>4, <2>1, <2>2, <2>3, <2>4, <2>5, <2>6, StreamSizes
  <2> QED BY <2>7
<1> QED BY <1>3, <1>4 DEF StreamInOrder, StreamInv

(* For every size of the buffer, of messages and of reads, every trigger   *)
(* level and every interleaving of the writer and the reader, as tasks or  *)
(* as interrupts: what is read is what was written, in order, and the      *)
(* space and the bytes each side has seen are there when it uses them.     *)
(* The premise is that no message is put back: the readers' buffers are    *)
(* large enough and nobody asks for the length (xStreamBufferSend,         *)
(* xStreamBufferReceive and what they call).                               *)
THEOREM StreamStaysInOrder == ASSUME NothingPutBack PROVE StreamSpec => []StreamInOrder
<1>1. StreamInv /\ [StreamNext]_streamVars => StreamInv'
  BY StreamNextInv
<1> QED BY <1>1, StreamInitInv, StreamInvImplies, PTL DEF StreamSpec

(* Under the same premise no wake-up is lost between the look at the       *)
(* buffer and the wait for the notification, whatever trigger levels are   *)
(* set at whatever time: nobody sleeps who could go on unless the other    *)
(* side is about to wake it, or unless the buffer has reached the level    *)
(* only by a lower level being set (sbSEND_COMPLETED, sbRECEIVE_COMPLETED, *)
(* xStreamBufferSetTriggerLevel).                                          *)
THEOREM StreamWakesUp == ASSUME NothingPutBack PROVE StreamSpec => []NoWakeUpLost
<1>1. StreamInv /\ [StreamNext]_streamVars => StreamInv'
  BY StreamNextInv
<1>2. StreamInv => NoWakeUpLost
  BY DEF StreamInv
<1> QED BY <1>1, <1>2, StreamInitInv, PTL DEF StreamSpec
=============================================================================
