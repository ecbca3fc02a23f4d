---------------------------- MODULE NameService ----------------------------
(***************************************************************************)
(* Names: the call FreeRTOS_gethostbyname with its requests and the cache  *)
(* of FreeRTOS_DNS.c in freeRTOS/FreeRTOS_UDP_Source, and the queries and  *)
(* responses of neighbours that the IP task answers and takes.             *)
(*                                                                         *)
(* One task calls at a time; the IP task, whose priority is higher, comes  *)
(* in between any two of its accesses to the cache.                        *)
(***************************************************************************)
EXTENDS Naturals, Sequences, FiniteSets, FiniteSetsExt

CONSTANTS
  HostNames, NoName,
  LongNames,         \* those with ipconfigDNS_CACHE_NAME_LENGTH characters or more
  HostAddresses, NoHost,
  CacheEntries,      \* ipconfigDNS_CACHE_ENTRIES
  RequestAttempts,   \* ipconfigDNS_REQUEST_ATTEMPTS
  Identifiers,       \* of requests
  NameAnswers,       \* the answers to a request
  NeighbourNames,    \* those that NBNS responses give an address
  SecondsRange,      \* the tick count divided by 1000 wraps here
  MaxSeconds,        \* bound: on the time that passes
  MaxInbox,          \* bound: answers that wait in the socket
  MaxKept            \* bound: network buffers that were not given back

ASSUME NameAssumption ==
  /\ {CacheEntries, RequestAttempts, SecondsRange} \subseteq Nat \ {0} /\ MaxSeconds \in Nat
  /\ LongNames \subseteq HostNames /\ NeighbourNames \subseteq HostNames \ LongNames
  /\ NameAnswers \subseteq [id : Nat, address : HostAddresses, ttl : Nat,
                              records : Seq({"address", "other", "cut"})]
  /\ NoName \notin HostNames /\ NoHost \notin HostAddresses

VARIABLES
  xDNSCache,         \* with one row more, for what lies behind it
  xFreeEntry,
  resolver,          \* the call of the task
  inbox,             \* the answers that its socket holds
  clock,             \* seconds since the start
  kept,              \* how many buffers nobody will give back
  (* History, which no step reads: *)
  told,              \* for each name, the last answer that the task accepted
  raced              \* the IP task stored into what the task had in hand

nameVars == <<xDNSCache, xFreeEntry, resolver, inbox, clock, told, kept, raced>>

Unused == [name |-> NoName, address |-> NoHost, ttl |-> 0, added |-> 0]

NoCall == [at |-> "idle", name |-> NoName, id |-> 0, asked |-> FALSE, attempt |-> 0, now |-> 0,
           row |-> 0, new |-> FALSE, fresh |-> FALSE, address |-> NoHost, ttl |-> 0]

NameInit ==
  /\ xDNSCache = [x \in 0 .. CacheEntries |-> Unused] /\ xFreeEntry = 0
  /\ resolver = NoCall /\ inbox = {} /\ clock = 0 /\ kept = 0 /\ raced = FALSE
  /\ told = [n \in HostNames |-> [address |-> NoHost, until |-> 0]]

ResolverAt(step) == resolver.at = step
Goto(step) == resolver' = [resolver EXCEPT !.at = step]
Result(address) == resolver' = [NoCall EXCEPT !.at = "return", !.name = resolver.name, !.address = address,
                                              !.now = resolver.now, !.fresh = resolver.fresh]

(***************************************************************************)
(* prvProcessDNSCache                                                      *)
(***************************************************************************)
RowsOf(name) == {x \in 0 .. CacheEntries - 1 : xDNSCache[x].name = name}

Row(name, address, ttl, now) == [name |-> name, address |-> address, ttl |-> ttl, added |-> now % SecondsRange]

StoredRow(name) == IF RowsOf(name) = {} THEN xFreeEntry ELSE Min(RowsOf(name))

(* As the IP task runs it, all at once. *)
Stored(name, address, ttl) ==
  /\ xDNSCache' = [xDNSCache EXCEPT ![StoredRow(name)] = Row(name, address, ttl, clock)]
  /\ xFreeEntry' = IF RowsOf(name) # {} THEN xFreeEntry
                   ELSE IF xFreeEntry + 1 = CacheEntries THEN 0 ELSE xFreeEntry + 1

FieldNames == {"name", "address", "ttl", "added"}

(* What the IP task may store that the task does not bear: the name that   *)
(* it is about to look for, with its time already read; the row that it    *)
(* has found, until it is done with it; and a new row, while it fills one, *)
(* for which it reads the index at every member, or while that index is    *)
(* beyond the table.                                                       *)
Races(name) ==
  \/ ResolverAt("find") /\ name = resolver.name
  \/ resolver.at \in {"check", "take", "address", "ttl", "added"} /\ StoredRow(name) = resolver.row
  \/ /\ RowsOf(name) = {}
     /\ \/ resolver.at \in FieldNames /\ resolver.new
        \/ ResolverAt("wrap") /\ xFreeEntry = CacheEntries

(* The task looks a name up: the row, its age, its address.                *)
Find ==
  /\ ResolverAt("find")
  /\ IF RowsOf(resolver.name) = {} THEN Goto("ask")
     ELSE resolver' = [resolver EXCEPT !.at = "check", !.row = Min(RowsOf(resolver.name))]
  /\ UNCHANGED <<xDNSCache, xFreeEntry, inbox, clock, told, kept, raced>>

(* A wrong variant, for contrast: the last second counts.                  *)
ValidToTheEnd(now, row) == now % SecondsRange <= row.added + row.ttl

Valid(now, row) == now % SecondsRange < row.added + row.ttl

CheckAge ==
  /\ ResolverAt("check")
  /\ IF Valid(resolver.now, xDNSCache[resolver.row]) THEN Goto("take") /\ UNCHANGED xDNSCache
     ELSE Goto("ask") /\ xDNSCache' = [xDNSCache EXCEPT ![resolver.row].name = NoName]
  /\ UNCHANGED <<xFreeEntry, inbox, clock, told, kept, raced>>

TakeAddress ==
  /\ ResolverAt("take")
  /\ LET address == xDNSCache[resolver.row].address
     IN IF address = NoHost THEN Goto("ask") ELSE Result(address)
  /\ UNCHANGED <<xDNSCache, xFreeEntry, inbox, clock, told, kept, raced>>

(* It stores an answer: in the row of the name, or in the next one.        *)
FindForAnswer ==
  LET known == RowsOf(resolver.name)
  IN /\ ResolverAt("store")
     /\ resolver' = IF known # {} THEN [resolver EXCEPT !.at = "address", !.row = Min(known), !.new = FALSE]
                                  ELSE [resolver EXCEPT !.at = "name", !.row = xFreeEntry, !.new = TRUE]
     /\ UNCHANGED <<xDNSCache, xFreeEntry, inbox, clock, told, kept, raced>>

Following(field) ==
  CASE field = "name" -> "address" [] field = "address" -> "ttl" [] field = "ttl" -> "added"

(* The index of the next row is read again for each member, or kept.       *)
StoreField(field) ==
  /\ ResolverAt(field) /\ xFreeEntry <= CacheEntries
  /\ \E x \in {resolver.row} \cup (IF resolver.new THEN {xFreeEntry} ELSE {}) :
       xDNSCache' = [xDNSCache EXCEPT ![x][field] =
                       Row(resolver.name, resolver.address, resolver.ttl, resolver.now)[field]]
  /\ IF field # "added" THEN Goto(Following(field))
     ELSE IF resolver.new THEN Goto("advance") ELSE Result(resolver.address)
  /\ UNCHANGED <<xFreeEntry, inbox, clock, told, kept, raced>>

AdvanceEntry ==
  /\ ResolverAt("advance") /\ xFreeEntry <= CacheEntries
  /\ xFreeEntry' = xFreeEntry + 1
  /\ Goto("wrap")
  /\ UNCHANGED <<xDNSCache, inbox, clock, told, kept, raced>>

WrapEntry ==
  /\ ResolverAt("wrap")
  /\ xFreeEntry' = IF xFreeEntry = CacheEntries THEN 0 ELSE xFreeEntry
  /\ Result(resolver.address)
  /\ UNCHANGED <<xDNSCache, inbox, clock, told, kept, raced>>

InCache == resolver.at \in {"find", "check", "take", "store", "name", "address", "ttl", "added", "advance", "wrap"}

(* FreeRTOS_dnsclear *)
ClearCache ==
  /\ ResolverAt("idle")
  /\ xDNSCache' = [x \in DOMAIN xDNSCache |-> Unused]
  /\ UNCHANGED <<xFreeEntry, resolver, inbox, clock, told, kept, raced>>

(***************************************************************************)
(* FreeRTOS_gethostbyname                                                  *)
(***************************************************************************)
GetHostByName(name) ==
  /\ ResolverAt("idle")
  /\ resolver' = [NoCall EXCEPT !.at = "find", !.name = name, !.now = clock]
  /\ UNCHANGED <<xDNSCache, xFreeEntry, inbox, clock, told, kept, raced>>

(* prvGetHostByName: a socket, or none, and an identifier for all attempts.*)
OpenSocket ==
  /\ ResolverAt("ask")
  /\ Result(NoHost) \/ \E id \in Identifiers : resolver' = [resolver EXCEPT !.at = "send", !.id = id]
  /\ UNCHANGED <<xDNSCache, xFreeEntry, inbox, clock, told, kept, raced>>

NextAttempt ==
  IF resolver.attempt + 1 < RequestAttempts
  THEN resolver' = [resolver EXCEPT !.at = "send", !.attempt = @ + 1]
  ELSE Result(NoHost)

SendRequest ==
  /\ ResolverAt("send")
  /\ resolver' = [resolver EXCEPT !.at = "wait", !.asked = TRUE] \/ NextAttempt
  /\ UNCHANGED <<xDNSCache, xFreeEntry, inbox, clock, told, kept, raced>>

WaitTimesOut ==
  /\ ResolverAt("wait") /\ NextAttempt
  /\ UNCHANGED <<xDNSCache, xFreeEntry, inbox, clock, told, kept, raced>>

(* prvParseDNSReply: the first record that is an address ends the search;  *)
(* one that is cut off, and a long name, end it without a result.          *)
Parsed(p) ==
  /\ resolver.name \notin LongNames
  /\ \E i \in DOMAIN p.records : p.records[i] = "address" /\ \A j \in 1 .. i - 1 : p.records[j] = "other"

ReceiveAnswer(p) ==
  /\ ResolverAt("wait")
  /\ IF p.id = resolver.id /\ Parsed(p)
     THEN /\ resolver' = [resolver EXCEPT !.at = "store", !.address = p.address, !.ttl = p.ttl,
                                          !.now = clock, !.fresh = TRUE]
          /\ told' = [told EXCEPT ![resolver.name] = [address |-> p.address, until |-> clock + p.ttl]]
          /\ inbox' = {}   \* which nobody reads any more
     ELSE NextAttempt /\ inbox' = inbox \ {p} /\ UNCHANGED told
  /\ UNCHANGED <<xDNSCache, xFreeEntry, clock, kept, raced>>

(* An answer without a byte; its buffer is not given back.                 *)
ReceiveNothing ==
  /\ ResolverAt("wait") /\ resolver.asked /\ kept < MaxKept
  /\ NextAttempt /\ kept' = kept + 1
  /\ UNCHANGED <<xDNSCache, xFreeEntry, inbox, clock, told, raced>>

(* The socket is closed, with what it holds. *)
Return ==
  /\ ResolverAt("return")
  /\ resolver' = NoCall /\ inbox' = {}
  /\ UNCHANGED <<xDNSCache, xFreeEntry, clock, told, kept, raced>>

(***************************************************************************)
(* Servers, neighbours and time.                                           *)
(***************************************************************************)
Answer(p) ==
  /\ resolver.at \in {"send", "wait"} /\ resolver.asked
  /\ Cardinality(inbox) < MaxInbox
  /\ inbox' = inbox \cup {p}
  /\ UNCHANGED <<xDNSCache, xFreeEntry, resolver, clock, told, kept, raced>>

(* prvTreatNBNS: a response is stored, without a lifetime.                 *)
NbnsResponse(name, address) ==
  /\ xFreeEntry <= CacheEntries   \* bound: nothing is stored further beyond the table
  /\ Stored(name, address, 0)
  /\ raced' = (raced \/ Races(name))
  /\ UNCHANGED <<resolver, inbox, clock, told, kept>>

(* A query for the name of this node is answered in a copy of its buffer,  *)
(* which prvParseDNSReply gives back and prvTreatNBNS does not.            *)
QueryAnswered(protocol) ==
  /\ protocol = "NBNS" => kept < MaxKept
  /\ kept' = IF protocol = "NBNS" THEN kept + 1 ELSE kept
  /\ UNCHANGED <<xDNSCache, xFreeEntry, resolver, inbox, clock, told, raced>>

SecondPasses ==
  /\ clock < MaxSeconds /\ clock' = clock + 1
  /\ UNCHANGED <<xDNSCache, xFreeEntry, resolver, inbox, told, kept, raced>>

NameNext ==
  \/ Find \/ CheckAge \/ TakeAddress
  \/ FindForAnswer \/ AdvanceEntry \/ WrapEntry \/ ClearCache
  \/ \E field \in FieldNames : StoreField(field)
  \/ \E name \in HostNames : GetHostByName(name)
  \/ OpenSocket \/ SendRequest \/ WaitTimesOut \/ ReceiveNothing \/ Return
  \/ \E p \in inbox : ReceiveAnswer(p)
  \/ \E p \in NameAnswers : Answer(p)
  \/ \E name \in NeighbourNames, address \in HostAddresses : NbnsResponse(name, address)
  \/ \E protocol \in {"LLMNR", "NBNS"} : QueryAnswered(protocol)
  \/ SecondPasses

NameSpec == NameInit /\ [][NameNext]_nameVars

-----------------------------------------------------------------------------
(***************************************************************************)
(* Properties.                                                             *)
(***************************************************************************)
(* An address that a call returns is the one that was told last for that   *)
(* name, and from the cache only as long as the answer said; a name has    *)
(* one row.  So it is whatever is stored, evicted, expired or overwritten  *)
(* meanwhile, and wherever the IP task comes in between, until it does at  *)
(* one of the points of Races; the seconds have not wrapped.               *)
(* (prvProcessDNSCache, FreeRTOS_gethostbyname)                            *)
NamesResolvedRight ==
  ~raced =>
    /\ ResolverAt("return") /\ resolver.address # NoHost =>
         /\ resolver.address = told[resolver.name].address
         /\ ~resolver.fresh => resolver.now < told[resolver.name].until
    /\ ~InCache => \A name \in HostNames : Cardinality(RowsOf(name)) <= 1

(* "Look for the indicated host name in the DNS cache.  Returns the IPv4   *)
(* address if present" (FreeRTOS_DNS.h:87): what is returned from the      *)
(* cache for a name that no neighbour announces is what was told for it.   *)
(* It does not hold: the IP task may store a response in the row between   *)
(* the look at its name and the read of its address, or while the task     *)
(* fills it (prvProcessDNSCache).                                          *)
LookupIsOfItsName ==
  ResolverAt("return") /\ ~resolver.fresh /\ resolver.address # NoHost /\ resolver.name \notin NeighbourNames
    => resolver.address = told[resolver.name].address

(* The index stays in the table.  It does not hold: the IP task may come   *)
(* in between its increment and the comparison.  (prvProcessDNSCache)      *)
EntryInTable == ~InCache => xFreeEntry < CacheEntries

(* Every buffer comes back.  It does not hold: the copy in which an NBNS   *)
(* query is answered is not released, nor an empty answer to a request.    *)
(* (prvTreatNBNS, prvGetHostByName)                                        *)
NameBuffersComeBack == kept = 0
=============================================================================
