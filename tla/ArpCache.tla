------------------------------ MODULE ArpCache ------------------------------
(***************************************************************************)
(* The ARP cache, freeRTOS/FreeRTOS_UDP_Source/FreeRTOS_ARP.c: refreshed   *)
(* by what is received, asked by what is sent, and aged by a timer.  All   *)
(* of it runs in the IP task, one operation after the other.               *)
(*                                                                         *)
(* A host sends from the MAC address it has at that time, which changes    *)
(* when the address is given to another device.  Frames are lost, delayed  *)
(* and repeated: any host may be heard at any time.                        *)
(***************************************************************************)
EXTENDS Integers, FiniteSets

CONSTANTS
  LocalAddresses,       \* of hosts in the subnet
  RemoteAddresses,      \* of hosts beyond the gateway
  Broadcasts,           \* addresses with a fixed MAC address: broadcast, LLMNR
  GatewayAddress,       \* one of LocalAddresses, or NoAddress
  NoAddress,            \* 0.0.0.0
  Macs, NoMac,
  ArpEntries,           \* ipconfigARP_CACHE_ENTRIES
  MaxArpAge,            \* ipconfigMAX_ARP_AGE
  MaxArpRetransmissions,
  AgeBeforeRequest      \* arpMAX_ARP_AGE_BEFORE_NEW_ARP_REQUEST

ASSUME ArpAssumption ==
  /\ GatewayAddress \in LocalAddresses \cup {NoAddress}
  /\ NoAddress \notin LocalAddresses \cup RemoteAddresses
  /\ NoMac \notin Macs
  /\ ArpEntries \in Nat \ {0}
  /\ MaxArpAge \in 1 .. 255 /\ MaxArpRetransmissions \in 1 .. MaxArpAge
  /\ AgeBeforeRequest \in 0 .. MaxArpAge

VARIABLES
  xARPCache,
  (* History, which no step reads: *)
  heard,         \* the MAC address an address was last heard from, and how long ago
  asked          \* requests sent for a pending address

arpVars == <<xARPCache, heard, asked>>

Rows == 1 .. ArpEntries

Addresses == LocalAddresses \cup RemoteAddresses

EmptyRow == [ulIPAddress |-> NoAddress, xMACAddress |-> NoMac, ucAge |-> 0, ucValid |-> FALSE]

Long == MaxArpAge + 1   \* bound: a frame was not heard for longer than an entry lives

ArpInit ==
  /\ xARPCache = [x \in Rows |-> EmptyRow]
  /\ heard = [a \in LocalAddresses |-> [mac |-> NoMac, ago |-> Long]]
  /\ asked = [a \in LocalAddresses |-> 0]

Local(a) == a \in LocalAddresses

(***************************************************************************)
(* vARPRefreshCacheEntry.                                                  *)
(***************************************************************************)
Smallest(S) == CHOOSE x \in S : \A y \in S : x <= y

Largest(S) == CHOOSE x \in S : \A y \in S : y <= x

IpRows(a) == {x \in Rows : xARPCache[x].ulIPAddress = a}

DeviceRows(m) == {x \in Rows : xARPCache[x].xMACAddress = m}

(* The loop over the rows: without a MAC address it ends at the row of the *)
(* address, with one it ends only at a row that has both, and remembers    *)
(* the last row that has the address and the last that has the MAC address.*)
IpRow(a, m) == IF m = NoMac THEN Smallest(IpRows(a)) ELSE Largest(IpRows(a))

MacRows(a, m) == IF m = NoMac THEN {} ELSE DeviceRows(m) \ IpRows(a)

(* Without a row of either, the oldest of all is used.                     *)
Oldest == Smallest({x \in Rows : \A y \in Rows : xARPCache[x].ucAge <= xARPCache[y].ucAge})

UseEntry(a, m) ==
  IF MacRows(a, m) # {} THEN Largest(MacRows(a, m))
  ELSE IF IpRows(a) # {} THEN IpRow(a, m)
  ELSE Oldest

(* The row of both is good for another while.                              *)
Confirmed(x) == [xARPCache EXCEPT ![x] = [@ EXCEPT !.ucAge = MaxArpAge, !.ucValid = TRUE]]

(* A wrong variant, for contrast. *)
RefreshedTwice(a, m) ==
  LET ip   == IpRows(a)
      both == ip \cap DeviceRows(m)
      use  == UseEntry(a, m)
      row  == [xARPCache[use] EXCEPT !.ulIPAddress = a]
  IN  IF ~Local(a) THEN xARPCache
      ELSE IF m # NoMac /\ both # {} THEN Confirmed(Smallest(both))
      ELSE IF m # NoMac
      THEN [xARPCache EXCEPT ![use] = [row EXCEPT !.xMACAddress = m, !.ucAge = MaxArpAge, !.ucValid = TRUE]]
      ELSE IF ip = {}
      THEN [xARPCache EXCEPT ![use] = [row EXCEPT !.ucAge = MaxArpRetransmissions, !.ucValid = FALSE]]
      ELSE xARPCache

(* The cache after a refresh of address a, from MAC address m or, when a   *)
(* request is about to be sent, from none.  With a row of the address and  *)
(* another of the device, the latter is used and the former cleared.       *)
Refreshed(a, m) ==
  LET ip   == IpRows(a)
      mac  == MacRows(a, m)
      both == ip \cap DeviceRows(m)
      use  == UseEntry(a, m)
      row  == [xARPCache[use] EXCEPT !.ulIPAddress = a]
      cleared == IF mac # {} /\ ip # {}
                 THEN [xARPCache EXCEPT ![IpRow(a, m)] = EmptyRow] ELSE xARPCache
  IN  IF ~Local(a) THEN xARPCache
      ELSE IF m # NoMac /\ both # {} THEN Confirmed(Smallest(both))
      ELSE IF m # NoMac
      THEN [cleared EXCEPT ![use] = [row EXCEPT !.xMACAddress = m, !.ucAge = MaxArpAge, !.ucValid = TRUE]]
      ELSE IF ip = {}
      THEN [xARPCache EXCEPT ![use] = [row EXCEPT !.ucAge = MaxArpRetransmissions, !.ucValid = FALSE]]
      ELSE xARPCache

(***************************************************************************)
(* Received frames.                                                        *)
(***************************************************************************)
(* eARPProcessPacket: a request for our address and any reply refresh the  *)
(* cache; the request is returned as a reply.  Other packets (UDP, ping)   *)
(* refresh it when they are processed.                                     *)
ReceiveFrame(a, m) ==
  /\ xARPCache' = Refreshed(a, m)
  /\ heard' = IF Local(a) THEN [heard EXCEPT ![a] = [mac |-> m, ago |-> 0]] ELSE heard
  /\ asked' = IF Local(a) THEN [asked EXCEPT ![a] = 0] ELSE asked

(***************************************************************************)
(* Sent packets.                                                           *)
(***************************************************************************)
(* prvCacheLookup. *)
CacheLookup(a) ==
  IF IpRows(a) = {} THEN [result |-> "miss", mac |-> NoMac]
  ELSE LET row == xARPCache[Smallest(IpRows(a))]
       IN  IF row.ucValid THEN [result |-> "hit", mac |-> row.xMACAddress]
                          ELSE [result |-> "cannot", mac |-> NoMac]

(* The address whose MAC address a packet for address a needs.             *)
Hop(a) == IF Local(a) \/ GatewayAddress = NoAddress THEN a ELSE GatewayAddress

(* eARPGetCacheEntry; broadcasts are known. *)
GetCacheEntry(a) ==
  IF a \in Broadcasts THEN [result |-> "hit", mac |-> NoMac] ELSE CacheLookup(Hop(a))

(* vProcessGeneratedUDPPacket: on a miss the address is noted as pending   *)
(* and the packet becomes a request for it; otherwise the cache stays.     *)
SendPacket(a) ==
  /\ GetCacheEntry(a).result = "miss"
  /\ xARPCache' = Refreshed(Hop(a), NoMac)
  /\ asked' = IF Local(Hop(a)) THEN [asked EXCEPT ![Hop(a)] = 1] ELSE asked
  /\ UNCHANGED heard

(* A wrong variant, for contrast. *)
AgedForEver(row) ==
  IF row.ucAge = 0 THEN row ELSE [row EXCEPT !.ucAge = @ - 1]

(***************************************************************************)
(* vARPAgeCache, at every ARP timer event.                                 *)
(***************************************************************************)
Aged(row) ==
  LET age == row.ucAge - 1 IN
    IF row.ucAge = 0 THEN row
    ELSE [row EXCEPT !.ucAge = age, !.ulIPAddress = IF age = 0 THEN NoAddress ELSE @]

AsksAgain(row) == row.ucAge > 0 /\ (~row.ucValid \/ row.ucAge - 1 <= AgeBeforeRequest)

Older(n) == IF n = Long THEN n ELSE n + 1

AgeCache ==
  LET again == {xARPCache[x].ulIPAddress : x \in {y \in Rows : AsksAgain(xARPCache[y])}}
      pending == {xARPCache[x].ulIPAddress : x \in {y \in Rows : ~xARPCache[y].ucValid}}
  IN  /\ xARPCache' = [x \in Rows |-> Aged(xARPCache[x])]
      /\ heard' = [a \in LocalAddresses |-> [heard[a] EXCEPT !.ago = Older(@)]]
      /\ asked' = [a \in LocalAddresses |->
                     IF a \in again \cap pending THEN asked[a] + 1 ELSE asked[a]]

(* FreeRTOS_ClearARP, when the network goes down.                          *)
ClearARP ==
  /\ xARPCache' = [x \in Rows |-> EmptyRow]
  /\ UNCHANGED <<heard, asked>>

ArpNext ==
  \/ \E a \in Addresses, m \in Macs : ReceiveFrame(a, m)
  \/ \E a \in Addresses \cup Broadcasts : SendPacket(a)
  \/ AgeCache
  \/ ClearARP

ArpSpec == ArpInit /\ [][ArpNext]_arpVars /\ WF_arpVars(AgeCache)

(***************************************************************************)
(* Properties.                                                             *)
(***************************************************************************)
ArpRow ==
  [ulIPAddress : LocalAddresses \cup {NoAddress}, xMACAddress : Macs \cup {NoMac},
   ucAge : 0 .. MaxArpAge, ucValid : BOOLEAN]

ArpTypeOK ==
  /\ xARPCache \in [Rows -> ArpRow]
  /\ heard \in [LocalAddresses -> [mac : Macs \cup {NoMac}, ago : 0 .. Long]]
  /\ asked \in [LocalAddresses -> Nat]

Knows(x, a) == xARPCache[x].ulIPAddress = a

(* However addresses move between devices and rows are reused, an address  *)
(* has one row at most, and so has a device; a row that answers holds the  *)
(* MAC address this address was last heard from, as long ago as the age of *)
(* the row says, never that of the device the row was about before; and an *)
(* address that does not answer is asked for no more often than            *)
(* ipconfigMAX_ARP_RETRANSMISSIONS allows and then forgotten               *)
(* (vARPRefreshCacheEntry, vARPAgeCache).                                  *)
AnswersAreFresh ==
  /\ \A m \in Macs : Cardinality(DeviceRows(m)) <= 1
  /\ \A a \in LocalAddresses :
       /\ Cardinality(IpRows(a)) <= 1
       /\ \A x \in IpRows(a) :
            LET row == xARPCache[x] IN
              IF row.ucValid
              THEN row.xMACAddress \in Macs /\ heard[a] = [mac |-> row.xMACAddress, ago |-> MaxArpAge - row.ucAge]
              ELSE asked[a] - 1 = MaxArpRetransmissions - row.ucAge /\ row.ucAge > 0
=============================================================================
