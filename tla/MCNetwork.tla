----------------------------- MODULE MCNetwork -----------------------------
(***************************************************************************)
(* Instances of ArpCache, NetworkBuffers, EmacDriver, NetChecksum and      *)
(* UdpSockets for TLC, side by side: a behaviour runs one of them, and     *)
(* leaves the others in their initial states.                              *)
(***************************************************************************)
EXTENDS ArpCache, NetworkBuffers, EmacDriver, NetChecksum, UdpSockets, TLC

CONSTANTS l1, l2, l3, r1, bc, m1, m2, k1, k2, u1, u2

VARIABLE part

(* Two hosts that are no gateway, and two MAC addresses.                   *)
Interchangeable == Permutations({l2, l3}) \cup Permutations({m1, m2})

MCQuads == {<<0, 0, 0, 0>>, <<ByteBase - 1, ByteBase - 2, ByteBase - 1, 3>>}

Init ==
  /\ part \in {"arp", "buffers", "driver", "checksum", "sockets"}
  /\ ArpInit /\ PoolInit /\ EmacInit /\ ChecksumInit /\ UdpInit
  /\ part # "driver" => ~linkUp
  /\ part # "checksum" => start = 0 /\ seed = 0
  /\ xFreeBuffersList = <<1, 2, 3>>   \* descriptors are interchangeable

Next ==
  /\ \/ part = "arp" /\ ArpNext /\ UNCHANGED <<poolVars, emacVars, sumVars, udpVars>>
     \/ part = "buffers" /\ PoolNext /\ UNCHANGED <<arpVars, emacVars, sumVars, udpVars>>
     \/ part = "driver" /\ EmacNext /\ UNCHANGED <<arpVars, poolVars, sumVars, udpVars>>
     \/ part = "checksum" /\ ChecksumNext /\ UNCHANGED <<arpVars, poolVars, emacVars, udpVars>>
     \/ part = "sockets" /\ UdpNext /\ UNCHANGED <<arpVars, poolVars, emacVars, sumVars>>
  /\ UNCHANGED part
=============================================================================
