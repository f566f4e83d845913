-------------------------- MODULE MCClientTraffic --------------------------
(***************************************************************************)
(* Instances of ClientTraffic for TLC: two addresses, each the other's     *)
(* reverse, with octets abstracted to two; mbufs are interchangeable, and  *)
(* the bytes of at most one are not IPv4's at first: the first such buffer *)
(* that is forwarded stops the packetiser.                                 *)
(***************************************************************************)
EXTENDS ClientTraffic

MbufSymmetry == Permutations(Mbuf)
TestIp == {<<1, 2>>, <<2, 1>>}

MCInit == Init /\ Cardinality({m \in Mbuf : bytes[m] = NotIp}) <= 1
MCSpec == MCInit /\ [][Next]_vars
=============================================================================
