--------------------------- MODULE MbufOwnership ---------------------------
(***************************************************************************)
(* What the data plane promises about its buffers, without its queues and  *)
(* loops: at any time an mbuf belongs to the pool, to the engine, to the   *)
(* ring memory or to the packetiser, or it is lost, and it changes hands   *)
(* only along the edges below.  There is no edge from the ring to the      *)
(* packetiser: what the packetiser takes off the ring is lost.             *)
(***************************************************************************)
CONSTANT Mbuf

VARIABLE own   \* own[p]: the mbufs of party p

Party == {"pool", "engine", "ring", "packetiser"}

Edge == {<<"pool", "engine">>,      \* the NIC driver fills a fresh mbuf
         <<"engine", "pool">>,      \* the engine drops a frame
         <<"engine", "ring">>,      \* the engine enqueues a packet
         <<"pool", "packetiser">>,  \* the packetiser allocates
         <<"packetiser", "pool">>}  \* the packetiser drops an unused buffer

Leaky == {"engine", "ring"}   \* who may lose the pointers it has

Init == own = [p \in Party |-> IF p = "pool" THEN Mbuf ELSE {}]

Give(a, b, m) ==
  own' = [own EXCEPT ![a] = @ \ {m}, ![b] = @ \cup {m}]

Lose(a, S) ==
  own' = [own EXCEPT ![a] = @ \ S]

Next ==
  \/ \E e \in Edge : \E m \in own[e[1]] : Give(e[1], e[2], m)
  \/ \E a \in Leaky : \E S \in SUBSET own[a] : Lose(a, S)

Spec == Init /\ [][Next]_own
=============================================================================
