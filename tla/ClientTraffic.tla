--------------------------- MODULE ClientTraffic ---------------------------
(***************************************************************************)
(* The packetiser's side of its clients: the RoutingTable, and the methods *)
(* that bring packets from the engine to the clients and back              *)
(* (store_incoming, forward_incoming_packets, store_outgoing,              *)
(* send_outgoing_packets, send_to_engine_bulk).  The packetiser's one      *)
(* thread calls them in any order; the engine and the clients, processes   *)
(* of their own, use the rings and the pool between any two of its steps.  *)
(*                                                                         *)
(* As in Dataplane an mbuf is a pointer.  `bytes` is what its data area    *)
(* holds: Mbuf::new sets data_len to 0 and leaves the bytes there, and     *)
(* Ipv4Hdr::from_mbuf reads them without looking at data_len.              *)
(***************************************************************************)
EXTENDS Naturals, SequencesExt

CONSTANTS
  Mbuf,       \* the mbufs of the shared pool
  Ip,         \* IPv4 addresses: sequences of octets
  NotIp,      \* bytes whose Ethernet type is not IPv4's
  Client,     \* ids add_client has allocated
  BurstMax,   \* BURST_MAX
  RingSize,   \* Ring::RING_CAPACITY; DPDK keeps one slot unused
  MaxSent,    \* bound: packets the engine and the clients send
  MaxRoutes   \* bound: updates of the routing table

ASSUME TrafficAssumption ==
  /\ IsFiniteSet(Mbuf) /\ IsFiniteSet(Client)
  /\ \A ip \in Ip : Reverse(ip) \in Ip
  /\ NotIp \notin Ip
  /\ Client \subseteq Nat \ {0}
  /\ BurstMax \in Nat \ {0}
  /\ RingSize \in Nat \ {0}
  /\ MaxSent \in Nat /\ MaxRoutes \in Nat

VARIABLES
  pool,          \* free mbufs
  bytes,         \* bytes[m]: destination address in m's data area, or NotIp
  sent,          \* packets sent so far by the engine and the clients
  e2c, c2e,      \* the rings of the packetiser's own channel
  toClient,      \* toClient[c]: ring E2C-c
  fromClient,    \* fromClient[c]: ring C2E-c
  client,        \* client[c]: the process that has looked up the rings of c
  direct,        \* mbufs that recv_from_clients was called with (history)
  clientmap,     \* keys of Packetiser.clientmap
  allocatedIds,  \* Packetiser.allocated_ids
  ipId,          \* RoutingTable.ip_id_map; 0 where it has no entry
  idIp,          \* RoutingTable.id_ip_map; NotIp where it has no entry
  routes,        \* updates of the table so far
  iBufqueue,     \* Packetiser.i_bufqueue
  oBufqueue,     \* Packetiser.o_bufqueue
  pc,            \* which method the packetiser is in
  left,          \* iterations its outer loop has left
  at,            \* index into allocatedIds of store_outgoing's inner loop
  held           \* the Vec<Mbuf> store_outgoing allocates first

poolVars == <<pool, bytes, sent>>
userVars == <<client, direct>>
tableVars == <<ipId, idIp, routes>>
clientVars == <<toClient, fromClient, clientmap, allocatedIds>>
loopVars == <<pc, left, at, held>>
vars == <<userVars, poolVars, e2c, c2e, clientVars, tableVars, iBufqueue, oBufqueue,
          loopVars>>

Stopped == {"panicked", "crashed"}

\* Every variable keeps its type and no ring outgrows its usable size,
\* whichever of the packetiser's methods are called in whichever order.
TypeOK ==
  /\ pool \subseteq Mbuf
  /\ bytes \in [Mbuf -> Ip \cup {NotIp}]
  /\ sent \in 0 .. MaxSent
  /\ e2c \in Seq(Mbuf) /\ c2e \in Seq(Mbuf)
  /\ toClient \in [Client -> Seq(Mbuf)] /\ fromClient \in [Client -> Seq(Mbuf)]
  /\ Len(e2c) < RingSize /\ Len(c2e) < RingSize
  /\ \A c \in Client : Len(toClient[c]) < RingSize /\ Len(fromClient[c]) < RingSize
  /\ client \in [Client -> {"none", "attached", "undefined"}]
  /\ direct \subseteq Mbuf
  /\ clientmap \subseteq Range(allocatedIds)
  /\ allocatedIds \in Seq(Client)
  /\ ipId \in [Ip -> Client \cup {0}]
  /\ idIp \in [Client -> Ip \cup {NotIp}]
  /\ routes \in 0 .. MaxRoutes
  /\ iBufqueue \in Seq(Mbuf) /\ oBufqueue \in Seq(Mbuf)
  /\ pc \in {"idle", "forward", "collect", "send"} \cup Stopped
  /\ left \in Nat /\ at \in Nat
  /\ held \in Seq(Mbuf) /\ Len(held) <= BurstMax

\* All clients are registered, in the order of the ids add_client gave them;
\* the rings of some could not be created, and the processes of the others have
\* found theirs.  Frames the engine has dropped by now have left their bytes in
\* the pool.
Init ==
  /\ pool = Mbuf
  /\ bytes \in [Mbuf -> Ip \cup {NotIp}]
  /\ sent = 0
  /\ e2c = <<>> /\ c2e = <<>>
  /\ toClient = [c \in Client |-> <<>>]
  /\ fromClient = [c \in Client |-> <<>>]
  /\ clientmap \in SUBSET Client
  /\ client = [c \in Client |-> IF c \in clientmap THEN "attached" ELSE "none"]
  /\ direct = {}
  /\ allocatedIds \in {s \in [1 .. Cardinality(Client) -> Client] :
                         Range(s) = Client /\ \A i, j \in DOMAIN s : i < j => s[i] < s[j]}
  /\ ipId = [ip \in Ip |-> 0]
  /\ idIp = [c \in Client |-> NotIp]
  /\ routes = 0
  /\ iBufqueue = <<>> /\ oBufqueue = <<>>
  /\ pc = "idle" /\ left = 0 /\ at = 1 /\ held = <<>>

-----------------------------------------------------------------------------
(* Faulty variants: edits of the operations below that the properties must *)
(* tell from the code.  They are not part of the specification.            *)

\* All RingSize slots used.
HasRoomOffByOne(r) == Len(r) < RingSize

\* The packet is kept in the queue it was popped from.
ForwardPeeks(c) ==
  /\ toClient' = [toClient EXCEPT ![c] = Append(@, Head(iBufqueue))]
  /\ iBufqueue' = Append(Tail(iBufqueue), Head(iBufqueue))
  /\ left' = left - 1
  /\ UNCHANGED <<pool, pc>>

\* The buffer is pushed although nothing was received.
CollectNothingPushes(key) ==
  /\ key \in Client
  /\ \E m \in pool : pool' = pool \ {m} /\ oBufqueue' = Append(oBufqueue, m)
  /\ UNCHANGED fromClient

\* The last packet of a burst is left for the next call.
BurstLenShort(q) == IF q = <<>> THEN 0 ELSE Len(q) - 1

-----------------------------------------------------------------------------
(* DPDK rings, and the table. *)

HasRoom(r) == Len(r) < RingSize - 1

\* The ring r after Ring::enqueue(m), which gives m up before it knows whether
\* there is room: without room the mbuf is lost.
Enqueued(r, m) == IF HasRoom(r) THEN Append(r, m) ELSE r

\* Ring::enqueue_bulk drains its Vec and passes the length it has then.
EnqueueBulk(r, pkts) ==
  LET drained == <<>>
  IN  r \o SubSeq(pkts, 1, Len(drained))

\* _pkt_ipv4_hdr: NULL unless the Ethernet type is IPv4's.
HasIpv4Hdr(m) == bytes[m] # NotIp

\* Ipv4Hdr::convert takes the address, in network order, for a number of a
\* little-endian host: the octets come out in reverse.
Convert(ip) == Reverse(ip)

\* RoutingTable::id_from_ip: 0 for an address that has no route.
IdFromIp(ip) == ipId[ip]

\* One thread, which calls one method after the other.
Idle == pc = "idle"

UpdateTable == Idle /\ routes < MaxRoutes /\ routes' = routes + 1

\* RoutingTable::add_client.
AddRoute(id, ip) ==
  /\ UpdateTable
  /\ ipId' = [ipId EXCEPT ![ip] = id]
  /\ idIp' = [idIp EXCEPT ![id] = ip]
  /\ UNCHANGED <<userVars, poolVars, e2c, c2e, clientVars, iBufqueue, oBufqueue, loopVars>>

\* Each removal touches one of the two maps only.
RemoveById(id) ==
  /\ UpdateTable
  /\ idIp' = [idIp EXCEPT ![id] = NotIp]
  /\ UNCHANGED <<userVars, poolVars, e2c, c2e, clientVars, ipId, iBufqueue, oBufqueue,
                 loopVars>>

RemoveByIp(ip) ==
  /\ UpdateTable
  /\ ipId' = [ipId EXCEPT ![ip] = 0]
  /\ UNCHANGED <<userVars, poolVars, e2c, c2e, clientVars, idIp, iBufqueue, oBufqueue,
                 loopVars>>

\* Packetiser::remove_clients of a client that is there: its rings are freed
\* with what is in them, its routes stay, and so does the client process.
RemoveClient(c) ==
  /\ Idle
  /\ c \in Range(allocatedIds)
  /\ allocatedIds' = RemoveFirst(allocatedIds, c)
  /\ clientmap' = clientmap \ {c}
  /\ toClient' = [toClient EXCEPT ![c] = <<>>]
  /\ fromClient' = [fromClient EXCEPT ![c] = <<>>]
  /\ UNCHANGED <<userVars, poolVars, e2c, c2e, tableVars, iBufqueue, oBufqueue, loopVars>>

-----------------------------------------------------------------------------
(* The other processes. *)

Fill(m, ip) ==
  /\ sent < MaxSent
  /\ sent' = sent + 1
  /\ pool' = pool \ {m}
  /\ bytes' = [bytes EXCEPT ![m] = ip]

\* The engine puts a packet on the packetiser's ring (Dataplane has the rest).
EngineSend(m, ip) ==
  /\ Fill(m, ip)
  /\ e2c' = Enqueued(e2c, m)
  /\ UNCHANGED <<userVars, c2e, clientVars, tableVars, iBufqueue, oBufqueue, loopVars>>

\* Channel::send_to_engine, called by a client.
ClientSend(c, m, ip) ==
  /\ client[c] = "attached" /\ c \in clientmap
  /\ Fill(m, ip)
  /\ fromClient' = [fromClient EXCEPT ![c] = Enqueued(@, m)]
  /\ UNCHANGED <<userVars, e2c, c2e, toClient, clientmap, allocatedIds, tableVars,
                 iBufqueue, oBufqueue, loopVars>>

\* Channel::receive_from_engine, called by a client: Ring::dequeue writes the
\* packet's pointer to a temporary, and the client still has its own mbuf.
ClientReceive(c) ==
  /\ client[c] = "attached" /\ c \in clientmap
  /\ toClient[c] # <<>>
  /\ toClient' = [toClient EXCEPT ![c] = Tail(@)]
  /\ UNCHANGED <<userVars, poolVars, e2c, c2e, fromClient, clientmap, allocatedIds,
                 tableVars, iBufqueue, oBufqueue, loopVars>>

\* Either call on rings that are freed, by remove_clients or by the destructors
\* after a panic: nothing more is claimed about this client.
ClientDangles(c) ==
  /\ client[c] = "attached"
  /\ c \notin clientmap \/ pc = "panicked"
  /\ client' = [client EXCEPT ![c] = "undefined"]
  /\ UNCHANGED <<direct, poolVars, e2c, c2e, clientVars, tableVars, iBufqueue,
                 oBufqueue, loopVars>>

-----------------------------------------------------------------------------
(* From the engine to the clients. *)

Burst == Min({BurstMax, Cardinality(pool)})

\* store_incoming, in one step (Dataplane has the interleavings of the same
\* code): the buffers it allocated go to i_bufqueue, the dequeued ones are lost.
StoreIncoming ==
  LET count == Min({Burst, Len(e2c)})
  IN  /\ Idle
      /\ \E fresh \in Injection(1 .. count, pool) :
           /\ iBufqueue' = iBufqueue \o fresh
           /\ pool' = pool \ Range(fresh)
      /\ e2c' = SubSeq(e2c, count + 1, Len(e2c))
      /\ UNCHANGED <<userVars, bytes, sent, c2e, clientVars, tableVars, oBufqueue, loopVars>>

\* for _ in 0..queue.len(): the length is read once.
BurstLen(q) == Len(q)

ForwardStart ==
  /\ Idle
  /\ pc' = "forward" /\ left' = BurstLen(iBufqueue)
  /\ UNCHANGED <<userVars, poolVars, e2c, c2e, clientVars, tableVars, iBufqueue,
                 oBufqueue, at, held>>

\* RingClientMap::send to a client with room in its ring.
ForwardSent(c) ==
  /\ toClient' = [toClient EXCEPT ![c] = Append(@, Head(iBufqueue))]
  /\ iBufqueue' = Tail(iBufqueue)
  /\ left' = left - 1
  /\ UNCHANGED <<pool, pc>>

\* No such client: the error path drops the packet and unwrap panics.
ForwardNoClient ==
  /\ pool' = pool \cup {Head(iBufqueue)}
  /\ iBufqueue' = Tail(iBufqueue)
  /\ pc' = "panicked"
  /\ UNCHANGED <<toClient, left>>

\* Its ring is full (the packet is lost and unwrap panics), or there is no
\* IPv4 header (from_mbuf reads through a null pointer).  The packetiser's
\* methods end here; Dataplane has the destructors that would run next.
ForwardStops(end) ==
  /\ iBufqueue' = Tail(iBufqueue)
  /\ pc' = end
  /\ UNCHANGED <<pool, toClient, left>>

\* One iteration of forward_incoming_packets.
ForwardPacket ==
  LET pkt == Head(iBufqueue)
      c == IdFromIp(Convert(bytes[pkt]))
  IN  /\ pc = "forward" /\ left > 0
      /\ \/ ~HasIpv4Hdr(pkt) /\ ForwardStops("crashed")
         \/ HasIpv4Hdr(pkt) /\ c \notin clientmap /\ ForwardNoClient
         \/ /\ HasIpv4Hdr(pkt) /\ c \in clientmap
            /\ IF HasRoom(toClient[c]) THEN ForwardSent(c) ELSE ForwardStops("panicked")
      /\ UNCHANGED <<userVars, bytes, sent, e2c, c2e, fromClient, clientmap, allocatedIds,
                     tableVars, oBufqueue, at, held>>

-----------------------------------------------------------------------------
(* From the clients to the engine. *)

\* store_outgoing first allocates a burst of buffers it never fills; their
\* number is the number of rounds.
CollectStart ==
  /\ Idle
  /\ \E fresh \in Injection(1 .. Burst, pool) :
       held' = fresh /\ pool' = pool \ Range(fresh)
  /\ pc' = "collect" /\ left' = Burst /\ at' = 1
  /\ UNCHANGED <<userVars, bytes, sent, e2c, c2e, clientVars, tableVars, iBufqueue,
                 oBufqueue>>

\* Ring::dequeue writes the packet's pointer to a temporary: the fresh mbuf is
\* queued and the client's is lost.
CollectPacket(key) ==
  /\ key \in clientmap /\ fromClient[key] # <<>>
  /\ fromClient' = [fromClient EXCEPT ![key] = Tail(@)]
  /\ \E m \in pool : pool' = pool \ {m} /\ oBufqueue' = Append(oBufqueue, m)

\* Client unknown or ring empty: the fresh mbuf is freed again.
CollectNothing(key) == key \in Client /\ UNCHANGED <<pool, fromClient, oBufqueue>>

\* The next client, or the next round.
NextKey ==
  IF at < Len(allocatedIds) THEN at' = at + 1 /\ UNCHANGED left
                            ELSE at' = 1 /\ left' = left - 1

Collect ==
  /\ pc = "collect" /\ left > 0 /\ allocatedIds # <<>>
  /\ pool # {}
  /\ LET key == allocatedIds[at]
     IN  \/ CollectPacket(key)
         \/ (key \notin clientmap \/ fromClient[key] = <<>>) /\ CollectNothing(key)
  /\ NextKey
  /\ UNCHANGED <<userVars, bytes, sent, e2c, c2e, toClient, clientmap, allocatedIds,
                 tableVars, iBufqueue, pc, held>>

\* The rounds are over, or Mbuf::new fails and `?` returns: pkts is dropped.
CollectDone ==
  /\ pc = "collect" /\ (left = 0 \/ allocatedIds = <<>> \/ pool = {})
  /\ pool' = pool \cup Range(held) /\ held' = <<>>
  /\ pc' = "idle" /\ left' = 0 /\ at' = 1
  /\ UNCHANGED <<userVars, bytes, sent, e2c, c2e, clientVars, tableVars, iBufqueue,
                 oBufqueue>>

SendStart ==
  /\ Idle
  /\ pc' = "send" /\ left' = BurstLen(oBufqueue)
  /\ UNCHANGED <<userVars, poolVars, e2c, c2e, clientVars, tableVars, iBufqueue,
                 oBufqueue, at, held>>

\* One iteration of send_outgoing_packets; a packet that does not fit is lost
\* and the loop goes on.
SendPacket ==
  /\ pc = "send" /\ left > 0
  /\ oBufqueue' = Tail(oBufqueue)
  /\ c2e' = Enqueued(c2e, Head(oBufqueue))
  /\ left' = left - 1
  /\ UNCHANGED <<userVars, poolVars, e2c, clientVars, tableVars, iBufqueue, pc, at, held>>

LoopDone ==
  /\ pc \in {"forward", "send"} /\ left = 0
  /\ pc' = "idle"
  /\ UNCHANGED <<userVars, poolVars, e2c, c2e, clientVars, tableVars, iBufqueue,
                 oBufqueue, left, at, held>>

\* `for pkt in queue.pop()` pops one packet, not the queue.
SendToEngineBulk ==
  /\ Idle
  /\ oBufqueue # <<>>
  /\ oBufqueue' = Tail(oBufqueue)
  /\ c2e' = EnqueueBulk(c2e, <<Head(oBufqueue)>>)
  /\ UNCHANGED <<userVars, poolVars, e2c, clientVars, tableVars, iBufqueue, loopVars>>

-----------------------------------------------------------------------------
(* The map's operations on fresh mbufs of the caller.                      *)

\* recv_from_clients, which sends to a client: the caller's packet ends on the
\* client's ring or is lost.  For a client that is not there it is dropped.
RecvFromClients(c, m) ==
  /\ Idle /\ c \in clientmap
  /\ sent < MaxSent /\ sent' = sent + 1
  /\ pool' = pool \ {m} /\ direct' = direct \cup {m}
  /\ toClient' = [toClient EXCEPT ![c] = Enqueued(@, m)]
  /\ UNCHANGED <<client, bytes, e2c, c2e, fromClient, clientmap, allocatedIds,
                 tableVars, iBufqueue, oBufqueue, loopVars>>

\* send_to_clients, which receives from one: the packet is lost and the caller
\* still has its own mbuf.
SendToClients(c) ==
  /\ Idle /\ c \in clientmap
  /\ fromClient[c] # <<>>
  /\ fromClient' = [fromClient EXCEPT ![c] = Tail(@)]
  /\ UNCHANGED <<userVars, poolVars, e2c, c2e, toClient, clientmap, allocatedIds,
                 tableVars, iBufqueue, oBufqueue, loopVars>>

\* send_bulk: a client that is not there has the Vec dropped, which frees it
\* again; for one that is, every mbuf was given up before the ring was asked.
SendBulk(c) ==
  /\ Idle /\ c \in clientmap
  /\ \E n \in 1 .. Burst : \E fresh \in Injection(1 .. n, pool) :
       /\ pool' = pool \ Range(fresh)
       /\ toClient' = [toClient EXCEPT ![c] = EnqueueBulk(@, fresh)]
  /\ UNCHANGED <<userVars, bytes, sent, e2c, c2e, fromClient, clientmap, allocatedIds,
                 tableVars, iBufqueue, oBufqueue, loopVars>>

\* receive_bulk: dequeue_burst takes packets off the ring and tells the caller
\* their number; they are lost, and the caller drops the mbufs it passed.
ReceiveBulk(c) ==
  /\ Idle /\ c \in clientmap
  /\ fromClient' =
       [fromClient EXCEPT ![c] = SubSeq(@, Min({Burst, Len(@)}) + 1, Len(@))]
  /\ UNCHANGED <<userVars, poolVars, e2c, c2e, toClient, clientmap, allocatedIds,
                 tableVars, iBufqueue, oBufqueue, loopVars>>

-----------------------------------------------------------------------------
LoopStep == ForwardPacket \/ Collect \/ CollectDone \/ SendPacket \/ LoopDone

Next ==
  \/ LoopStep
  \/ StoreIncoming \/ ForwardStart \/ CollectStart \/ SendStart \/ SendToEngineBulk
  \/ \E ip \in Ip : RemoveByIp(ip)
  \/ \E ip \in Ip, m \in pool : EngineSend(m, ip)
  \/ \E c \in Client :
       \/ RemoveById(c) \/ RemoveClient(c) \/ ClientReceive(c) \/ ClientDangles(c)
       \/ SendToClients(c) \/ SendBulk(c) \/ ReceiveBulk(c)
       \/ \E ip \in Ip : AddRoute(c, ip)
       \/ \E m \in pool : RecvFromClients(c, m)
       \/ \E ip \in Ip, m \in pool : ClientSend(c, m, ip)

Spec == Init /\ [][Next]_vars
-----------------------------------------------------------------------------
(* Properties. *)

\* All rings, queues and Vecs of mbufs; those of the clients once for each.
QueueName == ({"e2c", "c2e", "iq", "oq", "held"} \X {0}) \cup ({"to", "from"} \X Client)
Queue(h) ==
  CASE h[1] = "e2c"  -> e2c
    [] h[1] = "c2e"  -> c2e
    [] h[1] = "iq"   -> iBufqueue
    [] h[1] = "oq"   -> oBufqueue
    [] h[1] = "held" -> held
    [] h[1] = "to"   -> toClient[h[2]]
    [] h[1] = "from" -> fromClient[h[2]]

\* No mbuf is in two of the pool, the rings of all channels and the queues of
\* the packetiser, or twice in one, whatever methods are called, whatever ring
\* is full and wherever a burst ends in a panic.
NoMbufTwice ==
  /\ \A h \in QueueName : IsInjective(Queue(h))
  /\ \A m \in Mbuf : LET holders == {h \in QueueName : m \in Range(Queue(h))}
                     IN  /\ m \in pool => holders = {}
                         /\ \A g, h \in holders : g = h

\* Mbufs that carry a received packet inside the packetiser, to a client or to
\* the engine, and the mbufs nobody can reach any more.
Carrying ==
  (UNION {Range(Queue(h)) : h \in ({"iq", "oq", "c2e"} \X {0}) \cup ({"to"} \X Client)})
    \ direct
Lost == Mbuf \ (pool \cup UNION {Range(Queue(h)) : h \in QueueName})

\* Every packet that came by a ring and is on its way inside the packetiser, to a
\* client or to the engine has cost a second mbuf: the one that carried the
\* packet, which dequeue and dequeue_burst lost.
EveryPacketLeaksOne == Cardinality(Carrying) <= Cardinality(Lost)

\* A burst is handled to its end: forward_incoming_packets and
\* send_outgoing_packets return with an empty queue, and store_outgoing with
\* all the buffers it took in advance given back, although the other processes
\* work on the rings and the pool meanwhile.
NothingLeftBehind ==
  [][pc # "idle" /\ pc' = "idle" =>
       /\ pc = "forward" => iBufqueue' = <<>>
       /\ pc = "send" => oBufqueue' = <<>>
       /\ held' = <<>>]_vars
=============================================================================
