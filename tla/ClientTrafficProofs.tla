------------------------ MODULE ClientTrafficProofs ------------------------
(***************************************************************************)
(* Proofs about ClientTraffic for every pool, set of clients, ring and     *)
(* burst size: types and loop counters, then exclusive ownership, then the *)
(* price of a packet.                                                      *)
(***************************************************************************)
EXTENDS ClientTraffic, QueueLemmas

-----------------------------------------------------------------------------
(* Types. *)

\* The loops pop as often as the length they read at their start, and only
\* store_outgoing holds buffers: without this a loop could pop an empty queue.
LoopInv ==
  /\ pc = "forward" => left = Len(iBufqueue)
  /\ pc = "send" => left = Len(oBufqueue)
  /\ pc # "collect" => held = <<>>
TypeInv == TypeOK /\ LoopInv

\* A burst is at most BURST_MAX and what the pool has.
LEMMA BurstBound ==
  ASSUME TypeOK
  PROVE  /\ Burst \in Nat /\ Burst <= BurstMax /\ Burst <= Cardinality(pool)
         /\ IsFiniteSet(pool) /\ Cardinality(pool) \in Nat
<1>1. IsFiniteSet(pool)
  BY TrafficAssumption, FS_Subset DEF TypeOK
<1>2. Cardinality(pool) \in Nat
  BY <1>1, FS_CardinalityType
<1>3. {BurstMax, Cardinality(pool)} \in SUBSET Nat /\ {BurstMax, Cardinality(pool)} # {}
  BY <1>2, TrafficAssumption
<1>4. Burst \in {BurstMax, Cardinality(pool)} /\ \A n \in {BurstMax, Cardinality(pool)} : Burst <= n
  BY <1>3, MinOfNats DEF Burst
<1> QED
  BY <1>1, <1>2, <1>3, <1>4

\* Mbufs taken from the pool are a Vec without duplicates.
LEMMA FreshIsSeq ==
  ASSUME TypeOK, NEW n \in Nat, NEW fresh \in Injection(1 .. n, pool)
  PROVE  /\ fresh \in Seq(Mbuf) /\ Len(fresh) = n /\ IsInjective(fresh)
         /\ Range(fresh) \subseteq pool
<1>1. fresh \in [1 .. n -> pool] /\ IsInjective(fresh)
  BY DEF Injection
<1>2. fresh \in Seq(pool) /\ Len(fresh) = n
  BY <1>1
<1>3. fresh \in [1 .. n -> Mbuf]
  BY <1>1 DEF TypeOK
<1>4. fresh \in Seq(Mbuf)
  BY <1>3
<1> QED
  BY <1>1, <1>2, <1>4, SeqRange

\* enqueue_bulk passes the length of a Vec it has drained: nothing is enqueued.
LEMMA BulkEnqueuesNothing ==
  ASSUME NEW r \in Seq(Mbuf), NEW pkts
  PROVE  EnqueueBulk(r, pkts) = r
<1>1. Len(<<>>) = 0 /\ SubSeq(pkts, 1, 0) = <<>>
  BY EmptySeq, SubSeqEmpty
<1> QED
  BY <1>1, ConcatEmptySeq DEF EnqueueBulk

\* Before the first call nothing is queued.
LEMMA TypeInit == Init => TypeInv
<1> SUFFICES ASSUME Init PROVE TypeInv
  OBVIOUS
<1>1. <<>> \in Seq(Mbuf) /\ Len(<<>>) = 0
  BY EmptySeq
<1>2. Cardinality(Client) \in Nat
  BY TrafficAssumption, FS_CardinalityType
<1>3. allocatedIds \in Seq(Client) /\ Range(allocatedIds) = Client
  BY <1>2 DEF Init
<1>4. ipId \in [Ip -> Client \cup {0}] /\ idIp \in [Client -> Ip \cup {NotIp}]
  BY DEF Init
<1>5. /\ \A c \in Client : Len(toClient[c]) < RingSize /\ Len(fromClient[c]) < RingSize
      /\ toClient \in [Client -> Seq(Mbuf)] /\ fromClient \in [Client -> Seq(Mbuf)]
      /\ Len(e2c) < RingSize /\ Len(c2e) < RingSize
  BY <1>1, TrafficAssumption DEF Init
<1>6. client \in [Client -> {"none", "attached", "undefined"}]
  BY DEF Init
<1> QED
  BY <1>1, <1>3, <1>4, <1>5, <1>6, TrafficAssumption DEF Init, TypeInv, TypeOK, LoopInv

\* The routing table and remove_clients.
LEMMA TypeTable ==
  ASSUME TypeInv,
         \/ \E c \in Client, ip \in Ip : AddRoute(c, ip)
         \/ \E c \in Client : RemoveById(c)
         \/ \E ip \in Ip : RemoveByIp(ip)
  PROVE  TypeInv'
<1> USE DEF TypeInv, TypeOK, LoopInv, userVars, poolVars, tableVars, clientVars, loopVars, UpdateTable
<1>1. ASSUME NEW c \in Client, NEW ip \in Ip, AddRoute(c, ip) PROVE TypeInv'
  BY <1>1, TrafficAssumption, SMTT(60) DEF AddRoute
<1>2. ASSUME NEW c \in Client, RemoveById(c) PROVE TypeInv'
  <2>1. routes' \in 0 .. MaxRoutes /\ idIp' \in [Client -> Ip \cup {NotIp}]
    BY <1>2, TrafficAssumption, SMTT(60) DEF RemoveById
  <2> QED
    BY <1>2, <2>1 DEF RemoveById
<1>3. ASSUME NEW ip \in Ip, RemoveByIp(ip) PROVE TypeInv'
  BY <1>3, TrafficAssumption, SMTT(60) DEF RemoveByIp
<1> QED
  BY <1>1, <1>2, <1>3

\* remove_clients takes out one id, and empties that client's rings only.
LEMMA TypeRemove ==
  ASSUME TypeInv, NEW c \in Client, RemoveClient(c)
  PROVE  TypeInv'
<1> USE DEF TypeInv, TypeOK, LoopInv, userVars, poolVars, tableVars, clientVars, loopVars
<1>1. <<>> \in Seq(Mbuf) /\ Len(<<>>) = 0 /\ 0 < RingSize
  BY EmptySeq, TrafficAssumption
<1>2. /\ allocatedIds' \in Seq(Client)
      /\ Range(allocatedIds) \ {c} \subseteq Range(allocatedIds')
  BY RemoveFirstKeeps DEF RemoveClient
<1>3. clientmap' \subseteq Range(allocatedIds')
  BY <1>2 DEF RemoveClient
<1>4. /\ toClient' \in [Client -> Seq(Mbuf)] /\ fromClient' \in [Client -> Seq(Mbuf)]
      /\ \A d \in Client : Len(toClient'[d]) < RingSize /\ Len(fromClient'[d]) < RingSize
  BY <1>1 DEF RemoveClient
<1> QED
  BY <1>2, <1>3, <1>4 DEF RemoveClient

\* Ring::enqueue keeps to the ring's usable size: it appends, or does nothing.
LEMMA EnqueuedRing ==
  ASSUME NEW r \in Seq(Mbuf), Len(r) < RingSize, NEW m \in Mbuf
  PROVE  Enqueued(r, m) \in Seq(Mbuf) /\ Len(Enqueued(r, m)) < RingSize
<1>1. Append(r, m) \in Seq(Mbuf) /\ Len(Append(r, m)) = Len(r) + 1 /\ Len(r) \in Nat
  BY AppendQueue, LenProperties
<1>2. HasRoom(r) => Len(Append(r, m)) < RingSize
  BY <1>1, TrafficAssumption DEF HasRoom
<1> QED
  BY <1>1, <1>2 DEF Enqueued

\* The engine, the clients and recv_from_clients send.
LEMMA TypeOthers ==
  ASSUME TypeInv, NEW m \in pool,
         \/ \E ip \in Ip : EngineSend(m, ip)
         \/ \E c \in Client, ip \in Ip : ClientSend(c, m, ip)
         \/ \E c \in Client : RecvFromClients(c, m)
  PROVE  TypeInv'
<1> USE DEF TypeInv, TypeOK, LoopInv, userVars, poolVars, tableVars, clientVars, loopVars, Fill
<1>1. ASSUME NEW ip \in Ip, Fill(m, ip)
      PROVE  /\ pool' \subseteq Mbuf /\ bytes' \in [Mbuf -> Ip \cup {NotIp}] /\ sent' \in 0 .. MaxSent
  BY <1>1, TrafficAssumption
<1>2. ASSUME NEW ip \in Ip, EngineSend(m, ip) PROVE TypeInv'
  <2>1. e2c' \in Seq(Mbuf) /\ Len(e2c') < RingSize
    BY <1>2, EnqueuedRing DEF EngineSend
  <2> QED
    BY <1>1, <1>2, <2>1 DEF EngineSend
<1>3. ASSUME NEW c \in Client, NEW ip \in Ip, ClientSend(c, m, ip) PROVE TypeInv'
  <2>1. Enqueued(fromClient[c], m) \in Seq(Mbuf) /\ Len(Enqueued(fromClient[c], m)) < RingSize
    BY EnqueuedRing
  <2>2. /\ fromClient' \in [Client -> Seq(Mbuf)]
        /\ \A d \in Client : Len(fromClient'[d]) < RingSize
    BY <1>3, <2>1 DEF ClientSend
  <2> QED
    BY <1>1, <1>3, <2>2 DEF ClientSend
<1>4. ASSUME NEW c \in Client, RecvFromClients(c, m) PROVE TypeInv'
  <2>1. Enqueued(toClient[c], m) \in Seq(Mbuf) /\ Len(Enqueued(toClient[c], m)) < RingSize
    BY EnqueuedRing
  <2>2. /\ toClient' \in [Client -> Seq(Mbuf)]
        /\ \A d \in Client : Len(toClient'[d]) < RingSize
    BY <1>4, <2>1 DEF RecvFromClients
  <2>3. pool' \subseteq Mbuf /\ direct' \subseteq Mbuf /\ sent' \in 0 .. MaxSent
    BY <1>4, TrafficAssumption DEF RecvFromClients
  <2> QED
    BY <1>4, <2>2, <2>3 DEF RecvFromClients
<1> QED
  BY <1>2, <1>3, <1>4

\* A packet is taken off a client's ring; the bulk operations enqueue nothing, or
\* take a burst off a ring.
LEMMA TypeClientRings ==
  ASSUME TypeInv, NEW c \in Client,
         ClientReceive(c) \/ SendToClients(c) \/ SendBulk(c) \/ ReceiveBulk(c)
  PROVE  TypeInv'
<1> USE DEF TypeInv, TypeOK, LoopInv, userVars, poolVars, tableVars, clientVars, loopVars
<1>1. toClient[c] \in Seq(Mbuf) /\ fromClient[c] \in Seq(Mbuf)
  OBVIOUS
<1>0. ASSUME NEW q \in Seq(Mbuf), q # <<>>, Len(q) < RingSize
      PROVE  Tail(q) \in Seq(Mbuf) /\ Len(Tail(q)) < RingSize
  <2>1. Tail(q) \in Seq(Mbuf) /\ Len(Tail(q)) = Len(q) - 1 /\ Len(q) \in Nat
    BY <1>0, TailQueue
  <2> QED
    BY <1>0, <2>1, TrafficAssumption
<1>2. CASE ClientReceive(c)
  <2>1. Tail(toClient[c]) \in Seq(Mbuf) /\ Len(Tail(toClient[c])) < RingSize
    BY <1>0, <1>1, <1>2 DEF ClientReceive
  <2>2. toClient' \in [Client -> Seq(Mbuf)] /\ \A d \in Client : Len(toClient'[d]) < RingSize
    BY <1>2, <2>1 DEF ClientReceive
  <2> QED
    BY <1>2, <2>2 DEF ClientReceive
<1>5. CASE SendToClients(c)
  <2>1. Tail(fromClient[c]) \in Seq(Mbuf) /\ Len(Tail(fromClient[c])) < RingSize
    BY <1>0, <1>1, <1>5 DEF SendToClients
  <2>2. fromClient' \in [Client -> Seq(Mbuf)] /\ \A d \in Client : Len(fromClient'[d]) < RingSize
    BY <1>5, <2>1 DEF SendToClients
  <2> QED
    BY <1>5, <2>2 DEF SendToClients
<1>3. CASE SendBulk(c)
  <2>0. PICK n \in 1 .. Burst : \E fresh \in Injection(1 .. n, pool) :
          /\ pool' = pool \ Range(fresh)
          /\ toClient' = [toClient EXCEPT ![c] = EnqueueBulk(@, fresh)]
    BY <1>3 DEF SendBulk
  <2>1. PICK fresh \in Injection(1 .. n, pool) :
          /\ pool' = pool \ Range(fresh)
          /\ toClient' = [toClient EXCEPT ![c] = EnqueueBulk(@, fresh)]
    BY <2>0
  <2>2. toClient' = toClient
    BY <1>1, <2>1, BulkEnqueuesNothing
  <2> QED
    BY <1>3, <2>1, <2>2 DEF SendBulk
<1>4. CASE ReceiveBulk(c)
  <2> DEFINE n == Min({Burst, Len(fromClient[c])})
             rest == SubSeq(fromClient[c], n + 1, Len(fromClient[c]))
  <2>1. Burst \in Nat /\ Len(fromClient[c]) \in Nat
    BY <1>1, BurstBound, LenProperties
  <2>2. n \in 0 .. Len(fromClient[c])
    BY <2>1, LesserOf
  <2>3. rest \in Seq(Mbuf) /\ Len(rest) = Len(fromClient[c]) - n
    BY <1>1, <2>2, SuffixQueue
  <2> HIDE DEF n
  <2>4. Len(rest) < RingSize
    BY <2>1, <2>2, <2>3, TrafficAssumption
  <2>5. fromClient' = [fromClient EXCEPT ![c] = rest]
    BY <1>4 DEF ReceiveBulk, n
  <2> HIDE DEF rest
  <2>6. fromClient' \in [Client -> Seq(Mbuf)] /\ \A d \in Client : Len(fromClient'[d]) < RingSize
    BY <2>3, <2>4, <2>5
  <2> QED
    BY <1>4, <2>6 DEF ReceiveBulk
<1> QED
  BY <1>2, <1>3, <1>4, <1>5

\* store_incoming moves as many pointers as the smaller of burst and ring.
LEMMA IncomingMoves ==
  ASSUME TypeInv, StoreIncoming
  PROVE  \E n \in 0 .. Len(e2c) : \E fresh \in Injection(1 .. n, pool) :
           /\ iBufqueue' = iBufqueue \o fresh
           /\ pool' = pool \ Range(fresh)
           /\ e2c' = SubSeq(e2c, n + 1, Len(e2c))
<1>1. Burst \in Nat /\ Len(e2c) \in Nat
  BY BurstBound, LenProperties DEF TypeInv, TypeOK
<1>2. Min({Burst, Len(e2c)}) \in 0 .. Len(e2c)
  BY <1>1, LesserOf
<1> QED
  BY <1>2 DEF StoreIncoming

\* Starting a method, and store_incoming.
LEMMA TypeStart ==
  ASSUME TypeInv, StoreIncoming \/ ForwardStart \/ CollectStart \/ SendStart
  PROVE  TypeInv'
<1> USE DEF TypeInv, TypeOK, LoopInv, userVars, poolVars, tableVars, clientVars, loopVars, Idle
<1>1. CASE StoreIncoming
  <2>1. PICK n \in 0 .. Len(e2c) : \E fresh \in Injection(1 .. n, pool) :
           /\ iBufqueue' = iBufqueue \o fresh
           /\ pool' = pool \ Range(fresh)
           /\ e2c' = SubSeq(e2c, n + 1, Len(e2c))
    BY <1>1, IncomingMoves
  <2>2. PICK fresh \in Injection(1 .. n, pool) :
           /\ iBufqueue' = iBufqueue \o fresh
           /\ pool' = pool \ Range(fresh)
           /\ e2c' = SubSeq(e2c, n + 1, Len(e2c))
    BY <2>1
  <2>3. Len(e2c) \in Nat /\ n \in Nat
    BY LenProperties
  <2>4. fresh \in Seq(Mbuf)
    BY <2>3, FreshIsSeq
  <2>5. iBufqueue' \in Seq(Mbuf)
    BY <2>2, <2>4, ConcatProperties
  <2>6. e2c' \in Seq(Mbuf) /\ Len(e2c') = Len(e2c) - n
    BY <2>2, SuffixQueue
  <2>7. Len(e2c') < RingSize
    BY <2>3, <2>6, TrafficAssumption
  <2> QED
    BY <1>1, <2>2, <2>5, <2>6, <2>7 DEF StoreIncoming
<1>2. CASE ForwardStart \/ SendStart
  BY <1>2, LenProperties DEF ForwardStart, SendStart, BurstLen
<1>3. CASE CollectStart
  <2>1. Burst \in Nat /\ Burst <= BurstMax
    BY BurstBound
  <2>2. PICK fresh \in Injection(1 .. Burst, pool) : held' = fresh /\ pool' = pool \ Range(fresh)
    BY <1>3 DEF CollectStart
  <2>3. held' \in Seq(Mbuf) /\ Len(held') <= BurstMax
    BY <2>1, <2>2, FreshIsSeq
  <2> QED
    BY <1>3, <2>1, <2>2, <2>3 DEF CollectStart
<1> QED
  BY <1>1, <1>2, <1>3

\* forward_incoming_packets, one packet.
LEMMA TypeForward ==
  ASSUME TypeInv, ForwardPacket
  PROVE  TypeInv'
<1> USE DEF TypeInv, TypeOK, LoopInv, userVars, poolVars, tableVars, clientVars, loopVars
<1> DEFINE pkt == Head(iBufqueue)
           c == IdFromIp(Convert(bytes[pkt]))
<1>1. pc = "forward" /\ left \in Nat /\ left > 0 /\ left = Len(iBufqueue)
  BY DEF ForwardPacket
<1>2. iBufqueue # <<>>
  BY <1>1, EmptySeq
<1>3. /\ Tail(iBufqueue) \in Seq(Mbuf) /\ Len(Tail(iBufqueue)) = Len(iBufqueue) - 1
      /\ pkt \in Mbuf
  BY <1>2, TailQueue
<1>4. UNCHANGED <<userVars, bytes, sent, e2c, c2e, fromClient, clientmap, allocatedIds,
                  tableVars, oBufqueue, at, held>>
  BY DEF ForwardPacket
<1>5. CASE ForwardStops("crashed") \/ ForwardStops("panicked")
  BY <1>1, <1>3, <1>4, <1>5 DEF ForwardStops, Stopped
<1>6. CASE ForwardNoClient
  BY <1>1, <1>3, <1>4, <1>6 DEF ForwardNoClient, Stopped
<1>7. CASE c \in clientmap /\ HasRoom(toClient[c]) /\ ForwardSent(c)
  <2>0. Range(allocatedIds) \subseteq Client
    BY SeqRange
  <2>1. c \in Client
    BY <1>7, <2>0
  <2> HIDE DEF c
  <2>2. /\ Append(toClient[c], pkt) \in Seq(Mbuf) /\ Len(toClient[c]) \in Nat
        /\ Len(Append(toClient[c], pkt)) = Len(toClient[c]) + 1
    BY <1>3, <2>1, AppendQueue, LenProperties, ZenonT(60)
  <2>3. Len(Append(toClient[c], pkt)) < RingSize
    BY <1>7, <2>2, TrafficAssumption DEF HasRoom
  <2>4. toClient' \in [Client -> Seq(Mbuf)] /\ \A d \in Client : Len(toClient'[d]) < RingSize
    BY <1>7, <2>1, <2>2, <2>3 DEF ForwardSent
  <2> QED
    BY <1>1, <1>3, <1>4, <1>7, <2>4 DEF ForwardSent
<1> QED
  BY <1>5, <1>6, <1>7 DEF ForwardPacket

\* store_outgoing, one client.
LEMMA TypeCollect ==
  ASSUME TypeInv, Collect \/ CollectDone
  PROVE  TypeInv'
<1> USE DEF TypeInv, TypeOK, LoopInv, userVars, poolVars, tableVars, clientVars, loopVars
<1>1. CASE Collect
  <2> DEFINE key == allocatedIds[at]
  <2>0. NextKey /\ left > 0 /\ pc' = "collect" /\ pc = "collect"
    BY <1>1 DEF Collect
  <2>1. left' \in Nat /\ at' \in Nat
    <3>1. left \in Nat /\ at \in Nat
      OBVIOUS
    <3>2. CASE at' = at + 1 /\ left' = left
      BY <3>1, <3>2
    <3>3. CASE at' = 1 /\ left' = left - 1
      BY <2>0, <3>1, <3>3
    <3> QED
      BY <2>0, <3>2, <3>3 DEF NextKey
  <2>2. CASE CollectPacket(key)
    <3>0. Range(allocatedIds) \subseteq Client
      BY SeqRange
    <3>1. key \in Client /\ fromClient[key] # <<>>
      BY <2>2, <3>0 DEF CollectPacket
    <3> HIDE DEF key
    <3>2. /\ Tail(fromClient[key]) \in Seq(Mbuf) /\ Len(fromClient[key]) \in Nat
          /\ Len(Tail(fromClient[key])) = Len(fromClient[key]) - 1
      BY <3>1, TailQueue
    <3>3. Len(Tail(fromClient[key])) < RingSize
      BY <3>1, <3>2, TrafficAssumption
    <3>4. fromClient' \in [Client -> Seq(Mbuf)] /\ \A d \in Client : Len(fromClient'[d]) < RingSize
      BY <2>2, <3>1, <3>2, <3>3 DEF CollectPacket
    <3>5. oBufqueue' \in Seq(Mbuf) /\ pool' \subseteq Mbuf
      BY <2>2, AppendQueue DEF CollectPacket
    <3> QED
      BY <1>1, <2>0, <2>1, <3>4, <3>5 DEF Collect
  <2>3. CASE CollectNothing(key)
    BY <1>1, <2>0, <2>1, <2>3 DEF Collect, CollectNothing
  <2> QED
    BY <1>1, <2>2, <2>3 DEF Collect
<1>2. CASE CollectDone
  <2>1. <<>> \in Seq(Mbuf) /\ Len(<<>>) = 0 /\ Range(held) \subseteq Mbuf
    BY EmptySeq, SeqRange
  <2> QED
    BY <1>2, <2>1, TrafficAssumption DEF CollectDone
<1> QED
  BY <1>1, <1>2

\* send_outgoing_packets, one packet, and send_to_engine_bulk.
LEMMA TypeSend ==
  ASSUME TypeInv, SendPacket \/ LoopDone \/ SendToEngineBulk
  PROVE  TypeInv'
<1> USE DEF TypeInv, TypeOK, LoopInv, userVars, poolVars, tableVars, clientVars, loopVars
<1>1. CASE SendPacket
  <2>1. pc = "send" /\ left \in Nat /\ left > 0 /\ left = Len(oBufqueue)
    BY <1>1 DEF SendPacket
  <2>2. oBufqueue # <<>>
    BY <2>1, EmptySeq
  <2>3. /\ Tail(oBufqueue) \in Seq(Mbuf) /\ Len(Tail(oBufqueue)) = Len(oBufqueue) - 1
        /\ Head(oBufqueue) \in Mbuf
    BY <2>2, TailQueue
  <2>5. c2e' \in Seq(Mbuf) /\ Len(c2e') < RingSize
    BY <1>1, <2>3, EnqueuedRing DEF SendPacket
  <2> QED
    BY <1>1, <2>1, <2>3, <2>5 DEF SendPacket
<1>2. CASE LoopDone
  BY <1>2 DEF LoopDone
<1>3. CASE SendToEngineBulk
  <2>1. Tail(oBufqueue) \in Seq(Mbuf) /\ c2e' = c2e
    BY <1>3, TailQueue, BulkEnqueuesNothing DEF SendToEngineBulk
  <2> QED
    BY <1>3, <2>1 DEF SendToEngineBulk, Idle
<1> QED
  BY <1>1, <1>2, <1>3

\* TypeInv holds in every sequence of calls.
LEMMA TypeInvariant == Spec => []TypeInv
<1>1. ASSUME TypeInv, UNCHANGED vars PROVE TypeInv'
  BY <1>1 DEF TypeInv, TypeOK, LoopInv, vars, userVars, poolVars, tableVars, clientVars, loopVars
<1>2. TypeInv /\ [Next]_vars => TypeInv'
  <2> SUFFICES ASSUME TypeInv, [Next]_vars PROVE TypeInv'
    OBVIOUS
  <2>1. ASSUME NEW ip \in Ip, RemoveByIp(ip) PROVE TypeInv'
    BY <2>1, TypeTable
  <2>2. ASSUME NEW ip \in Ip, NEW m \in pool, EngineSend(m, ip) PROVE TypeInv'
    BY <2>2, TypeOthers
  <2>3. ASSUME NEW c \in Client, NEW ip \in Ip, NEW m \in pool, ClientSend(c, m, ip)
        PROVE  TypeInv'
    BY <2>3, TypeOthers
  <2>4. ASSUME NEW c \in Client, NEW ip \in Ip, AddRoute(c, ip) PROVE TypeInv'
    BY <2>4, TypeTable
  <2>5. ASSUME NEW c \in Client, RemoveById(c) PROVE TypeInv'
    BY <2>5, TypeTable
  <2>6. ASSUME NEW c \in Client,
               \/ RemoveClient(c) \/ ClientReceive(c) \/ SendToClients(c)
               \/ SendBulk(c) \/ ReceiveBulk(c)
        PROVE  TypeInv'
    BY <2>6, TypeRemove, TypeClientRings
  <2>8. ASSUME NEW c \in Client, NEW m \in pool, RecvFromClients(c, m) PROVE TypeInv'
    BY <2>8, TypeOthers
  <2>9. ASSUME NEW c \in Client, ClientDangles(c) PROVE TypeInv'
    BY <2>9 DEF TypeInv, TypeOK, LoopInv, ClientDangles, poolVars, tableVars, clientVars, loopVars
  <2>7. CASE LoopStep \/ StoreIncoming \/ ForwardStart \/ CollectStart \/ SendStart
               \/ SendToEngineBulk
    BY <2>7, TypeStart, TypeForward, TypeCollect, TypeSend DEF LoopStep
  <2> QED
    BY <1>1, <2>1, <2>2, <2>3, <2>4, <2>5, <2>6, <2>7, <2>8, <2>9 DEF Next
<1> QED
  BY <1>2, TypeInit, PTL DEF Spec

\* The packetiser's queues, tables and loops keep their types and no ring
\* outgrows its usable size, whatever methods are called in whatever order.
THEOREM TypeCorrect == Spec => []TypeOK
<1>1. TypeInv => TypeOK
  BY DEF TypeInv
<1> QED
  BY <1>1, TypeInvariant, PTL

\* forward_incoming_packets and send_outgoing_packets return with an empty
\* queue, and store_outgoing with all its buffers given back.
THEOREM BurstsEnd == Spec => NothingLeftBehind
<1> DEFINE A == pc # "idle" /\ pc' = "idle" =>
                  /\ pc = "forward" => iBufqueue' = <<>>
                  /\ pc = "send" => oBufqueue' = <<>>
                  /\ held' = <<>>
<1>1. TypeInv /\ TypeInv' /\ [Next]_vars => [A]_vars
  <2> SUFFICES ASSUME TypeInv, TypeInv', Next, pc # "idle", pc' = "idle" PROVE A
    BY DEF vars
  <2>1. held' = <<>>
    BY DEF TypeInv, LoopInv
  <2>2. CASE pc = "forward" \/ pc = "send"
    <3>1. LoopDone
      BY <2>2 DEF Next, LoopStep, LoopDone, ForwardPacket, ForwardSent, ForwardNoClient,
                  ForwardStops, Collect, CollectDone, SendPacket, StoreIncoming, ForwardStart,
                  CollectStart, SendStart, SendToEngineBulk, RemoveByIp, EngineSend, RemoveById,
                  RemoveClient, ClientReceive, ClientDangles, RecvFromClients, SendToClients,
                  SendBulk, ReceiveBulk, AddRoute, ClientSend,
                  loopVars, UpdateTable, Idle
    <3>2. left = 0 /\ iBufqueue' = iBufqueue /\ oBufqueue' = oBufqueue
      BY <3>1 DEF LoopDone
    <3>3. (pc = "forward" => iBufqueue = <<>>) /\ (pc = "send" => oBufqueue = <<>>)
      BY <3>2, EmptySeq DEF TypeInv, TypeOK, LoopInv
    <3> QED
      BY <2>1, <3>2, <3>3
  <2> QED
    BY <2>1, <2>2
<1> HIDE DEF A
<1>2. Spec => [][A]_vars
  BY <1>1, TypeInvariant, PTL DEF Spec
<1> QED
  BY <1>2 DEF NothingLeftBehind, A

-----------------------------------------------------------------------------
(* Ownership. *)

\* What each queue's name stands for, before and after a step.
LEMMA QueueCases ==
  ASSUME NEW h \in QueueName
  PROVE  \/ h = <<"e2c", 0>> /\ Queue(h) = e2c /\ Queue(h)' = e2c'
         \/ h = <<"c2e", 0>> /\ Queue(h) = c2e /\ Queue(h)' = c2e'
         \/ h = <<"iq", 0>> /\ Queue(h) = iBufqueue /\ Queue(h)' = iBufqueue'
         \/ h = <<"oq", 0>> /\ Queue(h) = oBufqueue /\ Queue(h)' = oBufqueue'
         \/ h = <<"held", 0>> /\ Queue(h) = held /\ Queue(h)' = held'
         \/ \E c \in Client : h = <<"to", c>> /\ Queue(h) = toClient[c] /\ Queue(h)' = toClient'[c]
         \/ \E c \in Client : h = <<"from", c>> /\ Queue(h) = fromClient[c] /\ Queue(h)' = fromClient'[c]
BY DEF QueueName, Queue

\* The names of all queues.
LEMMA QueueNames ==
  /\ {<<"e2c", 0>>, <<"c2e", 0>>, <<"iq", 0>>, <<"oq", 0>>, <<"held", 0>>} \subseteq QueueName
  /\ \A c \in Client : <<"to", c>> \in QueueName /\ <<"from", c>> \in QueueName
BY DEF QueueName

\* The mbufs some process or queue can still reach, and those of them that are
\* not on a client's ring, where nothing comes back from.
Reach == pool \cup UNION {Range(Queue(h)) : h \in QueueName}
ToName == {"to"} \X Client
Inner == pool \cup UNION {Range(Queue(h)) : h \in QueueName \ ToName}

\* What a step may do to the mbufs: one queue b gains F and the pool gains G,
\* the others lose entries at most; what is gained was reachable elsewhere than
\* on a client's ring, and is in no second place afterwards.
Handover(b, F, G) ==
  /\ \A h \in QueueName : Queue(h)' \in Seq(Mbuf) /\ IsInjective(Queue(h)')
  /\ \A h \in QueueName \ {b} : Range(Queue(h)') \subseteq Range(Queue(h)) \ F
  /\ Range(Queue(b)') \subseteq Range(Queue(b)) \cup F
  /\ pool' \subseteq (pool \cup G) \ F
  /\ \A h \in QueueName : G \cap Range(Queue(h)') = {}
  /\ F \subseteq Inner /\ G \subseteq Inner

\* Such a step brings no mbuf to a second place.
LEMMA HandoverKeepsOne ==
  ASSUME NoMbufTwice, NEW b \in QueueName, NEW F, NEW G, Handover(b, F, G)
  PROVE  NoMbufTwice'
<1> DEFINE R(h) == Range(Queue(h))
           S(h) == Range(Queue(h)')
<1>1. /\ \A h \in QueueName \ {b} : S(h) \subseteq R(h) \ F
      /\ S(b) \subseteq R(b) \cup F
      /\ pool' \subseteq (pool \cup G) \ F
      /\ \A h \in QueueName : G \cap S(h) = {}
  BY DEF Handover
<1>2. /\ \A g, h \in QueueName : g # h => R(g) \cap R(h) \cap Mbuf = {}
      /\ \A h \in QueueName : pool \cap R(h) \cap Mbuf = {}
  BY DEF NoMbufTwice
<1> HIDE DEF R, S
<1>3. \A h \in QueueName : pool' \cap S(h) \cap Mbuf = {}
  BY <1>1, <1>2
<1>4. \A g, h \in QueueName : g # h => S(g) \cap S(h) \cap Mbuf = {}
  BY <1>1, <1>2
<1>5. \A h \in QueueName : IsInjective(Queue(h)')
  BY DEF Handover
<1> QED
  BY <1>3, <1>4, <1>5 DEF NoMbufTwice, S

\* Nor does it find an mbuf again that was lost.
LEMMA HandoverReach ==
  ASSUME NEW b \in QueueName, NEW F, NEW G, Handover(b, F, G)
  PROVE  Reach' \subseteq Reach
<1>1. \A h \in QueueName : Range(Queue(h)') \subseteq Range(Queue(h)) \cup F
  BY DEF Handover
<1>2. pool' \subseteq pool \cup G /\ F \subseteq Reach /\ G \subseteq Reach
  BY DEF Handover, Inner, Reach
<1> QED
  BY <1>1, <1>2 DEF Reach

\* Nor does it get an mbuf back from a client's ring.
LEMMA HandoverInner ==
  ASSUME NEW b \in QueueName, NEW F, NEW G, Handover(b, F, G)
  PROVE  Inner' \subseteq Inner /\ (b \in ToName => Inner' \cap F = {})
<1>1. /\ \A h \in QueueName : Range(Queue(h)') \subseteq Range(Queue(h)) \cup F
      /\ \A h \in QueueName \ {b} : Range(Queue(h)') \cap F = {}
  BY DEF Handover
<1>2. /\ pool' \subseteq pool \cup G /\ pool' \cap F = {}
      /\ F \subseteq Inner /\ G \subseteq Inner
  BY DEF Handover
<1>3. Inner' = pool' \cup UNION {Range(Queue(h)') : h \in QueueName \ ToName}
  BY DEF Inner
<1>4. Inner' \subseteq Inner
  BY <1>1, <1>2, <1>3 DEF Inner
<1>5. b \in ToName => Inner' \cap F = {}
  BY <1>1, <1>2, <1>3
<1> QED
  BY <1>4, <1>5

\* Before a step: queues without duplicates, apart from each other and from
\* the pool.
LEMMA Apart ==
  ASSUME TypeInv, NoMbufTwice
  PROVE  /\ \A h \in QueueName : /\ Queue(h) \in Seq(Mbuf) /\ IsInjective(Queue(h))
                                 /\ Range(Queue(h)) \subseteq Mbuf
                                 /\ Range(Queue(h)) \subseteq Reach
                                 /\ Range(Queue(h)) \cap pool = {}
         /\ \A g, h \in QueueName : g # h => Range(Queue(g)) \cap Range(Queue(h)) = {}
         /\ pool \subseteq Mbuf /\ pool \subseteq Reach /\ pool \subseteq Inner
<1>1. \A h \in QueueName : Queue(h) \in Seq(Mbuf)
  <2> TAKE h \in QueueName
  <2>1. \/ Queue(h) \in {e2c, c2e, iBufqueue, oBufqueue, held}
        \/ \E c \in Client : Queue(h) \in {toClient[c], fromClient[c]}
    BY QueueCases
  <2> QED
    BY <2>1 DEF TypeInv, TypeOK
<1>2. \A h \in QueueName : Range(Queue(h)) \subseteq Mbuf
  BY <1>1, SeqRange
<1>3. \A h \in QueueName : Range(Queue(h)) \subseteq Reach
  BY DEF Reach
<1> QED
  BY <1>1, <1>2, <1>3 DEF NoMbufTwice, TypeInv, TypeOK, Reach, Inner

\* A step that takes entries off queue a, and frees some of them.
LEMMA Takes ==
  ASSUME TypeInv, NoMbufTwice, NEW a \in QueueName, NEW G,
         \A h \in QueueName \ {a} : Queue(h)' = Queue(h),
         Queue(a)' \in Seq(Mbuf), IsInjective(Queue(a)'),
         Range(Queue(a)') \subseteq Range(Queue(a)) \ G,
         G \subseteq Range(Queue(a)), a \in ToName => G = {},
         pool' \subseteq pool \cup G
  PROVE  Handover(a, {}, G)
<1>1. \A h \in QueueName : Queue(h)' \in Seq(Mbuf) /\ IsInjective(Queue(h)')
  BY Apart
<1>2. \A h \in QueueName : G \cap Range(Queue(h)') = {}
  <2> TAKE h \in QueueName
  <2>1. CASE h = a
    BY <2>1
  <2>2. CASE h # a
    BY <2>2, Apart
  <2> QED
    BY <2>1, <2>2
<1>3. G \subseteq Inner
  BY DEF Inner
<1> QED
  BY <1>1, <1>2, <1>3 DEF Handover

\* A step that gives queue b what it took from the pool or off queue a.
LEMMA Gives ==
  ASSUME TypeInv, NoMbufTwice, NEW a \in QueueName, NEW b \in QueueName, a # b, NEW F,
         \A h \in QueueName \ {a, b} : Queue(h)' = Queue(h),
         Queue(a)' \in Seq(Mbuf), IsInjective(Queue(a)'),
         Range(Queue(a)') \subseteq Range(Queue(a)) \ F,
         Queue(b)' \in Seq(Mbuf), IsInjective(Queue(b)'),
         Range(Queue(b)') \subseteq Range(Queue(b)) \cup F,
         pool' \subseteq pool \ F,
         F \subseteq pool \/ (a \notin ToName /\ F \subseteq Range(Queue(a)))
  PROVE  Handover(b, F, {})
<1>1. \A h \in QueueName : Queue(h)' \in Seq(Mbuf) /\ IsInjective(Queue(h)')
  BY Apart
<1>2. \A h \in QueueName \ {b} : Range(Queue(h)') \subseteq Range(Queue(h)) \ F
  <2> TAKE h \in QueueName \ {b}
  <2>1. CASE h = a
    BY <2>1
  <2>2. CASE h # a
    <3>1. Queue(h)' = Queue(h)
      BY <2>2
    <3>2. Range(Queue(h)) \cap pool = {} /\ Range(Queue(h)) \cap Range(Queue(a)) = {}
      BY <2>2, Apart
    <3> QED
      BY <3>1, <3>2
  <2> QED
    BY <2>1, <2>2
<1>3. F \subseteq Inner
  BY DEF Inner
<1> QED
  BY <1>1, <1>2, <1>3 DEF Handover

\* Carrying's queues.
CarryName == ({"iq", "oq", "c2e"} \X {0}) \cup ({"to"} \X Client)

\* A step that queues no received packet anew.
Free ==
  \E b \in QueueName : \E F, G \in SUBSET Mbuf :
    Handover(b, F, G) /\ (b \in CarryName => F \subseteq Carrying \cup direct')

\* A step that queues packets anew, each at the price of another mbuf.
Paid ==
  \E b \in QueueName : \E F, D \in SUBSET Mbuf :
    /\ Handover(b, F, {})
    /\ Cardinality(F) = Cardinality(D)
    /\ D \subseteq Reach /\ D \cap Reach' = {}

\* The queues stay as they are, and the pool gains nothing.
LEMMA FreeStill ==
  ASSUME TypeInv, NoMbufTwice,
         UNCHANGED <<e2c, c2e, iBufqueue, oBufqueue, held, toClient, fromClient>>,
         pool' \subseteq pool
  PROVE  Free
<1> DEFINE a == <<"held", 0>>
<1>1. a \in QueueName /\ a \notin CarryName
  BY QueueNames DEF CarryName
<1>2. \A h \in QueueName : Queue(h)' = Queue(h)
  BY QueueCases
<1> HIDE DEF a
<1>3. Queue(a)' = Queue(a) /\ Queue(a) \in Seq(Mbuf) /\ IsInjective(Queue(a))
  BY <1>1, <1>2, Apart
<1>4. Handover(a, {}, {})
  BY <1>1, <1>2, <1>3, Takes
<1> QED
  BY <1>1, <1>4 DEF Free

\* Ring::enqueue gives m to queue b, or loses it.
LEMMA Enqueues ==
  ASSUME TypeInv, NoMbufTwice, NEW m \in pool, NEW b \in QueueName, b # <<"held", 0>>,
         \A h \in QueueName \ {b} : Queue(h)' = Queue(h),
         Queue(b)' = Enqueued(Queue(b), m), pool' = pool \ {m}
  PROVE  Handover(b, {m}, {})
<1> DEFINE a == <<"held", 0>>
<1>1. a \in QueueName /\ a # b
  BY QueueNames
<1> HIDE DEF a
<1>2. m \in Mbuf /\ m \notin Range(Queue(a)) /\ m \notin Range(Queue(b))
  BY <1>1, Apart
<1>3. Queue(b) \in Seq(Mbuf) /\ IsInjective(Queue(b))
  BY Apart
<1>4. /\ Append(Queue(b), m) \in Seq(Mbuf) /\ IsInjective(Append(Queue(b), m))
      /\ Range(Append(Queue(b), m)) = Range(Queue(b)) \cup {m}
  BY <1>2, <1>3, AppendQueue
<1>5. /\ Queue(b)' \in Seq(Mbuf) /\ IsInjective(Queue(b)')
      /\ Range(Queue(b)') \subseteq Range(Queue(b)) \cup {m}
  BY <1>3, <1>4 DEF Enqueued
<1>6. Queue(a)' = Queue(a) /\ Queue(a) \in Seq(Mbuf) /\ IsInjective(Queue(a))
  BY <1>1, Apart
<1>7. \A h \in QueueName \ {a, b} : Queue(h)' = Queue(h)
  OBVIOUS
<1>8. PICK F : F = {m}
  OBVIOUS
<1>9. /\ Range(Queue(a)') \subseteq Range(Queue(a)) \ F
      /\ Range(Queue(b)') \subseteq Range(Queue(b)) \cup F
      /\ pool' \subseteq pool \ F /\ F \subseteq pool
  BY <1>2, <1>5, <1>6, <1>8
<1>10. Handover(b, F, {})
  BY <1>1, <1>5, <1>6, <1>7, <1>9, Gives
<1> QED
  BY <1>8, <1>10

\* recv_from_clients gives its packet to a client's ring.
LEMMA DirectHandover ==
  ASSUME TypeInv, NoMbufTwice, NEW m \in pool, NEW c \in Client, RecvFromClients(c, m)
  PROVE  <<"to", c>> \in QueueName /\ Handover(<<"to", c>>, {m}, {})
<1> USE DEF userVars, poolVars, tableVars, clientVars, loopVars
<1> DEFINE b == <<"to", c>>
<1>1. /\ b \in QueueName /\ b # <<"held", 0>>
      /\ Queue(b) = toClient[c] /\ Queue(b)' = toClient'[c]
  BY QueueNames DEF Queue
<1>2. toClient \in [Client -> Seq(Mbuf)]
  BY DEF TypeInv, TypeOK
<1>3. \A h \in QueueName \ {b} : Queue(h)' = Queue(h)
  BY <1>2, QueueCases DEF RecvFromClients
<1>4. toClient'[c] = Enqueued(toClient[c], m) /\ pool' = pool \ {m}
  BY <1>2 DEF RecvFromClients
<1> HIDE DEF b
<1>5. Handover(b, {m}, {})
  BY <1>1, <1>3, <1>4, Enqueues
<1> QED
  BY <1>1, <1>5 DEF b

\* The engine or a client sends, or recv_from_clients does.
LEMMA FreeSends ==
  ASSUME TypeInv, NoMbufTwice, NEW m \in pool,
         \/ \E ip \in Ip : EngineSend(m, ip)
         \/ \E c \in Client, ip \in Ip : ClientSend(c, m, ip)
         \/ \E c \in Client : RecvFromClients(c, m)
  PROVE  Free
<1> USE DEF userVars, poolVars, tableVars, clientVars, loopVars
<1>1. {m} \in SUBSET Mbuf /\ {} \in SUBSET Mbuf
  BY DEF TypeInv, TypeOK
<1>2. toClient \in [Client -> Seq(Mbuf)] /\ fromClient \in [Client -> Seq(Mbuf)]
  BY DEF TypeInv, TypeOK
<1>3. ASSUME NEW ip \in Ip, EngineSend(m, ip) PROVE Free
  <2> DEFINE b == <<"e2c", 0>>
  <2>1. /\ b \in QueueName /\ b \notin CarryName /\ b # <<"held", 0>>
        /\ Queue(b) = e2c /\ Queue(b)' = e2c'
    BY QueueNames DEF CarryName, Queue
  <2>2. \A h \in QueueName \ {b} : Queue(h)' = Queue(h)
    BY <1>3, QueueCases DEF EngineSend
  <2>3. e2c' = Enqueued(e2c, m) /\ pool' = pool \ {m}
    BY <1>3 DEF EngineSend, Fill
  <2> HIDE DEF b
  <2>4. Handover(b, {m}, {})
    BY <2>1, <2>2, <2>3, Enqueues
  <2> QED
    BY <1>1, <2>1, <2>4 DEF Free
<1>4. ASSUME NEW c \in Client, NEW ip \in Ip, ClientSend(c, m, ip) PROVE Free
  <2> DEFINE b == <<"from", c>>
  <2>1. /\ b \in QueueName /\ b \notin CarryName /\ b # <<"held", 0>>
        /\ Queue(b) = fromClient[c] /\ Queue(b)' = fromClient'[c]
    BY QueueNames DEF CarryName, Queue
  <2>2. \A h \in QueueName \ {b} : Queue(h)' = Queue(h)
    BY <1>2, <1>4, QueueCases DEF ClientSend
  <2>3. fromClient'[c] = Enqueued(fromClient[c], m) /\ pool' = pool \ {m}
    BY <1>2, <1>4 DEF ClientSend, Fill
  <2> HIDE DEF b
  <2>4. Handover(b, {m}, {})
    BY <2>1, <2>2, <2>3, Enqueues
  <2> QED
    BY <1>1, <2>1, <2>4 DEF Free
<1>5. ASSUME NEW c \in Client, RecvFromClients(c, m) PROVE Free
  <2> DEFINE b == <<"to", c>>
  <2>1. b \in QueueName /\ Handover(b, {m}, {})
    BY <1>5, DirectHandover
  <2>2. {m} \subseteq direct'
    BY <1>5 DEF RecvFromClients
  <2> HIDE DEF b
  <2> QED
    BY <1>1, <2>1, <2>2 DEF Free
<1> QED
  BY <1>3, <1>4, <1>5

\* A packet is taken off a client's ring and lost, or the client is removed with
\* what is in its rings.
LEMMA FreeReceives ==
  ASSUME TypeInv, NoMbufTwice, NEW c \in Client,
         ClientReceive(c) \/ SendToClients(c) \/ ReceiveBulk(c) \/ RemoveClient(c)
  PROVE  Free
<1> USE DEF userVars, poolVars, tableVars, clientVars, loopVars
<1> DEFINE a == <<"to", c>>
           b == <<"from", c>>
<1>1. /\ a \in QueueName /\ Queue(a) = toClient[c] /\ Queue(a)' = toClient'[c]
      /\ b \in QueueName /\ Queue(b) = fromClient[c] /\ Queue(b)' = fromClient'[c]
  BY QueueNames DEF Queue
<1>2. /\ toClient \in [Client -> Seq(Mbuf)] /\ fromClient \in [Client -> Seq(Mbuf)]
      /\ toClient[c] \in Seq(Mbuf) /\ fromClient[c] \in Seq(Mbuf)
  BY DEF TypeInv, TypeOK
<1>3. CASE ClientReceive(c)
  <2>1. \A h \in QueueName \ {a} : Queue(h)' = Queue(h)
    BY <1>2, <1>3, QueueCases DEF ClientReceive
  <2>2. toClient[c] # <<>> /\ toClient'[c] = Tail(toClient[c]) /\ pool' = pool
    BY <1>2, <1>3 DEF ClientReceive
  <2> HIDE DEF a, b
  <2>3. /\ Queue(a)' \in Seq(Mbuf) /\ IsInjective(Queue(a)')
        /\ Range(Queue(a)') \subseteq Range(Queue(a))
    BY <1>1, <1>2, <2>2, Apart, TailQueue
  <2>4. Handover(a, {}, {})
    BY <1>1, <2>1, <2>2, <2>3, Takes
  <2> QED
    BY <1>1, <2>4 DEF Free
<1>6. CASE SendToClients(c)
  <2>1. \A h \in QueueName \ {b} : Queue(h)' = Queue(h)
    BY <1>2, <1>6, QueueCases DEF SendToClients
  <2>2. fromClient[c] # <<>> /\ fromClient'[c] = Tail(fromClient[c]) /\ pool' = pool
    BY <1>2, <1>6 DEF SendToClients
  <2> HIDE DEF a, b
  <2>3. /\ Queue(b)' \in Seq(Mbuf) /\ IsInjective(Queue(b)')
        /\ Range(Queue(b)') \subseteq Range(Queue(b))
    BY <1>1, <1>2, <2>2, Apart, TailQueue
  <2>4. Handover(b, {}, {})
    BY <1>1, <2>1, <2>2, <2>3, Takes
  <2> QED
    BY <1>1, <2>4 DEF Free
<1>4. CASE ReceiveBulk(c)
  <2> DEFINE q == fromClient[c]
             n == Min({Burst, Len(q)})
  <2>1. \A h \in QueueName \ {b} : Queue(h)' = Queue(h)
    BY <1>2, <1>4, QueueCases DEF ReceiveBulk
  <2>2. fromClient'[c] = SubSeq(q, n + 1, Len(q)) /\ pool' = pool
    BY <1>2, <1>4 DEF ReceiveBulk
  <2>3. Burst \in Nat /\ Len(q) \in Nat
    BY <1>2, BurstBound, LenProperties DEF TypeInv
  <2>4. n \in 0 .. Len(q) /\ q \in Seq(Mbuf) /\ q = Queue(b) /\ IsInjective(q)
    BY <1>1, <1>2, <2>3, LesserOf, Apart
  <2> HIDE DEF a, b, q, n
  <2>5. /\ Queue(b)' \in Seq(Mbuf) /\ IsInjective(Queue(b)')
        /\ Range(Queue(b)') \subseteq Range(Queue(b))
    BY <1>1, <2>2, <2>4, SuffixQueue
  <2>6. Handover(b, {}, {})
    BY <1>1, <2>1, <2>2, <2>5, Takes
  <2> QED
    BY <1>1, <2>6 DEF Free
<1>5. CASE RemoveClient(c)
  <2>1. \A h \in QueueName \ {a, b} : Queue(h)' = Queue(h)
    BY <1>2, <1>5, QueueCases DEF RemoveClient
  <2>2. toClient'[c] = <<>> /\ fromClient'[c] = <<>> /\ pool' = pool
    BY <1>2, <1>5 DEF RemoveClient
  <2>3. a # b
    OBVIOUS
  <2> HIDE DEF a, b
  <2>4. /\ Queue(a)' \in Seq(Mbuf) /\ IsInjective(Queue(a)') /\ Range(Queue(a)') = {}
        /\ Queue(b)' \in Seq(Mbuf) /\ IsInjective(Queue(b)') /\ Range(Queue(b)') = {}
    BY <1>1, <2>2, EmptyQueue, EmptySeq
  <2>5. Handover(b, {}, {})
    BY <1>1, <2>1, <2>2, <2>3, <2>4, Gives
  <2> QED
    BY <1>1, <2>5 DEF Free
<1> QED
  BY <1>3, <1>4, <1>5, <1>6

\* A packet that is queued inside carries one already, or never came by a ring.
LEMMA CarriesAlready ==
  ASSUME NEW a \in CarryName, NEW F, F \subseteq Range(Queue(a)), direct' = direct
  PROVE  F \subseteq Carrying \cup direct'
BY DEF Carrying, CarryName

\* forward_incoming_packets hands the head of i_bufqueue to a client's ring,
\* frees it, or loses it.
LEMMA FreeForward ==
  ASSUME TypeInv, NoMbufTwice, ForwardPacket
  PROVE  Free
<1> DEFINE a == <<"iq", 0>>
<1>1. /\ a \in QueueName /\ a \in CarryName /\ a \notin ToName
      /\ Queue(a) = iBufqueue /\ Queue(a)' = iBufqueue'
  BY QueueNames DEF Queue, CarryName, ToName
<1>2. iBufqueue \in Seq(Mbuf) /\ iBufqueue # <<>> /\ IsInjective(iBufqueue)
  <2>1. left = Len(iBufqueue) /\ left > 0
    BY DEF TypeInv, LoopInv, ForwardPacket
  <2> QED
    BY <1>1, <2>1, EmptySeq, Apart DEF TypeInv, TypeOK
<1>3. UNCHANGED <<e2c, c2e, fromClient, oBufqueue, held>> /\ iBufqueue' = Tail(iBufqueue)
  BY DEF ForwardPacket, ForwardSent, ForwardNoClient, ForwardStops
<1>8. direct' = direct
  BY DEF ForwardPacket, userVars
<1>4. PICK pkt \in Mbuf :
        /\ pkt = Head(iBufqueue) /\ pkt \in Range(Queue(a))
        /\ Queue(a)' \in Seq(Mbuf) /\ IsInjective(Queue(a)')
        /\ Range(Queue(a)') = Range(Queue(a)) \ {pkt}
  <2>1. /\ Tail(iBufqueue) \in Seq(Mbuf) /\ IsInjective(Tail(iBufqueue))
        /\ Range(Tail(iBufqueue)) = Range(iBufqueue) \ {Head(iBufqueue)}
        /\ Head(iBufqueue) \in Mbuf /\ Head(iBufqueue) \in Range(iBufqueue)
    BY <1>2, TailQueue
  <2> QED
    BY <1>1, <1>3, <2>1
<1>5. CASE UNCHANGED toClient /\ pool' \subseteq pool \cup {pkt}
  <2>1. \A h \in QueueName \ {a} : Queue(h)' = Queue(h)
    BY <1>3, <1>5, QueueCases
  <2> HIDE DEF a
  <2>2. PICK G : G = {pkt}
    OBVIOUS
  <2>3. /\ Range(Queue(a)') \subseteq Range(Queue(a)) \ G /\ G \subseteq Range(Queue(a))
        /\ pool' \subseteq pool \cup G /\ G \in SUBSET Mbuf
    BY <1>4, <1>5, <2>2
  <2>4. Handover(a, {}, G)
    BY <1>1, <1>4, <2>1, <2>3, Takes
  <2> QED
    BY <1>1, <2>3, <2>4 DEF Free
<1>6. ASSUME NEW c \in clientmap, ForwardSent(c) PROVE Free
  <2> DEFINE b == <<"to", c>>
  <2>1. c \in Client /\ toClient \in [Client -> Seq(Mbuf)]
    <3>1. Range(allocatedIds) \subseteq Client
      BY SeqRange DEF TypeInv, TypeOK
    <3> QED
      BY <1>6, <3>1 DEF TypeInv, TypeOK
  <2>2. b \in QueueName /\ a # b /\ Queue(b) = toClient[c] /\ Queue(b)' = toClient'[c]
    BY <2>1, QueueNames DEF Queue
  <2>3. \A h \in QueueName \ {a, b} : Queue(h)' = Queue(h)
    BY <1>3, <1>6, <2>1, QueueCases DEF ForwardSent
  <2>4. toClient'[c] = Append(toClient[c], pkt) /\ pool' = pool
    BY <1>4, <1>6, <2>1 DEF ForwardSent
  <2> HIDE DEF a, b
  <2>5. pkt \notin Range(Queue(b)) /\ pkt \notin pool /\ Queue(b) \in Seq(Mbuf) /\ IsInjective(Queue(b))
    BY <1>1, <1>4, <2>2, Apart
  <2>6. /\ Queue(b)' \in Seq(Mbuf) /\ IsInjective(Queue(b)')
        /\ Range(Queue(b)') = Range(Queue(b)) \cup {pkt}
    BY <1>4, <2>2, <2>4, <2>5, AppendQueue
  <2>7. PICK F : F = {pkt}
    OBVIOUS
  <2>8. /\ Range(Queue(a)') \subseteq Range(Queue(a)) \ F /\ F \subseteq Range(Queue(a))
        /\ Range(Queue(b)') \subseteq Range(Queue(b)) \cup F
        /\ pool' \subseteq pool \ F /\ F \in SUBSET Mbuf
    BY <1>4, <2>4, <2>5, <2>6, <2>7
  <2>9. Handover(b, F, {})
    BY <1>1, <1>4, <2>2, <2>3, <2>6, <2>8, Gives
  <2>10. F \subseteq Carrying \cup direct'
    BY <1>1, <2>8, <1>8, CarriesAlready
  <2> QED
    BY <2>2, <2>8, <2>9, <2>10 DEF Free
<1>7. \/ UNCHANGED toClient /\ pool' \subseteq pool \cup {pkt}
      \/ \E c \in clientmap : ForwardSent(c)
  BY <1>4 DEF ForwardPacket, ForwardNoClient, ForwardStops
<1> QED
  BY <1>5, <1>6, <1>7

\* send_outgoing_packets and send_to_engine_bulk hand the head of o_bufqueue to
\* the ring to the engine, or lose it.
LEMMA FreeOutgoing ==
  ASSUME TypeInv, NoMbufTwice, SendPacket \/ SendToEngineBulk
  PROVE  Free
<1> DEFINE a == <<"oq", 0>>
           b == <<"c2e", 0>>
<1> USE DEF userVars, poolVars, tableVars, clientVars, loopVars
<1>1. /\ a \in QueueName /\ a \in CarryName /\ a \notin ToName
      /\ Queue(a) = oBufqueue /\ Queue(a)' = oBufqueue'
      /\ b \in QueueName /\ b # a /\ Queue(b) = c2e /\ Queue(b)' = c2e'
  BY QueueNames DEF Queue, CarryName, ToName
<1>2. /\ oBufqueue \in Seq(Mbuf) /\ oBufqueue # <<>> /\ c2e \in Seq(Mbuf)
      /\ IsInjective(oBufqueue)
  <2>1. ASSUME SendPacket PROVE oBufqueue # <<>>
    BY <2>1, EmptySeq DEF TypeInv, TypeOK, LoopInv, SendPacket
  <2> QED
    BY <1>1, <2>1, Apart DEF TypeInv, TypeOK, SendToEngineBulk
<1>3. /\ UNCHANGED <<e2c, iBufqueue, toClient, fromClient, held, pool, direct>>
      /\ oBufqueue' = Tail(oBufqueue)
      /\ c2e' = c2e \/ c2e' = Append(c2e, Head(oBufqueue))
  <2>1. CASE SendPacket
    BY <2>1 DEF SendPacket, Enqueued
  <2>2. CASE SendToEngineBulk
    BY <1>2, <2>2, BulkEnqueuesNothing DEF SendToEngineBulk
  <2> QED
    BY <2>1, <2>2
<1>4. PICK pkt \in Mbuf :
        /\ pkt = Head(oBufqueue) /\ pkt \in Range(Queue(a))
        /\ Queue(a)' \in Seq(Mbuf) /\ IsInjective(Queue(a)')
        /\ Range(Queue(a)') = Range(Queue(a)) \ {pkt}
  <2>1. /\ Tail(oBufqueue) \in Seq(Mbuf) /\ IsInjective(Tail(oBufqueue))
        /\ Range(Tail(oBufqueue)) = Range(oBufqueue) \ {Head(oBufqueue)}
        /\ Head(oBufqueue) \in Mbuf /\ Head(oBufqueue) \in Range(oBufqueue)
    BY <1>2, TailQueue
  <2> QED
    BY <1>1, <1>3, <2>1
<1>5. \A h \in QueueName \ {a, b} : Queue(h)' = Queue(h)
  BY <1>3, QueueCases
<1> HIDE DEF a, b
<1>7. pkt \notin Range(Queue(b)) /\ pkt \notin pool /\ Queue(b) \in Seq(Mbuf) /\ IsInjective(Queue(b))
  BY <1>1, <1>4, Apart
<1>8. /\ Queue(b)' \in Seq(Mbuf) /\ IsInjective(Queue(b)')
      /\ Range(Queue(b)') \subseteq Range(Queue(b)) \cup {pkt}
  <2>1. CASE c2e' = c2e
    BY <1>1, <1>7, <2>1
  <2>2. CASE c2e' = Append(c2e, pkt)
    BY <1>1, <1>7, <2>2, AppendQueue
  <2> QED
    BY <1>3, <1>4, <2>1, <2>2
<1>9. PICK F : F = {pkt}
  OBVIOUS
<1>10. /\ Range(Queue(a)') \subseteq Range(Queue(a)) \ F /\ F \subseteq Range(Queue(a))
       /\ Range(Queue(b)') \subseteq Range(Queue(b)) \cup F
       /\ pool' \subseteq pool \ F /\ F \in SUBSET Mbuf
  BY <1>3, <1>4, <1>7, <1>8, <1>9
<1>11. Handover(b, F, {})
  BY <1>1, <1>4, <1>5, <1>8, <1>10, Gives
<1>12. F \subseteq Carrying \cup direct'
  BY <1>1, <1>3, <1>10, CarriesAlready
<1> QED
  BY <1>1, <1>10, <1>11, <1>12 DEF Free

\* store_outgoing takes its buffers from the pool, and gives them back.
LEMMA FreeBuffers ==
  ASSUME TypeInv, TypeInv', NoMbufTwice, CollectStart \/ CollectDone
  PROVE  Free
<1> DEFINE a == <<"e2c", 0>>
           b == <<"held", 0>>
<1> USE DEF userVars, poolVars, tableVars, clientVars
<1>1. /\ a \in QueueName /\ Queue(a) = e2c /\ Queue(a)' = e2c'
      /\ b \in QueueName /\ b # a /\ b \notin CarryName /\ b \notin ToName
      /\ Queue(b) = held /\ Queue(b)' = held'
  BY QueueNames DEF Queue, CarryName, ToName
<1>2. UNCHANGED <<e2c, c2e, iBufqueue, oBufqueue, toClient, fromClient>>
  BY DEF CollectStart, CollectDone
<1>3. \A h \in QueueName \ {b} : Queue(h)' = Queue(h)
  BY <1>2, QueueCases
<1>4. CASE CollectStart
  <2>1. PICK fresh \in Injection(1 .. Burst, pool) : held' = fresh /\ pool' = pool \ Range(fresh)
    BY <1>4 DEF CollectStart
  <2>2. Burst \in Nat
    BY BurstBound DEF TypeInv
  <2>3. held' \in Seq(Mbuf) /\ IsInjective(held') /\ Range(held') \subseteq pool
    BY <2>1, <2>2, FreshIsSeq DEF TypeInv
  <2> HIDE DEF a, b
  <2>4. /\ Queue(a)' = Queue(a) /\ Queue(a) \in Seq(Mbuf) /\ IsInjective(Queue(a))
        /\ Range(Queue(a)) \cap pool = {} /\ pool \subseteq Mbuf
    BY <1>1, <1>3, Apart
  <2>5. Handover(b, Range(held'), {})
    BY <1>1, <1>3, <2>1, <2>3, <2>4, Gives
  <2> QED
    BY <1>1, <2>3, <2>4, <2>5 DEF Free
<1>5. CASE CollectDone
  <2>1. held' = <<>> /\ pool' = pool \cup Range(held)
    BY <1>5 DEF CollectDone
  <2> HIDE DEF a, b
  <2>2. Queue(b)' \in Seq(Mbuf) /\ IsInjective(Queue(b)') /\ Range(Queue(b)') = {}
    BY <1>1, <2>1, EmptyQueue, EmptySeq
  <2>3. Range(Queue(b)) \subseteq Mbuf
    BY <1>1, Apart
  <2>4. Handover(b, {}, Range(Queue(b)))
    BY <1>1, <1>3, <2>1, <2>2, Takes
  <2> QED
    BY <1>1, <2>3, <2>4 DEF Free
<1> QED
  BY <1>4, <1>5

\* What is taken off a queue and put nowhere is lost for good.
LEMMA Dropped ==
  ASSUME TypeInv, NoMbufTwice, NEW a \in QueueName, NEW b \in QueueName, a # b, NEW F, NEW D,
         Handover(b, F, {}), F \subseteq pool,
         D \subseteq Range(Queue(a)), D \cap Range(Queue(a)') = {}
  PROVE  D \subseteq Reach /\ D \cap Reach' = {}
<1>1. D \subseteq Reach /\ D \cap pool = {}
  BY Apart
<1>2. pool' \subseteq pool /\ \A h \in QueueName : Range(Queue(h)') \subseteq Range(Queue(h)) \cup F
  BY DEF Handover
<1>3. \A h \in QueueName \ {a} : D \cap Range(Queue(h)) = {}
  BY Apart
<1>4. \A h \in QueueName : D \cap Range(Queue(h)') = {}
  BY <1>1, <1>2, <1>3
<1> QED
  BY <1>1, <1>2, <1>4 DEF Reach

\* store_incoming queues fresh buffers, and loses as many dequeued ones.
LEMMA PaidIncoming ==
  ASSUME TypeInv, NoMbufTwice, StoreIncoming
  PROVE  Paid
<1> USE DEF userVars, poolVars, tableVars, clientVars, loopVars
<1> DEFINE a == <<"e2c", 0>>
           b == <<"iq", 0>>
<1>1. /\ a \in QueueName /\ Queue(a) = e2c /\ Queue(a)' = e2c'
      /\ b \in QueueName /\ b # a /\ Queue(b) = iBufqueue /\ Queue(b)' = iBufqueue'
  BY QueueNames DEF Queue
<1>2. \A h \in QueueName \ {a, b} : Queue(h)' = Queue(h)
  BY QueueCases DEF StoreIncoming
<1>3. PICK n \in 0 .. Len(e2c) : \E fresh \in Injection(1 .. n, pool) :
        /\ iBufqueue' = iBufqueue \o fresh
        /\ pool' = pool \ Range(fresh)
        /\ e2c' = SubSeq(e2c, n + 1, Len(e2c))
  BY IncomingMoves
<1>4. PICK fresh \in Injection(1 .. n, pool) :
        /\ iBufqueue' = iBufqueue \o fresh
        /\ pool' = pool \ Range(fresh)
        /\ e2c' = SubSeq(e2c, n + 1, Len(e2c))
  BY <1>3
<1>5. PICK F : F = Range(fresh)
  OBVIOUS
<1>6. PICK D : D = {e2c[i] : i \in 1 .. n}
  OBVIOUS
<1> HIDE DEF a, b
<1>7. /\ e2c \in Seq(Mbuf) /\ IsInjective(e2c) /\ iBufqueue \in Seq(Mbuf) /\ IsInjective(iBufqueue)
      /\ Range(iBufqueue) \cap pool = {} /\ Range(e2c) \cap pool = {} /\ Range(e2c) \subseteq Mbuf
      /\ pool \subseteq Mbuf
  BY <1>1, Apart
<1>8. n \in Nat /\ Len(e2c) \in Nat
  BY <1>3, <1>7, LenProperties
<1>9. fresh \in Seq(Mbuf) /\ Len(fresh) = n /\ IsInjective(fresh) /\ F \subseteq pool
  BY <1>4, <1>5, <1>8, FreshIsSeq DEF TypeInv
<1>10. /\ Queue(b)' \in Seq(Mbuf) /\ IsInjective(Queue(b)')
       /\ Range(Queue(b)') = Range(Queue(b)) \cup F
  <2>1. Range(iBufqueue) \cap Range(fresh) = {}
    BY <1>5, <1>7, <1>9
  <2>2. /\ iBufqueue \o fresh \in Seq(Mbuf) /\ IsInjective(iBufqueue \o fresh)
        /\ Range(iBufqueue \o fresh) = Range(iBufqueue) \cup Range(fresh)
    BY <1>7, <1>9, <2>1, ConcatQueue
  <2> QED
    BY <1>1, <1>4, <1>5, <2>2
<1>11. /\ Queue(a)' \in Seq(Mbuf) /\ IsInjective(Queue(a)') /\ Range(Queue(a)') \subseteq Range(Queue(a))
       /\ D \subseteq Range(Queue(a)) /\ D \cap Range(Queue(a)') = {}
  <2>1. /\ SubSeq(e2c, n + 1, Len(e2c)) \in Seq(Mbuf) /\ IsInjective(SubSeq(e2c, n + 1, Len(e2c)))
        /\ Range(SubSeq(e2c, n + 1, Len(e2c))) \subseteq Range(e2c)
    BY <1>3, <1>7, SuffixQueue
  <2>2. /\ {e2c[i] : i \in 1 .. n} \subseteq Range(e2c)
        /\ {e2c[i] : i \in 1 .. n} \cap Range(SubSeq(e2c, n + 1, Len(e2c))) = {}
    BY <1>3, <1>7, PrefixGone
  <2> QED
    BY <1>1, <1>4, <1>6, <2>1, <2>2
<1>12. Handover(b, F, {})
  <2>1. Range(Queue(a)') \subseteq Range(Queue(a)) \ F /\ pool' \subseteq pool \ F
    BY <1>1, <1>4, <1>5, <1>7, <1>9, <1>11
  <2> QED
    BY <1>1, <1>2, <1>9, <1>10, <1>11, <2>1, Gives
<1>13. Cardinality(F) = Cardinality(D)
  <2>1. n \in 0 .. Len(fresh) /\ F = {fresh[i] : i \in 1 .. n}
    BY <1>5, <1>8, <1>9, SeqRange
  <2>2. Cardinality(F) = n
    BY <1>9, <2>1, PrefixCount
  <2>3. Cardinality({e2c[i] : i \in 1 .. n}) = n
    <3>1. IsInjective(e2c) /\ e2c \in Seq(Mbuf) /\ n \in 0 .. Len(e2c)
      BY <1>3, <1>7
    <3> QED
      BY <3>1, PrefixCount, Zenon
  <2> QED
    BY <1>6, <2>2, <2>3
<1>14. D \subseteq Reach /\ D \cap Reach' = {}
  BY <1>1, <1>9, <1>11, <1>12, Dropped
<1>15. F \in SUBSET Mbuf /\ D \in SUBSET Mbuf
  BY <1>1, <1>7, <1>9, <1>11
<1> QED
  BY <1>1, <1>12, <1>13, <1>14, <1>15 DEF Paid

\* store_outgoing queues a fresh buffer, and loses the client's.
LEMMA PaidCollect ==
  ASSUME TypeInv, NoMbufTwice, Collect
  PROVE  Free \/ Paid
<1> USE DEF userVars, poolVars, tableVars, clientVars, loopVars
<1>1. UNCHANGED <<e2c, c2e, toClient, iBufqueue, held>>
  BY DEF Collect
<1>2. CASE UNCHANGED <<pool, fromClient, oBufqueue>>
  BY <1>1, <1>2, FreeStill
<1>3. ASSUME NEW key \in clientmap, CollectPacket(key) PROVE Paid
  <2> DEFINE a == <<"from", key>>
             b == <<"oq", 0>>
  <2>1. key \in Client /\ fromClient \in [Client -> Seq(Mbuf)] /\ fromClient[key] # <<>>
    <3>1. Range(allocatedIds) \subseteq Client
      BY SeqRange DEF TypeInv, TypeOK
    <3> QED
      BY <1>3, <3>1 DEF CollectPacket, TypeInv, TypeOK
  <2>2. /\ a \in QueueName /\ Queue(a) = fromClient[key] /\ Queue(a)' = fromClient'[key]
        /\ b \in QueueName /\ b # a /\ Queue(b) = oBufqueue /\ Queue(b)' = oBufqueue'
    BY <2>1, QueueNames DEF Queue
  <2>3. \A h \in QueueName \ {a, b} : Queue(h)' = Queue(h)
    BY <1>1, <1>3, <2>1, QueueCases DEF CollectPacket
  <2>4. PICK m \in pool : pool' = pool \ {m} /\ oBufqueue' = Append(oBufqueue, m)
    BY <1>3 DEF CollectPacket
  <2>5. fromClient'[key] = Tail(fromClient[key])
    BY <1>3, <2>1 DEF CollectPacket
  <2>6. PICK old : old = Head(fromClient[key])
    OBVIOUS
  <2> HIDE DEF a, b
  <2>7. /\ Queue(a) \in Seq(Mbuf) /\ IsInjective(Queue(a))
        /\ Queue(b) \in Seq(Mbuf) /\ IsInjective(Queue(b))
        /\ m \in Mbuf /\ m \notin Range(Queue(a)) /\ m \notin Range(Queue(b))
    BY <2>2, <2>4, Apart
  <2>8. /\ Queue(a)' \in Seq(Mbuf) /\ IsInjective(Queue(a)')
        /\ Range(Queue(a)') = Range(Queue(a)) \ {old} /\ old \in Range(Queue(a)) /\ old \in Mbuf
    BY <2>1, <2>2, <2>5, <2>6, <2>7, TailQueue
  <2>9. /\ Queue(b)' \in Seq(Mbuf) /\ IsInjective(Queue(b)')
        /\ Range(Queue(b)') = Range(Queue(b)) \cup {m}
    BY <2>2, <2>4, <2>7, AppendQueue
  <2>10. Handover(b, {m}, {})
    BY <2>2, <2>3, <2>4, <2>7, <2>8, <2>9, Gives
  <2>11. {old} \subseteq Reach /\ {old} \cap Reach' = {}
    <3>1. PICK F : F = {m}
      OBVIOUS
    <3>2. PICK D : D = {old}
      OBVIOUS
    <3>3. /\ D \subseteq Range(Queue(a)) /\ D \cap Range(Queue(a)') = {}
          /\ F \subseteq pool /\ a # b /\ a \in QueueName /\ b \in QueueName
      BY <2>2, <2>4, <2>8, <3>1, <3>2
    <3>4. Handover(b, F, {})
      BY <2>10, <3>1
    <3>5. D \subseteq Reach /\ D \cap Reach' = {}
      BY <3>3, <3>4, Dropped
    <3> QED
      BY <3>2, <3>5
  <2>12. Cardinality({m}) = Cardinality({old})
    BY FS_Singleton
  <2> QED
    BY <2>2, <2>7, <2>8, <2>10, <2>11, <2>12 DEF Paid
<1>4. (\E key \in clientmap : CollectPacket(key)) \/ UNCHANGED <<pool, fromClient, oBufqueue>>
  BY DEF Collect, CollectPacket, CollectNothing
<1> QED
  BY <1>2, <1>3, <1>4

\* Every step hands mbufs over in one of the two ways.
LEMMA StepIsHandover ==
  ASSUME TypeInv, TypeInv', NoMbufTwice, [Next]_vars
  PROVE  Free \/ Paid
<1> USE DEF userVars, poolVars, tableVars, clientVars, loopVars
<1>1. CASE UNCHANGED vars
  BY <1>1, FreeStill DEF vars
<1>2. CASE LoopStep
  <2>1. CASE LoopDone
    BY <2>1, FreeStill DEF LoopDone
  <2> QED
    BY <1>2, <2>1, FreeForward, FreeOutgoing, FreeBuffers, PaidCollect DEF LoopStep
<1>3. CASE ForwardStart \/ SendStart
  BY <1>3, FreeStill DEF ForwardStart, SendStart
<1>4. CASE StoreIncoming \/ CollectStart \/ SendToEngineBulk
  BY <1>4, PaidIncoming, FreeBuffers, FreeOutgoing
<1>5. ASSUME NEW ip \in Ip, RemoveByIp(ip) PROVE Free
  BY <1>5, FreeStill DEF RemoveByIp
<1>6. ASSUME NEW ip \in Ip, NEW m \in pool, EngineSend(m, ip) PROVE Free
  BY <1>6, FreeSends
<1>7. ASSUME NEW c \in Client, NEW ip \in Ip, NEW m \in pool, ClientSend(c, m, ip) PROVE Free
  BY <1>7, FreeSends
<1>8. ASSUME NEW c \in Client, NEW ip \in Ip, AddRoute(c, ip) PROVE Free
  BY <1>8, FreeStill DEF AddRoute
<1>9. ASSUME NEW c \in Client, RemoveById(c) PROVE Free
  BY <1>9, FreeStill DEF RemoveById
<1>10. ASSUME NEW c \in Client,
              RemoveClient(c) \/ ClientReceive(c) \/ SendToClients(c) \/ ReceiveBulk(c)
       PROVE  Free
  BY <1>10, FreeReceives
<1>12. ASSUME NEW c \in Client, NEW m \in pool, RecvFromClients(c, m) PROVE Free
  BY <1>12, FreeSends
<1>13. ASSUME NEW c \in Client, ClientDangles(c) PROVE Free
  BY <1>13, FreeStill DEF ClientDangles
<1>11. ASSUME NEW c \in Client, SendBulk(c) PROVE Free
  <2>1. pool' \subseteq pool
    BY <1>11 DEF SendBulk
  <2>2. \A fresh : EnqueueBulk(toClient[c], fresh) = toClient[c]
    BY BulkEnqueuesNothing DEF TypeInv, TypeOK
  <2>3. toClient' = toClient
    BY <1>11, <2>2 DEF SendBulk, TypeInv, TypeOK
  <2> QED
    BY <1>11, <2>1, <2>3, FreeStill DEF SendBulk
<1> QED
  BY <1>1, <1>2, <1>3, <1>4, <1>5, <1>6, <1>7, <1>8, <1>9, <1>10, <1>11, <1>12, <1>13
  DEF Next

\* At the start every mbuf is in the pool.
LEMMA OwnershipInit == Init => NoMbufTwice
<1> SUFFICES ASSUME Init PROVE NoMbufTwice
  OBVIOUS
<1>1. \A h \in QueueName : Queue(h) = <<>>
  <2> TAKE h \in QueueName
  <2>1. \/ Queue(h) \in {e2c, c2e, iBufqueue, oBufqueue, held}
        \/ \E c \in Client : Queue(h) \in {toClient[c], fromClient[c]}
    BY QueueCases
  <2> QED
    BY <2>1 DEF Init
<1> QED
  BY <1>1, EmptyQueue DEF NoMbufTwice

\* No mbuf is in two of the pool, the rings and the packetiser's queues, for
\* every number of clients and whatever ring is full.
THEOREM OneHolder == Spec => []NoMbufTwice
<1>1. TypeInv /\ TypeInv' /\ NoMbufTwice /\ [Next]_vars => NoMbufTwice'
  BY StepIsHandover, HandoverKeepsOne DEF Free, Paid
<1> QED
  BY <1>1, OwnershipInit, TypeInvariant, PTL DEF Spec

-----------------------------------------------------------------------------
(* The price of a packet. *)

\* Lost and Reach make up the pool's mbufs.
LEMMA LostIs == Lost = Mbuf \ Reach /\ Lost' = Mbuf \ Reach'
BY DEF Lost, Reach

\* Only recv_from_clients adds to `direct`, and nothing takes from it.
LEMMA DirectGrows ==
  ASSUME [Next]_vars
  PROVE  direct' = direct \/ \E c \in Client, m \in pool : RecvFromClients(c, m)
BY DEF Next, LoopStep, LoopDone, ForwardPacket, Collect, CollectDone, SendPacket, StoreIncoming,
       ForwardStart, CollectStart, SendStart, SendToEngineBulk, RemoveByIp, EngineSend, RemoveById,
       RemoveClient, ClientReceive, ClientDangles, SendToClients, SendBulk, ReceiveBulk, AddRoute,
       ClientSend, vars, userVars

\* An mbuf that recv_from_clients was called with is on a client's ring or lost:
\* none of them is in a queue that could bring it a packet later.
DirectOut == direct \cap Inner = {}
LEMMA DirectStaysOut == Spec => []DirectOut
<1>1. Init => DirectOut
  BY DEF Init, DirectOut
<1>2. TypeInv /\ TypeInv' /\ NoMbufTwice /\ DirectOut /\ [Next]_vars => DirectOut'
  <2> SUFFICES ASSUME TypeInv, TypeInv', NoMbufTwice, DirectOut, [Next]_vars
               PROVE  direct' \cap Inner' = {}
    BY DEF DirectOut
  <2>1. CASE direct' = direct
    <3>1. Inner' \subseteq Inner
      BY StepIsHandover, HandoverInner DEF Free, Paid
    <3> QED
      BY <2>1, <3>1 DEF DirectOut
  <2>2. ASSUME NEW c \in Client, NEW m \in pool, RecvFromClients(c, m)
        PROVE  direct' \cap Inner' = {}
    <3>1. <<"to", c>> \in QueueName /\ Handover(<<"to", c>>, {m}, {}) /\ <<"to", c>> \in ToName
      BY <2>2, DirectHandover DEF ToName
    <3>2. Inner' \subseteq Inner /\ Inner' \cap {m} = {}
      BY <3>1, HandoverInner
    <3>3. direct' = direct \cup {m}
      BY <2>2 DEF RecvFromClients
    <3> QED
      BY <3>2, <3>3 DEF DirectOut
  <2> QED
    BY <2>1, <2>2, DirectGrows
<1> QED
  BY <1>1, <1>2, OneHolder, TypeInvariant, PTL DEF Spec

\* What carries packets after a step carried them before, or was gained.
LEMMA CarryingGains ==
  ASSUME NEW b \in QueueName, NEW F, NEW G, Handover(b, F, G), direct \subseteq direct'
  PROVE  /\ Carrying' \subseteq Carrying \cup F
         /\ b \notin CarryName \/ F \subseteq Carrying \cup direct'
              => Carrying' \subseteq Carrying
<1>1. CarryName \subseteq QueueName
  BY DEF CarryName, QueueName
<1>2. PICK X : X = UNION {Range(Queue(h)) : h \in CarryName}
  OBVIOUS
<1>3. PICK Y : Y = UNION {Range(Queue(h)') : h \in CarryName}
  OBVIOUS
<1>4. Carrying = X \ direct /\ Carrying' = Y \ direct'
  BY <1>2, <1>3 DEF Carrying, CarryName
<1>5. /\ \A h \in QueueName : Range(Queue(h)') \subseteq Range(Queue(h)) \cup F
      /\ \A h \in QueueName \ {b} : Range(Queue(h)') \subseteq Range(Queue(h))
  BY DEF Handover
<1>6. Y \subseteq X \cup F /\ (b \notin CarryName => Y \subseteq X)
  BY <1>1, <1>2, <1>3, <1>5
<1> QED
  BY <1>4, <1>6

\* Every packet inside the packetiser, to a client or to the engine, has cost
\* an mbuf nobody can reach any more.
THEOREM PacketsLeak == Spec => []EveryPacketLeaksOne
<1>1. Init => EveryPacketLeaksOne
  <2> SUFFICES ASSUME Init PROVE EveryPacketLeaksOne
    OBVIOUS
  <2>1. Carrying = {}
    <3>1. \A h \in CarryName : Queue(h) = <<>>
      BY DEF CarryName, Queue, Init
    <3> QED
      BY <3>1, EmptyQueue DEF Carrying, CarryName
  <2>2. IsFiniteSet(Lost)
    BY TrafficAssumption, FS_Subset DEF Lost
  <2> QED
    BY <2>1, <2>2, FS_EmptySet, FS_CardinalityType DEF EveryPacketLeaksOne
<1>2. TypeInv /\ TypeInv' /\ NoMbufTwice /\ EveryPacketLeaksOne /\ [Next]_vars => EveryPacketLeaksOne'
  <2> SUFFICES ASSUME TypeInv, TypeInv', NoMbufTwice, EveryPacketLeaksOne, [Next]_vars
               PROVE  EveryPacketLeaksOne'
    OBVIOUS
  <2>0. direct \subseteq direct'
    BY DirectGrows DEF RecvFromClients
  <2>1. /\ Carrying \subseteq Mbuf /\ IsFiniteSet(Carrying) /\ Cardinality(Carrying) \in Nat
        /\ IsFiniteSet(Lost) /\ Cardinality(Lost) \in Nat
        /\ IsFiniteSet(Lost') /\ Cardinality(Lost') \in Nat
    <3>1. Carrying \subseteq Mbuf /\ Lost \subseteq Mbuf /\ Lost' \subseteq Mbuf
      BY Apart DEF Carrying, Lost, QueueName
    <3> QED
      BY <3>1, TrafficAssumption, FS_Subset, FS_CardinalityType
  <2>2. CASE Free
    <3>1. PICK b \in QueueName : \E F, G \in SUBSET Mbuf :
            Handover(b, F, G) /\ (b \in CarryName => F \subseteq Carrying \cup direct')
      BY <2>2 DEF Free
    <3>2. PICK F \in SUBSET Mbuf, G \in SUBSET Mbuf :
            Handover(b, F, G) /\ (b \in CarryName => F \subseteq Carrying \cup direct')
      BY <3>1
    <3>3. Carrying' \subseteq Carrying
      BY <2>0, <3>2, CarryingGains
    <3>4. Lost \subseteq Lost'
      BY <3>2, HandoverReach, LostIs
    <3>5. IsFiniteSet(Carrying') /\ Cardinality(Carrying') <= Cardinality(Carrying)
          /\ Cardinality(Lost) <= Cardinality(Lost')
      BY <2>1, <3>3, <3>4, FS_Subset
    <3>6. Cardinality(Carrying') \in Nat
      BY <3>5, FS_CardinalityType
    <3> QED
      BY <2>1, <3>5, <3>6 DEF EveryPacketLeaksOne
  <2>3. CASE Paid
    <3>1. PICK b \in QueueName : \E F, D \in SUBSET Mbuf :
            /\ Handover(b, F, {}) /\ Cardinality(F) = Cardinality(D)
            /\ D \subseteq Reach /\ D \cap Reach' = {}
      BY <2>3 DEF Paid
    <3>2. PICK F \in SUBSET Mbuf, D \in SUBSET Mbuf :
            /\ Handover(b, F, {}) /\ Cardinality(F) = Cardinality(D)
            /\ D \subseteq Reach /\ D \cap Reach' = {}
      BY <3>1
    <3>3. Carrying' \subseteq Carrying \cup F
      BY <2>0, <3>2, CarryingGains
    <3>4. Lost \cup D \subseteq Lost' /\ Lost \cap D = {}
      BY <3>2, HandoverReach, LostIs
    <3>5. IsFiniteSet(F) /\ IsFiniteSet(D) /\ Cardinality(F) \in Nat /\ Cardinality(D) \in Nat
      BY TrafficAssumption, FS_Subset, FS_CardinalityType
    <3>6. /\ IsFiniteSet(Carrying \cup F)
          /\ Cardinality(Carrying \cup F) <= Cardinality(Carrying) + Cardinality(F)
      <4>1. /\ IsFiniteSet(Carrying \cup F)
            /\ Cardinality(Carrying \cup F) =
                 Cardinality(Carrying) + Cardinality(F) - Cardinality(Carrying \cap F)
        BY <2>1, <3>5, FS_Union
      <4>2. Cardinality(Carrying \cap F) \in Nat
        BY <2>1, FS_Intersection, FS_CardinalityType
      <4> QED
        BY <2>1, <3>5, <4>1, <4>2
    <3>7. /\ IsFiniteSet(Carrying') /\ Cardinality(Carrying') <= Cardinality(Carrying \cup F)
          /\ Cardinality(Carrying \cup F) \in Nat
      BY <3>3, <3>6, FS_Subset, FS_CardinalityType
    <3>8. Cardinality(Carrying') \in Nat
      BY <3>7, FS_CardinalityType
    <3>9. Cardinality(Lost) + Cardinality(D) <= Cardinality(Lost')
      <4>1. Cardinality(Lost \cup D) = Cardinality(Lost) + Cardinality(D) - Cardinality({})
        BY <2>1, <3>4, <3>5, FS_Union
      <4>2. Cardinality({}) = 0
        BY FS_EmptySet
      <4>3. Cardinality(Lost \cup D) <= Cardinality(Lost')
        BY <2>1, <3>4, FS_Subset
      <4> QED
        BY <2>1, <3>5, <4>1, <4>2, <4>3
    <3> QED
      BY <2>1, <3>2, <3>5, <3>6, <3>7, <3>8, <3>9 DEF EveryPacketLeaksOne
  <2> QED
    BY <2>2, <2>3, StepIsHandover
<1> QED
  BY <1>1, <1>2, OneHolder, TypeInvariant, PTL DEF Spec
=============================================================================
