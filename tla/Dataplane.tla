----------------------------- MODULE Dataplane -----------------------------
(***************************************************************************)
(* The two processes of the data plane as their main functions run them:   *)
(* the engine (primary DPDK process, l3enginelib/src/main.rs) and the      *)
(* packetiser (secondary process, l3enginepacketiser/src/main.rs), which   *)
(* share one mbuf pool and the two rings of the packetiser's Channel.      *)
(*                                                                         *)
(* An mbuf is a pointer: every queue holds mbufs, `data` is what each      *)
(* mbuf's data area holds.  A step is one call on shared memory (a pool,   *)
(* ring or NIC operation) with the process-local work around it, so the    *)
(* two processes interleave exactly where DPDK lets them.  Both start      *)
(* after the ZeroMQ hello: rings and pool exist, all queues are empty.     *)
(***************************************************************************)
EXTENDS Naturals, Sequences, FiniteSets, Functions

CONSTANTS
  Mbuf,        \* the mbufs of GLOBAL_MEMPOOL not parked in NIC descriptors
  Queue,       \* rx queues Port::configure sets up (one per core)
  LcoreQueue,  \* the queue the engine polls: its own lcore id
  RxBurstMax,  \* Port::receive's RX_BURST_MAX (32)
  BurstMax,    \* the packetiser's BURST_MAX (512, or 32 in a debug build)
  RingSize,    \* Ring::RING_CAPACITY (512); DPDK keeps one slot unused
  CacheSlack,  \* free mbufs that may sit in the other lcore's pool cache
  EtherType,   \* the ether_type values frames carry; the engine drops 0
  Build,       \* builds considered: cargo feature "debug" on (TRUE) or off
  MaxFrames,   \* bound: frames that arrive from the wire
  Empty        \* an mbuf with data_len = 0

ASSUME DataplaneAssumption ==
  /\ IsFiniteSet(Mbuf)
  /\ LcoreQueue \in Queue
  /\ RxBurstMax \in Nat \ {0}
  /\ BurstMax \in Nat \ {0}
  /\ RingSize \in Nat \ {0}
  /\ CacheSlack \in Nat
  /\ Build \subseteq BOOLEAN
  /\ MaxFrames \in Nat

Frame == [seq : 1 .. MaxFrames, etherType : EtherType]

ASSUME EmptyAssumption == Empty \notin Frame

VARIABLES
  pool,           \* free mbufs of the shared mempool
  data,           \* data[m]: the frame in mbuf m, or Empty
  freed,          \* shared objects released by a destructor
  arrived,        \* number of frames the wire has delivered
  rxq,            \* rxq[q]: frames waiting in rx queue q of port 0
  engine,         \* control state of the engine's main loop
  engineRun,      \* the engine's keep_running flag
  rxPkts,         \* Vec<Mbuf> returned by Port::receive
  toPacketiser,   \* TO_PACKETISER
  fromPacketiser, \* FROM_PACKETISER
  outPkts,        \* OUT_PKTS
  nicTx,          \* mbufs owned by the NIC until transmitted
  e2c,            \* ring E2C-1, engine to packetiser
  c2e,            \* ring C2E-1, packetiser to engine
  pktz,           \* control state of the packetiser's main loop
  debug,          \* whether the packetiser is a debug build
  pktzRun,        \* the packetiser's keep_running flag
  bufs,           \* Vec<Mbuf> pre-allocated by recv_from_engine_burst
  count,          \* buffers of bufs still to be stored
  iBufqueue,      \* Packetiser.i_bufqueue
  oBufqueue       \* Packetiser.o_bufqueue

poolVars == <<pool, data>>
wireVars == <<arrived, rxq>>
engineVars == <<engine, engineRun, rxPkts, toPacketiser>>
returnVars == <<fromPacketiser, outPkts, nicTx, c2e, oBufqueue>>
pktzVars == <<pktz, debug, pktzRun, bufs, count, iBufqueue>>
vars == <<poolVars, freed, wireVars, engineVars, returnVars, e2c, pktzVars>>

EngineState ==
  {"loop", "rx", "classify", "send", "get", "out", "exited", "undefined"}
PktzState ==
  {"loop", "alloc", "dequeue", "store", "release", "spin",
   "dropC2E", "dropE2C", "dropPool", "dropQueues", "exited", "undefined"}
SharedObject == {"pool", "e2c", "c2e"}

\* Every variable keeps its type, the rings never hold more than DPDK's usable
\* size, and a burst (Port::receive, recv_from_engine_burst) never outgrows its
\* maximum or stores more buffers than it has.
TypeOK ==
  /\ pool \subseteq Mbuf
  /\ data \in [Mbuf -> Frame \cup {Empty}]
  /\ freed \subseteq SharedObject
  /\ arrived \in 0 .. MaxFrames
  /\ rxq \in [Queue -> Seq(Frame)]
  /\ engine \in EngineState
  /\ engineRun \in BOOLEAN
  /\ rxPkts \in Seq(Mbuf) /\ Len(rxPkts) <= RxBurstMax
  /\ toPacketiser \in Seq(Mbuf)
  /\ fromPacketiser \in Seq(Mbuf)
  /\ outPkts \in Seq(Mbuf)
  /\ nicTx \subseteq Mbuf
  /\ e2c \in Seq(Mbuf) /\ Len(e2c) <= RingSize - 1
  /\ c2e \in Seq(Mbuf) /\ Len(c2e) <= RingSize - 1
  /\ pktz \in PktzState
  /\ debug \in BOOLEAN
  /\ pktzRun \in BOOLEAN
  /\ bufs \in Seq(Mbuf) /\ Len(bufs) <= BurstMax
  /\ count \in 0 .. Len(bufs)
  /\ iBufqueue \in Seq(Mbuf)
  /\ oBufqueue \in Seq(Mbuf)

Init ==
  /\ pool = Mbuf
  /\ data = [m \in Mbuf |-> Empty]
  /\ freed = {}
  /\ arrived = 0
  /\ rxq = [q \in Queue |-> <<>>]
  /\ engine = "loop" /\ engineRun = TRUE
  /\ rxPkts = <<>> /\ toPacketiser = <<>>
  /\ fromPacketiser = <<>> /\ outPkts = <<>> /\ nicTx = {}
  /\ e2c = <<>> /\ c2e = <<>>
  /\ debug \in Build
  /\ pktz = "loop" /\ pktzRun = TRUE
  /\ bufs = <<>> /\ count = 0
  /\ iBufqueue = <<>> /\ oBufqueue = <<>>

-----------------------------------------------------------------------------
(* Faulty variants: edits of the operations below that the properties must *)
(* tell from the code.  They are not part of the specification.            *)

\* All RingSize slots used.
RingHasRoomOffByOne(r) == Len(r) < RingSize

\* Ring::enqueue using get_ptr instead of into_ptr: the Mbuf is dropped too.
SendPacketNotForgotten ==
  /\ engine = "send" /\ "e2c" \notin freed
  /\ toPacketiser # <<>> /\ Len(e2c) < RingSize - 1
  /\ toPacketiser' = Tail(toPacketiser)
  /\ e2c' = Append(e2c, Head(toPacketiser))
  /\ pool' = pool \cup {Head(toPacketiser)}
  /\ UNCHANGED <<data, freed, wireVars, engine, engineRun, rxPkts,
                 returnVars, pktzVars>>

\* A kept frame is dropped as well (a missing else).
KeepFrameAlsoDropped ==
  /\ engine = "classify" /\ "pool" \notin freed
  /\ rxPkts # <<>> /\ data[Head(rxPkts)].etherType # 0
  /\ rxPkts' = Tail(rxPkts)
  /\ toPacketiser' = Append(toPacketiser, Head(rxPkts))
  /\ pool' = pool \cup {Head(rxPkts)}
  /\ UNCHANGED <<data, freed, wireVars, engine, engineRun, returnVars, e2c,
                 pktzVars>>

\* The packet the ring refuses goes to the back of TO_PACKETISER, and the
\* loop ends (or goes on).
SendFailsRequeuing(next) ==
  /\ engine = "send" /\ "e2c" \notin freed
  /\ toPacketiser # <<>> /\ Len(e2c) >= RingSize - 1
  /\ toPacketiser' = Append(Tail(toPacketiser), Head(toPacketiser))
  /\ engine' = next
  /\ UNCHANGED <<poolVars, freed, wireVars, engineRun, rxPkts, returnVars,
                 e2c, pktzVars>>
SendFailsRequeue == SendFailsRequeuing("get")
SendFailsRetry == SendFailsRequeuing("send")

\* Every allocated buffer is taken for a received packet.
DequeueBurstStoresAll ==
  /\ pktz = "dequeue"
  /\ count' = Len(bufs)
  /\ e2c' = SubSeq(e2c, Len(bufs) + 1, Len(e2c))
  /\ pktz' = "store"
  /\ UNCHANGED <<poolVars, freed, wireVars, engineVars, returnVars, debug,
                 pktzRun, bufs, iBufqueue>>

\* A received buffer is put in the queue of outgoing packets.
StoreBufOutgoing ==
  /\ pktz = "store" /\ count > 0
  /\ count' = count - 1
  /\ oBufqueue' = Append(oBufqueue, Head(bufs))
  /\ bufs' = Tail(bufs)
  /\ UNCHANGED <<poolVars, freed, wireVars, engineVars, fromPacketiser,
                 outPkts, nicTx, c2e, e2c, pktz, debug, pktzRun, iBufqueue>>

\* The Mempool handle is looked up for each burst, and dropped after it.
ReleaseDoneDropsPool ==
  /\ pktz = "release" /\ bufs = <<>>
  /\ pktz' = "loop"
  /\ freed' = freed \cup {"pool"}
  /\ UNCHANGED <<poolVars, wireVars, engineVars, returnVars, e2c, debug,
                 pktzRun, bufs, count, iBufqueue>>

\* The packetiser waits until it has all BURST_MAX buffers.
AllocDoneWaits ==
  /\ pktz = "alloc" /\ Len(bufs) = BurstMax
  /\ pktz' = "dequeue"
  /\ UNCHANGED <<poolVars, freed, wireVars, engineVars, returnVars, e2c,
                 debug, pktzRun, bufs, count, iBufqueue>>

\* Port::receive returns without a look at the frames that wait.
RxReturnAtOnce ==
  /\ engine = "rx" /\ "pool" \notin freed
  /\ engine' = "classify"
  /\ UNCHANGED <<poolVars, freed, wireVars, engineRun, rxPkts, toPacketiser,
                 returnVars, e2c, pktzVars>>

-----------------------------------------------------------------------------
(* DPDK, as the code uses it. *)

\* rte_ring_enqueue succeeds while fewer than RingSize - 1 entries are queued.
RingHasRoom(r) == Len(r) < RingSize - 1

\* rte_pktmbuf_alloc may return NULL once all that is left may be cached by
\* the other lcore, and must when nothing is left.
AllocMayFail == Cardinality(pool) <= CacheSlack

Lesser(a, b) == IF a <= b THEN a ELSE b

-----------------------------------------------------------------------------
(* Environment: the wire and Ctrl+C. *)

\* A frame reaches port 0 and RSS steers it to one of the rx queues.
Arrive ==
  \E q \in Queue, t \in EtherType :
    /\ engine # "exited"
    /\ arrived < MaxFrames
    /\ arrived' = arrived + 1
    /\ rxq' = [rxq EXCEPT ![q] = Append(@, [seq |-> arrived + 1, etherType |-> t])]
    /\ UNCHANGED <<poolVars, freed, engineVars, returnVars, e2c, pktzVars>>

EngineCtrlC ==
  /\ engine \notin {"exited", "undefined"}
  /\ engineRun /\ engineRun' = FALSE
  /\ UNCHANGED <<poolVars, freed, wireVars, engine, rxPkts, toPacketiser,
                 returnVars, e2c, pktzVars>>

PacketiserCtrlC ==
  /\ pktz \notin {"exited", "undefined"}
  /\ pktzRun /\ pktzRun' = FALSE
  /\ UNCHANGED <<poolVars, freed, wireVars, engineVars, returnVars, e2c,
                 debug, pktz, bufs, count, iBufqueue>>

-----------------------------------------------------------------------------
(* The engine. *)

\* The shared objects whose memory the engine's next operation accesses.
EngineUses ==
  CASE engine = "rx" /\ rxq[LcoreQueue] # <<>> -> {"pool"}
    [] engine = "classify" /\ rxPkts # <<>> -> {"pool"}
    [] engine = "send" /\ toPacketiser # <<>> -> {"e2c"}
    [] engine = "get" /\ fromPacketiser # <<>> -> {"pool", "c2e"}
    [] engine = "out" /\ outPkts # <<>> -> {"pool"}
    [] OTHER -> {}

EngineAt(s) == engine = s /\ EngineUses \cap freed = {}

\* An operation on released memory: nothing is claimed about what follows.
EngineUndefined ==
  /\ EngineUses \cap freed # {}
  /\ engine' = "undefined"
  /\ UNCHANGED <<poolVars, freed, wireVars, engineRun, rxPkts, toPacketiser,
                 returnVars, e2c, pktzVars>>

\* while kr.load(..): when cleared, _pkt_stop_and_close_ports calls exit(0),
\* so neither eal_cleanup nor any destructor of main runs.
EngineLoop ==
  /\ EngineAt("loop")
  /\ engine' = IF engineRun THEN "rx" ELSE "exited"
  /\ UNCHANGED <<poolVars, freed, wireVars, engineRun, rxPkts, toPacketiser,
                 returnVars, e2c, pktzVars>>

\* Port::receive: the driver takes one mbuf from the pool per frame of the
\* burst, and leaves the frame in its queue when there is none.
RxFrame ==
  /\ EngineAt("rx")
  /\ rxq[LcoreQueue] # <<>>
  /\ Len(rxPkts) < RxBurstMax
  /\ \E m \in pool :
       /\ pool' = pool \ {m}
       /\ data' = [data EXCEPT ![m] = Head(rxq[LcoreQueue])]
       /\ rxPkts' = Append(rxPkts, m)
  /\ rxq' = [rxq EXCEPT ![LcoreQueue] = Tail(@)]
  /\ UNCHANGED <<freed, arrived, engine, engineRun, toPacketiser,
                 returnVars, e2c, pktzVars>>

RxReturn ==
  /\ EngineAt("rx")
  /\ rxPkts # <<>> \/ rxq[LcoreQueue] = <<>> \/ AllocMayFail
  /\ engine' = "classify"
  /\ UNCHANGED <<poolVars, freed, wireVars, engineRun, rxPkts, toPacketiser,
                 returnVars, e2c, pktzVars>>

\* get_external_pkts keeps a frame whose ether_type is not zero and drops
\* (frees) the others.
KeepFrame ==
  /\ EngineAt("classify")
  /\ rxPkts # <<>>
  /\ data[Head(rxPkts)].etherType # 0
  /\ rxPkts' = Tail(rxPkts)
  /\ toPacketiser' = Append(toPacketiser, Head(rxPkts))
  /\ UNCHANGED <<poolVars, freed, wireVars, engine, engineRun, returnVars,
                 e2c, pktzVars>>

DropFrame ==
  /\ EngineAt("classify")
  /\ rxPkts # <<>>
  /\ data[Head(rxPkts)].etherType = 0
  /\ rxPkts' = Tail(rxPkts)
  /\ pool' = pool \cup {Head(rxPkts)}
  /\ UNCHANGED <<data, freed, wireVars, engine, engineRun, toPacketiser,
                 returnVars, e2c, pktzVars>>

ClassifyDone ==
  /\ EngineAt("classify")
  /\ rxPkts = <<>>
  /\ engine' = "send"
  /\ UNCHANGED <<poolVars, freed, wireVars, engineRun, rxPkts, toPacketiser,
                 returnVars, e2c, pktzVars>>

\* send_to_packetiser pops a packet and hands it to RingClientMap::send; the
\* packetiser is registered from start to end, so the lookup succeeds.
\* Ring::enqueue gives up the Mbuf (into_ptr) before it knows the result.
SendPacket ==
  /\ EngineAt("send")
  /\ toPacketiser # <<>>
  /\ RingHasRoom(e2c)
  /\ toPacketiser' = Tail(toPacketiser)
  /\ e2c' = Append(e2c, Head(toPacketiser))
  /\ UNCHANGED <<poolVars, freed, wireVars, engine, engineRun, rxPkts,
                 returnVars, pktzVars>>

\* Ring full: the error breaks the loop and nobody has the pointer any more.
SendFails ==
  /\ EngineAt("send")
  /\ toPacketiser # <<>>
  /\ ~RingHasRoom(e2c)
  /\ toPacketiser' = Tail(toPacketiser)
  /\ engine' = "get"
  /\ UNCHANGED <<poolVars, freed, wireVars, engineRun, rxPkts, returnVars,
                 e2c, pktzVars>>

SendDone ==
  /\ EngineAt("send")
  /\ toPacketiser = <<>>
  /\ engine' = "get"
  /\ UNCHANGED <<poolVars, freed, wireVars, engineRun, rxPkts, toPacketiser,
                 returnVars, e2c, pktzVars>>

\* get_from_packetiser sizes its work by FROM_PACKETISER, allocates that many
\* mbufs and dequeues into each: Ring::dequeue writes the pointer it gets to
\* a temporary, so OUT_PKTS receives the fresh mbuf and the dequeued one is
\* lost.  Unused buffers are freed again.
GetFromPacketiser ==
  /\ EngineAt("get")
  /\ \E made \in 0 .. Len(fromPacketiser) :
       LET got == Lesser(made, Len(c2e))
       IN  /\ made < Len(fromPacketiser) => Cardinality(pool) - made <= CacheSlack
           /\ made <= Cardinality(pool)
           /\ \E fresh \in Injection(1 .. got, pool) :
                /\ outPkts' = outPkts \o fresh
                /\ pool' = pool \ Range(fresh)
                /\ data' = [m \in Mbuf |-> IF m \in Range(fresh) THEN Empty ELSE data[m]]
           /\ c2e' = SubSeq(c2e, got + 1, Len(c2e))
  /\ engine' = "out"
  /\ UNCHANGED <<freed, wireVars, engineRun, rxPkts, toPacketiser,
                 fromPacketiser, nicTx, oBufqueue, e2c, pktzVars>>

\* send_pkts_out empties OUT_PKTS into Port::send.  tx_burst accepts `sent` of
\* them and returns the mbufs `done` it has transmitted to the pool; when it
\* does not accept all, mbuf_free_bulk frees every one of them.
SendPktsOut ==
  /\ EngineAt("out")
  /\ \E sent \in 0 .. Len(outPkts), done \in SUBSET nicTx :
       /\ nicTx' = (nicTx \ done) \cup {outPkts[i] : i \in 1 .. sent}
       /\ pool' = pool \cup done
                       \cup (IF sent < Len(outPkts) THEN Range(outPkts) ELSE {})
  /\ outPkts' = <<>>
  /\ engine' = "loop"
  /\ UNCHANGED <<data, freed, wireVars, engineRun, rxPkts, toPacketiser,
                 fromPacketiser, c2e, oBufqueue, e2c, pktzVars>>

EngineStep ==
  \/ EngineUndefined \/ EngineLoop
  \/ RxFrame \/ RxReturn
  \/ KeepFrame \/ DropFrame \/ ClassifyDone
  \/ SendPacket \/ SendFails \/ SendDone
  \/ GetFromPacketiser \/ SendPktsOut

-----------------------------------------------------------------------------
(* The packetiser. *)

\* while kr.load(..); process_pkts polls smoltcp on a device with no packet.
PacketiserLoop ==
  /\ pktz = "loop"
  /\ pktz' = IF pktzRun THEN "alloc" ELSE "dropC2E"
  /\ UNCHANGED <<poolVars, freed, wireVars, engineVars, returnVars, e2c,
                 debug, pktzRun, bufs, count, iBufqueue>>

\* recv_from_engine_burst: up to BURST_MAX empty mbufs to receive into.
AllocBuf ==
  /\ pktz = "alloc"
  /\ Len(bufs) < BurstMax
  /\ \E m \in pool :
       /\ pool' = pool \ {m}
       /\ data' = [data EXCEPT ![m] = Empty]
       /\ bufs' = Append(bufs, m)
  /\ UNCHANGED <<freed, wireVars, engineVars, returnVars, e2c, pktz, debug,
                 pktzRun, count, iBufqueue>>

\* Allocation stops at BURST_MAX or at the first failure; with no buffer at
\* all the error leaves the main loop and main returns.
AllocDone ==
  /\ pktz = "alloc"
  /\ Len(bufs) = BurstMax \/ AllocMayFail
  /\ pktz' = IF bufs = <<>> THEN "dropC2E" ELSE "dequeue"
  /\ UNCHANGED <<poolVars, freed, wireVars, engineVars, returnVars, e2c,
                 debug, pktzRun, bufs, count, iBufqueue>>

\* Ring::dequeue_burst copies the pointers of bufs to a Vec, lets the ring
\* overwrite that Vec and drops it: bufs still names the empty mbufs and the
\* dequeued ones are held by nobody.
DequeueBurst ==
  /\ pktz = "dequeue"
  /\ count' = Lesser(Len(bufs), Len(e2c))
  /\ e2c' = SubSeq(e2c, count' + 1, Len(e2c))
  /\ pktz' = "store"
  /\ UNCHANGED <<poolVars, freed, wireVars, engineVars, returnVars, debug,
                 pktzRun, bufs, iBufqueue>>

\* The first `count` buffers go to i_bufqueue, the rest back to the pool.
StoreBuf ==
  /\ pktz = "store"
  /\ count > 0
  /\ count' = count - 1
  /\ iBufqueue' = Append(iBufqueue, Head(bufs))
  /\ bufs' = Tail(bufs)
  /\ UNCHANGED <<poolVars, freed, wireVars, engineVars, returnVars, e2c,
                 pktz, debug, pktzRun>>

StoreDone ==
  /\ pktz = "store"
  /\ count = 0
  /\ pktz' = "release"
  /\ UNCHANGED <<poolVars, freed, wireVars, engineVars, returnVars, e2c,
                 debug, pktzRun, bufs, count, iBufqueue>>

ReleaseBuf ==
  /\ pktz = "release"
  /\ bufs # <<>>
  /\ pool' = pool \cup {Head(bufs)}
  /\ bufs' = Tail(bufs)
  /\ UNCHANGED <<data, freed, wireVars, engineVars, returnVars, e2c, pktz,
                 debug, pktzRun, count, iBufqueue>>

ReleaseDone ==
  /\ pktz = "release"
  /\ bufs = <<>>
  /\ pktz' = IF debug THEN "spin" ELSE "loop"
  /\ UNCHANGED <<poolVars, freed, wireVars, engineVars, returnVars, e2c,
                 debug, pktzRun, bufs, count, iBufqueue>>

\* Debug build only: `while !proc.i_bufqueue.is_empty() {}` has an empty
\* body, so this step waits for a queue nobody empties; after it,
\* send_outgoing_packets enqueues o_bufqueue and forgets what does not fit.
DebugSendOutgoing ==
  LET n == Lesser(Len(oBufqueue), (RingSize - 1) - Len(c2e))
  IN  /\ pktz = "spin"
      /\ iBufqueue = <<>>
      /\ c2e' = c2e \o SubSeq(oBufqueue, 1, n)
      /\ oBufqueue' = <<>>
      /\ pktz' = "loop"
      /\ UNCHANGED <<poolVars, freed, wireVars, engineVars, fromPacketiser,
                     outPkts, nicTx, e2c, debug, pktzRun, bufs, count,
                     iBufqueue>>

\* The end of main drops the Packetiser field by field: Channel (both rings),
\* Mempool, and only then the queues of mbufs.
DropRing(from, ring, to) ==
  /\ pktz = from
  /\ freed' = freed \cup {ring}
  /\ pktz' = to
  /\ UNCHANGED <<poolVars, wireVars, engineVars, fromPacketiser, outPkts,
                 nicTx, oBufqueue, debug, pktzRun, bufs, count, iBufqueue>>

DropC2E == DropRing("dropC2E", "c2e", "dropE2C") /\ c2e' = <<>> /\ UNCHANGED e2c
DropE2C == DropRing("dropE2C", "e2c", "dropPool") /\ e2c' = <<>> /\ UNCHANGED c2e

DropMempool ==
  /\ pktz = "dropPool"
  /\ freed' = freed \cup {"pool"}
  /\ pktz' = "dropQueues"
  /\ UNCHANGED <<poolVars, wireVars, engineVars, returnVars, e2c, debug,
                 pktzRun, bufs, count, iBufqueue>>

\* Mbuf::drop on a queued mbuf returns it to a pool that no longer exists.
DropQueues ==
  /\ pktz = "dropQueues"
  /\ pktz' = IF iBufqueue \o oBufqueue = <<>> THEN "exited" ELSE "undefined"
  /\ UNCHANGED <<poolVars, freed, wireVars, engineVars, returnVars, e2c,
                 debug, pktzRun, bufs, count, iBufqueue>>

PacketiserStep ==
  \/ PacketiserLoop \/ AllocBuf \/ AllocDone \/ DequeueBurst
  \/ StoreBuf \/ StoreDone \/ ReleaseBuf \/ ReleaseDone
  \/ DebugSendOutgoing
  \/ DropC2E \/ DropE2C \/ DropMempool \/ DropQueues

-----------------------------------------------------------------------------
Next == Arrive \/ EngineCtrlC \/ PacketiserCtrlC \/ EngineStep \/ PacketiserStep

Spec == Init /\ [][Next]_vars

\* Each main is a thread the OS keeps scheduling; nothing is assumed of the
\* wire or of the person at the keyboard.
Fairness == WF_vars(EngineStep) /\ WF_vars(PacketiserStep)
FairSpec == Spec /\ Fairness
-----------------------------------------------------------------------------
(* Properties. *)

\* Who holds mbuf pointers, and which ones.
Holder == {"pool", "rx", "to", "e2c", "bufs", "iq", "from", "out", "nic", "c2e", "oq"}
place ==
  [h \in Holder |->
     CASE h = "pool" -> pool
       [] h = "rx"   -> Range(rxPkts)
       [] h = "to"   -> Range(toPacketiser)
       [] h = "e2c"  -> Range(e2c)
       [] h = "bufs" -> Range(bufs)
       [] h = "iq"   -> Range(iBufqueue)
       [] h = "from" -> Range(fromPacketiser)
       [] h = "out"  -> Range(outPkts)
       [] h = "nic"  -> nicTx
       [] h = "c2e"  -> Range(c2e)
       [] h = "oq"   -> Range(oBufqueue)]

\* Mbufs nobody can reach any more: leaked for the life of the pool.
Lost == Mbuf \ UNION {place[h] : h \in Holder}

\* No two holders have the same mbuf and no queue has it twice, whatever the
\* interleaving of the two processes: this is what makes every Mbuf::drop and
\* every ring transfer of the code free of double frees and of two writers.
Disjoint(p) == \A g, h \in DOMAIN p : g # h => p[g] \cap p[h] = {}
NoDuplicates ==
  /\ IsInjective(rxPkts) /\ IsInjective(toPacketiser) /\ IsInjective(e2c)
  /\ IsInjective(bufs) /\ IsInjective(iBufqueue)
  /\ IsInjective(fromPacketiser) /\ IsInjective(outPkts)
  /\ IsInjective(c2e) /\ IsInjective(oBufqueue)
ExclusiveOwnership == Disjoint(place) /\ NoDuplicates

\* The way back is dead code: no packet ever gets into o_bufqueue, the ring
\* C2E-1, FROM_PACKETISER or OUT_PKTS, so the engine transmits nothing and the
\* faults of Ring::dequeue and Port::send stay without effect.
ReturnPathIdle ==
  /\ fromPacketiser = <<>> /\ outPkts = <<>> /\ nicTx = {}
  /\ c2e = <<>> /\ oBufqueue = <<>>

\* Frames travel in arrival order from the polled rx queue through Port::receive,
\* TO_PACKETISER and the ring, although frames may be lost on the way.
InFlight == e2c \o toPacketiser \o rxPkts
InOrder ==
  LET frames == [i \in 1 .. Len(InFlight) |-> data[InFlight[i]]] \o rxq[LcoreQueue]
  IN  \A i, j \in 1 .. Len(frames) : i < j => frames[i].seq < frames[j].seq

\* Every buffer that recv_from_engine_burst stores in i_bufqueue has cost a
\* second, distinct mbuf: the one the ring delivered and dequeue_burst lost.
EveryReceiveLeaks == Len(iBufqueue) + count <= Cardinality(Lost)

\* The data plane implements MbufOwnership: whatever the interleaving, a step
\* moves an mbuf along one of that module's edges or loses some, and a lost
\* mbuf never comes back.
owned ==
  [p \in {"pool", "engine", "ring", "packetiser"} |->
     CASE p = "pool"       -> pool
       [] p = "engine"     -> UNION {place[h] : h \in {"rx", "to", "from", "out", "nic"}}
       [] p = "ring"       -> UNION {place[h] : h \in {"e2c", "c2e"}}
       [] p = "packetiser" -> UNION {place[h] : h \in {"bufs", "iq", "oq"}}]
Ownership == INSTANCE MbufOwnership WITH own <- owned
OwnershipSpec == Ownership!Spec

\* The engine runs into released memory only because the packetiser's
\* destructors ran: no other order of steps makes its pointers dangle.
EngineSafeUntilDrop ==
  engine = "undefined" =>
    pktz \in {"dropE2C", "dropPool", "dropQueues", "exited", "undefined"}

-----------------------------------------------------------------------------
(* Liveness. *)

PacketiserGone ==
  pktz \in {"dropC2E", "dropE2C", "dropPool", "dropQueues", "exited", "undefined"}
EngineGone == engine \in {"exited", "undefined"}

Holds(q, n) == \E i \in 1 .. Len(q) : data[q[i]] # Empty /\ data[q[i]].seq = n

\* A debug build that has received a packet waits for ever.
Spinning == debug /\ pktz = "spin" /\ iBufqueue # <<>>

\* A frame put on the ring is taken off it as long as the packetiser runs its
\* loop, however few mbufs recv_from_engine_burst gets to receive into.
RingServed ==
  \A n \in 1 .. MaxFrames :
    Holds(e2c, n) ~> (~Holds(e2c, n) \/ PacketiserGone \/ Spinning)

\* Frames wait for ever in the polled rx queue only if the pool runs dry again
\* and again: while it does not, Port::receive keeps taking frames until the
\* queue is empty, however full the ring and however long the backlog.
PolledQueueServed ==
  <>[](~AllocMayFail) =>
    []<>(rxq[LcoreQueue] = <<>> \/ EngineGone) \/ []<><<RxFrame>>_vars

\* Every frame queued in TO_PACKETISER leaves it while the engine runs, even
\* when the ring stays full because the packetiser has stopped reading.
BacklogDrains ==
  \A n \in 1 .. MaxFrames :
    Holds(toPacketiser, n) ~> (~Holds(toPacketiser, n) \/ EngineGone)

\* Ctrl+C ends the engine's loop from wherever it is.
CtrlCStopsEngine == ~engineRun ~> EngineGone

\* Ctrl+C ends the packetiser's main from wherever it is, except in the debug
\* build's spin loop.
CtrlCStopsUnlessSpinning ==
  ~pktzRun ~> (pktz \in {"exited", "undefined"} \/ Spinning)

-----------------------------------------------------------------------------
(* What comments of the repository say, and the code does not do. *)

\* mbuf.rs:118: whoever takes the raw pointer must free it.  A packet that
\* leaves TO_PACKETISER is on the ring or back in the pool.
EnqueueKeepsOrFrees ==
  [][\A m \in Range(toPacketiser) \ Range(toPacketiser') :
       m \in Range(e2c') \/ m \in pool']_vars

\* packetiser/mod.rs:80: i_bufqueue has the packets received from the primary.
ReceivedPacketsStored ==
  \A i \in 1 .. Len(iBufqueue) : data[iBufqueue[i]] \in Frame

\* lib.rs:4: the structures let the user work with DPDK in a safe manner.
\* The engine never works on memory that a destructor has released.
EngineMemorySafe == engine # "undefined"
=============================================================================
