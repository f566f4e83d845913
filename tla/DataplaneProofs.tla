-------------------------- MODULE DataplaneProofs --------------------------
(***************************************************************************)
(* Proofs about Dataplane for every pool, burst and ring size: types, then *)
(* exclusive ownership, then the refinement of MbufOwnership.              *)
(***************************************************************************)
EXTENDS Dataplane, QueueLemmas

-----------------------------------------------------------------------------
(* Types. *)

\* TypeOK alone is not inductive: recv_from_engine_burst frees a buffer only
\* when none is left to store, and the engine's way out is idle.
ReleaseCounted == pktz = "release" => count = 0
TypeInv == TypeOK /\ ReleaseCounted /\ ReturnPathIdle

\* After the hello all queues are empty and of their types.
LEMMA TypeInit == Init => TypeInv
<1>1. <<>> \in Seq(Mbuf) /\ <<>> \in Seq(Frame) /\ Len(<<>>) = 0
  BY EmptySeq
<1> QED
  BY <1>1, DataplaneAssumption
     DEF Init, TypeInv, TypeOK, ReleaseCounted, ReturnPathIdle, EngineState, PktzState

\* A frame from the wire and Ctrl+C keep the types.
LEMMA TypeEnvironment ==
  TypeInv /\ (Arrive \/ EngineCtrlC \/ PacketiserCtrlC) => TypeInv'
<1> SUFFICES ASSUME TypeInv, Arrive \/ EngineCtrlC \/ PacketiserCtrlC
             PROVE  TypeInv'
  OBVIOUS
<1> USE DEF TypeInv, TypeOK, ReleaseCounted, ReturnPathIdle,
            poolVars, wireVars, engineVars, returnVars, pktzVars
<1>1. CASE Arrive
  <2>1. PICK q \in Queue, t \in EtherType :
          rxq' = [rxq EXCEPT ![q] = Append(@, [seq |-> arrived + 1, etherType |-> t])]
    BY <1>1 DEF Arrive
  <2>2. arrived' \in 0 .. MaxFrames /\ arrived' = arrived + 1
    BY <1>1, DataplaneAssumption DEF Arrive
  <2>3. [seq |-> arrived + 1, etherType |-> t] \in Frame
    BY <2>2 DEF Frame
  <2>4. rxq' \in [Queue -> Seq(Frame)]
    BY <2>1, <2>3, AppendProperties
  <2> QED
    BY <1>1, <2>2, <2>4 DEF Arrive
<1>2. CASE EngineCtrlC
  BY <1>2 DEF EngineCtrlC
<1>3. CASE PacketiserCtrlC
  BY <1>3 DEF PacketiserCtrlC
<1> QED
  BY <1>1, <1>2, <1>3

\* With an empty FROM_PACKETISER get_from_packetiser only passes through.
LEMMA GetIdle ==
  ASSUME TypeInv, GetFromPacketiser
  PROVE  UNCHANGED <<pool, data, returnVars>>
<1>1. Len(fromPacketiser) = 0 /\ Len(c2e) = 0
  BY DEF TypeInv, ReturnPathIdle
<1>2. \A made \in 0 .. Len(fromPacketiser) : Lesser(made, Len(c2e)) = 0
  BY <1>1 DEF Lesser
<1>3. PICK fresh \in Injection(1 .. 0, pool) :
        /\ outPkts' = outPkts \o fresh
        /\ pool' = pool \ Range(fresh)
        /\ data' = [m \in Mbuf |-> IF m \in Range(fresh) THEN Empty ELSE data[m]]
        /\ c2e' = SubSeq(c2e, 1, Len(c2e))
  BY <1>1, <1>2, SMTT(60) DEF GetFromPacketiser
<1>4. fresh = <<>>
  BY DEF Injection
<1>5. outPkts' = <<>> /\ c2e' = <<>>
  BY <1>1, <1>3, <1>4 DEF TypeInv, ReturnPathIdle
<1> QED
  BY <1>3, <1>4, <1>5, EmptyQueue
     DEF GetFromPacketiser, TypeInv, TypeOK, ReturnPathIdle, returnVars

\* With an empty OUT_PKTS send_pkts_out only passes through.
LEMMA OutIdle ==
  ASSUME TypeInv, SendPktsOut
  PROVE  UNCHANGED <<pool, returnVars>>
BY EmptyQueue DEF TypeInv, ReturnPathIdle, SendPktsOut, returnVars

\* With an empty o_bufqueue send_outgoing_packets enqueues nothing.
LEMMA SpinIdle ==
  ASSUME TypeInv, DebugSendOutgoing
  PROVE  UNCHANGED returnVars
<1>1. Lesser(Len(oBufqueue), (RingSize - 1) - Len(c2e)) = 0
  BY DataplaneAssumption DEF TypeInv, ReturnPathIdle, Lesser
<1> QED
  BY <1>1 DEF TypeInv, ReturnPathIdle, DebugSendOutgoing, returnVars

\* So does each step of the engine's main loop.
LEMMA TypeEngine == TypeInv /\ EngineStep => TypeInv'
<1> SUFFICES ASSUME TypeInv, EngineStep PROVE TypeInv'
  OBVIOUS
<1> USE DEF TypeInv, TypeOK, ReleaseCounted, ReturnPathIdle, EngineState,
            poolVars, wireVars, engineVars, returnVars, pktzVars, EngineAt
<1>1. CASE EngineUndefined BY <1>1 DEF EngineUndefined
<1>2. CASE EngineLoop BY <1>2 DEF EngineLoop
<1>3. CASE RxFrame
  <2>1. PICK m \in pool : /\ pool' = pool \ {m}
                          /\ data' = [data EXCEPT ![m] = Head(rxq[LcoreQueue])]
                          /\ rxPkts' = Append(rxPkts, m)
    BY <1>3 DEF RxFrame
  <2>2. rxq[LcoreQueue] \in Seq(Frame) /\ rxq[LcoreQueue] # <<>>
    BY <1>3, DataplaneAssumption DEF RxFrame
  <2>3. Head(rxq[LcoreQueue]) \in Frame /\ Tail(rxq[LcoreQueue]) \in Seq(Frame)
    BY <2>2, TailQueue
  <2>4. rxq' \in [Queue -> Seq(Frame)]
    BY <1>3, <2>3 DEF RxFrame
  <2>5. rxPkts' \in Seq(Mbuf) /\ Len(rxPkts') <= RxBurstMax
    BY <1>3, <2>1, AppendQueue, LenProperties, DataplaneAssumption DEF RxFrame
  <2> QED
    BY <1>3, <2>1, <2>3, <2>4, <2>5 DEF RxFrame
<1>4. CASE RxReturn BY <1>4 DEF RxReturn
<1>5. CASE KeepFrame
  <2>1. /\ Tail(rxPkts) \in Seq(Mbuf) /\ Len(Tail(rxPkts)) <= RxBurstMax
        /\ Append(toPacketiser, Head(rxPkts)) \in Seq(Mbuf)
    BY <1>5, TailQueue, AppendQueue, DataplaneAssumption DEF KeepFrame
  <2> QED
    BY <1>5, <2>1 DEF KeepFrame
<1>6. CASE DropFrame
  <2>1. /\ Tail(rxPkts) \in Seq(Mbuf) /\ Len(Tail(rxPkts)) <= RxBurstMax
        /\ Head(rxPkts) \in Mbuf
    BY <1>6, TailQueue, DataplaneAssumption DEF DropFrame
  <2> QED
    BY <1>6, <2>1 DEF DropFrame
<1>7. CASE ClassifyDone BY <1>7 DEF ClassifyDone
<1>8. CASE SendPacket
  <2>1. Tail(toPacketiser) \in Seq(Mbuf) /\ Head(toPacketiser) \in Mbuf
    BY <1>8, TailQueue DEF SendPacket
  <2>2. e2c' \in Seq(Mbuf) /\ Len(e2c') <= RingSize - 1
    BY <1>8, <2>1, AppendQueue, LenProperties, DataplaneAssumption
       DEF SendPacket, RingHasRoom
  <2> QED
    BY <1>8, <2>1, <2>2 DEF SendPacket
<1>9. CASE SendFails
  <2>1. Tail(toPacketiser) \in Seq(Mbuf)
    BY <1>9, TailQueue DEF SendFails
  <2> QED
    BY <1>9, <2>1 DEF SendFails
<1>10. CASE SendDone BY <1>10 DEF SendDone
<1>11. CASE GetFromPacketiser
  BY <1>11, GetIdle DEF GetFromPacketiser
<1>12. CASE SendPktsOut
  BY <1>12, OutIdle DEF SendPktsOut
<1> QED
  BY <1>1, <1>2, <1>3, <1>4, <1>5, <1>6, <1>7, <1>8, <1>9, <1>10, <1>11, <1>12
     DEF EngineStep

\* How many pointers dequeue_burst takes off the ring.
LEMMA BurstCount ==
  ASSUME TypeInv, DequeueBurst
  PROVE  count' \in 0 .. Len(bufs) /\ count' \in 0 .. Len(e2c)
BY LenProperties DEF TypeInv, TypeOK, DequeueBurst, Lesser

\* So does each step of the packetiser's main, its destructors included.
LEMMA TypePacketiser == TypeInv /\ PacketiserStep => TypeInv'
<1> SUFFICES ASSUME TypeInv, PacketiserStep PROVE TypeInv'
  OBVIOUS
<1> USE DEF TypeInv, TypeOK, ReleaseCounted, ReturnPathIdle, PktzState,
            poolVars, wireVars, engineVars, returnVars, pktzVars
<1>1. CASE PacketiserLoop BY <1>1 DEF PacketiserLoop
<1>2. CASE AllocBuf
  <2>1. PICK m \in pool : /\ pool' = pool \ {m}
                          /\ data' = [data EXCEPT ![m] = Empty]
                          /\ bufs' = Append(bufs, m)
    BY <1>2 DEF AllocBuf
  <2>2. bufs' \in Seq(Mbuf) /\ Len(bufs') = Len(bufs) + 1 /\ Len(bufs) \in Nat
    BY <2>1, AppendQueue, LenProperties
  <2>3. Len(bufs') <= BurstMax /\ count' \in 0 .. Len(bufs')
    BY <1>2, <2>2, DataplaneAssumption DEF AllocBuf
  <2> QED
    BY <1>2, <2>1, <2>2, <2>3 DEF AllocBuf
<1>3. CASE AllocDone BY <1>3 DEF AllocDone
<1>4. CASE DequeueBurst
  <2>1. /\ count' \in 0 .. Len(bufs)
        /\ e2c' \in Seq(Mbuf) /\ Len(e2c') = Len(e2c) - count'
    BY <1>4, BurstCount, SuffixQueue DEF DequeueBurst
  <2>2. Len(e2c') <= RingSize - 1
    BY <1>4, <2>1, BurstCount, LenProperties, DataplaneAssumption, SMTT(60)
  <2> QED
    BY <1>4, <2>1, <2>2 DEF DequeueBurst
<1>5. CASE StoreBuf
  <2>1. Len(bufs) \in Nat /\ bufs # <<>>
    BY <1>5, LenProperties DEF StoreBuf
  <2>2. /\ Tail(bufs) \in Seq(Mbuf) /\ Len(Tail(bufs)) = Len(bufs) - 1
        /\ Head(bufs) \in Mbuf
    BY <2>1, TailQueue
  <2>3. Len(bufs') <= BurstMax /\ count' \in 0 .. Len(bufs')
    BY <1>5, <2>1, <2>2, DataplaneAssumption DEF StoreBuf
  <2>4. iBufqueue' \in Seq(Mbuf)
    BY <1>5, <2>2, AppendQueue DEF StoreBuf
  <2> QED
    BY <1>5, <2>2, <2>3, <2>4 DEF StoreBuf
<1>6. CASE StoreDone BY <1>6 DEF StoreDone
<1>7. CASE ReleaseBuf
  <2>1. /\ Tail(bufs) \in Seq(Mbuf) /\ Len(Tail(bufs)) = Len(bufs) - 1
        /\ Len(bufs) \in Nat \ {0} /\ Head(bufs) \in Mbuf
    BY <1>7, TailQueue DEF ReleaseBuf
  <2>2. Len(bufs') <= BurstMax /\ count' \in 0 .. Len(bufs')
    BY <1>7, <2>1, DataplaneAssumption DEF ReleaseBuf
  <2> QED
    BY <1>7, <2>1, <2>2 DEF ReleaseBuf
<1>8. CASE ReleaseDone BY <1>8 DEF ReleaseDone
<1>9. CASE DebugSendOutgoing
  BY <1>9, SpinIdle DEF DebugSendOutgoing
<1>10. CASE DropC2E \/ DropE2C
  <2>1. <<>> \in Seq(Mbuf) /\ Len(<<>>) = 0
    BY EmptySeq
  <2> QED
    BY <1>10, <2>1, DataplaneAssumption DEF DropC2E, DropE2C, DropRing, SharedObject
<1>11. CASE DropMempool BY <1>11 DEF DropMempool, SharedObject
<1>12. CASE DropQueues BY <1>12 DEF DropQueues
<1> QED
  BY <1>1, <1>2, <1>3, <1>4, <1>5, <1>6, <1>7, <1>8, <1>9, <1>10, <1>11, <1>12
     DEF PacketiserStep

\* And a step of neither process.
LEMMA TypeStutter == TypeInv /\ UNCHANGED vars => TypeInv'
BY DEF TypeInv, TypeOK, ReleaseCounted, ReturnPathIdle, vars,
       poolVars, wireVars, engineVars, returnVars, pktzVars

\* TypeInv holds throughout the run of both mains.
LEMMA TypeInvariant == Spec => []TypeInv
<1>1. TypeInv /\ [Next]_vars => TypeInv'
  BY TypeEnvironment, TypeEngine, TypePacketiser, TypeStutter DEF Next
<1> QED
  BY <1>1, TypeInit, PTL DEF Spec

\* In every behaviour of the two processes each variable keeps its type, and
\* no ring, receive burst or pre-allocated burst outgrows its capacity.
THEOREM TypeCorrect == Spec => []TypeOK
<1>1. TypeInv => TypeOK
  BY DEF TypeInv
<1> QED
  BY <1>1, TypeInvariant, PTL

\* Whatever the two processes do, nothing is ever queued for transmission.
THEOREM NothingReturns == Spec => []ReturnPathIdle
<1>1. TypeInv => ReturnPathIdle
  BY DEF TypeInv
<1> QED
  BY <1>1, TypeInvariant, PTL
-----------------------------------------------------------------------------
(* Exclusive ownership. *)

\* The holders' sets, one by one, now and after a step.
LEMMA PlaceNow ==
  /\ DOMAIN place = Holder
  /\ place["pool"] = pool /\ place["rx"] = Range(rxPkts)
  /\ place["to"] = Range(toPacketiser) /\ place["e2c"] = Range(e2c)
  /\ place["bufs"] = Range(bufs) /\ place["iq"] = Range(iBufqueue)
  /\ place["from"] = Range(fromPacketiser) /\ place["out"] = Range(outPkts)
  /\ place["nic"] = nicTx /\ place["c2e"] = Range(c2e)
  /\ place["oq"] = Range(oBufqueue)
BY DEF place, Holder

\* The same after a step.
LEMMA PlaceNext ==
  /\ DOMAIN place' = Holder
  /\ place'["pool"] = pool' /\ place'["rx"] = Range(rxPkts')
  /\ place'["to"] = Range(toPacketiser') /\ place'["e2c"] = Range(e2c')
  /\ place'["bufs"] = Range(bufs') /\ place'["iq"] = Range(iBufqueue')
  /\ place'["from"] = Range(fromPacketiser') /\ place'["out"] = Range(outPkts')
  /\ place'["nic"] = nicTx' /\ place'["c2e"] = Range(c2e')
  /\ place'["oq"] = Range(oBufqueue')
BY DEF place, Holder

\* Handing an mbuf from one holder to another keeps the holders apart.
LEMMA Hand ==
  ASSUME NEW p, NEW r, DOMAIN p = Holder, DOMAIN r = Holder, Disjoint(p),
         NEW a \in Holder, NEW b \in Holder, a # b, NEW m \in p[a],
         r[a] = p[a] \ {m}, r[b] = p[b] \cup {m},
         \A h \in Holder \ {a, b} : r[h] = p[h]
  PROVE  Disjoint(r)
<1>1. SUFFICES ASSUME NEW g \in Holder, NEW h \in Holder, g # h,
                      NEW x \in r[g], x \in r[h]
               PROVE  FALSE
  BY DEF Disjoint
<1>2. \A k \in Holder : x \in r[k] => x \in p[k] \/ (k = b /\ x = m)
  OBVIOUS
<1>3. \A k \in Holder : m \in p[k] => k = a
  BY DEF Disjoint
<1>4. m \notin r[a]
  OBVIOUS
<1>5. ~(x \in p[g] /\ x \in p[h])
  BY <1>1 DEF Disjoint
<1> QED
  BY <1>1, <1>2, <1>3, <1>4, <1>5

\* So does losing mbufs, or leaving everything where it is.
LEMMA Shed ==
  ASSUME NEW p, NEW r, DOMAIN p = Holder, DOMAIN r = Holder, Disjoint(p),
         \A h \in Holder : r[h] \subseteq p[h]
  PROVE  Disjoint(r)
BY DEF Disjoint

\* The holders of mbufs, by name.
LEMMA HolderNames ==
  /\ {"pool", "rx", "to", "e2c", "bufs", "iq"} \subseteq Holder
  /\ \A h \in Holder :
       \/ h = "pool" \/ h = "rx" \/ h = "to" \/ h = "e2c" \/ h = "bufs"
       \/ h = "iq" \/ h = "from" \/ h = "out" \/ h = "nic" \/ h = "c2e"
       \/ h = "oq"
BY DEF Holder

\* What one holder has, no other has.
LEMMA Apart ==
  ASSUME ExclusiveOwnership, NEW g \in Holder, NEW h \in Holder, g # h,
         NEW m \in place[g]
  PROVE  m \notin place[h]
BY PlaceNow DEF ExclusiveOwnership, Disjoint

\* A step that leaves every queue of mbufs alone.
Quiet ==
  UNCHANGED <<pool, rxPkts, toPacketiser, e2c, bufs, iBufqueue, returnVars>>

\* A step that leaves all queues alone leaves the holders apart.
LEMMA QuietOwnership == ExclusiveOwnership /\ Quiet => ExclusiveOwnership'
<1> SUFFICES ASSUME ExclusiveOwnership, Quiet PROVE ExclusiveOwnership'
  OBVIOUS
<1>1. place' = place
  BY DEF place, Quiet, returnVars
<1>2. Disjoint(place)'
  BY <1>1 DEF ExclusiveOwnership, Disjoint
<1>3. NoDuplicates'
  BY DEF ExclusiveOwnership, NoDuplicates, Quiet, returnVars
<1> QED
  BY <1>2, <1>3 DEF ExclusiveOwnership

\* At first the pool has every mbuf.
LEMMA OwnershipInit == Init => ExclusiveOwnership
<1> SUFFICES ASSUME Init PROVE ExclusiveOwnership
  OBVIOUS
<1>1. \A h \in Holder \ {"pool"} : place[h] = {}
  BY PlaceNow, HolderNames, EmptyQueue DEF Init
<1>2. Disjoint(place)
  BY <1>1, PlaceNow DEF Disjoint
<1>3. NoDuplicates
  BY EmptyQueue DEF Init, NoDuplicates
<1> QED
  BY <1>2, <1>3 DEF ExclusiveOwnership

(* What each step that moves an mbuf does to the sets the holders have. *)

\* Port::receive takes an mbuf from the pool.
LEMMA RxFrameMoves ==
  ASSUME TypeInv, ExclusiveOwnership, RxFrame
  PROVE  \E m \in pool :
           /\ pool' = pool \ {m} /\ Range(rxPkts') = Range(rxPkts) \cup {m}
           /\ IsInjective(rxPkts')
           /\ UNCHANGED <<toPacketiser, e2c, bufs, iBufqueue, returnVars>>
<1> USE DEF EngineAt, poolVars, wireVars, engineVars, returnVars, pktzVars
<1>1. PICK m \in pool : pool' = pool \ {m} /\ rxPkts' = Append(rxPkts, m)
  BY DEF RxFrame
<1>2. m \in Mbuf /\ rxPkts \in Seq(Mbuf) /\ m \notin Range(rxPkts)
  BY <1>1, Apart, PlaceNow, HolderNames, ZenonT(60) DEF TypeInv, TypeOK
<1>3. Range(rxPkts') = Range(rxPkts) \cup {m} /\ IsInjective(rxPkts')
  BY <1>1, <1>2, AppendQueue DEF ExclusiveOwnership, NoDuplicates
<1> QED
  BY <1>1, <1>3 DEF RxFrame

\* get_external_pkts moves a received mbuf to TO_PACKETISER.
LEMMA KeepFrameMoves ==
  ASSUME TypeInv, ExclusiveOwnership, KeepFrame
  PROVE  \E m \in Range(rxPkts) :
           /\ Range(rxPkts') = Range(rxPkts) \ {m} /\ Range(toPacketiser') = Range(toPacketiser) \cup {m}
           /\ IsInjective(rxPkts') /\ IsInjective(toPacketiser')
           /\ UNCHANGED <<pool, e2c, bufs, iBufqueue, returnVars>>
<1> USE DEF EngineAt, poolVars, wireVars, engineVars, returnVars, pktzVars
<1> DEFINE m == Head(rxPkts)
<1>1. /\ m \in Mbuf /\ m \in Range(rxPkts) /\ IsInjective(rxPkts')
      /\ Range(rxPkts') = Range(rxPkts) \ {m}
  BY TailQueue DEF KeepFrame, TypeInv, TypeOK, ExclusiveOwnership, NoDuplicates
<1>2. toPacketiser' = Append(toPacketiser, m) /\ toPacketiser \in Seq(Mbuf)
  BY DEF KeepFrame, TypeInv, TypeOK
<1> HIDE DEF m
<1>3. m \notin Range(toPacketiser)
  BY <1>1, Apart, PlaceNow, HolderNames
<1>4. Range(toPacketiser') = Range(toPacketiser) \cup {m} /\ IsInjective(toPacketiser')
  BY <1>1, <1>2, <1>3, AppendQueue DEF ExclusiveOwnership, NoDuplicates
<1> QED
  BY <1>1, <1>4 DEF KeepFrame

\* get_external_pkts frees a received mbuf.
LEMMA DropFrameMoves ==
  ASSUME TypeInv, ExclusiveOwnership, DropFrame
  PROVE  \E m \in Range(rxPkts) :
           /\ Range(rxPkts') = Range(rxPkts) \ {m} /\ pool' = pool \cup {m}
           /\ IsInjective(rxPkts')
           /\ UNCHANGED <<toPacketiser, e2c, bufs, iBufqueue, returnVars>>
<1> USE DEF EngineAt, poolVars, wireVars, engineVars, returnVars, pktzVars
<1> DEFINE m == Head(rxPkts)
<1>1. /\ m \in Mbuf /\ m \in Range(rxPkts) /\ IsInjective(rxPkts')
      /\ Range(rxPkts') = Range(rxPkts) \ {m}
  BY TailQueue DEF DropFrame, TypeInv, TypeOK, ExclusiveOwnership, NoDuplicates
<1> QED
  BY <1>1 DEF DropFrame

\* send_to_packetiser moves an mbuf to the ring.
LEMMA SendPacketMoves ==
  ASSUME TypeInv, ExclusiveOwnership, SendPacket
  PROVE  \E m \in Range(toPacketiser) :
           /\ Range(toPacketiser') = Range(toPacketiser) \ {m} /\ Range(e2c') = Range(e2c) \cup {m}
           /\ IsInjective(toPacketiser') /\ IsInjective(e2c')
           /\ UNCHANGED <<pool, rxPkts, bufs, iBufqueue, returnVars>>
<1> USE DEF EngineAt, poolVars, wireVars, engineVars, returnVars, pktzVars
<1> DEFINE m == Head(toPacketiser)
<1>1. /\ m \in Mbuf /\ m \in Range(toPacketiser) /\ IsInjective(toPacketiser')
      /\ Range(toPacketiser') = Range(toPacketiser) \ {m}
  BY TailQueue DEF SendPacket, TypeInv, TypeOK, ExclusiveOwnership, NoDuplicates
<1>2. e2c' = Append(e2c, m) /\ e2c \in Seq(Mbuf)
  BY DEF SendPacket, TypeInv, TypeOK
<1> HIDE DEF m
<1>3. m \notin Range(e2c)
  BY <1>1, Apart, PlaceNow, HolderNames
<1>4. Range(e2c') = Range(e2c) \cup {m} /\ IsInjective(e2c')
  BY <1>1, <1>2, <1>3, AppendQueue DEF ExclusiveOwnership, NoDuplicates
<1> QED
  BY <1>1, <1>4 DEF SendPacket

\* recv_from_engine_burst allocates an mbuf.
LEMMA AllocBufMoves ==
  ASSUME TypeInv, ExclusiveOwnership, AllocBuf
  PROVE  \E m \in pool :
           /\ pool' = pool \ {m} /\ Range(bufs') = Range(bufs) \cup {m}
           /\ IsInjective(bufs')
           /\ UNCHANGED <<rxPkts, toPacketiser, e2c, iBufqueue, returnVars>>
<1> USE DEF EngineAt, poolVars, wireVars, engineVars, returnVars, pktzVars
<1>1. PICK m \in pool : pool' = pool \ {m} /\ bufs' = Append(bufs, m)
  BY DEF AllocBuf
<1>2. m \in Mbuf /\ bufs \in Seq(Mbuf) /\ m \notin Range(bufs)
  BY <1>1, Apart, PlaceNow, HolderNames, ZenonT(60) DEF TypeInv, TypeOK
<1>3. Range(bufs') = Range(bufs) \cup {m} /\ IsInjective(bufs')
  BY <1>1, <1>2, AppendQueue DEF ExclusiveOwnership, NoDuplicates
<1> QED
  BY <1>1, <1>3 DEF AllocBuf

\* recv_from_engine_burst moves a buffer to i_bufqueue.
LEMMA StoreBufMoves ==
  ASSUME TypeInv, ExclusiveOwnership, StoreBuf
  PROVE  \E m \in Range(bufs) :
           /\ Range(bufs') = Range(bufs) \ {m} /\ Range(iBufqueue') = Range(iBufqueue) \cup {m}
           /\ IsInjective(bufs') /\ IsInjective(iBufqueue')
           /\ UNCHANGED <<pool, rxPkts, toPacketiser, e2c, returnVars>>
<1> USE DEF EngineAt, poolVars, wireVars, engineVars, returnVars, pktzVars
<1>0. bufs # <<>>
  BY LenProperties DEF StoreBuf, TypeInv, TypeOK
<1> DEFINE m == Head(bufs)
<1>1. /\ m \in Mbuf /\ m \in Range(bufs) /\ IsInjective(bufs')
      /\ Range(bufs') = Range(bufs) \ {m}
  BY <1>0, TailQueue DEF StoreBuf, TypeInv, TypeOK, ExclusiveOwnership, NoDuplicates
<1>2. iBufqueue' = Append(iBufqueue, m) /\ iBufqueue \in Seq(Mbuf)
  BY DEF StoreBuf, TypeInv, TypeOK
<1> HIDE DEF m
<1>3. m \notin Range(iBufqueue)
  BY <1>1, Apart, PlaceNow, HolderNames
<1>4. Range(iBufqueue') = Range(iBufqueue) \cup {m} /\ IsInjective(iBufqueue')
  BY <1>1, <1>2, <1>3, AppendQueue DEF ExclusiveOwnership, NoDuplicates
<1> QED
  BY <1>1, <1>4 DEF StoreBuf

\* recv_from_engine_burst frees a buffer it did not use.
LEMMA ReleaseBufMoves ==
  ASSUME TypeInv, ExclusiveOwnership, ReleaseBuf
  PROVE  \E m \in Range(bufs) :
           /\ Range(bufs') = Range(bufs) \ {m} /\ pool' = pool \cup {m}
           /\ IsInjective(bufs')
           /\ UNCHANGED <<rxPkts, toPacketiser, e2c, iBufqueue, returnVars>>
<1> USE DEF EngineAt, poolVars, wireVars, engineVars, returnVars, pktzVars
<1> DEFINE m == Head(bufs)
<1>1. /\ m \in Mbuf /\ m \in Range(bufs) /\ IsInjective(bufs')
      /\ Range(bufs') = Range(bufs) \ {m}
  BY TailQueue DEF ReleaseBuf, TypeInv, TypeOK, ExclusiveOwnership, NoDuplicates
<1> QED
  BY <1>1 DEF ReleaseBuf

(* The steps that lose mbufs. *)

\* A full ring: send_to_packetiser loses the head of TO_PACKETISER.
LEMMA SendFailsLoses ==
  ASSUME TypeInv, ExclusiveOwnership, SendFails
  PROVE  \E m \in Range(toPacketiser) :
           /\ Range(toPacketiser') = Range(toPacketiser) \ {m}
           /\ IsInjective(toPacketiser')
           /\ UNCHANGED <<pool, rxPkts, e2c, bufs, iBufqueue, returnVars>>
BY TailQueue
   DEF SendFails, TypeInv, TypeOK, ExclusiveOwnership, NoDuplicates, EngineAt,
       poolVars, wireVars, engineVars, returnVars, pktzVars

\* The packetiser's burst, or its ring destructor, loses what was on the ring.
LEMMA RingLoses ==
  ASSUME TypeInv, ExclusiveOwnership, DequeueBurst \/ DropC2E \/ DropE2C
  PROVE  /\ Range(e2c') \subseteq Range(e2c) /\ IsInjective(e2c')
         /\ UNCHANGED <<pool, rxPkts, toPacketiser, bufs, iBufqueue, returnVars>>
<1>1. IsInjective(e2c) /\ e2c \in Seq(Mbuf)
  BY DEF TypeInv, TypeOK, ExclusiveOwnership, NoDuplicates
<1>2. CASE DequeueBurst
  BY <1>1, <1>2, BurstCount, SuffixQueue
     DEF DequeueBurst, poolVars, wireVars, engineVars, returnVars, pktzVars
<1>3. CASE DropC2E
  BY <1>1, <1>3 DEF DropC2E, DropRing, TypeInv, ReturnPathIdle, poolVars,
                    wireVars, engineVars, returnVars, pktzVars
<1>4. CASE DropE2C
  BY <1>1, <1>4, EmptyQueue DEF DropE2C, DropRing, poolVars, wireVars,
                                engineVars, returnVars, pktzVars
<1> QED
  BY <1>2, <1>3, <1>4

(* All other steps leave the queues alone. *)

\* The steps of the two mains that move no mbuf.
LEMMA QuietSteps ==
  ASSUME TypeInv,
         \/ UNCHANGED vars \/ Arrive \/ EngineCtrlC \/ PacketiserCtrlC
         \/ EngineUndefined \/ EngineLoop \/ RxReturn \/ ClassifyDone \/ SendDone
         \/ GetFromPacketiser \/ SendPktsOut
         \/ PacketiserLoop \/ AllocDone \/ StoreDone \/ ReleaseDone
         \/ DebugSendOutgoing \/ DropMempool \/ DropQueues
  PROVE  Quiet
BY GetIdle, OutIdle, SpinIdle
   DEF Quiet, vars, Arrive, EngineCtrlC, PacketiserCtrlC, EngineUndefined,
       EngineLoop, RxReturn, ClassifyDone, SendDone, GetFromPacketiser,
       SendPktsOut, PacketiserLoop, AllocDone, StoreDone, ReleaseDone,
       DebugSendOutgoing, DropMempool, DropQueues,
       poolVars, wireVars, engineVars, returnVars, pktzVars

\* No step of either process gives an mbuf a second holder.
LEMMA OwnershipStep ==
  TypeInv /\ ExclusiveOwnership /\ [Next]_vars => ExclusiveOwnership'
<1> SUFFICES ASSUME TypeInv, ExclusiveOwnership, [Next]_vars
             PROVE  ExclusiveOwnership'
  OBVIOUS
<1>1. CASE RxFrame
  <2>1. PICK m \in pool :
          /\ pool' = pool \ {m} /\ Range(rxPkts') = Range(rxPkts) \cup {m}
          /\ IsInjective(rxPkts')
          /\ UNCHANGED <<toPacketiser, e2c, bufs, iBufqueue, returnVars>>
    BY <1>1, RxFrameMoves
  <2>2. \A h \in Holder \ {"pool", "rx"} : place'[h] = place[h]
    BY <2>1, PlaceNow, PlaceNext, HolderNames DEF returnVars
  <2>3. Disjoint(place')
    BY <2>1, <2>2, PlaceNow, PlaceNext, HolderNames, Hand DEF ExclusiveOwnership
  <2>4. NoDuplicates'
    BY <2>1 DEF ExclusiveOwnership, NoDuplicates, returnVars
  <2> QED
    BY <2>3, <2>4 DEF ExclusiveOwnership
<1>2. CASE KeepFrame
  <2>1. PICK m \in Range(rxPkts) :
          /\ Range(rxPkts') = Range(rxPkts) \ {m} /\ Range(toPacketiser') = Range(toPacketiser) \cup {m}
          /\ IsInjective(rxPkts') /\ IsInjective(toPacketiser')
          /\ UNCHANGED <<pool, e2c, bufs, iBufqueue, returnVars>>
    BY <1>2, KeepFrameMoves
  <2>2. \A h \in Holder \ {"rx", "to"} : place'[h] = place[h]
    BY <2>1, PlaceNow, PlaceNext, HolderNames DEF returnVars
  <2>3. Disjoint(place')
    BY <2>1, <2>2, PlaceNow, PlaceNext, HolderNames, Hand DEF ExclusiveOwnership
  <2>4. NoDuplicates'
    BY <2>1 DEF ExclusiveOwnership, NoDuplicates, returnVars
  <2> QED
    BY <2>3, <2>4 DEF ExclusiveOwnership
<1>3. CASE DropFrame
  <2>1. PICK m \in Range(rxPkts) :
          /\ Range(rxPkts') = Range(rxPkts) \ {m} /\ pool' = pool \cup {m}
          /\ IsInjective(rxPkts')
          /\ UNCHANGED <<toPacketiser, e2c, bufs, iBufqueue, returnVars>>
    BY <1>3, DropFrameMoves
  <2>2. \A h \in Holder \ {"rx", "pool"} : place'[h] = place[h]
    BY <2>1, PlaceNow, PlaceNext, HolderNames DEF returnVars
  <2>3. Disjoint(place')
    BY <2>1, <2>2, PlaceNow, PlaceNext, HolderNames, Hand DEF ExclusiveOwnership
  <2>4. NoDuplicates'
    BY <2>1 DEF ExclusiveOwnership, NoDuplicates, returnVars
  <2> QED
    BY <2>3, <2>4 DEF ExclusiveOwnership
<1>4. CASE SendPacket
  <2>1. PICK m \in Range(toPacketiser) :
          /\ Range(toPacketiser') = Range(toPacketiser) \ {m} /\ Range(e2c') = Range(e2c) \cup {m}
          /\ IsInjective(toPacketiser') /\ IsInjective(e2c')
          /\ UNCHANGED <<pool, rxPkts, bufs, iBufqueue, returnVars>>
    BY <1>4, SendPacketMoves
  <2>2. \A h \in Holder \ {"to", "e2c"} : place'[h] = place[h]
    BY <2>1, PlaceNow, PlaceNext, HolderNames DEF returnVars
  <2>3. Disjoint(place')
    BY <2>1, <2>2, PlaceNow, PlaceNext, HolderNames, Hand DEF ExclusiveOwnership
  <2>4. NoDuplicates'
    BY <2>1 DEF ExclusiveOwnership, NoDuplicates, returnVars
  <2> QED
    BY <2>3, <2>4 DEF ExclusiveOwnership
<1>5. CASE AllocBuf
  <2>1. PICK m \in pool :
          /\ pool' = pool \ {m} /\ Range(bufs') = Range(bufs) \cup {m}
          /\ IsInjective(bufs')
          /\ UNCHANGED <<rxPkts, toPacketiser, e2c, iBufqueue, returnVars>>
    BY <1>5, AllocBufMoves
  <2>2. \A h \in Holder \ {"pool", "bufs"} : place'[h] = place[h]
    BY <2>1, PlaceNow, PlaceNext, HolderNames DEF returnVars
  <2>3. Disjoint(place')
    BY <2>1, <2>2, PlaceNow, PlaceNext, HolderNames, Hand DEF ExclusiveOwnership
  <2>4. NoDuplicates'
    BY <2>1 DEF ExclusiveOwnership, NoDuplicates, returnVars
  <2> QED
    BY <2>3, <2>4 DEF ExclusiveOwnership
<1>6. CASE StoreBuf
  <2>1. PICK m \in Range(bufs) :
          /\ Range(bufs') = Range(bufs) \ {m} /\ Range(iBufqueue') = Range(iBufqueue) \cup {m}
          /\ IsInjective(bufs') /\ IsInjective(iBufqueue')
          /\ UNCHANGED <<pool, rxPkts, toPacketiser, e2c, returnVars>>
    BY <1>6, StoreBufMoves
  <2>2. \A h \in Holder \ {"bufs", "iq"} : place'[h] = place[h]
    BY <2>1, PlaceNow, PlaceNext, HolderNames DEF returnVars
  <2>3. Disjoint(place')
    BY <2>1, <2>2, PlaceNow, PlaceNext, HolderNames, Hand DEF ExclusiveOwnership
  <2>4. NoDuplicates'
    BY <2>1 DEF ExclusiveOwnership, NoDuplicates, returnVars
  <2> QED
    BY <2>3, <2>4 DEF ExclusiveOwnership
<1>7. CASE ReleaseBuf
  <2>1. PICK m \in Range(bufs) :
          /\ Range(bufs') = Range(bufs) \ {m} /\ pool' = pool \cup {m}
          /\ IsInjective(bufs')
          /\ UNCHANGED <<rxPkts, toPacketiser, e2c, iBufqueue, returnVars>>
    BY <1>7, ReleaseBufMoves
  <2>2. \A h \in Holder \ {"bufs", "pool"} : place'[h] = place[h]
    BY <2>1, PlaceNow, PlaceNext, HolderNames DEF returnVars
  <2>3. Disjoint(place')
    BY <2>1, <2>2, PlaceNow, PlaceNext, HolderNames, Hand DEF ExclusiveOwnership
  <2>4. NoDuplicates'
    BY <2>1 DEF ExclusiveOwnership, NoDuplicates, returnVars
  <2> QED
    BY <2>3, <2>4 DEF ExclusiveOwnership
<1>8. CASE SendFails \/ DequeueBurst \/ DropC2E \/ DropE2C
  <2>1. /\ Range(toPacketiser') \subseteq Range(toPacketiser)
        /\ Range(e2c') \subseteq Range(e2c)
        /\ IsInjective(toPacketiser') /\ IsInjective(e2c')
        /\ UNCHANGED <<pool, rxPkts, bufs, iBufqueue, returnVars>>
    BY <1>8, SendFailsLoses, RingLoses DEF ExclusiveOwnership, NoDuplicates
  <2>2. \A h \in Holder : place'[h] \subseteq place[h]
    BY <2>1, PlaceNow, PlaceNext, HolderNames DEF returnVars
  <2>3. Disjoint(place')
    BY <2>2, PlaceNow, PlaceNext, Shed DEF ExclusiveOwnership
  <2>4. NoDuplicates'
    BY <2>1 DEF ExclusiveOwnership, NoDuplicates, returnVars
  <2> QED
    BY <2>3, <2>4 DEF ExclusiveOwnership
<1>9. CASE Quiet
  BY <1>9, QuietOwnership
<1> QED
  BY <1>1, <1>2, <1>3, <1>4, <1>5, <1>6, <1>7, <1>8, <1>9, QuietSteps
     DEF Next, EngineStep, PacketiserStep

\* However the engine and the packetiser interleave, no mbuf is ever in two
\* places, or twice in one queue: no double free through Mbuf::drop and no
\* two processes writing one packet.
THEOREM OwnershipExclusive == Spec => []ExclusiveOwnership
BY OwnershipInit, OwnershipStep, TypeInvariant, PTL DEF Spec

-----------------------------------------------------------------------------
(* Refinement of MbufOwnership. *)

Parties == {"pool", "engine", "ring", "packetiser"}

\* What each party of MbufOwnership has while the way back is idle.
LEMMA OwnedNow ==
  ASSUME TypeInv
  PROVE  owned = [p \in Parties |->
                    CASE p = "pool"       -> pool
                      [] p = "engine"     -> Range(rxPkts) \cup Range(toPacketiser)
                      [] p = "ring"       -> Range(e2c)
                      [] p = "packetiser" -> Range(bufs) \cup Range(iBufqueue)]
<1>1. /\ Range(fromPacketiser) = {} /\ Range(outPkts) = {} /\ nicTx = {}
      /\ Range(c2e) = {} /\ Range(oBufqueue) = {}
  BY EmptyQueue DEF TypeInv, ReturnPathIdle
<1>2. /\ UNION {place[h] : h \in {"rx", "to", "from", "out", "nic"}}
           = Range(rxPkts) \cup Range(toPacketiser)
      /\ UNION {place[h] : h \in {"e2c", "c2e"}} = Range(e2c)
      /\ UNION {place[h] : h \in {"bufs", "iq", "oq"}} = Range(bufs) \cup Range(iBufqueue)
  BY <1>1, PlaceNow
<1> QED
  BY <1>2 DEF owned, Parties

\* The same after a step.
LEMMA OwnedNext ==
  ASSUME TypeInv'
  PROVE  owned' = [p \in Parties |->
                    CASE p = "pool"       -> pool'
                      [] p = "engine"     -> Range(rxPkts') \cup Range(toPacketiser')
                      [] p = "ring"       -> Range(e2c')
                      [] p = "packetiser" -> Range(bufs') \cup Range(iBufqueue')]
<1>1. /\ Range(fromPacketiser') = {} /\ Range(outPkts') = {} /\ nicTx' = {}
      /\ Range(c2e') = {} /\ Range(oBufqueue') = {}
  BY EmptyQueue DEF TypeInv, ReturnPathIdle
<1>2. /\ UNION {place'[h] : h \in {"rx", "to", "from", "out", "nic"}}
           = Range(rxPkts') \cup Range(toPacketiser')
      /\ UNION {place'[h] : h \in {"e2c", "c2e"}} = Range(e2c')
      /\ UNION {place'[h] : h \in {"bufs", "iq", "oq"}} = Range(bufs') \cup Range(iBufqueue')
  BY <1>1, PlaceNext
<1> QED
  BY <1>2 DEF owned, Parties

\* At first every mbuf is the pool's in MbufOwnership too.
LEMMA OwnedInit == Init => Ownership!Init
<1> SUFFICES ASSUME Init PROVE Ownership!Init
  OBVIOUS
<1>1. owned = [p \in Parties |->
                 CASE p = "pool"       -> pool
                   [] p = "engine"     -> Range(rxPkts) \cup Range(toPacketiser)
                   [] p = "ring"       -> Range(e2c)
                   [] p = "packetiser" -> Range(bufs) \cup Range(iBufqueue)]
  BY TypeInit, OwnedNow
<1>2. owned = [p \in Parties |-> IF p = "pool" THEN Mbuf ELSE {}]
  BY <1>1, EmptyQueue DEF Init, Parties
<1> QED
  BY <1>2 DEF Ownership!Init, Ownership!Party, Parties

\* A step that gives one mbuf from party a to party b.
LEMMA GiveStep ==
  ASSUME NEW p, NEW r, NEW a \in Parties, NEW b \in Parties, a # b, NEW m,
         p = [x \in Parties |-> p[x]], r = [x \in Parties |-> r[x]],
         r[a] = p[a] \ {m}, r[b] = p[b] \cup {m},
         \A x \in Parties \ {a, b} : r[x] = p[x]
  PROVE  r = [p EXCEPT ![a] = @ \ {m}, ![b] = @ \cup {m}]
OBVIOUS

\* A step after which party a has no more than before.
LEMMA LoseStep ==
  ASSUME NEW p, NEW r, NEW a \in Parties, NEW S,
         p = [x \in Parties |-> p[x]], r = [x \in Parties |-> r[x]],
         r[a] = p[a] \ S, \A x \in Parties \ {a} : r[x] = p[x]
  PROVE  r = [p EXCEPT ![a] = @ \ S]
OBVIOUS

\* Every step of the data plane is a step of MbufOwnership or leaves every
\* party's mbufs alone.
LEMMA OwnedStep ==
  ASSUME TypeInv, TypeInv', ExclusiveOwnership, [Next]_vars
  PROVE  [Ownership!Next]_owned
<1> DEFINE E == Range(rxPkts) \cup Range(toPacketiser)
           P == Range(bufs) \cup Range(iBufqueue)
<1>1. /\ owned = [p \in Parties |-> owned[p]] /\ owned["pool"] = pool
      /\ owned["engine"] = E /\ owned["ring"] = Range(e2c) /\ owned["packetiser"] = P
  BY OwnedNow DEF Parties
<1>2. /\ owned' = [p \in Parties |-> owned'[p]] /\ owned'["pool"] = pool'
      /\ owned'["engine"] = E' /\ owned'["ring"] = Range(e2c') /\ owned'["packetiser"] = P'
  BY OwnedNext DEF Parties
<1>3. pool \subseteq Mbuf /\ E \subseteq Mbuf /\ Range(e2c) \subseteq Mbuf /\ P \subseteq Mbuf
  BY SeqRange DEF TypeInv, TypeOK
<1>4. ASSUME NEW a \in Parties, NEW b \in Parties, <<a, b>> \in Ownership!Edge, a # b,
             NEW m \in Mbuf, m \in owned[a],
             owned'[a] = owned[a] \ {m}, owned'[b] = owned[b] \cup {m},
             \A x \in Parties \ {a, b} : owned'[x] = owned[x]
      PROVE  Ownership!Next
  <2>1. owned' = [owned EXCEPT ![a] = @ \ {m}, ![b] = @ \cup {m}]
    BY <1>1, <1>2, <1>4, GiveStep
  <2>2. Ownership!Give(a, b, m)
    BY <1>4, <2>1 DEF Ownership!Give
  <2> QED
    BY <1>4, <2>2 DEF Ownership!Next
<1>5. ASSUME NEW a \in {"engine", "ring"}, NEW S \in SUBSET owned[a],
             owned'[a] = owned[a] \ S, \A x \in Parties \ {a} : owned'[x] = owned[x]
      PROVE  Ownership!Next
  <2>1. owned' = [owned EXCEPT ![a] = @ \ S]
    BY <1>1, <1>2, <1>5, LoseStep DEF Parties
  <2>2. Ownership!Lose(a, S)
    BY <2>1 DEF Ownership!Lose
  <2> QED
    BY <2>2 DEF Ownership!Next, Ownership!Leaky
<1>6. ASSUME UNCHANGED <<pool, E, e2c, P>> PROVE owned' = owned
  BY <1>1, <1>2, <1>6 DEF Parties
<1>7. CASE RxFrame
  <2>1. PICK m \in pool :
          /\ pool' = pool \ {m} /\ Range(rxPkts') = Range(rxPkts) \cup {m}
          /\ UNCHANGED <<toPacketiser, e2c, bufs, iBufqueue>>
    BY <1>7, RxFrameMoves
  <2>3. pool' = pool \ {m} /\ E' = E \cup {m} /\ m \in pool
    BY <2>1
  <2>4. <<"pool", "engine">> \in Ownership!Edge
    BY DEF Ownership!Edge
  <2> QED
    BY <1>1, <1>2, <1>3, <1>4, <2>1, <2>3, <2>4 DEF Parties
<1>8. CASE KeepFrame
  <2>1. PICK m \in Range(rxPkts) :
          /\ Range(rxPkts') = Range(rxPkts) \ {m} /\ Range(toPacketiser') = Range(toPacketiser) \cup {m}
          /\ UNCHANGED <<pool, e2c, bufs, iBufqueue>>
    BY <1>8, KeepFrameMoves
  <2> QED
    BY <1>6, <2>1
<1>9. CASE DropFrame
  <2>1. PICK m \in Range(rxPkts) :
          /\ Range(rxPkts') = Range(rxPkts) \ {m} /\ pool' = pool \cup {m}
          /\ UNCHANGED <<toPacketiser, e2c, bufs, iBufqueue>>
    BY <1>9, DropFrameMoves
  <2>2. m \notin Range(toPacketiser)
    BY <2>1, Apart, PlaceNow, HolderNames
  <2>3. E' = E \ {m} /\ pool' = pool \cup {m} /\ m \in E
    BY <2>1, <2>2
  <2>4. <<"engine", "pool">> \in Ownership!Edge
    BY DEF Ownership!Edge
  <2> QED
    BY <1>1, <1>2, <1>3, <1>4, <2>1, <2>3, <2>4 DEF Parties
<1>10. CASE SendPacket
  <2>1. PICK m \in Range(toPacketiser) :
          /\ Range(toPacketiser') = Range(toPacketiser) \ {m} /\ Range(e2c') = Range(e2c) \cup {m}
          /\ UNCHANGED <<pool, rxPkts, bufs, iBufqueue>>
    BY <1>10, SendPacketMoves
  <2>2. m \notin Range(rxPkts)
    BY <2>1, Apart, PlaceNow, HolderNames
  <2>3. E' = E \ {m} /\ Range(e2c') = Range(e2c) \cup {m} /\ m \in E
    BY <2>1, <2>2
  <2>4. <<"engine", "ring">> \in Ownership!Edge
    BY DEF Ownership!Edge
  <2> QED
    BY <1>1, <1>2, <1>3, <1>4, <2>1, <2>3, <2>4 DEF Parties
<1>11. CASE AllocBuf
  <2>1. PICK m \in pool :
          /\ pool' = pool \ {m} /\ Range(bufs') = Range(bufs) \cup {m}
          /\ UNCHANGED <<rxPkts, toPacketiser, e2c, iBufqueue>>
    BY <1>11, AllocBufMoves
  <2>3. pool' = pool \ {m} /\ P' = P \cup {m} /\ m \in pool
    BY <2>1
  <2>4. <<"pool", "packetiser">> \in Ownership!Edge
    BY DEF Ownership!Edge
  <2> QED
    BY <1>1, <1>2, <1>3, <1>4, <2>1, <2>3, <2>4 DEF Parties
<1>12. CASE StoreBuf
  <2>1. PICK m \in Range(bufs) :
          /\ Range(bufs') = Range(bufs) \ {m} /\ Range(iBufqueue') = Range(iBufqueue) \cup {m}
          /\ UNCHANGED <<pool, rxPkts, toPacketiser, e2c>>
    BY <1>12, StoreBufMoves
  <2> QED
    BY <1>6, <2>1
<1>13. CASE ReleaseBuf
  <2>1. PICK m \in Range(bufs) :
          /\ Range(bufs') = Range(bufs) \ {m} /\ pool' = pool \cup {m}
          /\ UNCHANGED <<rxPkts, toPacketiser, e2c, iBufqueue>>
    BY <1>13, ReleaseBufMoves
  <2>2. m \notin Range(iBufqueue)
    BY <2>1, Apart, PlaceNow, HolderNames
  <2>3. P' = P \ {m} /\ pool' = pool \cup {m} /\ m \in P
    BY <2>1, <2>2
  <2>4. <<"packetiser", "pool">> \in Ownership!Edge
    BY DEF Ownership!Edge
  <2> QED
    BY <1>1, <1>2, <1>3, <1>4, <2>1, <2>3, <2>4 DEF Parties
<1>14. CASE SendFails
  <2>1. PICK m \in Range(toPacketiser) :
          /\ Range(toPacketiser') = Range(toPacketiser) \ {m}
          /\ UNCHANGED <<pool, rxPkts, e2c, bufs, iBufqueue>>
    BY <1>14, SendFailsLoses
  <2>2. m \notin Range(rxPkts)
    BY <2>1, Apart, PlaceNow, HolderNames
  <2>3. E' = E \ {m} /\ {m} \in SUBSET E
    BY <2>1, <2>2
  <2> QED
    BY <1>1, <1>2, <1>5, <2>1, <2>3 DEF Parties
<1>15. CASE DequeueBurst \/ DropC2E \/ DropE2C
  <2>1. /\ Range(e2c') \subseteq Range(e2c)
        /\ UNCHANGED <<pool, rxPkts, toPacketiser, bufs, iBufqueue>>
    BY <1>15, RingLoses
  <2> DEFINE S == Range(e2c) \ Range(e2c')
  <2>2. Range(e2c') = Range(e2c) \ S /\ S \in SUBSET Range(e2c)
    BY <2>1
  <2> QED
    BY <1>1, <1>2, <1>5, <2>1, <2>2, ZenonT(60) DEF Parties
<1>16. CASE Quiet
  BY <1>6, <1>16 DEF Quiet
<1> QED
  BY <1>7, <1>8, <1>9, <1>10, <1>11, <1>12, <1>13, <1>14, <1>15, <1>16, QuietSteps
     DEF Next, EngineStep, PacketiserStep

\* The two processes implement MbufOwnership: an mbuf changes hands only along
\* its edges, and one that dequeue_burst or a full ring lost never comes back.
THEOREM ImplementsOwnership == Spec => OwnershipSpec
<1>1. TypeInv /\ TypeInv' /\ ExclusiveOwnership /\ [Next]_vars => [Ownership!Next]_owned
  BY OwnedStep
<1> QED
  BY <1>1, OwnedInit, TypeInvariant, OwnershipExclusive, PTL
     DEF Spec, OwnershipSpec, Ownership!Spec
-----------------------------------------------------------------------------
(* Released memory. *)

Dropping == {"dropE2C", "dropPool", "dropQueues", "exited", "undefined"}

\* Nothing is released before the packetiser's destructors start, and once
\* they have started the packetiser never runs its loop again.
DropInv == freed # {} \/ engine = "undefined" => pktz \in Dropping

\* Only the packetiser's destructors release a shared object.
LEMMA DropStep == DropInv /\ [Next]_vars => DropInv'
<1> SUFFICES ASSUME DropInv, [Next]_vars PROVE DropInv'
  OBVIOUS
<1> USE DEF DropInv, Dropping, poolVars, wireVars, engineVars, returnVars, pktzVars
<1>1. CASE UNCHANGED vars BY <1>1 DEF vars
<1>2. CASE Arrive \/ EngineCtrlC \/ PacketiserCtrlC
  BY <1>2 DEF Arrive, EngineCtrlC, PacketiserCtrlC
<1>3. CASE EngineUndefined
  <2>1. freed # {}
    BY <1>3 DEF EngineUndefined
  <2> QED
    BY <1>3, <2>1 DEF EngineUndefined
<1>4. CASE EngineStep /\ ~EngineUndefined
  BY <1>4 DEF EngineStep, EngineAt, EngineLoop, RxFrame, RxReturn, KeepFrame,
              DropFrame, ClassifyDone, SendPacket, SendFails, SendDone,
              GetFromPacketiser, SendPktsOut
<1>5. CASE PacketiserStep
  BY <1>5 DEF PacketiserStep, PacketiserLoop, AllocBuf, AllocDone, DequeueBurst,
              StoreBuf, StoreDone, ReleaseBuf, ReleaseDone, DebugSendOutgoing,
              DropC2E, DropE2C, DropRing, DropMempool, DropQueues
<1> QED
  BY <1>1, <1>2, <1>3, <1>4, <1>5 DEF Next

\* Only the packetiser's destructors can make the engine touch released
\* memory: until DropC2E has run, the engine's pointers are good.
THEOREM EngineSafe == Spec => []EngineSafeUntilDrop
<1>1. Init => DropInv
  BY DEF Init, DropInv
<1>2. DropInv => EngineSafeUntilDrop
  BY DEF DropInv, Dropping, EngineSafeUntilDrop
<1> QED
  BY <1>1, <1>2, DropStep, PTL DEF Spec

-----------------------------------------------------------------------------
(* The price of a received packet. *)

\* All mbufs somebody holds, while the way back is idle.
Held == pool \cup Range(rxPkts) \cup Range(toPacketiser) \cup Range(e2c)
             \cup Range(bufs) \cup Range(iBufqueue)

\* The lost mbufs are those no queue, ring or pool holds, and they are finite.
LEMMA LostNow ==
  ASSUME TypeInv
  PROVE  Lost = Mbuf \ Held /\ IsFiniteSet(Lost)
<1>1. /\ Range(fromPacketiser) = {} /\ Range(outPkts) = {} /\ nicTx = {}
      /\ Range(c2e) = {} /\ Range(oBufqueue) = {}
  BY EmptyQueue DEF TypeInv, ReturnPathIdle
<1>2. UNION {place[h] : h \in Holder} = Held
  BY <1>1, PlaceNow, HolderNames DEF Held, Holder
<1> QED
  BY <1>2, DataplaneAssumption, FS_Difference DEF Lost

\* recv_from_engine_burst counts buffers to store only between the ring and
\* i_bufqueue, so each burst starts from none.
CountOnlyStoring == pktz # "store" => count = 0
LeakInv == CountOnlyStoring /\ EveryReceiveLeaks

\* A step other than the burst loses mbufs or none, finds none again, and
\* stores no buffer that was not counted.
LEMMA HeldShrinks ==
  ASSUME TypeInv, ExclusiveOwnership, [Next]_vars, ~DequeueBurst
  PROVE  Held' \subseteq Held
<1> USE DEF Held
<1>1. CASE RxFrame
  BY <1>1, RxFrameMoves
<1>2. CASE KeepFrame
  BY <1>2, KeepFrameMoves
<1>3. CASE DropFrame
  BY <1>3, DropFrameMoves
<1>4. CASE SendPacket
  BY <1>4, SendPacketMoves
<1>5. CASE AllocBuf
  BY <1>5, AllocBufMoves
<1>6. CASE StoreBuf
  BY <1>6, StoreBufMoves
<1>7. CASE ReleaseBuf
  BY <1>7, ReleaseBufMoves
<1>8. CASE SendFails
  BY <1>8, SendFailsLoses
<1>9. CASE DropC2E \/ DropE2C
  BY <1>9, RingLoses
<1>10. CASE Quiet
  BY <1>10 DEF Quiet
<1> QED
  BY <1>1, <1>2, <1>3, <1>4, <1>5, <1>6, <1>7, <1>8, <1>9, <1>10, QuietSteps
     DEF Next, EngineStep, PacketiserStep

\* A step other than the burst stores only buffers the burst has counted.
LEMMA StoredWereCounted ==
  ASSUME TypeInv, CountOnlyStoring, [Next]_vars, ~DequeueBurst
  PROVE  CountOnlyStoring' /\ Len(iBufqueue') + count' = Len(iBufqueue) + count
<1> USE DEF CountOnlyStoring
<1>1. CASE StoreBuf
  <2>1. bufs # <<>> /\ bufs \in Seq(Mbuf) /\ iBufqueue \in Seq(Mbuf) /\ count \in Nat
    BY <1>1, LenProperties DEF StoreBuf, TypeInv, TypeOK
  <2>2. Len(iBufqueue') = Len(iBufqueue) + 1 /\ Len(iBufqueue) \in Nat
    BY <1>1, <2>1, TailQueue, AppendQueue, LenProperties DEF StoreBuf
  <2>3. pktz = "store" /\ pktz' = "store" /\ count' = count - 1
    BY <1>1 DEF StoreBuf
  <2> QED
    BY <2>1, <2>2, <2>3
<1>2. CASE StoreDone
  BY <1>2 DEF StoreDone, pktzVars
<1>3. CASE PacketiserStep /\ ~StoreBuf /\ ~StoreDone
  BY <1>3 DEF PacketiserStep, PacketiserLoop, AllocBuf, AllocDone,
              ReleaseBuf, ReleaseDone, DebugSendOutgoing,
              DropC2E, DropE2C, DropRing, DropMempool, DropQueues, pktzVars
<1>4. CASE EngineStep
  BY <1>4 DEF EngineStep, EngineUndefined, EngineLoop, RxFrame, RxReturn, KeepFrame,
              DropFrame, ClassifyDone, SendPacket, SendFails, SendDone,
              GetFromPacketiser, SendPktsOut, pktzVars
<1>5. CASE UNCHANGED vars \/ Arrive \/ EngineCtrlC \/ PacketiserCtrlC
  BY <1>5 DEF vars, Arrive, EngineCtrlC, PacketiserCtrlC, pktzVars
<1> QED
  BY <1>1, <1>2, <1>3, <1>4, <1>5 DEF Next

\* Every entry that dequeue_burst takes off the ring is lost.
LEMMA BurstLoses ==
  ASSUME TypeInv, ExclusiveOwnership, DequeueBurst
  PROVE  \E D \in SUBSET Mbuf :
           /\ IsFiniteSet(D) /\ Cardinality(D) = count'
           /\ D \subseteq Held /\ Held' \subseteq Held \ D
<1> DEFINE k == count'
           D == {e2c[i] : i \in 1 .. k}
<1>1. /\ e2c \in Seq(Mbuf) /\ IsInjective(e2c) /\ Len(e2c) \in Nat
      /\ k \in 0 .. Len(e2c) /\ e2c' = SubSeq(e2c, k + 1, Len(e2c))
  BY BurstCount, LenProperties
     DEF TypeInv, TypeOK, ExclusiveOwnership, NoDuplicates, DequeueBurst
<1>2. UNCHANGED <<pool, rxPkts, toPacketiser, bufs, iBufqueue>>
  BY RingLoses
<1> HIDE DEF k
<1>3. IsFiniteSet(D) /\ Cardinality(D) = k
  BY <1>1, PrefixCount
<1>4. D \subseteq Range(e2c) /\ Range(e2c) \subseteq Mbuf /\ DOMAIN e2c = 1 .. Len(e2c)
  BY <1>1, SeqRange
<1>5. Range(e2c') \subseteq Range(e2c) \ D
  <2>1. \A i \in (k + 1) .. Len(e2c) : e2c[i] \in Mbuf
    BY <1>1, ElementOfSeq
  <2>2. /\ e2c' \in Seq(Mbuf) /\ Len(e2c') = Len(e2c) - k
        /\ \A i \in 1 .. Len(e2c) - k : e2c'[i] = e2c[k + i]
    BY <1>1, <2>1, SubSeqProperties
  <2>3. Range(e2c') = {e2c'[i] : i \in 1 .. Len(e2c')}
    BY <2>2, SeqRange
  <2>4. ASSUME NEW i \in 1 .. Len(e2c') PROVE e2c'[i] \in Range(e2c) \ D
    <3>1. k + i \in 1 .. Len(e2c) /\ e2c'[i] = e2c[k + i]
      BY <1>1, <2>2
    <3>2. \A j \in 1 .. k : j \in 1 .. Len(e2c) /\ j # k + i
      BY <1>1, <2>2
    <3>3. \A j \in 1 .. k : e2c[j] # e2c[k + i]
      BY <1>1, <1>4, <3>1, <3>2 DEF IsInjective
    <3>4. e2c[k + i] \in Range(e2c)
      BY <1>1, <3>1, SeqRange
    <3> QED
      BY <3>1, <3>3, <3>4
  <2> QED
    BY <2>3, <2>4
<1>6. \A m \in Range(e2c) : m \notin pool \cup Range(rxPkts) \cup Range(toPacketiser)
                                          \cup Range(bufs) \cup Range(iBufqueue)
  BY Apart, PlaceNow, HolderNames
<1>7. D \subseteq Held /\ Held' \subseteq Held \ D
  BY <1>2, <1>4, <1>5, <1>6 DEF Held
<1> QED
  BY <1>3, <1>4, <1>7 DEF k

\* Each step keeps the balance of stored and lost mbufs.
LEMMA LeakStep ==
  ASSUME TypeInv, TypeInv', ExclusiveOwnership, LeakInv, [Next]_vars
  PROVE  LeakInv'
<1>1. Lost = Mbuf \ Held /\ IsFiniteSet(Lost)
  BY LostNow
<1>2. Lost' = Mbuf \ Held' /\ IsFiniteSet(Lost')
  <2>1. /\ Range(fromPacketiser') = {} /\ Range(outPkts') = {} /\ nicTx' = {}
        /\ Range(c2e') = {} /\ Range(oBufqueue') = {}
    BY EmptyQueue DEF TypeInv, ReturnPathIdle
  <2>2. UNION {place'[h] : h \in Holder} = Held'
    BY <2>1, PlaceNext, HolderNames DEF Held, Holder
  <2> QED
    BY <2>2, DataplaneAssumption, FS_Difference DEF Lost
<1>3. /\ Cardinality(Lost) \in Nat /\ Cardinality(Lost') \in Nat
      /\ Len(iBufqueue) \in Nat /\ count \in Nat
  BY <1>1, <1>2, FS_CardinalityType, LenProperties DEF TypeInv, TypeOK
<1>4. CASE ~DequeueBurst
  <2>1. Lost \subseteq Lost'
    BY <1>1, <1>2, <1>4, HeldShrinks
  <2>2. Cardinality(Lost) <= Cardinality(Lost')
    BY <1>2, <2>1, FS_Subset
  <2>3. CountOnlyStoring' /\ Len(iBufqueue') + count' = Len(iBufqueue) + count
    BY <1>4, StoredWereCounted DEF LeakInv
  <2> QED
    BY <1>3, <2>2, <2>3 DEF LeakInv, EveryReceiveLeaks
<1>5. CASE DequeueBurst
  <2>1. PICK D \in SUBSET Mbuf :
          /\ IsFiniteSet(D) /\ Cardinality(D) = count'
          /\ D \subseteq Held /\ Held' \subseteq Held \ D
    BY <1>5, BurstLoses
  <2>2. Lost \cup D \subseteq Lost' /\ Lost \cap D = {}
    BY <1>1, <1>2, <2>1
  <2>3. /\ IsFiniteSet(Lost \cup D)
        /\ Cardinality(Lost \cup D) = Cardinality(Lost) + count' - 0
    BY <1>1, <2>1, <2>2, FS_Union, FS_EmptySet
  <2>4. Cardinality(Lost \cup D) <= Cardinality(Lost')
    BY <1>2, <2>2, FS_Subset
  <2>5. pktz = "dequeue" /\ pktz' = "store" /\ iBufqueue' = iBufqueue
    BY <1>5 DEF DequeueBurst
  <2>6. count = 0 /\ count' \in Nat
    BY <1>5, <2>5, BurstCount DEF LeakInv, CountOnlyStoring
  <2> QED
    BY <1>3, <2>3, <2>4, <2>5, <2>6 DEF LeakInv, EveryReceiveLeaks, CountOnlyStoring
<1> QED
  BY <1>4, <1>5

\* For every pool and burst size, each packet that recv_from_engine_burst
\* stores has cost one more mbuf, for ever: dequeue_burst lost the one that
\* carried it.
THEOREM ReceivingLeaks == Spec => []EveryReceiveLeaks
<1>1. Init => LeakInv
  <2> SUFFICES ASSUME Init PROVE LeakInv
    OBVIOUS
  <2>1. IsFiniteSet(Lost)
    BY TypeInit, LostNow
  <2>2. Cardinality(Lost) \in Nat
    BY <2>1, FS_CardinalityType
  <2>3. Len(iBufqueue) = 0 /\ count = 0
    BY EmptySeq DEF Init
  <2> QED
    BY <2>2, <2>3 DEF LeakInv, CountOnlyStoring, EveryReceiveLeaks
<1>2. TypeInv /\ TypeInv' /\ ExclusiveOwnership /\ LeakInv /\ [Next]_vars => LeakInv'
  BY LeakStep
<1>3. LeakInv => EveryReceiveLeaks
  BY DEF LeakInv
<1> QED
  BY <1>1, <1>2, <1>3, TypeInvariant, OwnershipExclusive, PTL DEF Spec
-----------------------------------------------------------------------------
(* Arrival order. *)

\* The arrival number of the frame an mbuf carries.
seqNo == [m \in Mbuf |-> IF data[m] \in Frame THEN data[m].seq ELSE 0]

\* InOrder speaks of the concatenated queues; an action moves a packet from
\* the front of one queue to the back of another, so what it preserves is said
\* queue by queue: each is rising, each stage is ahead of the next, every mbuf
\* on the way carries a frame, and the wire's queue comes after all of them and
\* up to the last arrival.
waiting == rxq[LcoreQueue]
OnTheWay == Range(e2c) \cup Range(toPacketiser) \cup Range(rxPkts)
QueuesRise ==
  /\ Rising(e2c, seqNo) /\ Rising(toPacketiser, seqNo) /\ Rising(rxPkts, seqNo)
StagesOrdered ==
  /\ Precedes(e2c, toPacketiser, seqNo) /\ Precedes(e2c, rxPkts, seqNo)
  /\ Precedes(toPacketiser, rxPkts, seqNo)
WayHasFrames == \A m \in OnTheWay : data[m] \in Frame
WireComesAfter ==
  \A i \in 1 .. Len(waiting) :
    /\ \A m \in OnTheWay : seqNo[m] < waiting[i].seq
    /\ \A j \in 1 .. Len(waiting) : i < j => waiting[i].seq < waiting[j].seq
UpToArrived ==
  /\ \A m \in OnTheWay : seqNo[m] <= arrived
  /\ \A i \in 1 .. Len(waiting) : waiting[i].seq <= arrived
OrderInv ==
  QueuesRise /\ StagesOrdered /\ WayHasFrames /\ WireComesAfter /\ UpToArrived

\* What an mbuf carries changes only with its data.
LEMMA SameNumber ==
  ASSUME NEW m \in Mbuf, data'[m] = data[m]
  PROVE  seqNo'[m] = seqNo[m]
BY DEF seqNo

\* A step that shortens queues at the front, or leaves them, keeps the order.
LEMMA OrderShrinks ==
  ASSUME TypeInv, TypeInv', OrderInv,
         Range(e2c') \subseteq Range(e2c), Rising(e2c', seqNo),
         Range(toPacketiser') \subseteq Range(toPacketiser), Rising(toPacketiser', seqNo),
         Range(rxPkts') \subseteq Range(rxPkts), Rising(rxPkts', seqNo),
         \A m \in OnTheWay : data'[m] = data[m],
         waiting' = waiting, arrived' = arrived
  PROVE  OrderInv'
<1>1. OnTheWay \subseteq Mbuf /\ OnTheWay' \subseteq OnTheWay
  BY SeqRange DEF OnTheWay, TypeInv, TypeOK
<1>2. \A m \in OnTheWay : seqNo'[m] = seqNo[m] /\ data'[m] = data[m]
  BY <1>1, SameNumber
<1>3. /\ \A m \in Range(e2c') : seqNo'[m] = seqNo[m]
      /\ \A m \in Range(toPacketiser') : seqNo'[m] = seqNo[m]
      /\ \A m \in Range(rxPkts') : seqNo'[m] = seqNo[m]
  BY <1>2 DEF OnTheWay
<1>4. QueuesRise'
  BY <1>3, RisingSame DEF QueuesRise, TypeInv, TypeOK
<1>5. StagesOrdered'
  BY <1>3 DEF StagesOrdered, Precedes, OrderInv
<1>6. WayHasFrames'
  BY <1>1, <1>2 DEF WayHasFrames, OrderInv
<1>7. WireComesAfter'
  BY <1>1, <1>2 DEF WireComesAfter, OrderInv
<1>8. UpToArrived'
  BY <1>1, <1>2 DEF UpToArrived, OrderInv
<1> QED
  BY <1>4, <1>5, <1>6, <1>7, <1>8 DEF OrderInv

\* A packet that goes from the front of one queue to the back of the next.
LEMMA HandOver ==
  ASSUME NEW q \in Seq(Mbuf), NEW r \in Seq(Mbuf), q # <<>>,
         NEW f, Rising(q, f), Rising(r, f), Precedes(r, q, f)
  PROVE  /\ Rising(Tail(q), f) /\ Rising(Append(r, Head(q)), f)
         /\ Precedes(Append(r, Head(q)), Tail(q), f)
         /\ Range(Tail(q)) \subseteq Range(q) /\ Head(q) \in Range(q)
         /\ Range(Append(r, Head(q))) = Range(r) \cup {Head(q)}
<1>1. /\ Rising(Tail(q), f) /\ \A y \in Range(Tail(q)) : f[Head(q)] < f[y]
      /\ Range(Tail(q)) \subseteq Range(q) /\ Head(q) \in Range(q) /\ Head(q) \in Mbuf
  BY RisingTail, SeqRange
<1>2. Range(Append(r, Head(q))) = Range(r) \cup {Head(q)}
  BY <1>1, AppendQueue
<1>3. Rising(Append(r, Head(q)), f)
  BY <1>1, RisingAppend DEF Precedes
<1>4. Precedes(Append(r, Head(q)), Tail(q), f)
  BY <1>1, <1>2 DEF Precedes
<1> QED
  BY <1>1, <1>2, <1>3, <1>4

\* Port::receive takes the first waiting frame behind all that are on the way.
LEMMA OrderRx == TypeInv /\ TypeInv' /\ ExclusiveOwnership /\ OrderInv /\ RxFrame => OrderInv'
<1> SUFFICES ASSUME TypeInv, TypeInv', ExclusiveOwnership, OrderInv, RxFrame PROVE OrderInv'
  OBVIOUS
<1>1. PICK m \in pool : /\ data' = [data EXCEPT ![m] = Head(waiting)]
                        /\ rxPkts' = Append(rxPkts, m)
  BY DEF RxFrame, waiting
<1>2. waiting \in Seq(Frame) /\ waiting # <<>> /\ waiting' = Tail(waiting)
  BY DataplaneAssumption DEF RxFrame, TypeInv, TypeOK, waiting
<1>3. /\ Head(waiting) = waiting[1] /\ waiting[1] \in Frame /\ Len(waiting) \in Nat \ {0}
      /\ Len(waiting') = Len(waiting) - 1
      /\ \A i \in 1 .. Len(waiting') : waiting'[i] = waiting[i + 1] /\ i + 1 \in 1 .. Len(waiting)
  BY <1>2, HeadTailProperties, EmptySeq
<1>4. UNCHANGED <<e2c, toPacketiser, arrived>>
  BY DEF RxFrame, engineVars, returnVars, pktzVars
<1>5. m \in Mbuf /\ OnTheWay \subseteq Mbuf
  BY SeqRange DEF TypeInv, TypeOK, OnTheWay
<1>6. m \notin OnTheWay
  BY Apart, PlaceNow, HolderNames DEF OnTheWay
<1>7. /\ \A x \in OnTheWay : seqNo'[x] = seqNo[x] /\ data'[x] = data[x]
      /\ data'[m] = waiting[1] /\ seqNo'[m] = waiting[1].seq
  BY <1>1, <1>3, <1>5, <1>6 DEF seqNo, TypeInv, TypeOK
<1>8. Range(rxPkts') = Range(rxPkts) \cup {m} /\ OnTheWay' = OnTheWay \cup {m}
  <2>1. rxPkts \in Seq(Mbuf)
    BY DEF TypeInv, TypeOK
  <2>2. Range(rxPkts') = Range(rxPkts) \cup {m}
    BY <1>1, <1>5, <2>1, AppendQueue
  <2> QED
    BY <1>4, <2>2 DEF OnTheWay
<1>9. \A x \in OnTheWay : seqNo'[x] < seqNo'[m]
  BY <1>3, <1>7 DEF OrderInv, WireComesAfter
<1>10. /\ \A x \in Range(e2c) : x \in OnTheWay /\ seqNo'[x] = seqNo[x]
       /\ \A x \in Range(toPacketiser) : x \in OnTheWay /\ seqNo'[x] = seqNo[x]
       /\ \A x \in Range(rxPkts) : x \in OnTheWay /\ seqNo'[x] = seqNo[x]
  BY <1>7 DEF OnTheWay
<1>11. QueuesRise'
  <2>1. Rising(e2c, seqNo') /\ Rising(toPacketiser, seqNo') /\ Rising(rxPkts, seqNo')
    BY <1>10, RisingSame DEF OrderInv, QueuesRise, TypeInv, TypeOK
  <2>2. Rising(Append(rxPkts, m), seqNo')
    BY <1>5, <1>9, <1>10, <2>1, RisingAppend DEF TypeInv, TypeOK
  <2> QED
    BY <1>1, <1>4, <2>1, <2>2 DEF QueuesRise
<1>12. StagesOrdered'
  BY <1>4, <1>8, <1>9, <1>10 DEF StagesOrdered, Precedes, OrderInv
<1>13. WayHasFrames'
  BY <1>3, <1>7, <1>8 DEF WayHasFrames, OrderInv
<1>14. WireComesAfter'
  <2> SUFFICES ASSUME NEW i \in 1 .. Len(waiting')
               PROVE  /\ \A x \in OnTheWay' : seqNo'[x] < waiting'[i].seq
                      /\ \A j \in 1 .. Len(waiting') : i < j => waiting'[i].seq < waiting'[j].seq
    BY DEF WireComesAfter
  <2>1. \A x \in OnTheWay : seqNo'[x] < waiting'[i].seq
    BY <1>3, <1>7 DEF OrderInv, WireComesAfter
  <2>2. seqNo'[m] < waiting'[i].seq
    BY <1>3, <1>7 DEF OrderInv, WireComesAfter
  <2>3. \A j \in 1 .. Len(waiting') : i < j => waiting'[i].seq < waiting'[j].seq
    BY <1>3 DEF OrderInv, WireComesAfter
  <2> QED
    BY <1>8, <2>1, <2>2, <2>3
<1>15. UpToArrived'
  BY <1>3, <1>4, <1>7, <1>8 DEF UpToArrived, OrderInv
<1> QED
  BY <1>11, <1>12, <1>13, <1>14, <1>15 DEF OrderInv

\* get_external_pkts and send_to_packetiser move the first packet of a stage to
\* the end of the next one.
LEMMA OrderMove ==
  TypeInv /\ TypeInv' /\ OrderInv /\ (KeepFrame \/ SendPacket) => OrderInv'
<1> SUFFICES ASSUME TypeInv, TypeInv', OrderInv, KeepFrame \/ SendPacket PROVE OrderInv'
  OBVIOUS
<1> USE DEF poolVars, wireVars, engineVars, returnVars, pktzVars
<1>1. UNCHANGED <<data, waiting, arrived>>
  BY DEF KeepFrame, SendPacket, waiting
<1>2. seqNo' = seqNo
  BY <1>1 DEF seqNo
<1>3. QueuesRise' /\ StagesOrdered' /\ OnTheWay' \subseteq OnTheWay
  <2>1. CASE KeepFrame
    <3>1. /\ rxPkts # <<>> /\ rxPkts' = Tail(rxPkts) /\ e2c' = e2c
          /\ toPacketiser' = Append(toPacketiser, Head(rxPkts))
      BY <2>1 DEF KeepFrame
    <3>2. /\ Rising(rxPkts', seqNo) /\ Rising(toPacketiser', seqNo)
          /\ Precedes(toPacketiser', rxPkts', seqNo)
          /\ Range(rxPkts') \subseteq Range(rxPkts) /\ Head(rxPkts) \in Range(rxPkts)
          /\ Range(toPacketiser') = Range(toPacketiser) \cup {Head(rxPkts)}
      BY <3>1, HandOver DEF TypeInv, TypeOK, OrderInv, QueuesRise, StagesOrdered
    <3>3. Precedes(e2c', toPacketiser', seqNo) /\ Precedes(e2c', rxPkts', seqNo)
      BY <3>1, <3>2 DEF Precedes, OrderInv, StagesOrdered
    <3> QED
      BY <1>2, <3>1, <3>2, <3>3 DEF OrderInv, QueuesRise, StagesOrdered, OnTheWay
  <2>2. CASE SendPacket
    <3>1. /\ toPacketiser # <<>> /\ toPacketiser' = Tail(toPacketiser) /\ rxPkts' = rxPkts
          /\ e2c' = Append(e2c, Head(toPacketiser))
      BY <2>2 DEF SendPacket
    <3>2. /\ Rising(toPacketiser', seqNo) /\ Rising(e2c', seqNo)
          /\ Precedes(e2c', toPacketiser', seqNo)
          /\ Range(toPacketiser') \subseteq Range(toPacketiser)
          /\ Head(toPacketiser) \in Range(toPacketiser)
          /\ Range(e2c') = Range(e2c) \cup {Head(toPacketiser)}
      BY <3>1, HandOver DEF TypeInv, TypeOK, OrderInv, QueuesRise, StagesOrdered
    <3>3. Precedes(e2c', rxPkts', seqNo) /\ Precedes(toPacketiser', rxPkts', seqNo)
      BY <3>1, <3>2 DEF Precedes, OrderInv, StagesOrdered
    <3> QED
      BY <1>2, <3>1, <3>2, <3>3 DEF OrderInv, QueuesRise, StagesOrdered, OnTheWay
  <2> QED
    BY <2>1, <2>2
<1>4. WayHasFrames' /\ WireComesAfter' /\ UpToArrived'
  BY <1>1, <1>2, <1>3 DEF OrderInv, WayHasFrames, WireComesAfter, UpToArrived
<1> QED
  BY <1>3, <1>4 DEF OrderInv

\* A new frame is numbered after all that arrived before it.
LEMMA OrderArrive == TypeInv /\ TypeInv' /\ OrderInv /\ Arrive => OrderInv'
<1> SUFFICES ASSUME TypeInv, TypeInv', OrderInv, Arrive PROVE OrderInv'
  OBVIOUS
<1>1. UNCHANGED <<data, e2c, toPacketiser, rxPkts>> /\ arrived' = arrived + 1
  BY DEF Arrive, poolVars, engineVars
<1>2. seqNo' = seqNo /\ OnTheWay' = OnTheWay /\ arrived \in Nat
  BY <1>1, DataplaneAssumption DEF seqNo, OnTheWay, TypeInv, TypeOK
<1>3. OnTheWay \subseteq Mbuf
  BY SeqRange DEF TypeInv, TypeOK, OnTheWay
<1>0. \A x \in Frame : x.seq \in Nat
  BY DataplaneAssumption DEF Frame
<1>4. \A m \in OnTheWay : seqNo[m] \in Nat /\ seqNo[m] <= arrived
  BY <1>0, <1>3 DEF seqNo, OrderInv, UpToArrived, WayHasFrames
<1>5. waiting \in Seq(Frame) /\ Len(waiting) \in Nat
  BY DataplaneAssumption, LenProperties DEF TypeInv, TypeOK, waiting
<1>6. \A i \in 1 .. Len(waiting) : waiting[i].seq \in Nat /\ waiting[i].seq <= arrived
  BY <1>0, <1>5 DEF OrderInv, UpToArrived
<1>7. QueuesRise' /\ StagesOrdered' /\ WayHasFrames'
  BY <1>1, <1>2 DEF OrderInv, QueuesRise, StagesOrdered, WayHasFrames
<1>8. CASE waiting' = waiting
  BY <1>1, <1>2, <1>4, <1>6, <1>7, <1>8 DEF OrderInv, WireComesAfter, UpToArrived
<1>9. CASE \E t \in EtherType :
             waiting' = Append(waiting, [seq |-> arrived + 1, etherType |-> t])
  <2>1. PICK t \in EtherType :
          waiting' = Append(waiting, [seq |-> arrived + 1, etherType |-> t])
    BY <1>9
  <2>2. /\ Len(waiting') = Len(waiting) + 1
        /\ \A i \in 1 .. Len(waiting) : waiting'[i] = waiting[i]
        /\ waiting'[Len(waiting) + 1] = [seq |-> arrived + 1, etherType |-> t]
    BY <1>5, <2>1, AppendProperties
  <2>3. waiting'[Len(waiting) + 1].seq = arrived + 1
    BY <2>2
  <2>4. UpToArrived'
    BY <1>1, <1>2, <1>4, <1>5, <1>6, <2>2, <2>3 DEF UpToArrived
  <2>5. WireComesAfter'
    <3> SUFFICES ASSUME NEW i \in 1 .. Len(waiting')
                 PROVE  /\ \A m \in OnTheWay : seqNo[m] < waiting'[i].seq
                        /\ \A j \in 1 .. Len(waiting') : i < j => waiting'[i].seq < waiting'[j].seq
      BY <1>2 DEF WireComesAfter
    <3>1. CASE i = Len(waiting) + 1
      BY <1>2, <1>4, <1>5, <2>2, <2>3, <3>1
    <3>2. CASE i \in 1 .. Len(waiting)
      <4>1. waiting'[i] = waiting[i] /\ waiting[i].seq \in Nat /\ waiting[i].seq <= arrived
        BY <1>6, <2>2, <3>2
      <4>2. \A m \in OnTheWay : seqNo[m] < waiting'[i].seq
        BY <3>2, <4>1 DEF OrderInv, WireComesAfter
      <4>3. ASSUME NEW j \in 1 .. Len(waiting'), i < j PROVE waiting'[i].seq < waiting'[j].seq
        <5>1. CASE j \in 1 .. Len(waiting)
          BY <2>2, <3>2, <4>1, <4>3, <5>1 DEF OrderInv, WireComesAfter
        <5>2. CASE j = Len(waiting) + 1
          BY <1>2, <2>3, <4>1, <5>2
        <5> QED
          BY <1>5, <2>2, <5>1, <5>2
      <4> QED
        BY <4>2, <4>3
    <3> QED
      BY <1>5, <2>2, <3>1, <3>2
  <2> QED
    BY <1>7, <2>4, <2>5 DEF OrderInv
<1> QED
  BY <1>8, <1>9, DataplaneAssumption DEF Arrive, waiting, TypeInv, TypeOK

\* Each step of the two processes keeps the order.
LEMMA OrderStep ==
  TypeInv /\ TypeInv' /\ ExclusiveOwnership /\ OrderInv /\ [Next]_vars => OrderInv'
<1> SUFFICES ASSUME TypeInv, TypeInv', ExclusiveOwnership, OrderInv, [Next]_vars
             PROVE  OrderInv'
  OBVIOUS
<1> USE DEF poolVars, wireVars, engineVars, returnVars, pktzVars
<1>1. /\ e2c \in Seq(Mbuf) /\ toPacketiser \in Seq(Mbuf) /\ rxPkts \in Seq(Mbuf)
      /\ Rising(e2c, seqNo) /\ Rising(toPacketiser, seqNo) /\ Rising(rxPkts, seqNo)
  BY DEF TypeInv, TypeOK, OrderInv, QueuesRise
<1>2. CASE RxFrame BY <1>2, OrderRx
<1>3. CASE KeepFrame \/ SendPacket BY <1>3, OrderMove
<1>4. CASE Arrive BY <1>4, OrderArrive
<1>5. CASE DropFrame
  <2>1. rxPkts # <<>> /\ rxPkts' = Tail(rxPkts)
    BY <1>5 DEF DropFrame
  <2>2. Rising(rxPkts', seqNo) /\ Range(rxPkts') \subseteq Range(rxPkts)
    BY <1>1, <2>1, RisingTail
  <2> QED
    BY <1>1, <1>5, <2>2, OrderShrinks DEF DropFrame, waiting
<1>6. CASE SendFails
  <2>1. toPacketiser # <<>> /\ toPacketiser' = Tail(toPacketiser)
    BY <1>6 DEF SendFails
  <2>2. Rising(toPacketiser', seqNo) /\ Range(toPacketiser') \subseteq Range(toPacketiser)
    BY <1>1, <2>1, RisingTail
  <2> QED
    BY <1>1, <1>6, <2>2, OrderShrinks DEF SendFails, waiting
<1>7. CASE DequeueBurst
  <2>1. count' \in 0 .. Len(e2c) /\ e2c' = SubSeq(e2c, count' + 1, Len(e2c))
    BY <1>7, BurstCount DEF DequeueBurst
  <2>2. Rising(e2c', seqNo) /\ Range(e2c') \subseteq Range(e2c)
    BY <1>1, <2>1, RisingSuffix, SuffixQueue
  <2> QED
    BY <1>1, <1>7, <2>2, OrderShrinks DEF DequeueBurst, waiting
<1>8. CASE DropE2C
  <2>1. Rising(e2c', seqNo) /\ Range(e2c') \subseteq Range(e2c)
    BY <1>8, EmptyQueue, EmptySeq DEF DropE2C, Rising
  <2> QED
    BY <1>1, <1>8, <2>1, OrderShrinks DEF DropE2C, DropRing, waiting
<1>9. CASE AllocBuf
  <2>1. PICK m \in pool : data' = [data EXCEPT ![m] = Empty]
    BY <1>9 DEF AllocBuf
  <2>2. m \notin OnTheWay
    BY Apart, PlaceNow, HolderNames DEF OnTheWay
  <2>3. \A x \in OnTheWay : data'[x] = data[x]
    BY <2>1, <2>2 DEF TypeInv, TypeOK
  <2> QED
    BY <1>1, <1>9, <2>3, OrderShrinks DEF AllocBuf, waiting
<1>10. CASE UNCHANGED <<data, waiting, arrived, e2c, toPacketiser, rxPkts>>
  BY <1>1, <1>10, OrderShrinks
<1>11. CASE EngineStep /\ ~RxFrame /\ ~KeepFrame /\ ~DropFrame /\ ~SendPacket /\ ~SendFails
  <2>1. CASE GetFromPacketiser
    BY <1>10, <2>1, GetIdle DEF GetFromPacketiser, waiting
  <2> QED
    BY <1>10, <1>11, <2>1
       DEF EngineStep, EngineUndefined, EngineLoop, RxReturn, ClassifyDone, SendDone,
           SendPktsOut, waiting
<1>12. CASE PacketiserStep /\ ~AllocBuf /\ ~DequeueBurst /\ ~DropE2C
  BY <1>10, <1>12
     DEF PacketiserStep, PacketiserLoop, AllocDone, StoreBuf, StoreDone, ReleaseBuf,
         ReleaseDone, DebugSendOutgoing, DropC2E, DropRing, DropMempool, DropQueues, waiting
<1>13. CASE EngineCtrlC \/ PacketiserCtrlC \/ UNCHANGED vars
  BY <1>10, <1>13 DEF EngineCtrlC, PacketiserCtrlC, vars, waiting
<1> QED
  BY <1>2, <1>3, <1>4, <1>5, <1>6, <1>7, <1>8, <1>9, <1>11, <1>12, <1>13 DEF Next

\* The queue-by-queue order is the order of the whole way.
LEMMA OrderMeansInOrder == TypeInv /\ OrderInv => InOrder
<1> SUFFICES ASSUME TypeInv, OrderInv PROVE InOrder
  OBVIOUS
<1>1. /\ e2c \in Seq(Mbuf) /\ toPacketiser \in Seq(Mbuf) /\ rxPkts \in Seq(Mbuf)
      /\ waiting \in Seq(Frame)
  BY DataplaneAssumption DEF TypeInv, TypeOK, waiting
<1>2. /\ e2c \o toPacketiser \in Seq(Mbuf)
      /\ Range(e2c \o toPacketiser) = Range(e2c) \cup Range(toPacketiser)
      /\ InFlight \in Seq(Mbuf)
      /\ Range(InFlight) = OnTheWay
  <2>1. /\ e2c \o toPacketiser \in Seq(Mbuf)
        /\ Range(e2c \o toPacketiser) = Range(e2c) \cup Range(toPacketiser)
    BY <1>1, ConcatProperties, RangeConcatenation
  <2> DEFINE sent == e2c \o toPacketiser
  <2> HIDE DEF sent
  <2>2. sent \in Seq(Mbuf)
    BY <2>1 DEF sent
  <2>3. sent \o rxPkts \in Seq(Mbuf) /\ Range(sent \o rxPkts) = Range(sent) \cup Range(rxPkts)
    BY <1>1, <2>2, ConcatProperties, RangeConcatenation
  <2> QED
    BY <2>1, <2>3 DEF InFlight, OnTheWay, sent
<1>3. Rising(e2c \o toPacketiser, seqNo)
  BY <1>1, RisingConcat DEF OrderInv, QueuesRise, StagesOrdered
<1>4. Precedes(e2c \o toPacketiser, rxPkts, seqNo)
  BY <1>2 DEF Precedes, OrderInv, StagesOrdered
<1>5. Rising(InFlight, seqNo)
  BY <1>1, <1>2, <1>3, <1>4, RisingConcat DEF InFlight, OrderInv, QueuesRise
<1> DEFINE n == Len(InFlight)
           carried == [i \in 1 .. n |-> data[InFlight[i]]]
           frames == carried \o waiting
<1>6. n \in Nat /\ \A i \in 1 .. n : InFlight[i] \in OnTheWay /\ InFlight[i] \in Mbuf
  BY <1>2, LenProperties, RangeEquality
<1>7. \A i \in 1 .. n : carried[i] \in Frame /\ carried[i].seq = seqNo[InFlight[i]]
  BY <1>6 DEF OrderInv, WayHasFrames, seqNo
<1>8. carried \in Seq(Frame) /\ Len(carried) = n
  BY <1>6, <1>7
<1> HIDE DEF n, carried
<1>9. /\ Len(frames) = n + Len(waiting) /\ Len(waiting) \in Nat
      /\ \A i \in 1 .. n + Len(waiting) :
           frames[i] = IF i <= n THEN carried[i] ELSE waiting[i - n]
  BY <1>1, <1>8, ConcatProperties, LenProperties
<1> HIDE DEF frames
<1>10. ASSUME NEW i \in 1 .. Len(frames), NEW j \in 1 .. Len(frames), i < j
       PROVE  frames[i].seq < frames[j].seq
  <2>1. CASE j <= n
    <3>1. /\ i \in 1 .. n /\ j \in 1 .. n /\ frames[i] = carried[i] /\ frames[j] = carried[j]
      BY <1>6, <1>9, <1>10, <2>1
    <3> QED
      BY <1>5, <1>7, <1>10, <3>1 DEF Rising, n
  <2>2. CASE i <= n /\ n < j
    <3>1. /\ i \in 1 .. n /\ j - n \in 1 .. Len(waiting)
          /\ frames[i] = carried[i] /\ frames[j] = waiting[j - n]
      BY <1>6, <1>9, <1>10, <2>2
    <3> QED
      BY <1>6, <1>7, <3>1 DEF OrderInv, WireComesAfter
  <2>3. CASE n < i
    <3>1. /\ i - n \in 1 .. Len(waiting) /\ j - n \in 1 .. Len(waiting) /\ i - n < j - n
          /\ frames[i] = waiting[i - n] /\ frames[j] = waiting[j - n]
      BY <1>6, <1>9, <1>10, <2>3
    <3> QED
      BY <3>1 DEF OrderInv, WireComesAfter
  <2> QED
    BY <1>6, <1>9, <1>10, <2>1, <2>2, <2>3
<1> QED
  BY <1>10 DEF InOrder, frames, carried, n, waiting

\* For every ring and burst size and whatever is lost on the way, the frames of
\* the polled queue reach the packetiser's ring in the order they arrived in.
THEOREM FramesInOrder == Spec => []InOrder
<1>1. Init => OrderInv
  <2> SUFFICES ASSUME Init PROVE OrderInv
    OBVIOUS
  <2>1. e2c = <<>> /\ toPacketiser = <<>> /\ rxPkts = <<>> /\ waiting = <<>> /\ Len(<<>>) = 0
    BY DataplaneAssumption, EmptySeq DEF Init, waiting
  <2>2. OnTheWay = {}
    BY <2>1, EmptyQueue DEF OnTheWay
  <2> QED
    BY <2>1, <2>2, EmptyQueue
       DEF OrderInv, QueuesRise, StagesOrdered, WayHasFrames, WireComesAfter,
           UpToArrived, Rising, Precedes
<1>2. TypeInv /\ TypeInv' /\ ExclusiveOwnership /\ OrderInv /\ [Next]_vars => OrderInv'
  BY OrderStep
<1>3. TypeInv /\ OrderInv => InOrder
  BY OrderMeansInOrder
<1> QED
  BY <1>1, <1>2, <1>3, TypeInvariant, OwnershipExclusive, PTL DEF Spec
=============================================================================
