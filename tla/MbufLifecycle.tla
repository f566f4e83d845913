--------------------------- MODULE MbufLifecycle ---------------------------
(***************************************************************************)
(* Mbufs between pools, a program and the NIC, for a program that uses the *)
(* public API of the library: Mbuf::new, drop, alloc_bulk, free_bulk,      *)
(* Port::receive and Port::send, in any order and with several pools.  The *)
(* two mains use one pool and never send (Dataplane: ReturnPathIdle).      *)
(*                                                                         *)
(* An mbuf is a pointer; a pool and the program may come to have the same  *)
(* pointer several times, so both are functions from Mbuf to Nat.          *)
(***************************************************************************)
EXTENDS Naturals, SequencesExt

CONSTANTS
  Mbuf,       \* all mbufs
  Pool,       \* the pools
  PoolOf,     \* PoolOf[m]: rte_mbuf.pool, set when m's pool was created
  RxPool,     \* the pool Port::configure gave to the rx queues
  Data,       \* what packets are told apart by
  FastFree,   \* whether devices have DEV_TX_OFFLOAD_MBUF_FAST_FREE
  TxDesc,     \* RTE_MP_TX_DESC_DEFAULT (512)
  BatchMax,   \* bound: mbufs in one call
  MaxSends    \* bound: calls of Port::send

ASSUME LifecycleAssumption ==
  /\ IsFiniteSet(Mbuf) /\ IsFiniteSet(Pool)
  /\ PoolOf \in [Mbuf -> Pool]
  /\ RxPool \in Pool
  /\ Data # {}
  /\ FastFree \subseteq BOOLEAN
  /\ TxDesc \in Nat \ {0}
  /\ BatchMax \in Nat \ {0}
  /\ MaxSends \in Nat

VARIABLES
  fast,      \* whether Port::configure has turned the fast release of mbufs on
  free,      \* free[p][m]: how often m is in pool p
  app,       \* app[m]: Mbuf values of the program that point to m
  tx,        \* what the NIC has accepted and not yet transmitted, in order:
             \*   the mbuf, and the data it had when it was handed over
  data,      \* data[m]: contents of m
  sends,     \* calls of Port::send so far
  refused,   \* whether tx_burst has ever taken only a part of a batch
  mixed      \* whether mbufs of several pools were ever freed as one batch

vars == <<fast, free, app, tx, data, sends, refused, mixed>>

Copies == [Mbuf -> Nat]

\* Every variable keeps its type: the program, the pools and the NIC have mbufs
\* only, and none of them gives away more of them than it has.
TypeOK ==
  /\ fast \in FastFree
  /\ free \in [Pool -> Copies]
  /\ app \in Copies
  /\ tx \in Seq([mbuf : Mbuf, data : Data])
  /\ data \in [Mbuf -> Data]
  /\ sends \in 0 .. MaxSends
  /\ refused \in BOOLEAN /\ mixed \in BOOLEAN

Init ==
  /\ fast \in FastFree
  /\ free = [p \in Pool |-> [m \in Mbuf |-> IF PoolOf[m] = p THEN 1 ELSE 0]]
  /\ app = [m \in Mbuf |-> 0]
  /\ tx = <<>>
  /\ data \in [Mbuf -> Data]
  /\ sends = 0 /\ refused = FALSE /\ mixed = FALSE

-----------------------------------------------------------------------------
(* Batches of mbufs. *)

Count(s, m) == Cardinality({i \in DOMAIN s : s[i] = m})
Plus(c, s) == [m \in Mbuf |-> c[m] + Count(s, m)]
Minus(c, s) == [m \in Mbuf |-> c[m] - Count(s, m)]

\* The batches of 1 to n mbufs that can be taken from c.
Batches(c, n) ==
  {s \in UNION {[1 .. k -> Mbuf] : k \in 1 .. n} :
     \A m \in Mbuf : Count(s, m) <= c[m]}

\* Mbufs of different pools.
Mixed(s) == \E i \in DOMAIN s : PoolOf[s[i]] # PoolOf[s[1]]

-----------------------------------------------------------------------------
(* Faulty variants: edits of the operations below that the properties must *)
(* tell from the code.  They are not part of the specification.            *)

\* The mbuf that ends a run is not pushed after the flush.
CollectSkips(pool, st, m) ==
  IF PoolOf[m] = pool THEN [st EXCEPT !.toFree = Append(@, m)]
                      ELSE [put |-> st.put \o st.toFree, toFree |-> <<>>]

\* set_len(0) is missing: what was flushed is put again at the end.
CollectKeeps(pool, st, m) ==
  IF PoolOf[m] = pool THEN [st EXCEPT !.toFree = Append(@, m)]
                      ELSE [put |-> st.put \o st.toFree,
                            toFree |-> Append(st.toFree, m)]

\* The comparison of Port::send is off by one.
ReturnedAlways(f, s, n) == IF n <= Len(s)
  THEN [f EXCEPT ![PoolOf[s[1]]] = Plus(@, s)] ELSE f

\* The answer of rte_pktmbuf_alloc_bulk is not looked at: it gave nothing, and
\* slots of the Vec that were never written become Mbufs.
AllocBulkUnchecked ==
  /\ app' = app @@ ("unwritten" :> 1)
  /\ UNCHANGED <<fast, free, tx, data, sends, refused, mixed>>

\* A single free puts the mbuf in the pool of the rx queues.
FreedToRxPool(f, s) == [f EXCEPT ![RxPool] = Plus(@, s)]

-----------------------------------------------------------------------------
(* The pools. *)

\* mbuf_free_bulk: collect mbufs, and flush what was collected whenever one of
\* another pool comes.  `pool` stays that of the first mbuf.
Collect(pool, st, m) ==
  IF PoolOf[m] = pool THEN [st EXCEPT !.toFree = Append(@, m)]
                      ELSE [put |-> st.put \o st.toFree, toFree |-> <<m>>]

\* loop[i] is its state after i mbufs.
PutByBulk(s) ==
  LET loop[i \in 0 .. Len(s)] ==
        IF i = 0 THEN [put |-> <<>>, toFree |-> <<>>]
                 ELSE Collect(PoolOf[s[1]], loop[i - 1], s[i])
  IN  loop[Len(s)].put \o loop[Len(s)].toFree

BulkFreed(f, s) == [f EXCEPT ![PoolOf[s[1]]] = Plus(@, PutByBulk(s))]

\* rte_pktmbuf_free of the mbufs in s, one by one.
Freed(f, s) ==
  [p \in Pool |-> [m \in Mbuf |-> f[p][m] + IF PoolOf[m] = p THEN Count(s, m) ELSE 0]]

\* Mbuf::alloc_bulk gets all it asked for or nothing; Mbuf::new gets one.
AllocBulk ==
  \E p \in Pool : \E s \in Batches(free[p], BatchMax) :
    /\ free' = [free EXCEPT ![p] = Minus(@, s)]
    /\ app' = Plus(app, s)
    /\ UNCHANGED <<fast, tx, data, sends, refused, mixed>>

\* Mbuf::drop.
Drop(m) ==
  /\ app[m] > 0
  /\ app' = Minus(app, <<m>>)
  /\ free' = Freed(free, <<m>>)
  /\ UNCHANGED <<fast, tx, data, sends, refused, mixed>>

\* Mbuf::free_bulk; it returns at once if it is given none.
FreeBulk ==
  \E s \in Batches(app, BatchMax) :
    /\ app' = Minus(app, s)
    /\ free' = BulkFreed(free, s)
    /\ mixed' = (mixed \/ Mixed(s))
    /\ UNCHANGED <<fast, tx, data, sends, refused>>

\* The program writes to a packet it has (MbufBuffer has the operations).
Write(m, d) ==
  /\ app[m] > 0
  /\ data' = [data EXCEPT ![m] = d]
  /\ UNCHANGED <<fast, free, app, tx, sends, refused, mixed>>

-----------------------------------------------------------------------------
(* The port. *)

\* Port::receive: the driver filled an mbuf of the rx queues' pool.
Receive(m, d) ==
  /\ free[RxPool][m] > 0
  /\ free' = [free EXCEPT ![RxPool] = Minus(@, <<m>>)]
  /\ app' = Plus(app, <<m>>)
  /\ data' = [data EXCEPT ![m] = d]
  /\ UNCHANGED <<fast, tx, sends, refused, mixed>>

\* tx_burst accepts what there are descriptors for, beside those in `left`.
Accepted(s, left) == Min({Len(s), TxDesc - Len(left)})

\* The driver frees what it has transmitted: one by one, or with the fast
\* release all to the pool of the first.
Reclaimed(f, s) ==
  IF fast /\ s # <<>> THEN [f EXCEPT ![PoolOf[s[1]]] = Plus(@, s)] ELSE Freed(f, s)

\* If fewer than all were accepted, mbuf_free_bulk frees the whole batch.
Returned(f, s, n) == IF n < Len(s) THEN BulkFreed(f, s) ELSE f

\* Port::send; tx_burst first frees the `done` packets it has transmitted.
Send ==
  \E s \in Batches(app, BatchMax), done \in 0 .. Len(tx) :
    LET left == SubSeq(tx, done + 1, Len(tx))
        old == [i \in 1 .. done |-> tx[i].mbuf]
        n == Accepted(s, left)
    IN  /\ sends < MaxSends
        /\ sends' = sends + 1
        /\ app' = Minus(app, s)
        /\ tx' = left \o [i \in 1 .. n |-> [mbuf |-> s[i], data |-> data[s[i]]]]
        /\ free' = Returned(Reclaimed(free, old), s, n)
        /\ refused' = (refused \/ n < Len(s))
        /\ mixed' = (mixed \/ (n < Len(s) /\ Mixed(s)) \/ (fast /\ Mixed(old)))
        /\ UNCHANGED <<fast, data>>

-----------------------------------------------------------------------------
Next ==
  \/ AllocBulk \/ FreeBulk \/ Send
  \/ \E m \in Mbuf : Drop(m)
  \/ \E m \in Mbuf, d \in Data : Write(m, d) \/ Receive(m, d)

Spec == Init /\ [][Next]_vars
-----------------------------------------------------------------------------
(* Properties. *)

\* How often the pointer m is in the pools, and then also in the program or in
\* the NIC.
InPools(f, m) == Cardinality(UNION {{p} \X (1 .. f[p][m]) : p \in Pool})
TxMbufs == [i \in DOMAIN tx |-> tx[i].mbuf]
Owners(m) == InPools(free, m) + app[m] + Count(TxMbufs, m)

\* No sequence of the calls of Mbuf and Port loses an mbuf, not the grouping by
\* pools of mbuf_free_bulk and not a batch that Port::send could only send a part
\* of.  (Rings are not part of this module: Ring::enqueue and dequeue lose mbufs.)
NothingLeaks == \A m \in Mbuf : Owners(m) >= 1

\* An mbuf has one owner until tx_burst takes only a part of a batch: that is
\* the only way in which the library frees an mbuf that is still in use.
OneOwnerUnlessRefused == refused \/ \A m \in Mbuf : Owners(m) = 1

\* Until then the NIC transmits what the program gave to Port::send, whatever
\* the program and the pools do before the NIC gets to it.
SentIntactUnlessRefused ==
  refused \/ \A i \in DOMAIN tx : data[tx[i].mbuf] = tx[i].data

\* A free mbuf is in the pool it belongs to until mbufs of different pools are
\* freed as one batch, by mbuf_free_bulk or by a driver whose fast release
\* Port::configure turned on; nothing else moves an mbuf to another pool.
HomeUnlessMixed ==
  mixed \/ \A p \in Pool, m \in Mbuf : free[p][m] > 0 => PoolOf[m] = p
=============================================================================
