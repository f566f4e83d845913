# A TLA+ model of vdataplane

vdataplane is a user-space layer-3 data plane on DPDK.  Two processes run it:
the **engine** (`l3enginelib`, the primary DPDK process) polls the NIC and
passes packets on, and the **packetiser** (`l3enginepacketiser`, a secondary
process) receives them and is meant to route them to clients.  They share one
pool of packet buffers (mbufs) and a pair of rings in hugepage memory, and find
each other by a ZeroMQ "hello".

This directory models the two processes, their start-up and end, the registry
of clients and the traffic with them, the life of mbufs under the library's API,
the buffer operations and the functions on packet headers.  TLC checks the
modules on small instances.  TLAPS proves every safety invariant, action property
and refinement that these runs check, and what the header functions compute, for
every value of the constants; liveness is model-checked.

## 1. The system

| Part | Source | State | Operations |
|---|---|---|---|
| Engine main loop | `l3enginelib/src/main.rs`, `rxbin.rs`, `txbin.rs` | `keep_running`, `TO_PACKETISER`, `FROM_PACKETISER`, `OUT_PKTS` | `get_external_pkts`, `send_to_packetiser`, `get_from_packetiser`, `send_pkts_out`, Ctrl+C |
| Packetiser main loop | `l3enginepacketiser/src/main.rs`, `packetiser/mod.rs` | `keep_running`, `i_bufqueue`, `o_bufqueue` | `recv_from_engine_burst`, `process_pkts`, `send_outgoing_packets` (debug build), destructors |
| Start-up | both `main.rs`, `packetiser/mod.rs` | DPDK's table of named objects, two ZeroMQ sockets | create pool, memzone and rings, configure and start the port, bind, wait; lookup, hello; context termination; panics |
| Ring, Channel, RingClientMap | `l3enginelib/src/apis/memring.rs` | the two rings E2C-*id* and C2E-*id* of each channel | `enqueue`, `dequeue`, bursts, `new`, `lookup`, drop; the map's `send`, `receive`, `send_bulk`, `receive_bulk` |
| Client registry | `packetiser/mod.rs` | `allocated_ids`, `LAST_ALLOCATED_ID`, `clientmap` | `add_client`, `remove_clients` |
| Mbuf | `l3enginelib/src/apis/mbuf.rs` | `data_off`, `data_len`, `pkt_len`, bytes | `new`, `from_bytes`, `extend`, `shrink`, `resize`, `truncate`, slice reads and writes; `alloc_bulk`, `free_bulk`, drop |
| Mempool | `l3enginelib/src/apis/mempool.rs` | free mbufs, per-lcore caches | `new`, `lookup`, drop |
| Port | `l3enginelib/src/apis/port.rs` | rx and tx queues | `configure`, `start`, `receive`, `send` |
| Routing table, client traffic | `packetiser/mod.rs` | two maps between ids and addresses, `i_bufqueue`, `o_bufqueue` | `store_incoming`, `forward_incoming_packets`, `store_outgoing`, `send_outgoing_packets`, `send_to_engine_bulk`, `recv_from_clients`, `send_to_clients` (most have no caller in `main`) |
| Headers, ARP | `dpdk-sys/src/shim.c`, `net/ipv4hdr.rs`, `server.rs` | none; the ARP server has a list of interfaces | address conversion, ICMP checksum, detecting and answering ARP (no caller in the mains but `Ipv4Hdr`) |
| smoltcp device, gatekeeper, speed tester | the remaining crates and files | | see section 7 |

The processes interact in three ways only: mbuf **pointers** go through the
shared rings, mbufs are taken from and returned to the shared **pool**, and one
hello message starts the engine.  Rust's ownership stops at the process
boundary: a `Ring` or `Mempool` handle frees the shared object when dropped,
whichever process dropped it, and the packet a ring call reports is whatever
raw pointer memory holds.

What is hard to test here: the interleaving of the two loops over pool and
ring; the ring and the pool at their limits; the order of destructors against
the other process's loop; a packetiser started, killed and started again at
any point of the engine's start-up; wrap-around of the 16-bit id counter; the
off-by-one cases of the buffer operations; a batch of which the NIC takes only a
part, or whose mbufs are of several pools.  `PROJECT.json` lists each hazard
at its line with the properties that cover it.

## 2. The modules

| Module | Models |
|---|---|
| `Dataplane` | the two main loops, the pool, the rings, the NIC queues and the packetiser's destructors |
| `MbufOwnership` | the abstract promise: who may hold an mbuf and how it changes hands |
| `MCDataplane` | TLC symmetry for `Dataplane` |
| `Startup` | creation, lookup, hello, end and restart of the processes |
| `ClientRegistry` | `add_client`, `remove_clients` and ring names |
| `ClientTraffic` | routing table, and packets between engine, packetiser and clients |
| `MCClientTraffic` | addresses and symmetry for `ClientTraffic` |
| `MbufLifecycle` | mbufs between several pools, a program and the NIC, under the library's API |
| `MCMbufLifecycle` | two pools and symmetry for `MbufLifecycle` |
| `MbufBuffer` | the data area of one mbuf |
| `PacketBytes` | abstract: what the buffer operations mean for a byte sequence |
| `PacketHeaders` | address, checksum and ARP functions, and theorems about them |
| `QueueLemmas` | lemmas about queues that all proofs share: push, pop, bursts, removal, order, counting |
| `DataplaneProofs`, `StartupProofs`, `ClientRegistryProofs`, `ClientTrafficProofs`, `MbufLifecycleProofs`, `MbufBufferProofs` | the theorems about the module of that name |

Each module that is model-checked starts its operations with a section "Faulty variants".  These are
edits that a plausible bug would make (a dropped guard, an off-by-one, a missing
else); `PROJECT.json` says which property catches which.

### Dataplane

An mbuf is a pointer, drawn from `Mbuf`; every `Vec`, `VecDeque` and ring is a
sequence of mbufs, and `data[m]` is the frame in `m`.  A frame is its arrival
number and its `ether_type`, the only field the two mains look at (the engine
frees a frame whose type is 0).  A step is one call on shared memory together
with the local work around it, so the processes interleave wherever DPDK lets
them.

| State | Code |
|---|---|
| `pool`, `freed` | `GLOBAL_MEMPOOL`; the shared objects a destructor has released |
| `rxq`, `arrived` | the port's rx queues; frames so far |
| `engine`, `engineRun` | position in the loop of `main.rs:245-262`; `keep_running` |
| `rxPkts`, `toPacketiser`, `fromPacketiser`, `outPkts`, `nicTx` | the result of `Port::receive`; the three global queues; mbufs the NIC still has |
| `e2c`, `c2e` | the rings of channel 1 |
| `pktz`, `pktzRun`, `bufs`, `count` | position in the packetiser's main; `keep_running`; the buffers of `recv_from_engine_burst` and how many are to be stored |
| `iBufqueue`, `oBufqueue` | the fields of `Packetiser` |

Some details of the code decide the model:

* `Ring::enqueue` gives up its `Mbuf` (`into_ptr`) before it knows whether the
  ring has room.  `SendFails` therefore loses the packet.
* `Ring::dequeue` and `dequeue_burst` let the ring write to a temporary.  The
  packetiser stores the empty mbufs it allocated, and what the ring delivered is
  lost (`DequeueBurst`).  In a release build nothing empties `i_bufqueue`, so
  every received packet costs two mbufs, until allocation fails and the
  packetiser's main returns (`AllocDone`).
* `FROM_PACKETISER` has no producer, so `get_from_packetiser` sizes its work to
  zero and the whole way back to the wire is idle (`ReturnPathIdle`).
  `GetFromPacketiser` and `SendPktsOut` are modelled with their general effect
  all the same, and the idleness is a theorem, not a simplification.
* On Ctrl+C the engine calls `_pkt_stop_and_close_ports`, which ends in
  `exit(0)`: none of its destructors runs.  The packetiser returns from `main`
  and drops both rings, the pool, and then the mbufs in its queues.
* An operation on a released object leads to the control state `"undefined"`,
  from which the process takes no further step: nothing is claimed about it.
* A debug build loops while `i_bufqueue` is not empty and takes nothing out of
  it.  `debug` says which build runs; `Init` chooses it from the constant `Build`.
* An allocation may fail as soon as the free mbufs left may all sit in the
  other lcore's cache (`CacheSlack`).

Parked rx descriptors are outside `Mbuf`: the driver swaps a fresh mbuf for a
filled one, which the model joins into one step (`RxFrame`).

### MbufOwnership

One variable, the mbufs of four parties: pool, engine, ring memory, packetiser.
An mbuf moves along one of five edges or is lost, for ever, by the engine or the
ring.  There is no edge from the ring to the packetiser: that is what the code
does.  `Dataplane` maps its eleven holders to the four parties (`owned`).

### Startup

The engine creates the pool, configures its port and sets the queues up one by
one, starts the port, creates the memzone, E2C and C2E, binds and blocks in
`recv`.  A
packetiser looks E2C, C2E and the pool up, each lookup a step, connects, sends
(ZeroMQ queues the message even without a peer), runs, and at its end first
drops the ZeroMQ context, which waits until the hello has left, and then the
`Packetiser`.  A failed lookup unwinds the handles it already has, which frees
the engine's objects.  `Kill` ends a packetiser without destructors and
`EngineEnds` the engine at any point.  The set `Packetiser` has one element per
process started, so restarts are further elements.

* Any call of the engine's set-up may fail (`SetupFails`), the bind included.
  The panic unwinds `main` one destructor at a time (`UnwindFrom` says where it
  begins): C2E and E2C of a whole channel, E2C alone when the second `Ring::new`
  failed, then the memzone.  A packetiser may have found these rings, or may
  have freed them before.  The pool is in a static and stays.
* Every destructor, of either process, frees unconditionally.  `Release` records
  in `freedBy` which process called it; a process that frees what another one
  has freed ends in `"undefined"`.  So the engine's own second free of E2C, after
  a packetiser's failed lookup, is in the model, and so is a lone packetiser's
  second free after the engine has panicked.
* `"dead"` is the engine after `exit(0)` or a kill, which run no destructor, and
  `"failed"` the engine after a panic.
* `Port::configure` rounds an odd number of cores up to an even number of queues
  because an lcore polls queue *q* and sends on *q* ^ 1, but it asks
  `rte_eth_dev_configure` for the unrounded number.  DPDK refuses the extra
  queue (`QueueRefused`), so an odd count ends in a panic; `TxQueuesReady` shows
  that no engine serves without the queues it uses.

### ClientRegistry

`add_client` searches the ids below `LAST_ALLOCATED_ID`, uses 0 both as "none
found" and as a candidate, and so takes the next number of the counter each
time until it wraps.  Id arithmetic is modulo `IdSpace`; `overflowChecks`, fixed
in the initial state, is the build profile: overflow panics (dev) or wraps
(release).
`remove_clients` of an id that is not listed panics.

### ClientTraffic

The methods of `Packetiser` that bring packets to the clients and back.  The
mains call only one of them, so the module lets the packetiser's one thread call
them in any order, each loop iteration a step, while the engine and the clients
use the rings and the pool in between.  `RemoveClient` and the updates of the
routing table come in any order too.  The repository has no client program; the
module's clients make the calls that `Channel` offers them and keep their
handles for as long as the model runs.

* `bytes[m]` is what lies in an mbuf's data area, whatever `data_len` says.
  `Ipv4Hdr::from_mbuf` reads it without a length check, so an empty buffer is
  forwarded by the address an earlier packet left there; if that packet was not
  IPv4, `_pkt_ipv4_hdr` returns NULL and the read crashes.
* `Ipv4Hdr::convert` reverses the octets (`Convert`), so a route matches the
  reverse of the address it was entered for.
* The error of `RingClientMap::send` is unwrapped: an address without a route,
  a route to a removed client or a full client ring ends the burst in a panic.
* `Ring::enqueue_bulk` passes the length of a `Vec` it has just drained: nothing
  is enqueued (`EnqueueBulk`), and `send_to_engine_bulk` loses its packet.
* The two maps of the routing table are updated separately, and
  `remove_clients` updates neither.
* Sending (`Enqueued`) gives the mbuf up before the ring is asked, so it is lost
  when the ring is full; receiving (`ClientReceive`, `SendToClients`,
  `CollectPacket`) writes the pointer to a temporary, so the packet is lost and
  the caller keeps the mbuf it passed.
* `remove_clients`, or the destructors after a panic, free rings that a client
  process has looked up.  `client[c]` says whether there is such a process;
  its next call leads it to `"undefined"` (`ClientDangles`), and nothing more is
  claimed about it.
* `RecvFromClients` sends the caller's own mbuf to a client (the names of
  `recv_from_clients` and `send_to_clients` are the wrong way round).  Such an
  mbuf did not come by a ring and has cost no other; `direct` remembers it, so
  that `EveryPacketLeaksOne` counts the others.
* `SendBulk` and `ReceiveBulk` are the bulk calls of `RingClientMap`, on mbufs
  the caller takes from the pool.  The first gives all of them up and enqueues
  none; the second reports a number of packets and loses them.

### MbufLifecycle

The mains use one pool and never transmit, so `Port::send`, `mbuf_free_bulk` and
`alloc_bulk` have a module of their own, in which a program calls the API in any
order.  `free[p][m]` and `app[m]` count how often a pool or the program has the
pointer `m`, so that an mbuf freed twice shows as two copies; `tx` is what the
NIC has accepted, with the contents each mbuf had then.  `Owners(m)` adds the
three up.

* `tx_burst` accepts what it has descriptors for.  If that is not all,
  `Port::send` frees the whole batch, the accepted packets too (`Returned`).
* `mbuf_free_bulk` flushes what it has collected when an mbuf of another pool
  comes, but never updates `pool`: everything goes to the pool of the first
  mbuf, and after a flush even mbufs of that pool cause one more (`Collect`).
* `Port::configure` turns the driver's fast release on where the device has it;
  the driver then returns a batch of transmitted mbufs to the pool of the first
  (`Reclaimed`).  `fast`, fixed in the initial state, says whether it has.
* `refused` and `mixed` remember whether the NIC ever refused a part of a batch,
  and whether mbufs of several pools were freed as one batch.  The properties say
  that these two are the only causes of trouble.

### PacketHeaders

Functions of the packet, without state.  Addresses are four octets in the packet
and a number in the program; 16-bit fields keep their width and their byte order
(`Swap16`).  The ARP server's interfaces are flattened to one sequence of
addresses with the MAC of their interface, in the order in which `detect_arp`
and `get_iface_by_ip` search; both give up at the first IPv6 address.

### MbufBuffer and PacketBytes

One action per operation, with its bounds checks and error paths; `Move` is the
overlapping `ptr::copy`.  Bytes after the end of the packet hold whatever an
earlier packet left.  `PacketBytes` gives the same operations on a sequence.
`read_data` and `read_data_slice` change nothing and have no action; the check
of the latter comes at the end of `write_data_slice`, after the bytes are
written (`ReadSliceFits`).

## 3. The runs

Runs that pass:

| Run | Shows | Bounds |
|---|---|---|
| `dataplane_safety` | no mbuf is held twice; frames stay in order on the way to the packetiser; each stored buffer has cost a second mbuf; nothing flows back; the engine is safe until the packetiser's destructors start; every step is a step of `MbufOwnership` | 4 mbufs, 3 frames, bursts of 2, ring of 2 slots (1 usable), 2 rx queues |
| `dataplane_live` | release and debug builds: the packetiser takes every frame off the ring while it runs its loop, and Ctrl+C ends it unless it spins; the engine empties its backlog and obeys Ctrl+C even when the ring stays full for ever, and it serves the rx queue it polls unless the pool keeps running dry | 4 mbufs, 3 frames, 1 queue, bursts of 1, both builds |
| `startup` | a second free of an object meets another process's: two packetisers', or a packetiser's and that of an engine that panicked; a hello on its way stands for live objects, unless a process other than its sender has freed them, and starts the engine; after an orderly end nobody attaches again; only the engine's end can block a packetiser's; an engine that serves has all queues its lcores use | 3 packetisers, 1 to 3 cores |
| `registry` | ring names and client map agree, over wrap-around and failing creation; until the wrap ids are not reused and the packetiser's own is not given away | 4 ids, 6 calls, both build profiles |
| `traffic` | whatever methods are called, no mbuf is in two places; every packet that came by a ring and is inside the packetiser or beyond it has cost a second mbuf; a burst that does not panic is handled to its end | 4 mbufs, 2 clients, 2 packets sent, bursts of 1, rings of 2 slots, 1 update of the table, at most 1 mbuf with leftovers that are not IPv4 |
| `lifecycle` | no call of `Mbuf` and `Port` leaks an mbuf (those of `Ring` do: `leak_full_ring`); it has one owner, and a packet given to the NIC stays as it was, until `tx_burst` takes only a part of a batch; a free mbuf is in its own pool until mbufs of several pools are freed as one batch | pools of 2 mbufs and 1, 2 tx descriptors, batches of up to 3, 2 sends, 2 contents, with and without fast release |
| `buffer` | all operations, `from_bytes` included, agree with `PacketBytes`; the packet stays inside its data area | 4 bytes of 2 values |

The bounds are enough for the interesting cases to occur.  A usable ring size of
1 is filled by one frame, so a third frame finds it full with another one behind
it.  Four mbufs are exhausted by two received frames (two mbufs each), or by two
frames and a burst.  The wrap-around of 4 ids comes after three calls, and three
calls after it reuse ids that are listed, free or removed.  `Offset` goes one
past the capacity.  In `traffic` one route is enough: it becomes stale when its
client is removed, and the properties are about mbufs, not about the table; two
packets fill a ring of one usable slot, so that the second one sent to it is
lost, and two clients make `store_outgoing` visit several rings in a round.  In `lifecycle` a batch of three exceeds the two
descriptors, the orders of two mbufs of one pool and one of the other give
`mbuf_free_bulk` no, one and two flushes, and a second send follows on a refused
one.  Three cores are the smallest odd count above one.  Liveness runs use no symmetry.  None of the runs checks
deadlock: both processes may exit, the number of frames and calls is bounded,
and a panicked packetiser or buffer stops.  The violations need no more than one
packet more than the ring holds, or one packetiser.

Runs in which TLC finds a violation state what a comment in the repository says
and the code does not do:

| Run | The code |
|---|---|
| `leak_full_ring` | a packet that the full ring refuses is neither kept nor freed (`memring.rs:123`; `mbuf.rs:118` asks the caller to free it) |
| `received_empty` | `i_bufqueue` gets empty buffers instead of the packets received (`memring.rs:170`; `packetiser/mod.rs:80`) |
| `engine_dangling` | the packetiser's destructors free what the running engine uses (`memring.rs:223`) |
| `lookup_race` | a packetiser started between the creation of the two rings frees the first (`memring.rs:255`) |
| `write_error` | `write_data_slice` at an offset in the second half of the packet writes and then returns an error (`mbuf.rs:253`) |

More defects are plain from the model without a search:

* The engine polls one of the rx queues that RSS fills (`rxbin.rs:13`;
  `RxFrame`), so frames in the others are never received.
* The packetiser drops its pool before the mbufs in its queues
  (`packetiser/mod.rs:78`; `DropQueues` ends in `"undefined"` whenever a packet
  was received).
* A debug build that has received a packet spins on a queue nobody empties and
  never reads its flag again (`l3enginepacketiser/src/main.rs:111`; `Spinning`,
  the exception in `RingServed` and `CtrlCStopsUnlessSpinning`).
* A build without overflow checks gives a client the packetiser's own id once
  the counter has wrapped (`packetiser/mod.rs:133`; `PacketiserIdReserved`
  claims it only up to the wrap).
* An odd number of cores cannot be configured (`port.rs:77` against
  `port.rs:88`; `QueueRefused`); `main` passes 2.
* `_pkt_arp_response` copies the source address of the request to the source of
  the answer (`shim.c:384`; `ArpResponse`).
* `IfaceEmulator::new` builds the interface's address from `addr[0]` four times
  (`device.rs:88`).

## 4. Fairness

`Dataplane` assumes weak fairness of each process's steps: each main is one
thread, runs without blocking calls, and the OS keeps scheduling it.  `Startup`
assumes the same of the mains and of ZeroMQ's I/O threads, which deliver a
queued message once the peer has bound.  Nothing is assumed of the wire, of
Ctrl+C, of kills, or of anybody starting a packetiser.  Weak fairness of a whole
process, rather than of each action, lets the model take any branch the code
may take, in particular a failing allocation.

## 5. What is proved

Each theorem below holds for every value of the constants that the module's
named `ASSUME` admits; TLC evaluates the same assumption on every run.

`DataplaneProofs`, for every pool, ring, burst and queue size and every number
of frames, in release and debug builds (`debug` is part of the state):

| Theorem | Statement |
|---|---|
| `TypeCorrect` | `Spec => []TypeOK`: types, ring and burst capacities |
| `NothingReturns` | `Spec => []ReturnPathIdle`: the way back to the wire stays empty |
| `OwnershipExclusive` | `Spec => []ExclusiveOwnership`: no mbuf has two holders or is twice in one queue |
| `ImplementsOwnership` | `Spec => OwnershipSpec`: `Dataplane` implements `MbufOwnership` |
| `EngineSafe` | `Spec => []EngineSafeUntilDrop`: only the packetiser's destructors endanger the engine |
| `ReceivingLeaks` | `Spec => []EveryReceiveLeaks`: every stored buffer has cost a second mbuf |
| `FramesInOrder` | `Spec => []InOrder`: frames stay in order up to the ring |

`StartupProofs`, for any number of packetisers and cores:

| Theorem | Statement |
|---|---|
| `TypeCorrect` | `Spec => []TypeOK`: types, and a hello is in one socket |
| `QueuesReady` | `Spec => []TxQueuesReady`: an engine in its loop has the queues its lcores use |
| `DoubleFreeTakesTwo` | `Spec => []DoubleFreeNeedsTwo`: no process frees an object twice, so a second free meets another process's; a panicking engine is one of the processes |
| `HelloMeansLive` | `Spec => []HelloAnnouncesLiveObjects`: the objects a hello stands for exist unless a process other than its sender has freed them |
| `NobodyAttachesAgain` | `Spec => AttachIsOnce`: no packetiser gets through its lookups after another's orderly end |

`ClientRegistryProofs`, for every id space of more than 2 ids and both build
profiles:

| Theorem | Statement |
|---|---|
| `TypeCorrect` | `Spec => []TypeOK` |
| `RingsAreChannels` | `Spec => []RingNamesMatch`: the named rings are those of the channels in use |
| `ChannelsHaveIds` | `Spec => []ChannelsAllocated` |
| `IdsFresh` | `Spec => []IdsNeverReused`: no id is given twice until the counter wraps |
| `OwnIdReserved` | `Spec => []PacketiserIdReserved` |

`ClientTrafficProofs`, for any number of mbufs and clients and any routes:

| Theorem | Statement |
|---|---|
| `TypeCorrect` | `Spec => []TypeOK`: types and ring capacities |
| `BurstsEnd` | `Spec => NothingLeftBehind`: a burst that does not panic is handled to its end |
| `OneHolder` | `Spec => []NoMbufTwice`: no mbuf is in two places |
| `PacketsLeak` | `Spec => []EveryPacketLeaksOne`: every packet that came by a ring has cost a second mbuf |

`MbufLifecycleProofs`, for any number of pools and mbufs, any batch size and
number of tx descriptors, with and without the fast release:

| Theorem | Statement |
|---|---|
| `TypeCorrect` | `Spec => []TypeOK`: pools, program and NIC have mbufs only |
| `MbufsSurvive` | `Spec => []NothingLeaks`: no call of `Mbuf` and `Port` loses an mbuf |
| `OneOwner` | `Spec => []OneOwnerUnlessRefused`: one owner until a batch is accepted in part |
| `SentIntact` | `Spec => []SentIntactUnlessRefused`: until then a sent packet stays as it was |
| `FreeMbufsAtHome` | `Spec => []HomeUnlessMixed`: only a mixed batch moves mbufs to foreign pools |

`MbufBufferProofs`, for every capacity, offset and byte:

| Theorem | Statement |
|---|---|
| `TypeCorrect` | `Spec => []TypeOK`: lengths stay inside the data area; `data_len` equals `pkt_len` |
| `ImplementsBytes` | `Spec => OperationsImplementBytes`: the operations do what `PacketBytes` says |

`PacketHeaders`, for every packet:

| Theorem | Statement |
|---|---|
| `ConvertReverses` | `Ipv4Hdr::convert` gives the octets of an address in reverse: the step `Convert` of `ClientTraffic` |
| `DetectArpCompares` | the address comparison of `_pkt_detect_arp`, which follows its tests of type and opcode, reduces each number of the parsed address to an octet |
| `IpaddrToU32Wrong` | `Server::ipaddr_to_u32` is right exactly if the second octet equals the last |
| `IcmpChecksumLosesCarry` | `_pkt_icmp_checksum` is right exactly for the 9 checksums above 65526; for all others it is one too large |
| `ArpResponseSettles` | the responder of `shim.c` never answers an answer |
| `ArpServersNeverSettle` | two servers of `server.rs` that know each other's addresses repeat the same two packets for ever |

These need no assumption on constants and no induction: the arithmetic is linear
with division by constants, and the ARP results unfold the functions once.

### Assumptions

| Module | `ASSUME` | Says |
|---|---|---|
| `Dataplane` | `DataplaneAssumption`, `EmptyAssumption` | finite pool, positive sizes, the polled queue exists, an empty mbuf is not a frame |
| `Startup` | `CoresAssumption`, `PacketiserAssumption` | core counts are positive; the engine is not a packetiser |
| `ClientRegistry` | `RegistryAssumption` | there are ids besides 0 and the packetiser's |
| `ClientTraffic` | `TrafficAssumption` | finitely many mbufs and clients, client ids are positive, the reverse of an address is an address, positive sizes |
| `MbufLifecycle` | `LifecycleAssumption` | finitely many mbufs and pools, each mbuf has a pool, positive sizes |
| `MbufBuffer` | `BufferAssumption` | a positive capacity, at least one byte value |

The bounds on calls and frames (`MaxAdds`, `MaxSends`, `MaxSent`, `MaxRoutes`,
`MaxFrames`) are arbitrary numbers in the theorems.

### Arguments and inductive invariants

**Dataplane.**

1. *Types.*  `TypeOK` alone is not inductive.  A released buffer must not leave
   `count` above the length of `bufs` (`ReleaseCounted`), and the general
   `SendPktsOut`, which frees packets the NIC has accepted, is harmless only
   while the way back is idle.  `TypeInv` adds both, and
   `GetIdle`, `OutIdle` and `SpinIdle` show that the three actions of the way
   back then change nothing.
2. *Ownership.*  Each action that moves mbufs has a lemma saying which one moves
   from which holder to which (`RxFrameMoves` ... `ReleaseBufMoves`) or which are
   lost (`SendFailsLoses`, `RingLoses`); `QuietSteps` collects the others.
   `Hand` and `Shed` say that moving one mbuf and losing some keep the holders
   disjoint.  `ExclusiveOwnership` is inductive relative to `TypeInv`.
3. *Refinement.*  The same lemmas, read on the four parties, make each step a
   `Give`, a `Lose` or a stutter of `MbufOwnership`.
4. *Safety of the engine.*  `DropInv`: an object has been released, or the
   engine is in the undefined state, only once the packetiser drops its fields.
5. *The leak.*  `LeakInv` adds that `count` is 0 outside the loop that stores.
   `DequeueBurst` raises `count` by exactly the number of mbufs it loses; every
   other step only lets the set of held mbufs shrink.
6. *Order.*  `InOrder` is about the concatenation of three queues.  `OrderInv`
   says it queue by queue (each rises, each is ahead of the next), adds that
   every mbuf on the way carries a frame and that the wire's queue comes after
   all of them and ends at the last arrival: without this `RxFrame` could take a
   frame that is too old.

**Startup.**  `TypeInv` adds that a hello in the engine's socket has been sent
and that all queues are set up once the port starts; with an odd number of cores
the two bounds on `queues` contradict each other, so no such engine serves.
`HandleInv` says who has a handle of what, the engine's `main` being one more
holder: a handle's object was created; a process that has called an object's
destructor (`freedBy`) is past it for good (`HandlesGood`, `EngineHandlesGood`);
only destructors release objects; objects do not exist before the engine's main
comes to them; and an orderly end has released the pool.  So a process that is
about to release an object has not done so before, and if the object is gone
another one has (`ReleaseMeets`).  The theorems on double frees and on the hello
follow.

**ClientRegistry.**  `RegistryInv` adds `IdInv`: until the wrap the counter is
the number of calls plus the packetiser's id, and the allocated ids are sorted,
above the packetiser's and up to the counter.  So 0 is never listed, the search
of `add_client` always reports 0, "none found", and the next number is fresh.

**ClientTraffic.**  `LoopInv` ties the loop counter `left` to the length of the
queue a loop works on.  Then every step is a `Handover`: one queue gains the
mbufs `F`, which no other place keeps, and the pool gains `G`.  `HandoverKeepsOne`
gives `NoMbufTwice`.  For the leak, each step is `Free` (it queues only mbufs that
carried a packet already, mbufs of `recv_from_clients`' caller, or to queues that
do not count) or `Paid` (`StoreIncoming` and `CollectPacket` lose as many mbufs as
they queue).  That leaving `direct` out hides no packet that came by a ring is
`DirectStaysOut`: what a client's ring has had never comes back to the pool or
to another queue.

**MbufLifecycle.**  The heart is `PutAll`: whatever pools the mbufs of a batch
belong to, what `mbuf_free_bulk` puts back is the batch itself, by induction over
its loop.  `InPoolsChange` says how the number of copies in all pools follows one
pool.  With them, every call but `Port::send` is `Balanced`, and `SendOwners`
shows that `Port::send` leaves the number of owners alone when the whole batch
was accepted and can only raise it otherwise.  `OwnersInv` (types, at
most `TxDesc` packets in the NIC, and the two properties on owners) is inductive.  `SentIntactUnlessRefused` is inductive
only together with it: a program can write to an mbuf it has, and a driver can
fill one that is free, and that neither is in the NIC follows from its one owner
(`NotSent`).

**MbufBuffer.**  `TypeOK` is inductive.  The refinement compares the packet after
a step with pieces of the packet before it: `Move` and `Store` are cut at the
offsets (`FrontBytes`, `BackBytes`, `ThreePieces`), and `Assembled` puts the pieces
together.

Induction is needed in few places: the loop of `mbuf_free_bulk` is unrolled by
an argument on the least counterexample (`MinOfNats`, `Reaches`), and `MinOfNats`
also gives the index that `RemoveFirst` and the id that `add_client`'s search
finds.

## 6. What is only model-checked

Liveness: `RingServed`, `BacklogDrains`, `CtrlCStopsEngine`,
`CtrlCStopsUnlessSpinning`, `PolledQueueServed`, `EngineStarts` and
`PacketiserEnds`.  They rest on weak fairness, and reasoning about `ENABLED` is
out of the prover's reach.  The five violations are counterexamples, which TLC
shows.

## 7. What is not modelled

* `dpdk-sys/src/bindings_rustdoc.rs`, nine tenths of the repository's lines, is
  generated by bindgen from the DPDK headers: types, constants and foreign
  function declarations.  `build.rs` finds DPDK and runs bindgen.
* The TCP, UDP and ICMP header parsers of the shim return a fixed offset; they
  have no caller.  `MacAddr` is not compiled.
* Offloads, statistics and device information: they change no state that the
  program reads.  `Memzone::lookup` and `virt_addr` have no caller but a debug
  message.
* smoltcp sockets and device: `incoming` and `outgoing` are vectors of length 0
  that nothing fills, so each poll hands the stack an empty frame, which it
  rejects; `process_pkts` logs the error and changes nothing else.  The stack is
  third-party code.
* `server.rs` is not compiled into the engine; its pure functions are in
  `PacketHeaders`.  The gatekeeper is empty, the speed tester prints a line, and
  the scripts do not take part in the data path.
* `rx_thread_main` and `tx_thread_main` are not started by `main`.
* The inside of `rte_ring` (slot-level races of two consumers) and of NIC
  drivers: DPDK is modelled by what the code relies on.

## 8. Plan

1. `ClientTraffic`: per-client order of what is forwarded, with the lemmas on
   rising queues of `QueueLemmas`.
2. The interface's device, once something fills it.
