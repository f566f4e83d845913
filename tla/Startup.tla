------------------------------ MODULE Startup ------------------------------
(***************************************************************************)
(* How the two processes come up and go away: the engine creates the pool, *)
(* configures its port, creates the rings and blocks until a ZeroMQ hello  *)
(* arrives; a packetiser looks the objects up by name, sends the hello and *)
(* runs.  Dataplane models what they do from then on; here one state       *)
(* stands for both loops.                                                  *)
(*                                                                         *)
(* A handle in Rust owns the shared object: whoever drops a Ring or a      *)
(* Mempool frees it for every process, found by lookup or not.             *)
(***************************************************************************)
EXTENDS Naturals, FiniteSets

CONSTANTS
  Packetiser,   \* packetiser processes started over time
  Cores         \* core counts given to Port::configure (main passes 2)

ASSUME CoresAssumption == Cores \subseteq Nat \ {0}

Process == Packetiser \cup {"engine"}
ASSUME PacketiserAssumption == "engine" \notin Packetiser

VARIABLES
  obj,      \* obj[o]: state of the shared object o in DPDK's name tables
  freedBy,  \* freedBy[o]: the processes that have called o's destructor (history)
  cores,    \* num_cores, the rx and tx queues rte_eth_dev_configure grants
  queues,   \* rx and tx queues 0 .. queues - 1 of the port are set up
  engine,   \* where the engine's main is
  pk,       \* pk[p]: where packetiser p's main is
  outbox,   \* packetisers whose hello is still in their own socket
  inbox     \* packetisers whose hello is in the engine's socket

portVars == <<cores, queues>>
objVars == <<obj, freedBy>>
vars == <<objVars, portVars, engine, pk, outbox, inbox>>

Object == {"pool", "memzone", "e2c", "c2e"}
Serving == {"bind", "wait", "run"}
\* Destructors that a panic of the engine's main runs.
EngineUnwinding == {"unwindC2E", "unwindE2C", "unwindMemzone"}
\* Gone by exit or kill, which free nothing; gone by a panic; after a double free.
EngineEnded == {"dead", "failed", "undefined"}
EngineState ==
  {"eal", "pool", "port", "queues", "start", "memzone", "e2c", "c2e"}
    \cup Serving \cup EngineUnwinding \cup EngineEnded

\* Packetiser::new, then the loop, then the end of main.
Attaching == {"lookE2C", "lookC2E", "lookPool"}
Attached == {"hello", "run", "linger"}
Dropping == {"dropC2E", "dropE2C", "dropPool"}
\* Destructors run by a failed lookup, before the panic.
Unwinding == {"failE2C", "unwindC2E", "unwindE2C"}
Ended == {"exited", "panicked", "killed", "undefined"}
PkState == {"off"} \cup Attaching \cup Attached \cup Dropping \cup Unwinding \cup Ended

\* Every variable keeps its type; a hello is in one socket at a time, and it is
\* in its sender's only while that packetiser's ZeroMQ context lives.
TypeOK ==
  /\ obj \in [Object -> {"absent", "live", "freed"}]
  /\ freedBy \in [Object -> SUBSET Process]
  /\ cores \in Cores
  /\ queues \in 0 .. cores
  /\ engine \in EngineState
  /\ pk \in [Packetiser -> PkState]
  /\ outbox \subseteq {p \in Packetiser : pk[p] \in {"run", "linger"}}
  /\ inbox \subseteq Packetiser \ outbox

Init ==
  /\ obj = [o \in Object |-> "absent"] /\ freedBy = [o \in Object |-> {}]
  /\ cores \in Cores /\ queues = 0
  /\ engine = "eal"
  /\ pk = [p \in Packetiser |-> "off"]
  /\ outbox = {} /\ inbox = {}

-----------------------------------------------------------------------------
(* Faulty variants: edits of the operations below that the properties must *)
(* tell from the code.  They are not part of the specification.            *)

\* The socket is bound only once a hello is there.
BindLate ==
  /\ engine = "bind" /\ inbox # {}
  /\ engine' = "wait"
  /\ UNCHANGED <<objVars, portVars, pk, outbox, inbox>>

\* The failed half of Channel::lookup frees its ring, and so does the caller.
FreesTwice(p) ==
  /\ pk[p] = "failE2C"
  /\ IF obj["e2c"] = "live"
       THEN obj' = [obj EXCEPT !["e2c"] = "freed"] /\ UNCHANGED pk
       ELSE pk' = [pk EXCEPT ![p] = "undefined"] /\ UNCHANGED obj
  /\ freedBy' = [freedBy EXCEPT !["e2c"] = @ \cup {p}]
  /\ UNCHANGED <<portVars, engine, outbox, inbox>>

\* One queue per core, odd or even.
QueueCountUnrounded == cores

\* Ring handles that do not own the ring.
FreeNothing(p, from, o, to) ==
  /\ pk[p] = from /\ o \in Object
  /\ pk' = [pk EXCEPT ![p] = to]
  /\ UNCHANGED <<objVars, portVars, engine, outbox, inbox>>

\* The packetiser ends without waiting for its hello to leave: the hello is
\* still sent later, or it is lost.
TermNoWait(p) ==
  /\ pk[p] = "linger"
  /\ pk' = [pk EXCEPT ![p] = "dropC2E"]
  /\ UNCHANGED <<objVars, portVars, engine, outbox, inbox>>
TermDropsHello(p) ==
  /\ pk[p] = "linger"
  /\ pk' = [pk EXCEPT ![p] = "dropC2E"]
  /\ outbox' = outbox \ {p}
  /\ UNCHANGED <<objVars, portVars, engine, inbox>>

-----------------------------------------------------------------------------
(* The engine. *)

EngineEal ==
  /\ engine = "eal"
  /\ engine' = "pool"
  /\ UNCHANGED <<objVars, portVars, pk, outbox, inbox>>

\* Mempool::new and the two Ring::new of Channel::new, in program order.
Create(o, next) ==
  /\ engine = o
  /\ obj' = [obj EXCEPT ![o] = "live"]
  /\ engine' = next
  /\ UNCHANGED <<freedBy, portVars, pk, outbox, inbox>>

CreatePool == Create("pool", "port")
CreateMemzone == Create("memzone", "e2c")
CreateE2C == Create("e2c", "c2e")
CreateC2E == Create("c2e", "bind")

\* Port::configure rounds an odd number of cores up to have queues in pairs.
QueueCount == IF cores % 2 = 1 THEN cores + 1 ELSE cores

\* Port::new, rte_eth_dev_configure with `cores` queues each way.
ConfigurePort ==
  /\ engine = "port"
  /\ engine' = "queues"
  /\ UNCHANGED <<objVars, portVars, pk, outbox, inbox>>

\* rx and tx queue number `queues`; DPDK refuses one that was not granted.
SetupQueue ==
  /\ engine = "queues"
  /\ queues < QueueCount /\ queues < cores
  /\ queues' = queues + 1
  /\ UNCHANGED <<objVars, cores, engine, pk, outbox, inbox>>

QueueRefused ==
  /\ engine = "queues"
  /\ queues < QueueCount /\ queues >= cores
  /\ engine' = "failed"
  /\ UNCHANGED <<objVars, portVars, pk, outbox, inbox>>

QueuesDone ==
  /\ engine = "queues"
  /\ queues = QueueCount
  /\ engine' = "start"
  /\ UNCHANGED <<objVars, portVars, pk, outbox, inbox>>

\* Promiscuous mode and rte_eth_dev_start.
StartPort ==
  /\ engine = "start"
  /\ engine' = "memzone"
  /\ UNCHANGED <<objVars, portVars, pk, outbox, inbox>>

\* Where a panic of main in state e begins to drop its locals: the channel once
\* it is whole, E2C alone if the second Ring::new failed, the Memzone.  The pool
\* is in a static and stays.
UnwindFrom(e) ==
  CASE e \in {"bind", "wait"} -> "unwindC2E"
    [] e = "c2e"              -> "unwindE2C"
    [] e = "e2c"              -> "unwindMemzone"
    [] OTHER                  -> "failed"

\* A call of the set-up fails, up to the bind and the blocking recv.  ZeroMQ's
\* context is the first local to go, with whatever its socket holds.
SetupFails ==
  /\ engine \notin {"run"} \cup EngineUnwinding \cup EngineEnded
  /\ engine' = UnwindFrom(engine)
  /\ inbox' = {}
  /\ UNCHANGED <<objVars, portVars, pk, outbox>>

\* rte_ring_free and rte_mempool_free, called by process x, release the object
\* for all processes.
Release(x, o) ==
  /\ obj' = [obj EXCEPT ![o] = "freed"]
  /\ freedBy' = [freedBy EXCEPT ![o] = @ \cup {x}]

\* A destructor of the engine.  Of an object that a packetiser has released the
\* call accesses memory that is gone.
EngineFree(from, o, to) ==
  /\ engine = from
  /\ Release("engine", o)
  /\ engine' = IF obj[o] = "live" THEN to ELSE "undefined"
  /\ UNCHANGED <<portVars, pk, outbox, inbox>>

EngineUnwindC2E == EngineFree("unwindC2E", "c2e", "unwindE2C")
EngineUnwindE2C == EngineFree("unwindE2C", "e2c", "unwindMemzone")
EngineUnwindMemzone == EngineFree("unwindMemzone", "memzone", "failed")

EngineBind ==
  /\ engine = "bind"
  /\ engine' = "wait"
  /\ UNCHANGED <<objVars, portVars, pk, outbox, inbox>>

\* responder.recv blocks until a hello is there; it is never answered.
RecvHello ==
  /\ engine = "wait"
  /\ \E p \in inbox : inbox' = inbox \ {p}
  /\ engine' = "run"
  /\ UNCHANGED <<objVars, portVars, pk, outbox>>

\* The end of the engine: exit(0) after Ctrl+C in its loop, or a kill.  Neither
\* runs a destructor.
EngineEnds ==
  /\ engine \notin EngineEnded
  /\ engine' = "dead"
  /\ inbox' = {}
  /\ UNCHANGED <<objVars, portVars, pk, outbox>>

EngineStep ==
  \/ EngineEal \/ CreatePool
  \/ ConfigurePort \/ SetupQueue \/ QueueRefused \/ QueuesDone \/ StartPort
  \/ CreateMemzone \/ CreateE2C \/ CreateC2E
  \/ EngineBind \/ RecvHello
  \/ EngineUnwindC2E \/ EngineUnwindE2C \/ EngineUnwindMemzone

-----------------------------------------------------------------------------
(* A packetiser. *)

\* packetiser::start: a secondary process needs a primary's configuration.
Start(p) ==
  /\ pk[p] = "off"
  /\ pk' = [pk EXCEPT ![p] = IF engine = "eal" THEN "panicked" ELSE "lookE2C"]
  /\ UNCHANGED <<objVars, portVars, engine, outbox, inbox>>

Lookup(p, from, o, found, missing) ==
  /\ pk[p] = from
  /\ pk' = [pk EXCEPT ![p] = IF obj[o] = "live" THEN found ELSE missing]
  /\ UNCHANGED <<objVars, portVars, engine, outbox, inbox>>

LookupE2C(p) == Lookup(p, "lookE2C", "e2c", "lookC2E", "panicked")
LookupC2E(p) == Lookup(p, "lookC2E", "c2e", "lookPool", "failE2C")
LookupPool(p) == Lookup(p, "lookPool", "pool", "hello", "unwindC2E")

\* A destructor of packetiser p.
Free(p, from, o, to) ==
  /\ pk[p] = from
  /\ Release(p, o)
  /\ pk' = [pk EXCEPT ![p] = IF obj[o] = "live" THEN to ELSE "undefined"]
  /\ UNCHANGED <<portVars, engine, outbox, inbox>>

\* Channel::lookup found E2C but not C2E: `?` drops the handle it has.
FailE2C(p) == Free(p, "failE2C", "e2c", "panicked")

\* Mempool::lookup failed: the panic drops the channel.
UnwindC2E(p) == Free(p, "unwindC2E", "c2e", "unwindE2C")
UnwindE2C(p) == Free(p, "unwindE2C", "e2c", "panicked")

\* connect succeeds with or without a peer; send only queues the message.
SendHello(p) ==
  /\ pk[p] = "hello"
  /\ pk' = [pk EXCEPT ![p] = "run"]
  /\ outbox' = outbox \cup {p}
  /\ UNCHANGED <<objVars, portVars, engine, inbox>>

\* The loop ends, by Ctrl+C or for lack of mbufs.
LeaveLoop(p) ==
  /\ pk[p] = "run"
  /\ pk' = [pk EXCEPT ![p] = "linger"]
  /\ UNCHANGED <<objVars, portVars, engine, outbox, inbox>>

\* Locals are dropped in reverse order: the ZeroMQ context first, and it
\* waits until the hello has left; then the Packetiser, field by field.
TermContext(p) ==
  /\ pk[p] = "linger"
  /\ p \notin outbox
  /\ pk' = [pk EXCEPT ![p] = "dropC2E"]
  /\ UNCHANGED <<objVars, portVars, engine, outbox, inbox>>

DropC2E(p) == Free(p, "dropC2E", "c2e", "dropE2C")
DropE2C(p) == Free(p, "dropE2C", "e2c", "dropPool")
DropPool(p) == Free(p, "dropPool", "pool", "exited")

PacketiserStep(p) ==
  \/ LookupE2C(p) \/ LookupC2E(p) \/ LookupPool(p)
  \/ FailE2C(p) \/ UnwindC2E(p) \/ UnwindE2C(p)
  \/ SendHello(p) \/ TermContext(p)
  \/ DropC2E(p) \/ DropE2C(p) \/ DropPool(p)

\* SIGINT before the handler is set, or SIGKILL: no destructor runs.
Kill(p) ==
  /\ pk[p] \notin {"off"} \cup Ended
  /\ pk' = [pk EXCEPT ![p] = "killed"]
  /\ outbox' = outbox \ {p}
  /\ UNCHANGED <<objVars, portVars, engine, inbox>>

\* ZeroMQ's I/O threads move a hello over once the engine has bound.
Deliver(p) ==
  /\ p \in outbox
  /\ engine \in {"wait", "run"}
  /\ outbox' = outbox \ {p}
  /\ inbox' = inbox \cup {p}
  /\ UNCHANGED <<objVars, portVars, engine, pk>>

-----------------------------------------------------------------------------
Next ==
  \/ EngineStep \/ SetupFails \/ EngineEnds
  \/ \E p \in Packetiser :
       Start(p) \/ PacketiserStep(p) \/ LeaveLoop(p) \/ Kill(p) \/ Deliver(p)

Spec == Init /\ [][Next]_vars

\* Both mains and ZeroMQ's threads keep running; nobody has to press Ctrl+C,
\* start a packetiser or kill one.
Fairness ==
  /\ WF_vars(EngineStep)
  /\ \A p \in Packetiser : WF_vars(PacketiserStep(p)) /\ WF_vars(Deliver(p))
FairSpec == Spec /\ Fairness

-----------------------------------------------------------------------------
(* Properties. *)

Undefined(x) == IF x = "engine" THEN engine = "undefined" ELSE pk[x] = "undefined"

\* A process that releases an object a second time meets what another process
\* did: each runs the destructor of an object at most once, whatever was created,
\* found or failed before, and a killed process none.  Any two that came to their
\* destructors may meet: two packetisers, or one and an engine that panicked.
DoubleFreeNeedsTwo ==
  \A x \in Process :
    Undefined(x) => \E o \in Object : x \in freedBy[o] /\ freedBy[o] \ {x} # {}

\* While a hello is on its way the objects it stands for exist, unless a process
\* that is not its sender has run their destructor.
HelloAnnouncesLiveObjects ==
  \A p \in outbox, o \in Object :
    p \notin freedBy[o] /\ (obj[o] = "live" \/ freedBy[o] # {})

\* txbin sends on queue queue_id ^ 1, rxbin polls queue_id.
TxQueue(q) == IF q % 2 = 0 THEN q + 1 ELSE q - 1

\* An engine that gets past the set-up of its port has, for whatever number of
\* cores, both the rx queue an lcore polls and the tx queue it sends on.
TxQueuesReady ==
  engine \in Serving =>
    \A q \in 0 .. cores - 1 : q < queues /\ TxQueue(q) < queues

\* The orderly end of one packetiser is the end of the channel: none started
\* later can attach, although the engine still runs.
AttachIsOnce ==
  [][(\E q \in Packetiser : pk[q] = "exited")
       => \A p \in Packetiser : pk[p] # "hello" => pk'[p] # "hello"]_vars

\* A hello that was sent starts the engine unless that one ends, even if its
\* sender leaves its loop at once.
EngineStarts ==
  \A p \in Packetiser :
    p \in outbox ~> (engine \in {"run"} \cup EngineEnded \/ pk[p] = "killed")

\* Nothing but the end of the engine keeps a packetiser from ending.
PacketiserEnds ==
  \A p \in Packetiser : pk[p] = "linger" ~> (pk[p] \in Ended \/ engine \in EngineEnded)

-----------------------------------------------------------------------------
(* What comments of the repository say, and the code does not do. *)

\* memring.rs:252: Channel::lookup looks both rings up.  It changes neither.
LookupKeepsRings ==
  [][\A p \in Packetiser :
       pk[p] \in Attaching \cup Unwinding /\ pk'[p] # pk[p] /\ pk'[p] # "killed"
         => UNCHANGED obj]_vars
=============================================================================
