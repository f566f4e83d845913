---------------------------- MODULE StartupProofs ----------------------------
(***************************************************************************)
(* Proofs about Startup for every number of packetisers and of cores.      *)
(***************************************************************************)
EXTENDS Startup, TLAPS

-----------------------------------------------------------------------------
(* Types, and the queues of the port. *)

\* A hello is in the engine's socket only after its sender has sent it.
Sent == {"run", "linger"} \cup Dropping \cup Ended
InboxSent == \A p \in inbox : pk[p] \in Sent

\* From the start of the port on all queues are set up.
PortReady == {"start", "memzone", "e2c", "c2e"} \cup Serving
QueuesSetUp == engine \in PortReady => queues = QueueCount

TypeInv == TypeOK /\ InboxSent /\ QueuesSetUp

\* Before either process runs nothing is set up.
LEMMA TypeInit == Init => TypeInv
<1> SUFFICES ASSUME Init PROVE TypeInv
  OBVIOUS
<1>1. queues \in 0 .. cores
  BY CoresAssumption DEF Init
<1> QED
  BY <1>1 DEF Init, TypeInv, TypeOK, InboxSent, QueuesSetUp, Object, EngineState,
              PkState, PortReady, Serving

\* A destructor keeps them, whoever runs it.
LEMMA TypeRelease ==
  ASSUME TypeInv, NEW x \in Process, NEW o \in Object, Release(x, o)
  PROVE  /\ obj' \in [Object -> {"absent", "live", "freed"}]
         /\ freedBy' \in [Object -> SUBSET Process]
BY DEF TypeInv, TypeOK, Release

\* The engine's start-up, and what a panic unwinds, keep the types.
LEMMA TypeEngine ==
  TypeInv /\ (EngineStep \/ SetupFails \/ EngineEnds) => TypeInv'
<1> SUFFICES ASSUME TypeInv, EngineStep \/ SetupFails \/ EngineEnds
             PROVE  TypeInv'
  OBVIOUS
<1> USE DEF TypeInv, TypeOK, InboxSent, QueuesSetUp, QueueCount, portVars, objVars, Object,
            EngineState, PortReady, Serving, EngineUnwinding, EngineEnded
<1>1. CASE EngineEal \/ ConfigurePort \/ QueuesDone \/ StartPort \/ EngineBind
  BY <1>1 DEF EngineEal, ConfigurePort, QueuesDone, StartPort, EngineBind
<1>2. CASE CreatePool \/ CreateMemzone \/ CreateE2C \/ CreateC2E
  BY <1>2 DEF CreatePool, CreateMemzone, CreateE2C, CreateC2E, Create
<1>3. CASE SetupQueue
  <2>1. cores \in Nat
    BY CoresAssumption
  <2>2. queues' \in 0 .. cores'
    BY <1>3, <2>1 DEF SetupQueue
  <2> QED
    BY <1>3, <2>2 DEF SetupQueue
<1>4. CASE QueueRefused \/ RecvHello \/ EngineEnds
  BY <1>4 DEF QueueRefused, RecvHello, EngineEnds
<1>5. CASE SetupFails
  BY <1>5 DEF SetupFails, UnwindFrom
<1>6. ASSUME NEW from \in EngineUnwinding, NEW o \in Object, NEW to \in EngineUnwinding \cup EngineEnded,
             EngineFree(from, o, to)
      PROVE  TypeInv'
  <2>1. /\ obj' \in [Object -> {"absent", "live", "freed"}]
        /\ freedBy' \in [Object -> SUBSET Process]
    BY <1>6, TypeRelease DEF EngineFree, Process
  <2> QED
    BY <1>6, <2>1 DEF EngineFree
<1>7. CASE EngineUnwindC2E \/ EngineUnwindE2C \/ EngineUnwindMemzone
  BY <1>6, <1>7 DEF EngineUnwindC2E, EngineUnwindE2C, EngineUnwindMemzone
<1> QED
  BY <1>1, <1>2, <1>3, <1>4, <1>5, <1>7 DEF EngineStep

\* So does each step of a packetiser and of its socket.
LEMMA TypePacketiser ==
  ASSUME TypeInv, NEW p \in Packetiser,
         Start(p) \/ PacketiserStep(p) \/ LeaveLoop(p) \/ Kill(p) \/ Deliver(p)
  PROVE  TypeInv'
<1> USE DEF TypeInv, TypeOK, InboxSent, QueuesSetUp, QueueCount, portVars, objVars, Object,
            PkState, Sent, Attaching, Attached, Dropping, Unwinding, Ended
<1>1. CASE Start(p)
  BY <1>1 DEF Start
<1>2. CASE LookupE2C(p) \/ LookupC2E(p) \/ LookupPool(p)
  BY <1>2 DEF LookupE2C, LookupC2E, LookupPool, Lookup
<1>0. ASSUME NEW from, NEW o \in Object, NEW to \in PkState, Free(p, from, o, to),
             from \in Dropping \cup Unwinding, to \in Sent \/ from \notin Sent, p \notin outbox
      PROVE  TypeInv'
  <2>1. /\ obj' \in [Object -> {"absent", "live", "freed"}]
        /\ freedBy' \in [Object -> SUBSET Process]
    BY <1>0, TypeRelease DEF Free, Process
  <2> QED
    BY <1>0, <2>1 DEF Free
<1>3. CASE FailE2C(p) \/ UnwindC2E(p) \/ UnwindE2C(p)
  <2>1. p \notin outbox
    BY <1>3 DEF FailE2C, UnwindC2E, UnwindE2C, Free
  <2> QED
    BY <1>0, <1>3, <2>1 DEF FailE2C, UnwindC2E, UnwindE2C
<1>4. CASE DropC2E(p) \/ DropE2C(p) \/ DropPool(p)
  <2>1. p \notin outbox
    BY <1>4 DEF DropC2E, DropE2C, DropPool, Free
  <2> QED
    BY <1>0, <1>4, <2>1 DEF DropC2E, DropE2C, DropPool
<1>5. CASE SendHello(p)
  BY <1>5 DEF SendHello
<1>6. CASE LeaveLoop(p) \/ TermContext(p)
  BY <1>6 DEF LeaveLoop, TermContext
<1>7. CASE Kill(p)
  BY <1>7 DEF Kill
<1>8. CASE Deliver(p)
  BY <1>8 DEF Deliver
<1> QED
  BY <1>1, <1>2, <1>3, <1>4, <1>5, <1>6, <1>7, <1>8 DEF PacketiserStep

\* TypeInv holds throughout start-up and shutdown.
LEMMA TypeInvariant == Spec => []TypeInv
<1>1. TypeInv /\ UNCHANGED vars => TypeInv'
  BY DEF TypeInv, TypeOK, InboxSent, QueuesSetUp, QueueCount, vars, portVars, objVars
<1>2. TypeInv /\ [Next]_vars => TypeInv'
  BY <1>1, TypeEngine, TypePacketiser DEF Next
<1> QED
  BY <1>2, TypeInit, PTL DEF Spec

\* Types, and where a hello may be: in one socket, and in its sender's only
\* while that packetiser's ZeroMQ context lives.
THEOREM TypeCorrect == Spec => []TypeOK
BY TypeInvariant, PTL DEF TypeInv

\* For every number of cores an engine that gets to its loop has the rx queue
\* each lcore polls and the tx queue it sends on: an odd number, for which
\* Port::configure asks for one queue too many, never gets there.
THEOREM QueuesReady == Spec => []TxQueuesReady
<1>1. TypeInv => TxQueuesReady
  <2> SUFFICES ASSUME TypeInv, engine \in Serving, NEW q \in 0 .. cores - 1
               PROVE  q < queues /\ TxQueue(q) < queues
    BY DEF TxQueuesReady
  <2>1. queues = QueueCount
    BY DEF TypeInv, QueuesSetUp, PortReady
  <2>2. cores \in Nat /\ queues \in 0 .. cores
    BY CoresAssumption DEF TypeInv, TypeOK
  <2>3. queues = cores /\ cores % 2 = 0
    BY <2>1, <2>2 DEF QueueCount
  <2> QED
    BY <2>2, <2>3 DEF TxQueue
<1> QED
  BY <1>1, TypeInvariant, PTL
-----------------------------------------------------------------------------
(* Handles. *)

\* Where in its main a packetiser has a handle of the object, and will drop it.
HasHandle(o) ==
  CASE o = "e2c"  -> {"lookC2E", "lookPool", "failE2C", "unwindC2E", "unwindE2C",
                      "hello", "run", "linger", "dropC2E", "dropE2C"}
    [] o = "c2e"  -> {"lookPool", "unwindC2E", "hello", "run", "linger", "dropC2E"}
    [] o = "pool" -> {"hello", "run", "linger", "dropC2E", "dropE2C", "dropPool"}
    [] OTHER      -> {}

\* Where it has dropped the object.
HasDropped(o) ==
  CASE o = "e2c"  -> {"dropPool"} \cup Ended
    [] o = "c2e"  -> {"unwindE2C", "dropE2C", "dropPool"} \cup Ended
    [] o = "pool" -> Ended
    [] OTHER      -> {}

\* The same of the engine, whose channel and Memzone a panic drops; its pool is
\* in a static.
EngineHasHandle(o) ==
  CASE o = "e2c"     -> {"c2e", "unwindC2E", "unwindE2C"} \cup Serving
    [] o = "c2e"     -> {"unwindC2E"} \cup Serving
    [] o = "memzone" -> {"e2c", "c2e"} \cup EngineUnwinding \cup Serving
    [] OTHER         -> {}
EngineHasDropped(o) ==
  CASE o = "e2c"     -> {"unwindMemzone"} \cup EngineEnded
    [] o = "c2e"     -> {"unwindE2C", "unwindMemzone"} \cup EngineEnded
    [] o = "memzone" -> EngineEnded
    [] OTHER         -> {}

\* What a process has a handle of was created, and a process that has run the
\* destructor of an object is past it for good.
HandlesGood ==
  \A p \in Packetiser, o \in Object :
    /\ pk[p] \in HasHandle(o) => obj[o] # "absent"
    /\ p \in freedBy[o] => pk[p] \in HasDropped(o)
EngineHandlesGood ==
  \A o \in Object :
    /\ engine \in EngineHasHandle(o) => obj[o] # "absent"
    /\ "engine" \in freedBy[o] => engine \in EngineHasDropped(o)

\* Only destructors release objects.
FreedBySomebody == \A o \in Object : obj[o] = "freed" => freedBy[o] # {}

\* An object that the engine's main has not come to does not exist, and the
\* Memzone is created before the rings.
BeforeE2C == {"eal", "pool", "port", "queues", "start", "memzone", "e2c"}
EngineObjects ==
  /\ engine \in {"eal", "pool"} => obj["pool"] = "absent"
  /\ engine \in BeforeE2C => obj["e2c"] = "absent"
  /\ obj["e2c"] # "absent" => obj["memzone"] # "absent"

\* The orderly end of a packetiser has released the pool.
ExitFreesPool == (\E q \in Packetiser : pk[q] = "exited") => obj["pool"] = "freed"

HandleInv ==
  /\ HandlesGood /\ EngineHandlesGood /\ FreedBySomebody
  /\ EngineObjects /\ ExitFreesPool
  /\ DoubleFreeNeedsTwo

\* At first nobody has a handle and no object exists.
LEMMA HandleInit == Init => HandleInv
BY PacketiserAssumption
   DEF Init, HandleInv, HandlesGood, HasHandle, EngineHandlesGood, EngineHasHandle, FreedBySomebody,
       EngineObjects, ExitFreesPool, DoubleFreeNeedsTwo, Undefined, Process, Object, BeforeE2C,
       Serving, EngineUnwinding

\* The engine creates an object where there was none.
LEMMA HandleCreate ==
  ASSUME TypeInv, HandleInv, CreatePool \/ CreateMemzone \/ CreateE2C \/ CreateC2E
  PROVE  HandleInv'
<1> USE DEF TypeInv, TypeOK, HandleInv
<1>1. PICK o \in Object, next \in EngineState : Create(o, next) /\ <<o, next>> \in
        {<<"pool", "port">>, <<"memzone", "e2c">>, <<"e2c", "c2e">>, <<"c2e", "bind">>}
  BY DEF CreatePool, CreateMemzone, CreateE2C, CreateC2E, Object, EngineState, Serving
<1>2. /\ engine = o /\ engine' = next /\ pk' = pk /\ freedBy' = freedBy
      /\ \A x \in Object : obj'[x] = IF x = o THEN "live" ELSE obj[x]
  BY <1>1 DEF Create
<1>3. HandlesGood' /\ FreedBySomebody'
  BY <1>2 DEF HandlesGood, FreedBySomebody
<1>4. EngineHandlesGood'
  BY <1>1, <1>2 DEF EngineHandlesGood, EngineHasHandle, EngineHasDropped, Object, Serving,
                    EngineUnwinding, EngineEnded
<1>5. EngineObjects'
  BY <1>1, <1>2 DEF EngineObjects, EngineHandlesGood, EngineHasHandle, BeforeE2C, Object
<1>6. ExitFreesPool'
  BY <1>1, <1>2 DEF ExitFreesPool, EngineObjects, Object
<1>7. DoubleFreeNeedsTwo'
  BY <1>1, <1>2 DEF DoubleFreeNeedsTwo, Undefined
<1> QED
  BY <1>3, <1>4, <1>5, <1>6, <1>7

\* The engine moves on without an object, on the way up or by an end of any kind.
LEMMA HandleMoves ==
  ASSUME TypeInv, HandleInv, UNCHANGED <<objVars, pk>>,
         engine' # "undefined" \/ engine' = engine,
         \A o \in Object :
           /\ engine' \in EngineHasHandle(o) => engine \in EngineHasHandle(o)
           /\ engine \in EngineHasDropped(o) => engine' \in EngineHasDropped(o),
         engine' \in {"eal", "pool"} => engine \in {"eal", "pool"},
         engine' \in BeforeE2C => engine \in BeforeE2C
  PROVE  HandleInv'
BY DEF HandleInv, HandlesGood, EngineHandlesGood, FreedBySomebody, EngineObjects, ExitFreesPool,
       DoubleFreeNeedsTwo, Undefined, objVars

\* A process that runs the destructor of o for the second time in the life of o
\* finds the name of the first in freedBy.
LEMMA ReleaseMeets ==
  ASSUME TypeInv, HandleInv, NEW x \in Process, NEW o \in Object, Release(x, o),
         obj[o] # "absent", x \notin freedBy[o]
  PROVE  /\ x \in freedBy'[o]
         /\ obj[o] # "live" => freedBy'[o] \ {x} # {}
         /\ obj'[o] = "freed" /\ \A y \in Object : y # o => obj'[y] = obj[y]
         /\ \A y \in Object, z \in Process : z \in freedBy[y] => z \in freedBy'[y]
         /\ \A y \in Object, z \in Process : z # x \/ y # o => (z \in freedBy'[y] => z \in freedBy[y])
<1>1. /\ obj' = [obj EXCEPT ![o] = "freed"]
      /\ freedBy' = [freedBy EXCEPT ![o] = freedBy[o] \cup {x}]
  BY DEF Release
<1>2. /\ obj \in [Object -> {"absent", "live", "freed"}]
      /\ freedBy \in [Object -> SUBSET Process]
  BY DEF TypeInv, TypeOK
<1>3. obj[o] # "live" => freedBy[o] # {}
  BY <1>2 DEF HandleInv, FreedBySomebody
<1> QED
  BY <1>1, <1>2, <1>3

\* A panic of the engine runs each of its destructors once.
LEMMA HandleEngineFree ==
  ASSUME TypeInv, HandleInv, EngineUnwindC2E \/ EngineUnwindE2C \/ EngineUnwindMemzone
  PROVE  HandleInv'
<1> USE DEF HandleInv
<1>1. PICK from \in EngineState, o \in Object, to \in EngineState : EngineFree(from, o, to) /\ <<from, o, to>> \in
        {<<"unwindC2E", "c2e", "unwindE2C">>, <<"unwindE2C", "e2c", "unwindMemzone">>,
         <<"unwindMemzone", "memzone", "failed">>}
  BY DEF EngineUnwindC2E, EngineUnwindE2C, EngineUnwindMemzone, Object, EngineState,
         EngineUnwinding, EngineEnded
<1>2. /\ engine = from /\ Release("engine", o) /\ pk' = pk
      /\ engine' = IF obj[o] = "live" THEN to ELSE "undefined"
  BY <1>1 DEF EngineFree
<1>3. obj[o] # "absent" /\ "engine" \notin freedBy[o] /\ "engine" \in Process
  BY <1>1, <1>2 DEF EngineHandlesGood, EngineHasHandle, EngineHasDropped, EngineUnwinding,
                    EngineEnded, Process
<1>4. /\ "engine" \in freedBy'[o]
      /\ obj[o] # "live" => freedBy'[o] \ {"engine"} # {}
      /\ obj'[o] = "freed" /\ \A y \in Object : y # o => obj'[y] = obj[y]
      /\ \A y \in Object, z \in Process : z \in freedBy[y] => z \in freedBy'[y]
      /\ \A y \in Object, z \in Process :
            z # "engine" \/ y # o => (z \in freedBy'[y] => z \in freedBy[y])
  BY <1>2, <1>3, ReleaseMeets
<1>5. HandlesGood' /\ FreedBySomebody'
  <2>1. \A p \in Packetiser : p \in Process /\ p # "engine"
    BY PacketiserAssumption DEF Process
  <2>2. HandlesGood'
    BY <1>2, <1>4, <2>1 DEF HandlesGood
  <2>3. FreedBySomebody'
    <3>1. freedBy \in [Object -> SUBSET Process]
      BY DEF TypeInv, TypeOK
    <3> QED
      BY <1>4, <3>1 DEF FreedBySomebody
  <2> QED
    BY <2>2, <2>3
<1>6. EngineHandlesGood'
  BY <1>1, <1>2, <1>3, <1>4 DEF EngineHandlesGood, EngineHasHandle, EngineHasDropped, EngineUnwinding,
                    EngineEnded, Serving, Object
<1>7. EngineObjects' /\ ExitFreesPool'
  BY <1>1, <1>2, <1>3, <1>4 DEF EngineObjects, ExitFreesPool, BeforeE2C, Object
<1>8. DoubleFreeNeedsTwo'
  <2> SUFFICES ASSUME NEW x \in Process, Undefined(x)'
               PROVE  \E y \in Object : x \in freedBy'[y] /\ freedBy'[y] \ {x} # {}
    BY DEF DoubleFreeNeedsTwo
  <2>1. CASE x = "engine"
    BY <1>1, <1>2, <1>4, <2>1 DEF Undefined
  <2>2. CASE x # "engine"
    <3>1. PICK y \in Object : x \in freedBy[y] /\ freedBy[y] \ {x} # {}
      BY <1>2, <2>2 DEF Undefined, DoubleFreeNeedsTwo
    <3>2. freedBy[y] \subseteq Process
      BY DEF TypeInv, TypeOK
    <3> QED
      BY <1>4, <3>1, <3>2
  <2> QED
    BY <2>1, <2>2
<1> QED
  BY <1>5, <1>6, <1>7, <1>8

\* Each step of the engine keeps what is known of the handles.
LEMMA HandleEngine ==
  TypeInv /\ HandleInv /\ (EngineStep \/ SetupFails \/ EngineEnds) => HandleInv'
<1> SUFFICES ASSUME TypeInv, HandleInv, EngineStep \/ SetupFails \/ EngineEnds
             PROVE  HandleInv'
  OBVIOUS
<1> USE DEF EngineHasHandle, EngineHasDropped, EngineUnwinding, EngineEnded, Serving, BeforeE2C
<1>1. CASE EngineEal \/ ConfigurePort \/ QueuesDone \/ StartPort \/ EngineBind
  BY <1>1, HandleMoves DEF EngineEal, ConfigurePort, QueuesDone, StartPort, EngineBind
<1>2. CASE SetupQueue \/ QueueRefused \/ RecvHello \/ EngineEnds
  BY <1>2, HandleMoves DEF SetupQueue, QueueRefused, RecvHello, EngineEnds
<1>3. CASE SetupFails
  BY <1>3, HandleMoves DEF SetupFails, UnwindFrom
<1> QED
  BY <1>1, <1>2, <1>3, HandleCreate, HandleEngineFree DEF EngineStep

\* A destructor of p: p had a handle of the object and has not run it before.
LEMMA HandleFree ==
  ASSUME TypeInv, HandleInv, NEW p \in Packetiser, NEW o \in Object, NEW from, NEW to,
         Free(p, from, o, to),
         from \in HasHandle(o), from \notin HasDropped(o), to \in HasDropped(o),
         \A x \in Object : /\ to \in HasHandle(x) => from \in HasHandle(x)
                           /\ from \in HasDropped(x) => to \in HasDropped(x),
         to = "exited" => o = "pool", to # "undefined"
  PROVE  HandleInv'
<1> USE DEF HandleInv
<1>1. /\ pk[p] = from /\ Release(p, o) /\ engine' = engine
      /\ pk' = [pk EXCEPT ![p] = IF obj[o] = "live" THEN to ELSE "undefined"]
  BY DEF Free
<1>2. /\ pk \in [Packetiser -> PkState] /\ freedBy \in [Object -> SUBSET Process]
      /\ p \in Process /\ p # "engine"
  BY PacketiserAssumption DEF TypeInv, TypeOK, Process
<1>3. obj[o] # "absent" /\ p \notin freedBy[o]
  BY <1>1 DEF HandlesGood
<1>4. /\ p \in freedBy'[o]
      /\ obj[o] # "live" => freedBy'[o] \ {p} # {}
      /\ obj'[o] = "freed" /\ \A y \in Object : y # o => obj'[y] = obj[y]
      /\ \A y \in Object, z \in Process : z \in freedBy[y] => z \in freedBy'[y]
      /\ \A y \in Object, z \in Process :
            z # p \/ y # o => (z \in freedBy'[y] => z \in freedBy[y])
  BY <1>1, <1>2, <1>3, ReleaseMeets
<1>5. \A x \in Object : "undefined" \notin HasHandle(x) /\ (HasDropped(x) # {} => "undefined" \in HasDropped(x))
  BY DEF HasHandle, HasDropped, Ended
<1>6. HandlesGood'
  <2> SUFFICES ASSUME NEW q \in Packetiser, NEW x \in Object
               PROVE  /\ pk'[q] \in HasHandle(x) => obj'[x] # "absent"
                      /\ q \in freedBy'[x] => pk'[q] \in HasDropped(x)
    BY DEF HandlesGood
  <2>0. q \in Process
    BY DEF Process
  <2>1. CASE q # p
    BY <1>1, <1>2, <1>4, <2>0, <2>1 DEF HandlesGood
  <2>2. CASE q = p
    <3>1. pk'[p] = IF obj[o] = "live" THEN to ELSE "undefined"
      BY <1>1, <1>2
    <3>2. pk'[p] \in HasHandle(x) => obj'[x] # "absent"
      BY <1>1, <1>4, <1>5, <3>1 DEF HandlesGood
    <3>3. p \in freedBy'[x] => pk'[p] \in HasDropped(x)
      BY <1>1, <1>2, <1>4, <1>5, <3>1 DEF HandlesGood
    <3> QED
      BY <2>2, <3>2, <3>3
  <2> QED
    BY <2>1, <2>2
<1>7. EngineHandlesGood' /\ FreedBySomebody'
  BY <1>1, <1>2, <1>4 DEF EngineHandlesGood, FreedBySomebody, Process
<1>8. EngineObjects'
  BY <1>1, <1>3, <1>4 DEF EngineObjects, Object
<1>9. ExitFreesPool'
  BY <1>1, <1>2, <1>4 DEF ExitFreesPool, Object
<1>10. DoubleFreeNeedsTwo'
  <2> SUFFICES ASSUME NEW x \in Process, Undefined(x)'
               PROVE  \E y \in Object : x \in freedBy'[y] /\ freedBy'[y] \ {x} # {}
    BY DEF DoubleFreeNeedsTwo
  <2>1. CASE x = p /\ obj[o] # "live"
    BY <1>4, <2>1
  <2>2. CASE Undefined(x)
    <3>1. PICK y \in Object : x \in freedBy[y] /\ freedBy[y] \ {x} # {}
      BY <2>2 DEF DoubleFreeNeedsTwo
    <3>2. freedBy[y] \subseteq Process
      BY <1>2
    <3> QED
      BY <1>4, <3>1, <3>2
  <2> QED
    BY <1>1, <1>2, <2>1, <2>2 DEF Undefined, Process
<1> QED
  BY <1>6, <1>7, <1>8, <1>9, <1>10

\* Each step of a packetiser keeps what is known of the handles.
LEMMA HandlePacketiser ==
  ASSUME TypeInv, HandleInv, NEW p \in Packetiser,
         Start(p) \/ PacketiserStep(p) \/ LeaveLoop(p) \/ Kill(p) \/ Deliver(p)
  PROVE  HandleInv'
<1>2. CASE DropC2E(p) \/ DropE2C(p) \/ DropPool(p)
  BY <1>2, HandleFree DEF DropC2E, DropE2C, DropPool, HasHandle, HasDropped, Object, Ended
<1>3. CASE FailE2C(p) \/ UnwindC2E(p) \/ UnwindE2C(p)
  BY <1>3, HandleFree DEF FailE2C, UnwindC2E, UnwindE2C, HasHandle, HasDropped, Object, Ended
<1>4. ASSUME UNCHANGED <<objVars, engine>>, NEW s, pk' = [pk EXCEPT ![p] = s],
             \A o \in Object :
               /\ s \in HasHandle(o) => pk[p] \in HasHandle(o) \/ obj[o] = "live"
               /\ pk[p] \in HasDropped(o) => s \in HasDropped(o),
             s \notin {"exited", "undefined"}
      PROVE  HandleInv'
  <2> USE DEF HandleInv, objVars
  <2>1. HandlesGood'
    BY <1>4 DEF HandlesGood, TypeInv, TypeOK
  <2>2. EngineHandlesGood' /\ FreedBySomebody' /\ EngineObjects'
    BY <1>4 DEF EngineHandlesGood, FreedBySomebody, EngineObjects
  <2>3. ExitFreesPool'
    BY <1>4 DEF ExitFreesPool, TypeInv, TypeOK
  <2>4. DoubleFreeNeedsTwo'
    BY <1>4, PacketiserAssumption DEF DoubleFreeNeedsTwo, Undefined, Process, TypeInv, TypeOK
  <2> QED
    BY <2>1, <2>2, <2>3, <2>4
<1>5. CASE LookupE2C(p) \/ LookupC2E(p) \/ LookupPool(p)
  BY <1>4, <1>5 DEF LookupE2C, LookupC2E, LookupPool, Lookup, HasHandle, HasDropped, Ended, Object
<1>6. CASE Start(p) \/ SendHello(p) \/ LeaveLoop(p) \/ TermContext(p)
  BY <1>4, <1>6 DEF Start, SendHello, LeaveLoop, TermContext, HasHandle, HasDropped, Ended, Object
<1>8. CASE Kill(p)
  <2>1. \A o \in Object :
          "killed" \notin HasHandle(o) /\ (pk[p] \in HasDropped(o) => "killed" \in HasDropped(o))
    BY DEF HasHandle, HasDropped, Ended, Object
  <2> QED
    BY <1>4, <1>8, <2>1 DEF Kill
<1>7. CASE Deliver(p)
  BY <1>7 DEF Deliver, HandleInv, HandlesGood, EngineHandlesGood, FreedBySomebody, EngineObjects,
              ExitFreesPool, DoubleFreeNeedsTwo, Undefined, objVars
<1> QED
  BY <1>2, <1>3, <1>5, <1>6, <1>7, <1>8 DEF PacketiserStep

\* HandleInv holds throughout start-up and shutdown.
LEMMA HandleInvariant == Spec => []HandleInv
<1>1. HandleInv /\ UNCHANGED vars => HandleInv'
  BY DEF HandleInv, HandlesGood, EngineHandlesGood, FreedBySomebody, EngineObjects, ExitFreesPool,
         DoubleFreeNeedsTwo, Undefined, vars, objVars
<1>2. TypeInv /\ HandleInv /\ [Next]_vars => HandleInv'
  BY <1>1, HandleEngine, HandlePacketiser DEF Next
<1> QED
  BY <1>2, HandleInit, TypeInvariant, PTL DEF Spec

\* Ring::drop and Mempool::drop meet an object that is gone only through another
\* process: whatever its calls find and wherever they fail, each process, the
\* engine with a panic in its set-up included, runs each destructor once.
THEOREM DoubleFreeTakesTwo == Spec => []DoubleFreeNeedsTwo
BY HandleInvariant, PTL DEF HandleInv

\* A hello on its way stands for objects that exist, unless another process has
\* run their destructor: its sender runs none before its ZeroMQ context is gone.
THEOREM HelloMeansLive == Spec => []HelloAnnouncesLiveObjects
<1>1. TypeInv /\ HandleInv => HelloAnnouncesLiveObjects
  <2> SUFFICES ASSUME TypeInv, HandleInv, NEW p \in outbox, NEW o \in Object
               PROVE  p \notin freedBy[o] /\ (obj[o] = "live" \/ freedBy[o] # {})
    BY DEF HelloAnnouncesLiveObjects
  <2>1. p \in Packetiser /\ pk[p] \in {"run", "linger"} /\ obj[o] \in {"absent", "live", "freed"}
    BY DEF TypeInv, TypeOK
  <2>2. p \notin freedBy[o]
    BY <2>1 DEF HandleInv, HandlesGood, HasDropped, Ended
  <2>3. obj[o] # "absent"
    BY <2>1 DEF HandleInv, HandlesGood, HasHandle, EngineObjects, Object
  <2> QED
    BY <2>1, <2>2, <2>3 DEF HandleInv, FreedBySomebody
<1> QED
  BY <1>1, TypeInvariant, HandleInvariant, PTL

\* After the orderly end of one packetiser, which dropped the pool, no other
\* gets through Packetiser::new: Mempool::lookup fails for ever.
THEOREM NobodyAttachesAgain == Spec => AttachIsOnce
<1>1. ASSUME TypeInv, HandleInv, [Next]_vars
      PROVE  [(\E q \in Packetiser : pk[q] = "exited")
                => \A p \in Packetiser : pk[p] # "hello" => pk'[p] # "hello"]_vars
  <2> SUFFICES ASSUME \E q \in Packetiser : pk[q] = "exited", Next,
                      NEW p \in Packetiser, pk[p] # "hello"
               PROVE  pk'[p] # "hello"
    BY <1>1
  <2>1. obj["pool"] # "live"
    BY <1>1 DEF HandleInv, ExitFreesPool
  <2>2. CASE EngineStep \/ SetupFails \/ EngineEnds
    BY <2>2 DEF EngineStep, EngineEal, CreatePool, CreateMemzone, CreateE2C, CreateC2E,
                Create, ConfigurePort, SetupQueue, QueueRefused, QueuesDone, StartPort,
                EngineBind, RecvHello, SetupFails, EngineEnds, EngineUnwindC2E, EngineUnwindE2C,
                EngineUnwindMemzone, EngineFree
  <2>3. ASSUME NEW q \in Packetiser,
               Start(q) \/ PacketiserStep(q) \/ LeaveLoop(q) \/ Kill(q) \/ Deliver(q)
        PROVE  pk'[p] # "hello"
    BY <1>1, <2>1, <2>3
       DEF TypeInv, TypeOK, Start, PacketiserStep, LookupE2C, LookupC2E, LookupPool,
           Lookup, FailE2C, UnwindC2E, UnwindE2C, SendHello, TermContext, DropC2E,
           DropE2C, DropPool, Free, LeaveLoop, Kill, Deliver
  <2> QED
    BY <2>2, <2>3 DEF Next
<1> QED
  BY <1>1, TypeInvariant, HandleInvariant, PTL DEF Spec, AttachIsOnce
=============================================================================
