--------------------------- MODULE ClientRegistry ---------------------------
(***************************************************************************)
(* Registration of clients with the packetiser: Packetiser::add_client and *)
(* remove_clients, the RingClientMap they keep, and the DPDK ring names    *)
(* they compete for.  The registry is the packetiser's own (&mut self), so *)
(* its operations are steps; what varies is the order of calls, the keys   *)
(* callers ask for and the failure of ring creation.                       *)
(***************************************************************************)
EXTENDS Naturals, SequencesExt

CONSTANTS
  IdSpace,  \* number of u16 values (65536)
  MaxAdds   \* bound: add_client calls

ASSUME RegistryAssumption ==
  /\ IdSpace \in Nat /\ IdSpace > 2
  /\ MaxAdds \in Nat

VARIABLES
  overflowChecks, \* the build profile: u16 overflow panics (dev) or wraps
  allocatedIds,  \* Packetiser.allocated_ids
  lastId,        \* LAST_ALLOCATED_ID
  clientmap,     \* keys of Packetiser.clientmap
  rings,         \* names of the rings that exist: <<type, id>>
  adds,          \* add_client calls so far
  panicked       \* whether a call has panicked

vars == <<overflowChecks, allocatedIds, lastId, clientmap, rings, adds, panicked>>

Id == 0 .. IdSpace - 1
PacketiserId == 1
Names(ids) == {"E2C", "C2E"} \X ids

\* Every variable keeps its type: ids, the counter and the keys of the client
\* map stay u16 values.
TypeOK ==
  /\ overflowChecks \in BOOLEAN
  /\ allocatedIds \in Seq(Id)
  /\ lastId \in Id
  /\ clientmap \subseteq Id
  /\ rings \subseteq Names(Id)
  /\ adds \in 0 .. MaxAdds
  /\ panicked \in BOOLEAN

\* The engine has made the packetiser's own channel.
Init ==
  /\ overflowChecks \in BOOLEAN
  /\ allocatedIds = <<>>
  /\ lastId = PacketiserId
  /\ clientmap = {}
  /\ rings = Names({PacketiserId})
  /\ adds = 0
  /\ panicked = FALSE

-----------------------------------------------------------------------------
(* Faulty variants: edits of the operations below that the properties must *)
(* tell from the code.  They are not part of the specification.            *)

\* 16-bit arithmetic forgotten.
SuccUnbounded(id) == id + 1

\* Ring::new fails for C2E and the E2C ring is kept.
ChannelFailsKeepsRing(key) ==
  \/ UNCHANGED rings
  \/ <<"E2C", key>> \notin rings /\ rings' = rings \cup {<<"E2C", key>>}

\* The search for a free id skips 0, which means "none".
FirstFreeFromOne(ids, last) ==
  LET free == {id \in 1 .. last : id \notin Range(ids)}
  IN  IF free = {} THEN 0 ELSE Min(free)

\* The channel of a removed client stays.
RemoveClientKeepsChannel(key) ==
  /\ ~panicked
  /\ key \in Range(allocatedIds)
  /\ allocatedIds' = RemoveFirst(allocatedIds, key)
  /\ UNCHANGED <<overflowChecks, lastId, clientmap, rings, adds, panicked>>

-----------------------------------------------------------------------------
(* Operations. *)

\* u16 addition of one.
Succ(id) == (id + 1) % IdSpace

\* The loop of add_client: the first id below LAST_ALLOCATED_ID that is not
\* allocated.  0 also means "none", and 0 is free until the counter wraps.
FirstFree(ids, last) ==
  LET free == {id \in 0 .. last - 1 : id \notin Range(ids)}
  IN  IF free = {} THEN 0 ELSE Min(free)

\* Channel::new: E2C, then C2E; a name that exists already is refused.
ChannelNew(key) ==
  /\ Names({key}) \cap rings = {}
  /\ rings' = rings \cup Names({key})

\* Either ring may fail; if C2E does, the E2C ring is dropped again.
ChannelFails(key) == key \in Id /\ UNCHANGED rings

AddClient ==
  LET free == FirstFree(allocatedIds, lastId)
      key == IF free # 0 THEN free ELSE Succ(lastId)
  IN  /\ ~panicked
      /\ adds < MaxAdds
      /\ ~(overflowChecks /\ free = 0 /\ lastId + 1 = IdSpace)
      /\ adds' = adds + 1
      /\ lastId' = IF free # 0 THEN lastId ELSE key
      /\ allocatedIds' = Append(allocatedIds, key)
      /\ \/ ChannelNew(key) /\ clientmap' = clientmap \cup {key}
         \/ ChannelFails(key) /\ UNCHANGED clientmap
      /\ UNCHANGED <<overflowChecks, panicked>>

\* LAST_ALLOCATED_ID + 1 overflows in a build with overflow checks.
AddClientOverflows ==
  /\ ~panicked
  /\ adds < MaxAdds
  /\ overflowChecks /\ FirstFree(allocatedIds, lastId) = 0 /\ lastId + 1 = IdSpace
  /\ panicked' = TRUE
  /\ UNCHANGED <<overflowChecks, allocatedIds, lastId, clientmap, rings, adds>>

\* Removing the entry drops the Channel, and with it both rings.
RemoveClient(key) ==
  /\ ~panicked
  /\ key \in Range(allocatedIds)
  /\ allocatedIds' = RemoveFirst(allocatedIds, key)
  /\ clientmap' = clientmap \ {key}
  /\ rings' = IF key \in clientmap THEN rings \ Names({key}) ELSE rings
  /\ UNCHANGED <<overflowChecks, lastId, adds, panicked>>

\* An id that is not allocated: Vec::remove(len) panics.
RemoveUnknownClient(key) ==
  /\ ~panicked
  /\ key \notin Range(allocatedIds)
  /\ panicked' = TRUE
  /\ UNCHANGED <<overflowChecks, allocatedIds, lastId, clientmap, rings, adds>>

Next ==
  \/ AddClient \/ AddClientOverflows
  \/ \E key \in Id : RemoveClient(key) \/ RemoveUnknownClient(key)

Spec == Init /\ [][Next]_vars

-----------------------------------------------------------------------------
(* Properties. *)

\* The rings that exist are the packetiser's own and those of the channels in
\* the client map: no failed creation and no removal leaves a name behind or
\* takes one that is in use, not even after ids have wrapped around.
RingNamesMatch == rings = Names(clientmap \cup {PacketiserId})

\* Every channel in the client map belongs to an allocated id, and never to
\* the packetiser's own.
ChannelsAllocated == clientmap \subseteq Range(allocatedIds) \ {PacketiserId}

\* Until the counter wraps every client gets a new, greater id: the search for
\* a free id never gives one back, however many clients have left.
IdsNeverReused ==
  adds < IdSpace - 1 =>
    /\ lastId = adds + PacketiserId
    /\ \A i, j \in 1 .. Len(allocatedIds) :
         i < j => allocatedIds[i] < allocatedIds[j]

\* Id 1 stays the packetiser's own, as packetiser/mod.rs:86 has it: add_client
\* gives it to no client as long as the counter cannot wrap or has not wrapped
\* yet, although the search for a free id starts below it.
PacketiserIdReserved ==
  overflowChecks \/ adds < IdSpace - 1 => PacketiserId \notin Range(allocatedIds)
=============================================================================
