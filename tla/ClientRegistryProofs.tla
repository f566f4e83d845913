------------------------ MODULE ClientRegistryProofs ------------------------
(***************************************************************************)
(* Proofs about ClientRegistry for every number of ids and of calls.       *)
(***************************************************************************)
EXTENDS ClientRegistry, QueueLemmas

-----------------------------------------------------------------------------
(* Ids. *)

\* u16 addition stays in the ids, and is plain addition up to the last id.
LEMMA SuccIsId ==
  ASSUME NEW id \in Id
  PROVE  /\ Succ(id) \in Id
         /\ id + 1 < IdSpace => Succ(id) = id + 1
         /\ id + 1 = IdSpace => Succ(id) = 0
BY RegistryAssumption DEF Succ, Id

\* The search of add_client finds an id below the counter, or 0; as long as 0
\* is not allocated it finds 0, which add_client takes for "none".
LEMMA FirstFreeIs ==
  ASSUME NEW ids \in Seq(Id), NEW last \in Id
  PROVE  /\ FirstFree(ids, last) \in Id
         /\ 0 \notin Range(ids) => FirstFree(ids, last) = 0
<1> DEFINE free == {id \in 0 .. last - 1 : id \notin Range(ids)}
<1>1. free \in SUBSET Nat /\ free \subseteq Id
  BY RegistryAssumption DEF Id
<1>2. FirstFree(ids, last) = IF free = {} THEN 0 ELSE Min(free)
  BY DEF FirstFree
<1>3. free # {} => Min(free) \in free /\ \A n \in free : Min(free) <= n
  BY <1>1, MinOfNats
<1>4. 0 \in Id
  BY RegistryAssumption DEF Id
<1>5. 0 \notin Range(ids) /\ free # {} => 0 \in free
  BY <1>1 DEF Id
<1> HIDE DEF free
<1>6. 0 \in free => Min(free) = 0
  <2> SUFFICES ASSUME 0 \in free PROVE Min(free) = 0
    OBVIOUS
  <2>1. Min(free) \in Nat /\ Min(free) <= 0
    BY <1>1, <1>3
  <2> QED
    BY <2>1
<1> QED
  BY <1>1, <1>2, <1>3, <1>4, <1>5, <1>6

\* Names of different ids differ, and no ring name is shared by two channels.
LEMMA NamesOf ==
  ASSUME NEW A, NEW B
  PROVE  /\ Names(A \cup B) = Names(A) \cup Names(B)
         /\ Names(A \ B) = Names(A) \ Names(B)
         /\ Names(A) \cap Names(B) = {} <=> A \cap B = {}
<1>1. Names(A \cup B) = Names(A) \cup Names(B)
  BY DEF Names
<1>2. Names(A \ B) = Names(A) \ Names(B)
  BY DEF Names
<1>3. ASSUME NEW x \in A \cap B PROVE <<"E2C", x>> \in Names(A) \cap Names(B)
  BY DEF Names
<1>4. ASSUME NEW n \in Names(A) \cap Names(B) PROVE n[2] \in A \cap B
  BY DEF Names
<1> QED
  BY <1>1, <1>2, <1>3, <1>4

-----------------------------------------------------------------------------
(* The inductive invariant. *)

\* Up to the wrap-around of the counter the allocated ids lie above the
\* packetiser's own and are sorted, which keeps 0 free; and a build with
\* overflow checks panics instead of wrapping.
Listed(ids, last) ==
  /\ \A i \in 1 .. Len(ids) : PacketiserId < ids[i] /\ ids[i] <= last
  /\ \A i, j \in 1 .. Len(ids) : i < j => ids[i] < ids[j]
IdInv ==
  /\ overflowChecks => adds < IdSpace - 1
  /\ adds < IdSpace - 1 => lastId = adds + PacketiserId /\ Listed(allocatedIds, lastId)

RegistryInv == TypeOK /\ RingNamesMatch /\ ChannelsAllocated /\ IdInv

\* At first only the packetiser has a channel and its two rings.
LEMMA RegistryInit == Init => RegistryInv
<1> SUFFICES ASSUME Init PROVE RegistryInv
  OBVIOUS
<1>1. <<>> \in Seq(Id) /\ Len(<<>>) = 0
  BY EmptySeq
<1>2. 0 \in Id /\ PacketiserId \in Id
  BY RegistryAssumption DEF Id, PacketiserId
<1>3. TypeOK
  <2>1. Names({PacketiserId}) \subseteq Names(Id)
    BY <1>2 DEF Names
  <2>2. adds \in 0 .. MaxAdds
    BY RegistryAssumption DEF Init
  <2>3. overflowChecks \in BOOLEAN /\ panicked \in BOOLEAN
    BY DEF Init
  <2> QED
    BY <1>1, <1>2, <2>1, <2>2, <2>3 DEF Init, TypeOK
<1>4. RingNamesMatch
  BY DEF Init, RingNamesMatch
<1>5. ChannelsAllocated
  BY DEF Init, ChannelsAllocated
<1>6. IdInv
  BY <1>1, RegistryAssumption DEF Init, IdInv, Listed, PacketiserId
<1> QED
  BY <1>3, <1>4, <1>5, <1>6 DEF RegistryInv

\* add_client, with or without its rings.
LEMMA AddStep == RegistryInv /\ AddClient => RegistryInv'
<1> SUFFICES ASSUME RegistryInv, AddClient PROVE RegistryInv'
  OBVIOUS
<1> DEFINE free == FirstFree(allocatedIds, lastId)
           key == IF free # 0 THEN free ELSE Succ(lastId)
<1>1. /\ adds < MaxAdds
      /\ ~(overflowChecks /\ free = 0 /\ lastId + 1 = IdSpace)
      /\ adds' = adds + 1
      /\ lastId' = IF free # 0 THEN lastId ELSE key
      /\ allocatedIds' = Append(allocatedIds, key)
      /\ \/ ChannelNew(key) /\ clientmap' = clientmap \cup {key}
         \/ ChannelFails(key) /\ UNCHANGED clientmap
      /\ UNCHANGED <<overflowChecks, panicked>>
  BY DEF AddClient
<1>2. /\ allocatedIds \in Seq(Id) /\ lastId \in Id /\ clientmap \subseteq Id
      /\ adds \in Nat /\ overflowChecks \in BOOLEAN
  BY DEF RegistryInv, TypeOK
<1>3. free \in Id /\ (0 \notin Range(allocatedIds) => free = 0)
  BY <1>2, FirstFreeIs
<1>4. key \in Id
  BY <1>2, <1>3, SuccIsId
<1> HIDE DEF free
<1>5. /\ Append(allocatedIds, key) \in Seq(Id)
      /\ Range(Append(allocatedIds, key)) = Range(allocatedIds) \cup {key}
      /\ Len(Append(allocatedIds, key)) = Len(allocatedIds) + 1
      /\ \A i \in 1 .. Len(allocatedIds) : Append(allocatedIds, key)[i] = allocatedIds[i]
      /\ Append(allocatedIds, key)[Len(allocatedIds) + 1] = key
  BY <1>2, <1>4, AppendQueue, AppendProperties
<1>6. RingNamesMatch' /\ ChannelsAllocated' /\ clientmap' \subseteq Id
      /\ rings' \subseteq Names(Id)
  <2>1. CASE ChannelNew(key) /\ clientmap' = clientmap \cup {key}
    <3>1. Names({key}) \cap rings = {} /\ rings' = rings \cup Names({key})
      BY <2>1 DEF ChannelNew
    <3>2. {key} \cap (clientmap \cup {PacketiserId}) = {}
      BY <3>1, NamesOf DEF RegistryInv, RingNamesMatch
    <3>3. rings' = Names((clientmap \cup {PacketiserId}) \cup {key})
      BY <3>1, NamesOf DEF RegistryInv, RingNamesMatch
    <3>4. rings' = Names(clientmap' \cup {PacketiserId})
      <4>1. (clientmap \cup {PacketiserId}) \cup {key} = clientmap' \cup {PacketiserId}
        BY <2>1
      <4> QED
        BY <3>3, <4>1
    <3>5. Names({key}) \subseteq Names(Id)
      BY <1>4 DEF Names
    <3> QED
      BY <1>1, <1>2, <1>4, <1>5, <2>1, <3>1, <3>2, <3>4, <3>5
         DEF RegistryInv, RingNamesMatch, ChannelsAllocated, TypeOK
  <2>2. CASE ChannelFails(key) /\ UNCHANGED clientmap
    BY <1>1, <1>5, <2>2
       DEF ChannelFails, RegistryInv, RingNamesMatch, ChannelsAllocated, TypeOK
  <2> QED
    BY <1>1, <2>1, <2>2
<1>7. lastId' \in Id
  BY <1>1, <1>2, <1>4
<1>8. TypeOK'
  BY <1>1, <1>4, <1>5, <1>6, <1>7, RegistryAssumption DEF RegistryInv, TypeOK
<1>9. IdInv'
  <2>1. ASSUME adds < IdSpace - 1
        PROVE  /\ free = 0 /\ key = Succ(lastId) /\ lastId = adds + 1
               /\ Listed(allocatedIds, lastId)
    <3>1. lastId = adds + 1 /\ Listed(allocatedIds, lastId)
      BY <2>1 DEF RegistryInv, IdInv, PacketiserId
    <3>2. 0 \notin Range(allocatedIds)
      BY <1>2, <3>1, RangeEquality, LenProperties DEF Listed, PacketiserId, Id
    <3> QED
      BY <1>3, <3>1, <3>2
  <2>2. overflowChecks' => adds' < IdSpace - 1
    <3> SUFFICES ASSUME overflowChecks PROVE adds' < IdSpace - 1
      BY <1>1
    <3>1. adds < IdSpace - 1
      BY DEF RegistryInv, IdInv
    <3>2. lastId + 1 # IdSpace /\ lastId = adds + 1
      BY <1>1, <2>1, <3>1
    <3> QED
      BY <1>1, <1>2, <3>1, <3>2, RegistryAssumption
  <2>3. ASSUME adds' < IdSpace - 1
        PROVE  lastId' = adds' + PacketiserId /\ Listed(allocatedIds', lastId')
    <3>1. adds < IdSpace - 1 /\ adds + 2 < IdSpace
      BY <1>1, <1>2, <2>3, RegistryAssumption
    <3>2. lastId = adds + 1 /\ free = 0 /\ key = adds + 2 /\ lastId' = adds + 2
      BY <1>1, <1>2, <2>1, <3>1, SuccIsId
    <3> HIDE DEF key
    <3>3. Listed(allocatedIds', lastId')
      <4>1. Len(allocatedIds) \in Nat /\ \A i \in 1 .. Len(allocatedIds) : allocatedIds[i] \in Nat
        <5>1. \A i \in 1 .. Len(allocatedIds) : allocatedIds[i] \in Id
          BY <1>2, ElementOfSeq
        <5> QED
          BY <1>2, <5>1, LenProperties DEF Id
      <4>2. /\ \A i \in 1 .. Len(allocatedIds) : 1 < allocatedIds[i] /\ allocatedIds[i] <= adds + 1
            /\ \A i, j \in 1 .. Len(allocatedIds) : i < j => allocatedIds[i] < allocatedIds[j]
        BY <2>1, <3>1, <3>2 DEF Listed, PacketiserId
      <4>3. \A i \in 1 .. Len(allocatedIds') : i \in 1 .. Len(allocatedIds) \/ i = Len(allocatedIds) + 1
        BY <1>1, <1>5, <4>1
      <4> QED
        BY <1>1, <1>2, <1>5, <3>2, <4>1, <4>2, <4>3 DEF Listed, PacketiserId
    <3> QED
      BY <1>1, <1>2, <3>2, <3>3 DEF PacketiserId
  <2> QED
    BY <2>2, <2>3 DEF IdInv
<1> QED
  BY <1>6, <1>8, <1>9 DEF RegistryInv

\* remove_clients of an allocated id.
LEMMA RemoveStep ==
  ASSUME NEW key \in Id, RegistryInv, RemoveClient(key)
  PROVE  RegistryInv'
<1> DEFINE s == allocatedIds
           r == allocatedIds'
<1>1. /\ key \in Range(s) /\ r = RemoveFirst(s, key)
      /\ clientmap' = clientmap \ {key}
      /\ rings' = IF key \in clientmap THEN rings \ Names({key}) ELSE rings
      /\ UNCHANGED <<overflowChecks, lastId, adds, panicked>>
  BY DEF RemoveClient
<1>2. s \in Seq(Id) /\ Len(s) \in Nat /\ DOMAIN s = 1 .. Len(s)
  BY LenProperties DEF RegistryInv, TypeOK
<1>3. PICK k \in 1 .. Len(s) :
        /\ s[k] = key
        /\ r \in Seq(Id) /\ Len(r) = Len(s) - 1
        /\ \A i \in 1 .. Len(s) - 1 : r[i] = IF i < k THEN s[i] ELSE s[i + 1]
  <2>1. key \in Range(s) /\ r = RemoveFirst(s, key) /\ s \in Seq(Id)
    BY <1>1, <1>2
  <2> HIDE DEF s, r
  <2>2. \E k \in 1 .. Len(s) :
           /\ s[k] = key
           /\ RemoveFirst(s, key) \in Seq(Id)
           /\ Len(RemoveFirst(s, key)) = Len(s) - 1
           /\ \A i \in 1 .. Len(s) - 1 :
                RemoveFirst(s, key)[i] = IF i < k THEN s[i] ELSE s[i + 1]
    BY <2>1, RemoveFirstIs, SMTT(60)
  <2> QED
    BY <2>1, <2>2, Zenon
<1>4. Range(s) \ {key} \subseteq Range(r)
  <2> SUFFICES ASSUME NEW j \in 1 .. Len(s), s[j] # key PROVE s[j] \in Range(r)
    BY <1>2, RangeEquality
  <2>1. j # k
    BY <1>3
  <2>2. CASE j < k
    <3>1. j \in 1 .. Len(s) - 1 /\ r[j] = s[j]
      BY <1>2, <1>3, <2>2
    <3> QED
      BY <1>3, <3>1, RangeEquality
  <2>3. CASE k < j
    <3>1. j - 1 \in 1 .. Len(s) - 1 /\ r[j - 1] = s[j]
      BY <1>2, <1>3, <2>3
    <3> QED
      BY <1>3, <3>1, RangeEquality
  <2> QED
    BY <1>2, <2>1, <2>2, <2>3
<1>5. ChannelsAllocated'
  BY <1>1, <1>4 DEF RegistryInv, ChannelsAllocated
<1>6. RingNamesMatch' /\ rings' \subseteq rings
  <2>1. CASE key \in clientmap
    <3>1. key # PacketiserId
      BY <2>1 DEF RegistryInv, ChannelsAllocated
    <3>2. (clientmap \cup {PacketiserId}) \ {key} = clientmap' \cup {PacketiserId}
      BY <1>1, <3>1
    <3>3. rings' = Names((clientmap \cup {PacketiserId}) \ {key})
      BY <1>1, <2>1, NamesOf DEF RegistryInv, RingNamesMatch
    <3> QED
      BY <1>1, <2>1, <3>2, <3>3 DEF RingNamesMatch
  <2>2. CASE key \notin clientmap
    <3>1. clientmap' = clientmap /\ rings' = rings
      BY <1>1, <2>2
    <3> QED
      BY <3>1 DEF RegistryInv, RingNamesMatch
  <2> QED
    BY <2>1, <2>2
<1>7. TypeOK'
  BY <1>1, <1>3, <1>6 DEF RegistryInv, TypeOK
<1>8. IdInv'
  <2> SUFFICES ASSUME Listed(s, lastId) PROVE Listed(r, lastId)
    BY <1>1 DEF RegistryInv, IdInv
  <2>1. \A i \in 1 .. Len(s) - 1 :
          \E a \in 1 .. Len(s) : r[i] = s[a] /\ a = IF i < k THEN i ELSE i + 1
    BY <1>2, <1>3
  <2>2. \A i \in 1 .. Len(r) : PacketiserId < r[i] /\ r[i] <= lastId
    BY <1>2, <1>3, <2>1 DEF Listed
  <2>3. \A i, j \in 1 .. Len(r) : i < j => r[i] < r[j]
    <3> SUFFICES ASSUME NEW i \in 1 .. Len(r), NEW j \in 1 .. Len(r), i < j
                 PROVE  r[i] < r[j]
      OBVIOUS
    <3>1. PICK a \in 1 .. Len(s) : r[i] = s[a] /\ a = IF i < k THEN i ELSE i + 1
      BY <1>3, <2>1
    <3>2. PICK b \in 1 .. Len(s) : r[j] = s[b] /\ b = IF j < k THEN j ELSE j + 1
      BY <1>3, <2>1
    <3>3. a < b
      BY <1>2, <3>1, <3>2
    <3> QED
      BY <3>1, <3>2, <3>3 DEF Listed
  <2> QED
    BY <2>2, <2>3 DEF Listed
<1> QED
  BY <1>5, <1>6, <1>7, <1>8 DEF RegistryInv

\* A call that panics changes only that, and a stutter nothing.
LEMMA RegistryStep == RegistryInv /\ [Next]_vars => RegistryInv'
<1> SUFFICES ASSUME RegistryInv, [Next]_vars PROVE RegistryInv'
  OBVIOUS
<1>1. CASE AddClient
  BY <1>1, AddStep
<1>2. ASSUME NEW key \in Id, RemoveClient(key) PROVE RegistryInv'
  BY <1>2, RemoveStep
<1>3. ASSUME /\ UNCHANGED <<overflowChecks, allocatedIds, lastId, clientmap, rings, adds>>
             /\ panicked' \in BOOLEAN
      PROVE  RegistryInv'
  BY <1>3 DEF RegistryInv, TypeOK, RingNamesMatch, ChannelsAllocated, IdInv, Listed
<1>4. CASE AddClientOverflows
  BY <1>3, <1>4 DEF AddClientOverflows
<1>5. ASSUME NEW key \in Id, RemoveUnknownClient(key) PROVE RegistryInv'
  BY <1>3, <1>5 DEF RemoveUnknownClient
<1>6. CASE UNCHANGED vars
  BY <1>3, <1>6 DEF vars, RegistryInv, TypeOK
<1> QED
  BY <1>1, <1>2, <1>4, <1>5, <1>6 DEF Next

\* RegistryInv holds after every sequence of calls.
LEMMA RegistryInvariant == Spec => []RegistryInv
BY RegistryInit, RegistryStep, PTL DEF Spec

-----------------------------------------------------------------------------
(* Theorems. *)

\* The ids, the counter and the keys of the client map stay u16 values in every
\* sequence of add_client and remove_clients.
THEOREM TypeCorrect == Spec => []TypeOK
BY RegistryInvariant, PTL DEF RegistryInv

\* The rings in DPDK's name table are the packetiser's own and those of the
\* channels in the client map, whatever creation fails and however often the
\* ids wrap around: no ring name is leaked by add_client or taken from a
\* channel in use by remove_clients.
THEOREM RingsAreChannels == Spec => []RingNamesMatch
BY RegistryInvariant, PTL DEF RegistryInv

\* Every channel in the client map has an allocated id that is not the
\* packetiser's own, so remove_clients can always find and drop it.
THEOREM ChannelsHaveIds == Spec => []ChannelsAllocated
BY RegistryInvariant, PTL DEF RegistryInv

\* add_client gives no id twice until its u16 counter wraps, although its
\* search for a free id looks for ids that were given back.
THEOREM IdsFresh == Spec => []IdsNeverReused
<1>1. RegistryInv => IdsNeverReused
  BY DEF RegistryInv, IdInv, Listed, IdsNeverReused
<1> QED
  BY <1>1, RegistryInvariant, PTL

\* Id 1 stays the packetiser's own for ever in a build with overflow checks,
\* and until the counter wraps in any other.
THEOREM OwnIdReserved == Spec => []PacketiserIdReserved
<1>1. RegistryInv => PacketiserIdReserved
  <2> SUFFICES ASSUME RegistryInv, overflowChecks \/ adds < IdSpace - 1
               PROVE  PacketiserId \notin Range(allocatedIds)
    BY DEF PacketiserIdReserved
  <2>1. allocatedIds \in Seq(Id)
    BY DEF RegistryInv, TypeOK
  <2>2. \A i \in 1 .. Len(allocatedIds) : PacketiserId < allocatedIds[i]
    BY DEF RegistryInv, IdInv, Listed
  <2>3. \A i \in 1 .. Len(allocatedIds) : PacketiserId # allocatedIds[i]
    BY <2>2 DEF PacketiserId
  <2> QED
    BY <2>1, <2>3, RangeEquality
<1> QED
  BY <1>1, RegistryInvariant, PTL
=============================================================================
