-------------------------- MODULE MbufBufferProofs --------------------------
(***************************************************************************)
(* Proofs about MbufBuffer for every capacity and set of byte values: the  *)
(* lengths, and that the moves and stores inside the data area do to the   *)
(* packet what PacketBytes says.                                           *)
(***************************************************************************)
EXTENDS MbufBuffer, QueueLemmas

-----------------------------------------------------------------------------
(* Lengths. *)

\* ptr::copy of n bytes inside the data area keeps its size.
LEMMA MoveInside ==
  ASSUME NEW b \in [1 .. Capacity -> Byte], NEW src \in Nat, NEW dst \in Nat, NEW n \in Nat,
         src + n <= Capacity
  PROVE  Move(b, src, dst, n) \in [1 .. Capacity -> Byte]
<1>1. Capacity \in Nat
  BY BufferAssumption
<1>2. \A i \in dst + 1 .. dst + n : src + i - dst \in 1 .. Capacity
  BY <1>1
<1> QED
  BY <1>2 DEF Move

\* The slices the operations are called with.
LEMMA SliceIsSeq ==
  ASSUME NEW v \in Slices
  PROVE  /\ v \in Seq(Byte) /\ Len(v) \in Offset /\ Len(v) \in Nat
         /\ \A i \in 1 .. Len(v) : v[i] \in Byte
<1>1. PICK n \in Offset : v \in [1 .. n -> Byte]
  BY DEF Slices
<1>2. n \in Nat
  BY BufferAssumption DEF Offset
<1>3. Len(v) = n /\ v \in Seq(Byte)
  BY <1>1, <1>2
<1> QED
  BY <1>1, <1>2, <1>3

\* So does a store.
LEMMA StoreInside ==
  ASSUME NEW b \in [1 .. Capacity -> Byte], NEW offset \in Nat, NEW v \in Slices
  PROVE  Store(b, offset, v) \in [1 .. Capacity -> Byte]
<1>1. Len(v) \in Nat /\ \A i \in 1 .. Len(v) : v[i] \in Byte
  BY SliceIsSeq
<1>2. \A i \in offset + 1 .. offset + Len(v) : v[i - offset] \in Byte
  BY <1>1
<1> QED
  BY <1>2 DEF Store

\* extend within the tailroom, at any offset.
LEMMA TypeExtend ==
  ASSUME TypeOK, NEW offset \in Nat, NEW len \in Nat, Extend(offset, len)
  PROVE  TypeOK'
<1>1. CASE CanExtend(offset, len) /\ buf' = Move(buf, offset, offset + len, dataLen - offset)
           /\ AddLen(len) /\ Reply("ok")
  <2>1. Capacity \in Nat /\ dataLen \in Nat /\ offset <= dataLen /\ dataLen + len <= Capacity
    BY <1>1, BufferAssumption DEF CanExtend, Tailroom, TypeOK
  <2>2. buf' \in [1 .. Capacity -> Byte]
    BY <1>1, <2>1, MoveInside DEF TypeOK
  <2> QED
    BY <1>1, <2>1, <2>2 DEF TypeOK, AddLen, Reply
<1>2. CASE Rejected
  BY <1>2 DEF Rejected, Reply, TypeOK
<1> QED
  BY <1>1, <1>2 DEF Extend

\* shrink within the packet.
LEMMA TypeShrink ==
  ASSUME TypeOK, NEW offset \in Nat, NEW len \in Nat, Shrink(offset, len)
  PROVE  TypeOK'
<1>1. CASE CanShrink(offset, len)
           /\ buf' = Move(buf, offset + len, offset, dataLen - offset - len)
           /\ AddLen(-len) /\ Reply("ok")
  <2>1. Capacity \in Nat /\ dataLen \in Nat /\ dataLen <= Capacity /\ offset + len <= dataLen
    BY <1>1, BufferAssumption DEF CanShrink, TypeOK
  <2>2. buf' \in [1 .. Capacity -> Byte]
    BY <1>1, <2>1, MoveInside DEF TypeOK
  <2> QED
    BY <1>1, <2>1, <2>2 DEF TypeOK, AddLen, Reply
<1>2. CASE Rejected
  BY <1>2 DEF Rejected, Reply, TypeOK
<1> QED
  BY <1>1, <1>2 DEF Shrink

\* No sequence of calls makes a length exceed the data area, and data_len and
\* pkt_len, which each operation updates separately, stay equal.
THEOREM TypeCorrect == Spec => []TypeOK
<1>1. Init => TypeOK
  BY BufferAssumption DEF Init, TypeOK
<1>2. TypeOK /\ [Next]_vars => TypeOK'
  <2> SUFFICES ASSUME TypeOK, [Next]_vars PROVE TypeOK'
    OBVIOUS
  <2>0. Capacity \in Nat /\ Offset \subseteq Nat /\ dataLen \in Nat
    BY BufferAssumption DEF Offset, TypeOK
  <2>1. CASE New
    BY <2>0, <2>1 DEF New, SetLen, Reply, TypeOK
  <2>2. ASSUME NEW v \in Slices, FromBytes(v) PROVE TypeOK'
    <3>1. Store(buf, 0, v) \in [1 .. Capacity -> Byte] /\ Len(v) \in Nat
      BY SliceIsSeq, StoreInside DEF TypeOK
    <3> QED
      BY <2>0, <2>2, <3>1 DEF FromBytes, SetLen, Reply, TypeOK
  <2>3. ASSUME NEW offset \in Offset, NEW len \in Offset,
               Extend(offset, len) \/ Shrink(offset, len)
        PROVE  TypeOK'
    BY <2>0, <2>3, TypeExtend, TypeShrink
  <2>4. ASSUME NEW offset \in Offset, NEW len \in Offset \cup {-n : n \in Offset},
               Resize(offset, len)
        PROVE  TypeOK'
    <3>1. IF len < 0 THEN -len \in Nat ELSE len \in Nat
      BY <2>0
    <3> QED
      BY <2>0, <2>4, <3>1, TypeExtend, TypeShrink DEF Resize
  <2>5. ASSUME NEW offset \in Offset, NEW v \in Slices, WriteDataSlice(offset, v)
        PROVE  TypeOK'
    <3>1. Store(buf, offset, v) \in [1 .. Capacity -> Byte]
      BY <2>0, StoreInside DEF TypeOK
    <3> QED
      BY <2>5, <3>1 DEF WriteDataSlice, Rejected, Reply, TypeOK
  <2>6. ASSUME NEW toLen \in Offset, Truncate(toLen) PROVE TypeOK'
    BY <2>0, <2>6 DEF Truncate, SetLen, Rejected, Reply, TypeOK
  <2>7. CASE UNCHANGED vars
    BY <2>7 DEF vars, TypeOK
  <2> QED
    BY <2>1, <2>2, <2>3, <2>4, <2>5, <2>6, <2>7 DEF Next
<1> QED
  BY <1>1, <1>2, PTL DEF Spec

-----------------------------------------------------------------------------
(* The packet. *)

\* The first n bytes of the data area, as a sequence.
LEMMA Area ==
  ASSUME NEW b \in [1 .. Capacity -> Byte], NEW n \in 0 .. Capacity
  PROVE  /\ SubSeq(b, 1, n) \in Seq(Byte) /\ Len(SubSeq(b, 1, n)) = n
         /\ \A i \in 1 .. n : SubSeq(b, 1, n)[i] = b[i]
<1>1. Capacity \in Nat /\ n \in Nat
  BY BufferAssumption
<1>2. \A i \in 1 .. n : b[i] \in Byte
  BY <1>1
<1> DEFINE q == SubSeq(b, 1, n)
<1>3. /\ q \in Seq(Byte) /\ Len(q) = IF 1 <= n THEN n - 1 + 1 ELSE 0
      /\ \A i \in 1 .. n - 1 + 1 : q[i] = b[1 + i - 1]
  BY <1>1, <1>2, SubSeqProperties
<1> HIDE DEF q
<1>4. Len(q) = n /\ \A i \in 1 .. n : q[i] = b[i]
  BY <1>1, <1>3
<1> QED
  BY <1>3, <1>4 DEF q

\* The bytes before an offset.
LEMMA FrontBytes ==
  ASSUME NEW q \in Seq(Byte), NEW o \in 0 .. Len(q)
  PROVE  /\ SubSeq(q, 1, o) \in Seq(Byte) /\ Len(SubSeq(q, 1, o)) = o
         /\ \A i \in 1 .. o : SubSeq(q, 1, o)[i] = q[i]
<1>1. o \in Nat /\ \A i \in 1 .. o : q[i] \in Byte
  BY LenProperties
<1> DEFINE a == SubSeq(q, 1, o)
<1>2. /\ a \in Seq(Byte) /\ Len(a) = IF 1 <= o THEN o - 1 + 1 ELSE 0
      /\ \A i \in 1 .. o - 1 + 1 : a[i] = q[1 + i - 1]
  BY <1>1, SubSeqProperties
<1> HIDE DEF a
<1>3. Len(a) = o /\ \A i \in 1 .. o : a[i] = q[i]
  BY <1>1, <1>2
<1> QED
  BY <1>2, <1>3 DEF a

\* The bytes after an offset.
LEMMA BackBytes ==
  ASSUME NEW q \in Seq(Byte), NEW o \in 0 .. Len(q)
  PROVE  /\ SubSeq(q, o + 1, Len(q)) \in Seq(Byte)
         /\ Len(SubSeq(q, o + 1, Len(q))) = Len(q) - o
         /\ \A i \in 1 .. Len(q) - o : SubSeq(q, o + 1, Len(q))[i] = q[o + i]
<1> DEFINE c == SubSeq(q, o + 1, Len(q))
<1>1. o \in Nat /\ Len(q) \in Nat /\ \A i \in o + 1 .. Len(q) : q[i] \in Byte
  BY LenProperties
<1>2. /\ c \in Seq(Byte) /\ Len(c) = IF o + 1 <= Len(q) THEN Len(q) - (o + 1) + 1 ELSE 0
      /\ \A i \in 1 .. Len(q) - (o + 1) + 1 : c[i] = q[o + 1 + i - 1]
  BY <1>1, SubSeqProperties
<1> HIDE DEF c
<1>3. Len(c) = Len(q) - o /\ \A i \in 1 .. Len(q) - o : c[i] = q[o + i]
  BY <1>1, <1>2
<1> QED
  BY <1>2, <1>3 DEF c

\* Three pieces put together, byte by byte.
LEMMA ThreePieces ==
  ASSUME NEW a \in Seq(Byte), NEW g \in Seq(Byte), NEW c \in Seq(Byte)
  PROVE  /\ a \o g \o c \in Seq(Byte)
         /\ Len(a \o g \o c) = Len(a) + Len(g) + Len(c)
         /\ \A i \in 1 .. Len(a) + Len(g) + Len(c) :
              (a \o g \o c)[i] = IF i <= Len(a) THEN a[i]
                                 ELSE IF i <= Len(a) + Len(g) THEN g[i - Len(a)]
                                 ELSE c[i - (Len(a) + Len(g))]
<1> DEFINE ag == a \o g
<1>1. /\ ag \in Seq(Byte) /\ Len(ag) = Len(a) + Len(g)
      /\ \A i \in 1 .. Len(a) + Len(g) : ag[i] = IF i <= Len(a) THEN a[i] ELSE g[i - Len(a)]
  BY ConcatProperties
<1>2. Len(a) \in Nat /\ Len(g) \in Nat /\ Len(c) \in Nat
  BY LenProperties
<1> HIDE DEF ag
<1>0. ag \in Seq(Byte)
  BY <1>1
<1>3. /\ ag \o c \in Seq(Byte) /\ Len(ag \o c) = Len(ag) + Len(c)
      /\ \A i \in 1 .. Len(ag) + Len(c) :
           (ag \o c)[i] = IF i <= Len(ag) THEN ag[i] ELSE c[i - Len(ag)]
  BY <1>0, ConcatProperties
<1>4. \A i \in 1 .. Len(a) + Len(g) + Len(c) :
         (ag \o c)[i] = IF i <= Len(a) THEN a[i]
                        ELSE IF i <= Len(a) + Len(g) THEN g[i - Len(a)]
                        ELSE c[i - (Len(a) + Len(g))]
  BY <1>1, <1>2, <1>3
<1> QED
  BY <1>1, <1>3, <1>4 DEF ag

\* The packet before and after a call, byte by byte.
LEMMA PacketNow ==
  ASSUME TypeOK
  PROVE  /\ packet \in Seq(Byte) /\ Len(packet) = dataLen /\ dataLen \in Nat
         /\ \A i \in 1 .. dataLen : packet[i] = buf[i]
BY Area, BufferAssumption DEF TypeOK, packet

\* The same after it.
LEMMA PacketNext ==
  ASSUME TypeOK'
  PROVE  /\ packet' \in Seq(Byte) /\ Len(packet') = dataLen' /\ dataLen' \in Nat
         /\ \A i \in 1 .. dataLen' : packet'[i] = buf'[i]
<1>1. buf' \in [1 .. Capacity -> Byte] /\ dataLen' \in 0 .. Capacity
  BY DEF TypeOK
<1>2. /\ SubSeq(buf', 1, dataLen') \in Seq(Byte) /\ Len(SubSeq(buf', 1, dataLen')) = dataLen'
      /\ \A i \in 1 .. dataLen' : SubSeq(buf', 1, dataLen')[i] = buf'[i]
  BY <1>1, Area
<1>3. packet' = SubSeq(buf', 1, dataLen') /\ dataLen' \in Nat
  BY <1>1, BufferAssumption DEF packet
<1> QED
  BY <1>2, <1>3

\* The bytes of the packet before and after an offset, as the data area has them.
LEMMA PacketFront ==
  ASSUME TypeOK, NEW o \in 0 .. dataLen
  PROVE  \E a \in Seq(Byte) : a = SubSeq(packet, 1, o) /\ Len(a) = o
                              /\ \A i \in 1 .. o : a[i] = buf[i]
<1>1. o \in 0 .. Len(packet) /\ packet \in Seq(Byte)
  BY PacketNow
<1>2. /\ SubSeq(packet, 1, o) \in Seq(Byte) /\ Len(SubSeq(packet, 1, o)) = o
      /\ \A i \in 1 .. o : SubSeq(packet, 1, o)[i] = packet[i]
  BY <1>1, FrontBytes
<1>3. \A i \in 1 .. o : packet[i] = buf[i]
  BY PacketNow
<1> QED
  BY <1>2, <1>3

\* The bytes after it.
LEMMA PacketBack ==
  ASSUME TypeOK, NEW o \in 0 .. dataLen
  PROVE  \E c \in Seq(Byte) : c = SubSeq(packet, o + 1, Len(packet)) /\ Len(c) = dataLen - o
                              /\ \A i \in 1 .. dataLen - o : c[i] = buf[o + i]
<1>1. /\ SubSeq(packet, o + 1, Len(packet)) \in Seq(Byte)
      /\ Len(SubSeq(packet, o + 1, Len(packet))) = Len(packet) - o
      /\ \A i \in 1 .. Len(packet) - o : SubSeq(packet, o + 1, Len(packet))[i] = packet[o + i]
  BY PacketNow, BackBytes
<1>2. Len(packet) = dataLen /\ \A i \in 1 .. dataLen - o : o + i \in 1 .. dataLen
  BY PacketNow
<1> QED
  BY <1>1, <1>2, PacketNow, ZenonT(60)

\* The first bytes of b are the p, n and k bytes of three pieces.
MadeOf(b, len, a, p, g, n, c, k) ==
  /\ Len(a) = p /\ Len(g) = n /\ Len(c) = k /\ len = p + n + k
  /\ \A i \in 1 .. p : b[i] = a[i]
  /\ \A i \in p + 1 .. p + n : b[i] = g[i - p]
  /\ \A i \in p + n + 1 .. p + n + k : b[i] = c[i - (p + n)]

\* Then the packet is the three pieces, one after the other.
LEMMA Assembled ==
  ASSUME TypeOK', NEW a \in Seq(Byte), NEW g \in Seq(Byte), NEW c \in Seq(Byte),
         NEW p \in Nat, NEW n \in Nat, NEW k \in Nat,
         MadeOf(buf', dataLen', a, p, g, n, c, k)
  PROVE  packet' = a \o g \o c
<1> USE DEF MadeOf
<1> DEFINE whole == a \o g \o c
<1>1. /\ whole \in Seq(Byte) /\ Len(whole) = Len(a) + Len(g) + Len(c)
      /\ \A i \in 1 .. Len(a) + Len(g) + Len(c) :
           whole[i] = IF i <= Len(a) THEN a[i]
                      ELSE IF i <= Len(a) + Len(g) THEN g[i - Len(a)]
                      ELSE c[i - (Len(a) + Len(g))]
  BY ThreePieces, ZenonT(60)
<1> HIDE DEF whole
<1>2. /\ Len(whole) = p + n + k
      /\ \A i \in 1 .. p + n + k :
           whole[i] = IF i <= p THEN a[i] ELSE IF i <= p + n THEN g[i - p] ELSE c[i - (p + n)]
  BY <1>1
<1>3. ASSUME NEW i \in 1 .. p + n + k PROVE buf'[i] = whole[i]
  BY <1>2
<1>4. packet' \in Seq(Byte) /\ whole \in Seq(Byte) /\ Len(packet') = Len(whole)
  BY <1>1, <1>2, PacketNext
<1>5. \A i \in 1 .. Len(packet') : packet'[i] = whole[i]
  BY <1>2, <1>3, PacketNext
<1>6. packet' = whole
  BY <1>4, <1>5, SeqEqual
<1> QED
  BY <1>6 DEF whole

\* extend moves the bytes after the offset up by len: the packet has a gap of
\* len bytes there and no other byte changes.
LEMMA ExtendBytes ==
  ASSUME TypeOK, TypeOK', NEW o \in Nat, NEW n \in Nat, CanExtend(o, n),
         buf' = Move(buf, o, o + n, dataLen - o), AddLen(n)
  PROVE  Bytes!Extend(o, n)
<1>1. /\ Capacity \in Nat /\ dataLen \in Nat /\ o \in 0 .. dataLen /\ dataLen + n <= Capacity
      /\ dataLen' = dataLen + n
  BY BufferAssumption DEF CanExtend, Tailroom, TypeOK, AddLen
<1> DEFINE gap == [i \in 1 .. n |-> buf'[o + i]]
           k == dataLen - o
<1>2. gap \in [1 .. n -> Byte]
  BY <1>1 DEF TypeOK
<1>3. gap \in Seq(Byte) /\ Len(gap) = n /\ \A i \in 1 .. n : gap[i] = buf'[o + i]
  BY <1>2
<1> HIDE DEF gap
<1>4. PICK a \in Seq(Byte) : a = SubSeq(packet, 1, o) /\ Len(a) = o
                             /\ \A i \in 1 .. o : a[i] = buf[i]
  BY <1>1, PacketFront
<1>5. PICK c \in Seq(Byte) : c = SubSeq(packet, o + 1, Len(packet)) /\ Len(c) = k
                             /\ \A i \in 1 .. k : c[i] = buf[o + i]
  BY <1>1, PacketBack
<1>6. \A i \in 1 .. Capacity :
         buf'[i] = IF i \in o + n + 1 .. o + n + k THEN buf[o + i - (o + n)] ELSE buf[i]
  BY DEF Move, TypeOK
<1>7. ASSUME NEW i \in 1 .. o PROVE buf'[i] = a[i]
  <2>1. i \in 1 .. Capacity /\ ~(i \in o + n + 1 .. o + n + k)
    BY <1>1
  <2>2. buf'[i] = buf[i]
    BY <1>6, <2>1
  <2> QED
    BY <1>4, <2>2
<1>8. ASSUME NEW i \in o + 1 .. o + n PROVE buf'[i] = gap[i - o]
  <2>1. i - o \in 1 .. n /\ o + (i - o) = i
    BY <1>1
  <2> QED
    BY <1>3, <2>1
<1>9. ASSUME NEW i \in o + n + 1 .. o + n + k PROVE buf'[i] = c[i - (o + n)]
  <2>1. /\ i \in 1 .. Capacity /\ i - (o + n) \in 1 .. k
        /\ o + (i - (o + n)) = o + i - (o + n)
    BY <1>1
  <2>2. buf'[i] = buf[o + i - (o + n)]
    BY <1>6, <2>1
  <2> QED
    BY <1>5, <2>1, <2>2
<1>10. k \in Nat /\ dataLen' = o + n + k
  BY <1>1
<1> HIDE DEF k
<1>11. MadeOf(buf', dataLen', a, o, gap, n, c, k)
  BY <1>3, <1>4, <1>5, <1>7, <1>8, <1>9, <1>10 DEF MadeOf
<1>12. packet' = a \o gap \o c
  BY <1>3, <1>10, <1>11, Assembled
<1> QED
  BY <1>2, <1>4, <1>5, <1>12 DEF Bytes!Extend, Bytes!Before, Bytes!After

\* shrink moves the bytes after the removed ones down: they are all that goes.
LEMMA ShrinkBytes ==
  ASSUME TypeOK, TypeOK', NEW o \in Nat, NEW n \in Nat, CanShrink(o, n),
         buf' = Move(buf, o + n, o, dataLen - o - n), AddLen(-n)
  PROVE  Bytes!Shrink(o, n)
<1>1. /\ Capacity \in Nat /\ dataLen \in Nat /\ dataLen <= Capacity /\ o + n <= dataLen
      /\ dataLen' = dataLen - n /\ o \in 0 .. dataLen /\ o + n \in 0 .. dataLen
  BY BufferAssumption DEF CanShrink, TypeOK, AddLen
<1> DEFINE k == dataLen - (o + n)
<1>2. PICK a \in Seq(Byte) : a = SubSeq(packet, 1, o) /\ Len(a) = o
                             /\ \A i \in 1 .. o : a[i] = buf[i]
  BY <1>1, PacketFront
<1>3. PICK c \in Seq(Byte) : c = SubSeq(packet, o + n + 1, Len(packet)) /\ Len(c) = k
                             /\ \A i \in 1 .. k : c[i] = buf[o + n + i]
  BY <1>1, PacketBack
<1>4. \A i \in 1 .. Capacity :
         buf'[i] = IF i \in o + 1 .. o + k THEN buf[o + n + i - o] ELSE buf[i]
  <2>1. dataLen - o - n = k
    BY <1>1
  <2> QED
    BY <2>1 DEF Move, TypeOK
<1>5. \A i \in 1 .. o : buf'[i] = a[i]
  BY <1>1, <1>2, <1>4, SMTT(60)
<1>6. ASSUME NEW i \in o + 0 + 1 .. o + 0 + k PROVE buf'[i] = c[i - (o + 0)]
  <2>1. /\ i \in 1 .. Capacity /\ i - (o + 0) \in 1 .. k /\ i \in o + 1 .. o + k
        /\ o + n + (i - (o + 0)) = o + n + i - o
    BY <1>1
  <2>2. buf'[i] = buf[o + n + i - o]
    BY <1>4, <2>1
  <2> QED
    BY <1>3, <2>1, <2>2
<1>7. k \in Nat /\ dataLen' = o + 0 + k /\ 0 \in Nat
  BY <1>1
<1>8. PICK none \in Seq(Byte) : none = <<>> /\ Len(none) = 0
  BY EmptySeq
<1> HIDE DEF k
<1>9. MadeOf(buf', dataLen', a, o, none, 0, c, k)
  <2>1. \A i \in o + 1 .. o + 0 : buf'[i] = none[i - o]
    BY <1>1
  <2> QED
    BY <1>2, <1>3, <1>5, <1>6, <1>7, <1>8, <2>1 DEF MadeOf
<1>10. packet' = a \o none \o c
  BY <1>7, <1>9, Assembled
<1>11. a \o none = a
  BY <1>8, ConcatEmptySeq
<1> QED
  BY <1>2, <1>3, <1>10, <1>11 DEF Bytes!Shrink, Bytes!Before, Bytes!After

\* truncate keeps the first bytes.
LEMMA TruncateBytes ==
  ASSUME TypeOK, TypeOK', NEW n \in Nat, n < dataLen, SetLen(n), UNCHANGED buf
  PROVE  Bytes!Truncate(n)
<1>1. dataLen \in Nat /\ dataLen' = n /\ n \in 0 .. dataLen
  BY BufferAssumption DEF TypeOK, SetLen
<1> DEFINE a == SubSeq(packet, 1, n)
<1>2. a \in Seq(Byte) /\ Len(a) = n /\ \A i \in 1 .. n : a[i] = buf[i]
  BY <1>1, PacketNow, FrontBytes
<1> HIDE DEF a
<1>3. packet' \in Seq(Byte) /\ Len(packet') = n /\ \A i \in 1 .. n : packet'[i] = a[i]
  BY <1>1, <1>2, PacketNext
<1>4. packet' = a
  BY <1>2, <1>3, SeqEqual
<1> QED
  BY <1>4 DEF Bytes!Truncate, Bytes!Before, a

\* write_data_slice overwrites the bytes of the slice in place.
LEMMA WriteBytes ==
  ASSUME TypeOK, TypeOK', NEW o \in Nat, NEW v \in Slices, o + Len(v) <= dataLen,
         buf' = Store(buf, o, v), UNCHANGED dataLen
  PROVE  Bytes!Write(o, v)
<1> DEFINE n == Len(v)
<1>1. v \in Seq(Byte) /\ n \in Nat
  BY SliceIsSeq
<1> HIDE DEF n
<1>2. /\ Capacity \in Nat /\ dataLen \in Nat /\ dataLen <= Capacity /\ o + n <= dataLen
      /\ o \in 0 .. dataLen /\ o + n \in 0 .. dataLen
  BY <1>1, BufferAssumption DEF TypeOK, n
<1> DEFINE k == dataLen - (o + n)
<1>3. PICK a \in Seq(Byte) : a = SubSeq(packet, 1, o) /\ Len(a) = o
                             /\ \A i \in 1 .. o : a[i] = buf[i]
  BY <1>2, PacketFront
<1>4. PICK c \in Seq(Byte) : c = SubSeq(packet, o + n + 1, Len(packet)) /\ Len(c) = k
                             /\ \A i \in 1 .. k : c[i] = buf[o + n + i]
  BY <1>2, PacketBack
<1>5. \A i \in 1 .. Capacity :
         buf'[i] = IF i \in o + 1 .. o + n THEN v[i - o] ELSE buf[i]
  BY DEF Store, TypeOK, n
<1>6. /\ \A i \in 1 .. o : buf'[i] = a[i]
      /\ \A i \in o + 1 .. o + n : buf'[i] = v[i - o]
  <2>1. ASSUME NEW i \in 1 .. o PROVE buf'[i] = a[i]
    <3>1. i \in 1 .. Capacity /\ ~(i \in o + 1 .. o + n)
      BY <1>1, <1>2
    <3>2. buf'[i] = buf[i]
      BY <1>5, <3>1
    <3> QED
      BY <1>3, <3>2
  <2>2. ASSUME NEW i \in o + 1 .. o + n PROVE buf'[i] = v[i - o]
    <3>1. i \in 1 .. Capacity
      BY <1>1, <1>2
    <3> QED
      BY <1>5, <3>1
  <2> QED
    BY <2>1, <2>2
<1>7. ASSUME NEW i \in o + n + 1 .. o + n + k PROVE buf'[i] = c[i - (o + n)]
  <2>1. /\ i \in 1 .. Capacity /\ i - (o + n) \in 1 .. k /\ ~(i \in o + 1 .. o + n)
        /\ o + n + (i - (o + n)) = i
    BY <1>1, <1>2
  <2> QED
    BY <1>4, <1>5, <2>1
<1>8. k \in Nat /\ dataLen' = o + n + k
  BY <1>1, <1>2
<1> HIDE DEF k
<1>9. MadeOf(buf', dataLen', a, o, v, n, c, k)
  BY <1>3, <1>4, <1>6, <1>7, <1>8 DEF MadeOf, n
<1>10. packet' = a \o v \o c
  BY <1>1, <1>8, <1>9, Assembled
<1> QED
  BY <1>3, <1>4, <1>10 DEF Bytes!Write, Bytes!Before, Bytes!After, n

\* from_bytes leaves nothing of what the buffer held before.
LEMMA FreshBytes ==
  ASSUME TypeOK, TypeOK', NEW v \in Slices, Len(v) <= Capacity, buf' = Store(buf, 0, v), SetLen(Len(v))
  PROVE  Bytes!Fresh(v)
<1>1. v \in Seq(Byte) /\ Len(v) \in Nat
  BY SliceIsSeq
<1>2. packet' \in Seq(Byte) /\ Len(packet') = Len(v) /\ \A i \in 1 .. Len(v) : packet'[i] = buf'[i]
  BY PacketNext DEF SetLen
<1>3. PICK n \in Nat : n = Len(v)
  BY <1>1
<1>4. \A i \in 1 .. Capacity : buf'[i] = IF i \in 0 + 1 .. 0 + n THEN v[i - 0] ELSE buf[i]
  BY <1>3 DEF Store, TypeOK
<1>5. ASSUME NEW i \in 1 .. n PROVE packet'[i] = v[i]
  <2>1. i \in 1 .. Capacity /\ i \in 0 + 1 .. 0 + n /\ i - 0 = i
    BY <1>3, BufferAssumption
  <2>2. buf'[i] = v[i]
    BY <1>4, <2>1
  <2> QED
    BY <1>2, <1>3, <2>2
<1>6. packet' = v
  BY <1>1, <1>2, <1>3, <1>5, SeqEqual
<1> QED
  BY <1>6 DEF Bytes!Fresh

\* For every capacity and at every offset: extend, shrink, truncate,
\* write_data_slice and from_bytes do to the packet what PacketBytes says, and a
\* resize that fails leaves it alone.
THEOREM ImplementsBytes == Spec => OperationsImplementBytes
<1> DEFINE A ==
      /\ \A o, n \in Offset :
           /\ Extend(o, n) => IF result' = "ok" THEN Bytes!Extend(o, n) ELSE packet' = packet
           /\ Shrink(o, n) => IF result' = "ok" THEN Bytes!Shrink(o, n) ELSE packet' = packet
      /\ \A n \in Offset :
           Truncate(n) => IF result' = "ok" THEN Bytes!Truncate(n) ELSE packet' = packet
      /\ \A o \in Offset, v \in Slices :
           WriteDataSlice(o, v) /\ result' = "ok" => Bytes!Write(o, v)
      /\ \A v \in Slices : FromBytes(v) /\ result' = "ok" => Bytes!Fresh(v)
<1>1. ASSUME TypeOK, TypeOK' PROVE A
  <2>1. Offset \subseteq Nat
    BY BufferAssumption DEF Offset
  <2>2. ASSUME Rejected PROVE result' # "ok" /\ packet' = packet
    BY <2>2 DEF Rejected, Reply, packet
  <2>3. ASSUME NEW o \in Offset, NEW n \in Offset, Extend(o, n)
        PROVE  IF result' = "ok" THEN Bytes!Extend(o, n) ELSE packet' = packet
    <3>1. CASE Rejected
      BY <2>2, <3>1
    <3>2. CASE ~Rejected
      <4>1. /\ CanExtend(o, n) /\ buf' = Move(buf, o, o + n, dataLen - o) /\ AddLen(n)
            /\ result' = "ok"
        BY <2>3, <3>2 DEF Extend, Reply
      <4>2. Bytes!Extend(o, n)
        BY <1>1, <2>1, <4>1, ExtendBytes
      <4> QED
        BY <4>1, <4>2
    <3> QED
      BY <3>1, <3>2
  <2>4. ASSUME NEW o \in Offset, NEW n \in Offset, Shrink(o, n)
        PROVE  IF result' = "ok" THEN Bytes!Shrink(o, n) ELSE packet' = packet
    <3>1. CASE Rejected
      BY <2>2, <3>1
    <3>2. CASE ~Rejected
      <4>1. /\ CanShrink(o, n) /\ buf' = Move(buf, o + n, o, dataLen - o - n) /\ AddLen(-n)
            /\ result' = "ok"
        BY <2>4, <3>2 DEF Shrink, Reply
      <4>2. Bytes!Shrink(o, n)
        BY <1>1, <2>1, <4>1, ShrinkBytes
      <4> QED
        BY <4>1, <4>2
    <3> QED
      BY <3>1, <3>2
  <2>5. ASSUME NEW n \in Offset, Truncate(n)
        PROVE  IF result' = "ok" THEN Bytes!Truncate(n) ELSE packet' = packet
    <3>1. CASE Rejected
      BY <2>2, <3>1
    <3>2. CASE ~Rejected
      <4>1. n < dataLen /\ SetLen(n) /\ UNCHANGED buf /\ result' = "ok"
        BY <2>5, <3>2 DEF Truncate, Reply
      <4>2. Bytes!Truncate(n)
        BY <1>1, <2>1, <4>1, TruncateBytes
      <4> QED
        BY <4>1, <4>2
    <3> QED
      BY <3>1, <3>2
  <2>6. ASSUME NEW o \in Offset, NEW v \in Slices, WriteDataSlice(o, v), result' = "ok"
        PROVE  Bytes!Write(o, v)
    <3>1. o + Len(v) <= dataLen /\ buf' = Store(buf, o, v) /\ UNCHANGED dataLen
      BY <2>2, <2>6 DEF WriteDataSlice, Reply
    <3> QED
      BY <1>1, <2>1, <3>1, WriteBytes
  <2>7. ASSUME NEW v \in Slices, FromBytes(v), result' = "ok"
        PROVE  Bytes!Fresh(v)
    <3>1. Len(v) <= Capacity /\ buf' = Store(buf, 0, v) /\ SetLen(Len(v))
      BY <2>7 DEF FromBytes, Reply
    <3> QED
      BY <1>1, <3>1, FreshBytes
  <2> QED
    BY <2>3, <2>4, <2>5, <2>6, <2>7
<1>2. TypeOK /\ TypeOK' => [A]_vars
  BY <1>1
<1>3. [][A]_vars <=> OperationsImplementBytes
  BY PTL DEF OperationsImplementBytes
<1> HIDE DEF A
<1> QED
  BY <1>2, <1>3, TypeCorrect, PTL
=============================================================================
