---------------------------- MODULE MbufBuffer ----------------------------
(***************************************************************************)
(* The data area of one Mbuf: data_len, pkt_len and the bytes after        *)
(* data_off, as extend, shrink, truncate, resize, write_data_slice and     *)
(* from_bytes use them.  Offsets and lengths go up to one past the         *)
(* capacity, so every error path is taken.  Elements are bytes (T = u8).   *)
(***************************************************************************)
EXTENDS Integers, Sequences

CONSTANTS
  Byte,            \* byte values told apart
  Capacity,        \* buf_len - data_off
  OverflowChecks   \* whether usize underflow panics (dev profile) or wraps

ASSUME BufferAssumption ==
  /\ Byte # {}
  /\ Capacity \in Nat \ {0}
  /\ OverflowChecks \in BOOLEAN

VARIABLES
  buf,       \* bytes of the data area, inside the packet and after its end
  dataLen,   \* rte_mbuf.data_len
  pktLen,    \* rte_mbuf.pkt_len
  result     \* what the last call returned

vars == <<buf, dataLen, pktLen, result>>

Offset == 0 .. Capacity + 1

\* The lengths stay within the data area, and data_len and pkt_len, which each
\* of the Mbuf operations updates separately, never differ.
TypeOK ==
  /\ buf \in [1 .. Capacity -> Byte]
  /\ dataLen \in 0 .. Capacity
  /\ pktLen = dataLen
  /\ result \in {"ok", "err", "panic"}

\* A fresh mbuf; the area holds whatever an earlier packet left there.
Init ==
  /\ buf \in [1 .. Capacity -> Byte]
  /\ dataLen = 0 /\ pktLen = 0
  /\ result = "ok"

-----------------------------------------------------------------------------
(* Faulty variants: edits of the operations below that the properties must *)
(* tell from the code.  They are not part of the specification.            *)

\* The bytes after the offset are not moved first.
MoveNothing(b, src, dst, n) == b

\* Room is measured by the whole buffer.
TailroomIgnoresData == Capacity

-----------------------------------------------------------------------------
(* Operations. *)

Reply(r) == result' = r
Rejected == Reply("err") /\ UNCHANGED <<buf, dataLen, pktLen>>
SetLen(n) == dataLen' = n /\ pktLen' = n
AddLen(n) == dataLen' = dataLen + n /\ pktLen' = pktLen + n

\* ptr::copy, a memmove of n bytes.
Move(b, src, dst, n) ==
  [i \in DOMAIN b |-> IF i \in dst + 1 .. dst + n THEN b[src + i - dst] ELSE b[i]]

\* The bytes of v stored from offset on.
Store(b, offset, v) ==
  [i \in DOMAIN b |-> IF i \in offset + 1 .. offset + Len(v) THEN v[i - offset] ELSE b[i]]

Tailroom == Capacity - dataLen

CanExtend(offset, len) == len > 0 /\ offset <= dataLen /\ len <= Tailroom
Extend(offset, len) ==
  \/ /\ CanExtend(offset, len)
     /\ buf' = Move(buf, offset, offset + len, dataLen - offset)
     /\ AddLen(len)
     /\ Reply("ok")
  \/ ~CanExtend(offset, len) /\ Rejected

CanShrink(offset, len) == len > 0 /\ offset + len <= dataLen
Shrink(offset, len) ==
  \/ /\ CanShrink(offset, len)
     /\ buf' = Move(buf, offset + len, offset, dataLen - offset - len)
     /\ AddLen(-len)
     /\ Reply("ok")
  \/ ~CanShrink(offset, len) /\ Rejected

Resize(offset, len) == IF len < 0 THEN Shrink(offset, -len) ELSE Extend(offset, len)

Truncate(toLen) ==
  \/ toLen < dataLen /\ SetLen(toLen) /\ Reply("ok") /\ UNCHANGED buf
  \/ toLen >= dataLen /\ Rejected

\* Whether read_data_slice hands out a pointer.
ReadSliceFits(offset, count) == offset < dataLen /\ offset + count <= dataLen - offset

\* The bytes are written; then read_data_slice has the last word.
WriteDataSlice(offset, v) ==
  \/ /\ offset + Len(v) <= dataLen
     /\ buf' = Store(buf, offset, v)
     /\ Reply(IF ReadSliceFits(offset, Len(v)) THEN "ok" ELSE "err")
     /\ UNCHANGED <<dataLen, pktLen>>
  \/ /\ offset + Len(v) > dataLen
     /\ ~(OverflowChecks /\ offset > dataLen)
     /\ Rejected
  \/ /\ offset > dataLen /\ OverflowChecks   \* data_len - offset, in the error
     /\ Reply("panic")
     /\ UNCHANGED <<buf, dataLen, pktLen>>

\* Mbuf::new on a buffer that went back to the pool.
New ==
  /\ SetLen(0)
  /\ Reply("ok")
  /\ UNCHANGED buf

\* new, extend(0, len), write_data_slice(0, data); a failure frees the mbuf.
FromBytes(v) ==
  \/ /\ Len(v) > 0 /\ Len(v) <= Capacity
     /\ buf' = Store(buf, 0, v)
     /\ SetLen(Len(v))
     /\ Reply("ok")
  \/ /\ Len(v) = 0 \/ Len(v) > Capacity
     /\ SetLen(0)
     /\ Reply("err")
     /\ UNCHANGED buf

Slices == UNION {[1 .. n -> Byte] : n \in Offset}

Next ==
  /\ result # "panic"
  /\ \/ New
     \/ \E v \in Slices : FromBytes(v)
     \/ \E offset \in Offset :
          \/ \E len \in Offset : Extend(offset, len) \/ Shrink(offset, len)
          \/ \E len \in Offset \cup {-n : n \in Offset} : Resize(offset, len)
          \/ \E v \in Slices : WriteDataSlice(offset, v)
     \/ \E toLen \in Offset : Truncate(toLen)

Spec == Init /\ [][Next]_vars

-----------------------------------------------------------------------------
(* Properties. *)

packet == SubSeq(buf, 1, dataLen)
Bytes == INSTANCE PacketBytes WITH content <- packet

\* Every operation that succeeds does to the packet what PacketBytes says for
\* the same arguments: no byte is lost, doubled or reordered by the overlapping
\* moves, at any offset.  The resizing ones leave the packet alone when they
\* fail.
OperationsImplementBytes ==
  [][/\ \A o, n \in Offset :
          /\ Extend(o, n) => IF result' = "ok" THEN Bytes!Extend(o, n) ELSE packet' = packet
          /\ Shrink(o, n) => IF result' = "ok" THEN Bytes!Shrink(o, n) ELSE packet' = packet
     /\ \A n \in Offset :
          Truncate(n) => IF result' = "ok" THEN Bytes!Truncate(n) ELSE packet' = packet
     /\ \A o \in Offset, v \in Slices :
          WriteDataSlice(o, v) /\ result' = "ok" => Bytes!Write(o, v)
     /\ \A v \in Slices : FromBytes(v) /\ result' = "ok" => Bytes!Fresh(v)]_vars

-----------------------------------------------------------------------------
(* What a comment of the repository says, and the code does not do. *)

\* mbuf.rs:267: write_data_slice writes the slice and returns the new copy.
\* Where it returns an error instead, nothing was written.
ErrorsWriteNothing ==
  [][\A o \in Offset, v \in Slices :
       WriteDataSlice(o, v) /\ result' = "err" => packet' = packet]_vars
=============================================================================
