---------------------------- MODULE PacketBytes ----------------------------
(***************************************************************************)
(* What the operations of an Mbuf mean to its user: the packet is a        *)
(* sequence of bytes that can be grown, shrunk, cut and overwritten in     *)
(* place.  The bytes that growing inserts have no particular value.        *)
(***************************************************************************)
EXTENDS Naturals, Sequences

CONSTANT Byte

VARIABLE content

Before(o) == SubSeq(content, 1, o)
After(o) == SubSeq(content, o + 1, Len(content))

\* n bytes inserted after the first o.
Extend(o, n) == \E gap \in [1 .. n -> Byte] : content' = Before(o) \o gap \o After(o)

\* n bytes taken out after the first o.
Shrink(o, n) == content' = Before(o) \o After(o + n)

Truncate(n) == content' = Before(n)

\* A new packet.
Fresh(v) == content' = v

\* v written over the bytes after the first o.
Write(o, v) == content' = Before(o) \o v \o After(o + Len(v))
=============================================================================
