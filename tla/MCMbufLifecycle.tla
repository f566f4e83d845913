-------------------------- MODULE MCMbufLifecycle --------------------------
(***************************************************************************)
(* An instance of MbufLifecycle for TLC: a pool of two mbufs and one of a  *)
(* single mbuf.                                                            *)
(***************************************************************************)
EXTENDS MbufLifecycle

CONSTANTS a1, a2, b1, A, B

TwoPools == (a1 :> A) @@ (a2 :> A) @@ (b1 :> B)
MbufSymmetry == Permutations({a1, a2})
=============================================================================
