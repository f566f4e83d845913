---------------------------- MODULE MCDataplane ----------------------------
(***************************************************************************)
(* Instances of Dataplane for TLC.  Mbufs are model values; they are only  *)
(* ever compared, so permuting them is a symmetry of the specification     *)
(* (used in the runs that check safety only).                              *)
(***************************************************************************)
EXTENDS Dataplane, TLC

MbufSymmetry == Permutations(Mbuf)
=============================================================================
