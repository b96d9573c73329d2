---------------------------- MODULE MCMultiCluster ----------------------------
(* Symmetry of the calls. *)
EXTENDS MultiCluster, TLC

Symmetry == Permutations(Calls)

=============================================================================
