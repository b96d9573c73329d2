----------------------------- MODULE MCStaticAuth -----------------------------
(* Symmetry of the calls. *)
EXTENDS StaticAuth, TLC

Symmetry == Permutations(Calls)

=============================================================================
