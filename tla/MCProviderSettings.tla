------------------------- MODULE MCProviderSettings -------------------------
(***************************************************************************)
(* Instances of ProviderSettings for TLC.                                  *)
(***************************************************************************)
EXTENDS ProviderSettings, TLC

Symmetry == Permutations(Configs) \cup Permutations(Execs)
=============================================================================
