--------------------------- MODULE MCProviderServer ---------------------------
(* Symmetry of the calls. *)
EXTENDS ProviderServer, TLC

\* The calls are interchangeable; used for safety only.
Symmetry == Permutations(Calls)
===============================================================================
