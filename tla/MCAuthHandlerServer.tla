-------------------------- MODULE MCAuthHandlerServer -------------------------
(* Symmetry of the calls. *)
EXTENDS AuthHandlerServer, TLC

\* The calls are interchangeable; used for safety only.
Symmetry == Permutations(Calls)
===============================================================================
