---------------------------- MODULE MCExecStream ----------------------------
(***************************************************************************)
(* Instances of ExecStream for TLC.                                        *)
(***************************************************************************)
EXTENDS ExecStream

\* Output, a chunk with output and a Result, Results good and bad, and an
\* empty chunk.
SomeChunks == {{"stdout"}, {"stderr", "result"}, {"result"}, {"badResult"}, {}}
=============================================================================
