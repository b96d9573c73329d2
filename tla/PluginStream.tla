----------------------------- MODULE PluginStream -----------------------------
(***************************************************************************)
(* What the two calls that stream to the host have in common                *)
(* (ExecuteProviderStream in plugin/grpc_server.go, Login in                *)
(* plugin/grpc_auth_server.go): the goroutine of the gRPC handler, the      *)
(* goroutines of the plugin that call back with messages, and the stream.   *)
(* ExecStream and LoginStream say what each of them does.                   *)
(***************************************************************************)
EXTENDS Naturals, Sequences, FiniteSets

CONSTANTS Workers,  \* goroutines of the plugin that call back
          Handler   \* the goroutine of the gRPC handler

ASSUME HandlerAssumption == Handler \notin Workers

VARIABLES
    handler,  \* where the handler is, "returned" at last
    status,   \* what it returns, "none" before
    worker,   \* worker[w]: where w is in the callback, or "out" of it
    wire,     \* the messages the host gets, in order
    broken,   \* the host has gone: Send fails from now on
    joins,    \* the plugin returns only when its goroutines are done with
              \* the callback, as it should; it may be written to leave them
              \* behind
    outcome   \* history: what the plugin returned, "none" before

\* Send succeeds as long as the host is there and the call has not ended.
SendWorks == ~broken /\ handler # "returned"

\* The goroutines that call back are done, if the plugin waits for them.
MayReturn == joins => \A w \in Workers : worker[w] = "out"

=============================================================================
