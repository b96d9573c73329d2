----------------------------- MODULE PluginProcess -----------------------------
(***************************************************************************)
(* A plugin process and how a host gets a stub of it: Serve and             *)
(* ServeAuthHandler (plugin/server.go), the handshakes (plugin/interface.go) *)
(* and the registration of the service (plugin/grpc_plugin.go).             *)
(*                                                                         *)
(* A kind of plugin is the name it has in the map of plugins, on both sides. *)
(* The host starts the process with the cookie of the kind it wants; a       *)
(* plugin that finds another in its environment exits, and a host that       *)
(* reads another protocol version turns away (go-plugin).                   *)
(***************************************************************************)
EXTENDS GrpcServices

Kinds == {"provider", "auth-handler"}

\* Mutant: one handshake for all kinds of plugin.
HandshakeOfProviders(kind) ==
    [version |-> 1, key |-> "SCAFCTL_PLUGIN", value |-> "scafctl_provider_plugin"]

\* HandshakeConfig and AuthHandlerHandshakeConfig
Handshake(kind) ==
    IF kind = "provider"
    THEN [version |-> 1, key |-> "SCAFCTL_PLUGIN", value |-> "scafctl_provider_plugin"]
    ELSE [version |-> 2, key |-> "SCAFCTL_AUTH_PLUGIN", value |-> "scafctl_auth_handler_plugin"]

\* The process finds the cookie it asks for, and prints the host's version.
Accepts(served, wanted) == Handshake(served) = Handshake(wanted)

\* The methods of the service that GRPCServer registers for a kind, and those
\* of the stub that GRPCClient makes: the same service.
Methods(kind) == IF kind = "provider" THEN PluginService ELSE AuthHandlerService
=============================================================================
