----------------------------- MODULE GrpcServices -----------------------------
(***************************************************************************)
(* The services of plugin/proto/plugin.proto as the generated code          *)
(* registers them, what the plugin's two servers do with the requests and   *)
(* the errors of each method, and gRPC errors as Go code sees them.         *)
(*                                                                         *)
(* An error is the chain that errors.Unwrap walks: a sequence with one      *)
(* entry per error: the code of a gRPC status, NotSupported for             *)
(* ErrStreamingNotSupported, Plain for any other. The empty chain is nil.  *)
(***************************************************************************)
EXTENDS Naturals, Sequences

PluginService ==
    {"GetProviders", "GetProviderDescriptor", "ConfigureProvider",
     "ExecuteProvider", "ExecuteProviderStream", "DescribeWhatIf",
     "ExtractDependencies", "StopProvider"}

AuthHandlerService ==
    {"GetAuthHandlers", "ConfigureAuthHandler", "Login", "Logout", "GetStatus",
     "GetToken", "ListCachedTokens", "PurgeExpiredTokens", "StopAuthHandler",
     "DetectAvailableFlows", "ActivateServerMode"}

HostService ==
    {"GetSecret", "SetSecret", "DeleteSecret", "ListSecrets", "GetAuthIdentity",
     "ListAuthHandlers", "GetAuthToken", "GetAuthGroups", "PromptAuthResponse"}

\* The methods whose request is an ExecuteProviderRequest.
Executions == {"ExecuteProvider", "ExecuteProviderStream"}

\* The methods that give the plugin the context of the call as it comes.
BareContext ==
    {"GetProviders", "GetProviderDescriptor", "StopProvider", "GetAuthHandlers",
     "StopAuthHandler"}

\* The methods that put a profile in the context whatever the request says.
SetsProfile ==
    {"ConfigureProvider", "ConfigureAuthHandler", "Login", "Logout", "GetStatus",
     "GetToken", "ListCachedTokens", "PurgeExpiredTokens"}

\* The methods that return the plugin's error, wrapped, instead of a response
\* that carries its text.
ReturnsError ==
    {"GetProviders", "GetProviderDescriptor", "GetAuthHandlers", "Logout",
     "GetStatus", "GetToken", "ListCachedTokens", "PurgeExpiredTokens"}

-----------------------------------------------------------------------------
(***************************************************************************)
(* Errors                                                                  *)
(***************************************************************************)

Codes == {"OK", "Canceled", "Unknown", "Unavailable", "Unimplemented"}

Nil == <<>>
Plain == "plain"
NotSupported == "notSupported"

Statuses(err) == {i \in 1..Len(err) : err[i] \in Codes}

\* status.FromError finds a status anywhere in the chain.
HasStatus(err) == Statuses(err) # {}

\* status.Code(err): the outermost status decides; an error without one is
\* Unknown.
StatusCode(err) ==
    IF err = Nil THEN "OK"
    ELSE IF HasStatus(err)
         THEN err[CHOOSE i \in Statuses(err) : \A j \in Statuses(err) : i <= j]
         ELSE "Unknown"

\* fmt.Errorf("...: %w", err)
Wrap(err) == <<Plain>> \o err

\* errors.Is(err, ErrStreamingNotSupported)
IsNotSupported(err) == \E i \in 1..Len(err) : err[i] = NotSupported

\* Mutant: only the error itself is looked at, not what it wraps; and not
\* through status.FromError, which unwraps.
IsUnimplementedShallow(err) == err # Nil /\ Head(err) = "Unimplemented"

\* The loop of plugin.IsUnimplemented over the chain.
IsUnimplemented(err) ==
    \E i \in 1..Len(err) :
        LET rest == SubSeq(err, i, Len(err)) IN
        HasStatus(rest) /\ StatusCode(rest) = "Unimplemented"
=============================================================================
