------------------------------ MODULE HostClient ------------------------------
(***************************************************************************)
(* HostServiceClient (plugin/host_client.go): what a plugin asks of the     *)
(* host, and what it makes of the answer. A reply is what the generated     *)
(* stub returns: a status code, and with code OK a response whose error     *)
(* field, if it has one, may be set.                                       *)
(***************************************************************************)
EXTENDS GrpcServices, RequestContext

\* Of the request of a method only the profile and the secret to store matter;
\* the others name a handler, a scope, a pattern or a secret. Only
\* GetAuthToken tells the host a profile: the one in the context it is given.
ProfileSent(ctx, method) ==
    IF method = "GetAuthToken" THEN ProfileFromContext(ctx) ELSE Unset

NoValue == "none"
EmptyList == "empty"

\* ListAuthHandlers and PromptAuthResponse have no error field to look at.
HasErrorField == HostService \ {"ListAuthHandlers", "PromptAuthResponse"}

\* Mutant: SetSecret and DeleteSecret look at the status only.
ResponseErrorOfReads(method, reply) ==
    method \in HasErrorField \ {"SetSecret", "DeleteSecret"} /\ reply.error

\* if resp.Error != "" { return ..., fmt.Errorf(...) }
ResponseError(method, reply) == method \in HasErrorField /\ reply.error

\* Mutant: an old host's answer to GetAuthGroups is an error like any other.
GroupsOfOldHostFail(reply) == FALSE

\* The case that GetAuthGroups turns into an empty list.
GroupsUnsupported(reply) == StatusCode(<<reply.code>>) = "Unimplemented"

\* A list without elements is nil when it comes off the wire; GetAuthGroups
\* makes an empty list of it, the other methods leave it.
ClientValue(method, value) ==
    IF method = "GetAuthGroups" /\ value = NoValue THEN EmptyList ELSE value

\* What a method returns to the plugin: an error, or a value.
ClientResult(method, reply) ==
    IF method = "GetAuthGroups" /\ GroupsUnsupported(reply)
    THEN [err |-> Nil, value |-> EmptyList]
    ELSE IF reply.code # "OK" THEN [err |-> Wrap(<<reply.code>>), value |-> NoValue]
    ELSE IF ResponseError(method, reply) THEN [err |-> <<Plain>>, value |-> NoValue]
    ELSE [err |-> Nil, value |-> ClientValue(method, reply.value)]
=============================================================================
