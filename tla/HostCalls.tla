------------------------------- MODULE HostCalls -------------------------------
(***************************************************************************)
(* Calls of the host into a plugin, and the calls the plugin makes back     *)
(* while it works on them: generated stub, generated handler, the method of *)
(* GRPCServer or AuthHandlerGRPCServer, the plugin, HostServiceClient, and   *)
(* the stub and the handler of HostService.                                *)
(*                                                                         *)
(* A callback is a message that the host handles at some time, or never. The *)
(* plugin stops waiting for it when the host gives up the call (the context *)
(* is canceled) or the connection to the host is closed; the message stays  *)
(* out and the host may still handle it. The plugin and the host are not    *)
(* part of the SDK: they do what the interfaces let them.                   *)
(*                                                                         *)
(* Each call keeps a secret of its own, so that only its own callbacks      *)
(* write it. The connection is open or closed for all calls: AuthHandler-   *)
(* Server and ProviderServer say when it is opened and closed.             *)
(***************************************************************************)
EXTENDS HostClient, PluginProcess

CONSTANTS Calls,        \* the calls the host ever makes
          Requests,     \* what it asks
          Secrets,      \* the contents of secrets
          Hosts,        \* the sets of HostService methods that hosts implement
          MaxCallbacks  \* bound on the callbacks of one call

ASSUME CallsAssumption ==
    /\ Secrets \cap {NoValue} = {}
    /\ MaxCallbacks \in Nat
    /\ Hosts \subseteq SUBSET HostService
    /\ \A r \in Requests : r.profile \in Profiles \cup {DefaultProfile}
    /\ \A r \in Requests : r.method \in Executions => r.wire \in ExecuteRequests

VARIABLES
    wanted,         \* the kind of plugin the host thinks the process is
    served,         \* the kind it is
    process,        \* "starting", "serving", or "exited"
    pc,             \* pc[c]: "idle", "sent", "impl", "waiting", "done"
    req,            \* req[c]: the request of call c, one that is idle has none
    ctx,            \* ctx[c]: the context the plugin was given
    canceled,       \* canceled[c]: the host has given up call c
    reply,          \* reply[c]: what the host heard of call c
    callback,       \* callback[c]: the last callback of call c
    answer,         \* answer[c]: the reply to it, on its way to the plugin
    result,         \* result[c]: what the client made of the last reply
    flying,         \* callbacks that the host has not handled
    connected,      \* the connection to the host is there
    implemented,    \* the HostService methods of this host
    secrets,        \* secrets[c]: the host's secret of that name, or NoValue
    acked,          \* history: the last value that call c was told is stored
    unsure,         \* history: a write of c ended with an error
    returned        \* history: the error the plugin returned from call c

start == <<wanted, served, process>>
calls == <<pc, req, ctx, canceled, reply, returned>>
callbacks == <<callback, answer, result, flying>>
host == <<connected, implemented, secrets>>
history == <<acked, unsure>>
vars == <<start, calls, callbacks, host, history>>

Writes == {"SetSecret", "DeleteSecret"}

NoReply == [code |-> "none", error |-> FALSE, value |-> NoValue]
NoCallback == [n |-> 0, method |-> "none", profile |-> Unset, value |-> NoValue]
NoResult == [err |-> Nil, value |-> NoValue]
NoRequest == [method |-> "none", profile |-> DefaultProfile]

Init ==
    /\ wanted \in Kinds
    /\ served \in Kinds
    /\ process = "starting"
    /\ pc = [c \in Calls |-> "idle"]
    /\ req = [c \in Calls |-> NoRequest]
    /\ ctx = [c \in Calls |-> Background]
    /\ canceled = [c \in Calls |-> FALSE]
    /\ reply = [c \in Calls |-> NoReply]
    /\ returned = [c \in Calls |-> Nil]
    /\ callback = [c \in Calls |-> NoCallback]
    /\ answer = [c \in Calls |-> NoReply]
    /\ result = [c \in Calls |-> NoResult]
    /\ flying = {}
    /\ connected \in BOOLEAN
    /\ implemented \in Hosts
    /\ secrets = [c \in Calls |-> NoValue]
    /\ acked = [c \in Calls |-> NoValue]
    /\ unsure = [c \in Calls |-> FALSE]

Goto(c, loc) == pc' = [pc EXCEPT ![c] = loc]

-----------------------------------------------------------------------------
(***************************************************************************)
(* The host calls the plugin                                               *)
(***************************************************************************)

\* The process starts to serve, unless it is not the plugin the host wants.
Start ==
    /\ process = "starting"
    /\ process' = IF Accepts(served, wanted) THEN "serving" ELSE "exited"
    /\ UNCHANGED <<wanted, served, calls, callbacks, host, history>>

\* A call through the stub of the kind the host wants.
Send(c, r) ==
    /\ process = "serving"
    /\ r.method \in Methods(wanted)
    /\ pc[c] = "idle"
    /\ req' = [req EXCEPT ![c] = r]
    /\ Goto(c, "sent")
    /\ UNCHANGED <<start, ctx, canceled, reply, returned, callbacks, host, history>>

\* The stubs of the two services.
CallPluginService(c, r) == wanted = "provider" /\ Send(c, r)
CallAuthHandlerService(c, r) == wanted = "auth-handler" /\ Send(c, r)

\* The host gives up: its stub returns, the context of the call is canceled.
Cancel(c) ==
    /\ pc[c] \in {"sent", "impl", "waiting"}
    /\ ~canceled[c]
    /\ canceled' = [canceled EXCEPT ![c] = TRUE]
    /\ reply' = [reply EXCEPT ![c] = [NoReply EXCEPT !.code = "Canceled"]]
    /\ UNCHANGED <<start, pc, req, ctx, returned, callbacks, host, history>>

\* The answer to call c, unless the host has stopped listening.
Answer(c, r) == reply' = IF canceled[c] THEN reply ELSE [reply EXCEPT ![c] = r]

InBand == [NoReply EXCEPT !.code = "OK", !.error = TRUE]

\* UnimplementedHostServiceServer, or gRPC for a method it has never heard of.
Unimplemented == [NoReply EXCEPT !.code = "Unimplemented"]

-----------------------------------------------------------------------------
(***************************************************************************)
(* The servers, up to the plugin                                           *)
(***************************************************************************)

\* What keeps the server from calling the plugin.
Refused(r) ==
    \/ r.method \notin Methods(served)
    \/ r.method \in Executions /\ ~Decodes(r.wire)
    \/ r.method \in {"DescribeWhatIf", "ExtractDependencies"} /\ r.wire.input = "malformed"

\* gRPC answers for a method that is not registered, the server else.
Refusal(r) == IF r.method \in Methods(served) THEN InBand ELSE Unimplemented

\* injectHostClient of both servers; the connection is read once.
InjectHostClient(cx) == IF connected THEN With(cx, "hostClient", "client") ELSE cx

\* The context that the methods of the servers give the plugin.
ContextFor(r) ==
    IF r.method \in BareContext THEN Background
    ELSE IF r.method \in Executions
         THEN InjectHostClient(ApplyRequestContext(Background, r.wire))
    ELSE IF r.method \in SetsProfile
         THEN With(InjectHostClient(Background), "profile", r.profile)
    ELSE InjectHostClient(Background)

Serve(c) ==
    /\ pc[c] = "sent"
    /\ \/ /\ Refused(req[c])
          /\ Answer(c, Refusal(req[c]))
          /\ Goto(c, "done")
          /\ UNCHANGED ctx
       \/ /\ ~Refused(req[c])
          /\ ctx' = [ctx EXCEPT ![c] = ContextFor(req[c])]
          /\ Goto(c, "impl")
          /\ UNCHANGED reply
    /\ UNCHANGED <<start, req, canceled, returned, callbacks, host, history>>

\* The generated handlers, which hand the request to the server's method.
HandlePluginService(c) == served = "provider" /\ Serve(c)
HandleAuthHandlerService(c) == served = "auth-handler" /\ Serve(c)

-----------------------------------------------------------------------------
(***************************************************************************)
(* The plugin calls the host                                               *)
(***************************************************************************)

\* What is left of call c's record once its callback has ended with r.
Record(c, cb, r) ==
    /\ result' = [result EXCEPT ![c] = r]
    /\ acked' = IF cb.method \in Writes /\ r.err = Nil
                THEN [acked EXCEPT ![c] = cb.value] ELSE acked
    /\ unsure' = IF cb.method \in Writes /\ r.err # Nil
                 THEN [unsure EXCEPT ![c] = TRUE] ELSE unsure

Aborted(method) == ClientResult(method, [NoReply EXCEPT !.code = "Canceled"])

\* The request is out, or the stub sees at once that nobody can answer it.
\* A plugin without a client calls nobody.
CallHostService(c, method, v) ==
    LET cb == [n |-> callback[c].n + 1, method |-> method,
               profile |-> ProfileSent(ctx[c], method), value |-> v]
    IN  /\ pc[c] = "impl"
        /\ Found(ctx[c], "hostClient")
        /\ callback[c].n < MaxCallbacks
        /\ callback' = [callback EXCEPT ![c] = cb]
        /\ answer' = [answer EXCEPT ![c] = NoReply]
        /\ \/ /\ connected
              /\ ~canceled[c]
              /\ flying' = flying \cup {<<c, cb>>}
              /\ result' = [result EXCEPT ![c] = NoResult]
              /\ Goto(c, "waiting")
              /\ UNCHANGED history
           \/ /\ ~connected \/ canceled[c]
              /\ Record(c, cb, Aborted(method))
              /\ UNCHANGED <<pc, flying>>
        /\ UNCHANGED <<start, req, ctx, canceled, reply, returned, host>>

\* Mutant: the client calls the host in a context of its own.
AbortedWhenDisconnected(c) == ~connected

\* The call's context is the callback's, and Close ends what is pending.
Abandoned(c) == ~connected \/ canceled[c]

AbortCallback(c) ==
    /\ pc[c] = "waiting"
    /\ Abandoned(c)
    /\ Record(c, callback[c], Aborted(callback[c].method))
    /\ Goto(c, "impl")
    /\ UNCHANGED <<start, req, ctx, canceled, reply, returned, callback, answer, flying, host>>

ReceiveReply(c) ==
    /\ pc[c] = "waiting"
    /\ answer[c] # NoReply
    /\ Record(c, callback[c], ClientResult(callback[c].method, answer[c]))
    /\ Goto(c, "impl")
    /\ UNCHANGED <<start, req, ctx, canceled, reply, returned, callback, answer, flying, host>>

-----------------------------------------------------------------------------
(***************************************************************************)
(* The host answers                                                        *)
(***************************************************************************)

\* The value in the host's answer: for a secret, what is stored; of a token it
\* matters whose it is.
HostValue(c, cb) ==
    CASE cb.method = "GetSecret" -> secrets[c]
      [] cb.method = "GetAuthToken" -> cb.profile
      [] OTHER -> NoValue

\* What a host that implements the method may answer to cb of call c. A prompt
\* outside a Login or without a terminal is Unavailable, one that the user
\* turns down is Canceled (plugin.proto:80-86).
HostReplies(c, cb) ==
    {[code |-> "OK", error |-> FALSE, value |-> HostValue(c, cb)]}
    \cup {[NoReply EXCEPT !.code = code] : code \in
            IF cb.method = "PromptAuthResponse" THEN {"Unavailable", "Canceled"}
            ELSE {"Unknown"}}
    \cup {r \in {InBand} : cb.method \in HasErrorField}

\* The handler of HostService, late ones included, whether or not somebody
\* still waits. A write is done when it is answered with neither kind of error.
HandleHostService(c, cb, r) ==
    /\ <<c, cb>> \in flying
    /\ flying' = flying \ {<<c, cb>>}
    /\ r \in IF cb.method \in implemented THEN HostReplies(c, cb) ELSE {Unimplemented}
    /\ secrets' = IF cb.method \in Writes /\ r.code = "OK" /\ ~r.error
                  THEN [secrets EXCEPT ![c] = cb.value] ELSE secrets
    /\ answer' = IF pc[c] = "waiting" /\ cb = callback[c]
                 THEN [answer EXCEPT ![c] = r] ELSE answer
    /\ UNCHANGED <<start, calls, callback, result, connected, implemented, history>>

\* A stop, or the failed configuration of an auth handler, of another call.
Disconnect ==
    /\ connected
    /\ connected' = FALSE
    /\ UNCHANGED <<start, calls, callbacks, implemented, secrets, history>>

-----------------------------------------------------------------------------
(***************************************************************************)
(* The plugin returns                                                      *)
(***************************************************************************)

\* nil, an error of its own, that of its last callback, as it is or wrapped,
\* and from a stream the error that says there are none. Output that cannot be
\* encoded looks to the host like an error of the plugin's own.
ImplErrors(c) ==
    {Nil, <<Plain>>, result[c].err}
    \cup (IF result[c].err # Nil THEN {Wrap(result[c].err)} ELSE {})
    \cup (IF req[c].method = "ExecuteProviderStream" THEN {<<NotSupported>>} ELSE {})

\* Mutant: the stream returns every error as the status of the call.
StatusOfEveryStreamError(method, err) ==
    method = "ExecuteProviderStream" \/ method \in ReturnsError

\* Whether the error is the status of the call: the methods that return it,
\* and a plugin that does not stream.
AsStatus(method, err) ==
    \/ method = "ExecuteProviderStream" /\ IsNotSupported(err)
    \/ method \in ReturnsError

\* The code of that status: Unimplemented for a plugin that does not stream,
\* else what gRPC finds in the error, through the %w of the server.
CodeOf(method, err) ==
    IF IsNotSupported(err) /\ method = "ExecuteProviderStream" THEN "Unimplemented"
    ELSE StatusCode(Wrap(err))

\* What the server makes of what the plugin returned.
ServerReply(method, err) ==
    IF err = Nil THEN [NoReply EXCEPT !.code = "OK"]
    ELSE IF AsStatus(method, err) THEN [NoReply EXCEPT !.code = CodeOf(method, err)]
    ELSE InBand

ImplReturns(c, err) ==
    /\ pc[c] = "impl"
    /\ err \in ImplErrors(c)
    /\ returned' = [returned EXCEPT ![c] = err]
    /\ Answer(c, ServerReply(req[c].method, err))
    /\ Goto(c, "done")
    /\ UNCHANGED <<start, req, ctx, canceled, callbacks, host, history>>

-----------------------------------------------------------------------------
CallbackStep(c) == AbortCallback(c) \/ ReceiveReply(c)

CallHost(c) ==
    \E method \in HostService :
        \E v \in IF method = "SetSecret" THEN Secrets ELSE {NoValue} :
            CallHostService(c, method, v)

HostStep(c, cb) ==
    \E r \in HostReplies(c, cb) \cup {Unimplemented} : HandleHostService(c, cb, r)

Next ==
    \/ Start
    \/ \E c \in Calls :
          \/ \E r \in Requests : CallPluginService(c, r) \/ CallAuthHandlerService(c, r)
          \/ Cancel(c)
          \/ HandlePluginService(c) \/ HandleAuthHandlerService(c)
          \/ CallHost(c)
          \/ CallbackStep(c)
          \/ \E err \in ImplErrors(c) : ImplReturns(c, err)
    \/ \E f \in flying : HostStep(f[1], f[2])
    \/ Disconnect

SafeSpec == Init /\ [][Next]_vars

\* The host handles the callback call c waits for, unless that is the user's
\* to answer.
HostAnswers(c) ==
    /\ callback[c].method # "PromptAuthResponse"
    /\ HostStep(c, callback[c])

\* Goroutines run, the plugin returns once it has made its callbacks, and the
\* host handles what does not depend on the user.
Spec ==
    /\ SafeSpec
    /\ \A c \in Calls :
          /\ WF_vars(HandlePluginService(c) \/ HandleAuthHandlerService(c))
          /\ WF_vars(CallbackStep(c))
          /\ WF_vars(\E err \in ImplErrors(c) : ImplReturns(c, err))
          /\ WF_vars(HostAnswers(c))

-----------------------------------------------------------------------------
(***************************************************************************)
(* Correctness                                                             *)
(***************************************************************************)

ProfileNames == Profiles \cup {DefaultProfile}
Stored == Secrets \cup {NoValue}
Values == Stored \cup ProfileNames \cup {EmptyList}
Entries == {Unset, "true", "false", "map", "nil", "item", "meta", "client"}
              \cup Words \cup ProfileNames
\* Chains of up to n errors: the client wraps a status, and the plugin may wrap that.
Errors(n) == {err \in Seq(Codes \cup {Plain, NotSupported}) : Len(err) <= n}

Replies == [code : Codes \cup {"none"}, error : BOOLEAN, value : Values]
Callbacks ==
    [n : Nat, method : HostService \cup {"none"}, profile : ProfileNames \cup {Unset},
     value : Stored]
Results == [err : Errors(2), value : Values]

\* The values the variables have, for the messages of plugin.proto and the
\* values of the context (host_client.go; context.go).
TypeOK ==
    /\ wanted \in Kinds
    /\ served \in Kinds
    /\ process \in {"starting", "serving", "exited"}
    /\ pc \in [Calls -> {"idle", "sent", "impl", "waiting", "done"}]
    /\ req \in [Calls -> Requests \cup {NoRequest}]
    /\ ctx \in [Calls -> [Keys -> Entries]]
    /\ canceled \in [Calls -> BOOLEAN]
    /\ reply \in [Calls -> Replies]
    /\ returned \in [Calls -> Errors(3)]
    /\ callback \in [Calls -> Callbacks]
    /\ answer \in [Calls -> Replies]
    /\ result \in [Calls -> Results]
    /\ flying \subseteq Calls \X Callbacks
    /\ connected \in BOOLEAN
    /\ implemented \in Hosts
    /\ secrets \in [Calls -> Stored]
    /\ acked \in [Calls -> Stored]
    /\ unsure \in [Calls -> BOOLEAN]

\* The profile that the request of a call names, the default one if none.
ProfileOf(r) ==
    IF r.method \in Executions THEN r.wire.profile
    ELSE IF r.method \in SetsProfile THEN r.profile ELSE DefaultProfile

\* The request as the plugin reads it back through the accessors of
\* provider/context.go and auth/context.go.
ReadBack(cx) ==
    [dryRun |-> DryRunFromContext(cx),
     names |-> [k \in Names |-> IF Found(cx, k) THEN cx[k] ELSE ""],
     backup |-> cx["backup"] = "true",
     context |-> cx["resolverContext"],
     iteration |-> cx["iteration"],
     parameters |-> cx["parameters"],
     solutionMetadata |-> Found(cx, "solutionMetadata"),
     profile |-> ProfileFromContext(cx)]

\* A request as it is on the wire, with what its documents say to the plugin:
\* one that is not there, or has no resolver context in it, says nothing; an
\* item without a value is nil in an iteration that is there. No plugin can read
\* a document that does not parse.
Meant(w) ==
    [dryRun |-> w.dryRun,
     names |-> w.names,
     backup |-> w.backup,
     context |-> CASE w.context = "value" -> "map"
                   [] w.context = "malformed" -> "malformed"
                   [] OTHER -> Unset,
     iteration |-> CASE w.iteration = "none" -> Unset
                     [] w.iteration = "value" -> "item"
                     [] w.iteration = "malformed" -> "malformed"
                     [] OTHER -> "nil",
     parameters |-> CASE w.parameters = "value" -> "map"
                      [] w.parameters = "null" -> "nil"
                      [] w.parameters = "absent" -> Unset
                      [] OTHER -> "malformed",
     solutionMetadata |-> w.solutionMetadata,
     profile |-> w.profile]

\* The plugin reads back, value by value, the request that the host has sent:
\* whether it is a dry run, every name under its own key, nothing that the
\* request leaves out; however far its callbacks have got, and whatever other
\* calls are running. So it runs with no half of a request either, as none of
\* its values is that of a malformed document (grpc_server.go:61-71, 265-334;
\* provider/context.go).
ContextExact ==
    \A c \in Calls :
        (pc[c] \in {"impl", "waiting"} /\ req[c].method \in Executions)
            => ReadBack(ctx[c]) = Meant(req[c].wire)

\* Every token is asked for on behalf of the profile that the call works for,
\* whatever other calls are running (host_client.go:107; grpc_server.go:330-332).
ProfileReachesHost ==
    \A f \in flying :
        f[2].method = "GetAuthToken" => f[2].profile = ProfileOf(req[f[1]])

\* As long as none of its writes has failed, a call knows what the host has
\* stored: what it was told last, and what it reads (host_client.go:29-63). A
\* write that failed says nothing, and may be done later than its successors.
ReadsOwnWrites ==
    \A c \in Calls : ~unsure[c] =>
        /\ \/ pc[c] = "waiting" /\ callback[c].method \in Writes
           \/ secrets[c] = acked[c]
        /\ (pc[c] = "impl" /\ callback[c].method = "GetSecret" /\ result[c].err = Nil)
              => result[c].value = acked[c]

\* IsUnimplemented tells an old host from everything else that may go wrong,
\* and GetAuthGroups gets an empty list from one (host_client.go:124-142,
\* 166-182).
OldHostTold ==
    \A c \in Calls : (pc[c] = "impl" /\ callback[c] # NoCallback) =>
        LET m == callback[c].method
            err == result[c].err
        IN  IF m \in implemented THEN ~IsUnimplemented(err)
            ELSE \/ StatusCode(err) = "Canceled"
                 \/ IF m = "GetAuthGroups" THEN err = Nil /\ result[c].value = EmptyList
                    ELSE IsUnimplemented(err)

\* The host hears Unimplemented from a provider only when the plugin says that
\* it does not stream, never because of a callback (grpc_server.go:158-162); from
\* an auth handler, whose errors are returned with %w, only when the plugin
\* passes on that a callback is not implemented; and never because the process
\* is another kind of plugin (interface.go:202-229).
UnimplementedHasACause ==
    \A c \in Calls : reply[c].code = "Unimplemented" =>
        \/ req[c].method = "ExecuteProviderStream" /\ IsNotSupported(returned[c])
        \/ req[c].method \in ReturnsError /\ IsUnimplemented(returned[c])
                                          /\ callback[c].method \notin implemented

\* A call ends unless the user is asked something, and then too when the host
\* gives it up or the connection is closed.
AsksUser(c) ==
    /\ pc[c] = "waiting"
    /\ callback[c].method = "PromptAuthResponse"
    /\ ~canceled[c]
    /\ connected

OnlyTheUserIsWaitedFor ==
    \A c \in Calls :
        (pc[c] \notin {"idle", "done"}) ~> (pc[c] = "done" \/ AsksUser(c))
=============================================================================
