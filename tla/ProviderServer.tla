---------------------------- MODULE ProviderServer ----------------------------
(***************************************************************************)
(* GRPCServer (plugin/grpc_server.go): the server side of a provider        *)
(* plugin. Its calls run concurrently, one goroutine each, and share the    *)
(* connection to the host's HostService and the settings stored per         *)
(* provider. Unlike AuthHandlerServer it dials while it holds s.mu for      *)
(* writing, so every step that takes s.mu waits for a dial in progress.     *)
(*                                                                         *)
(* A step is one critical section of s.mu, the dial, or the call into the   *)
(* plugin; mu is the call that holds the lock across steps, which only a    *)
(* dialling call does. Settings are identified with the configuring call    *)
(* that brought them (ProviderSettings models their contents), connections  *)
(* with the call that dialled them. A call is used once.                    *)
(***************************************************************************)
EXTENDS Naturals

CONSTANTS Calls,      \* the gRPC calls the host ever makes
          NoCall,     \* nil, where a connection, client, map or name is expected
          Providers   \* names of the providers of the plugin

ASSUME NoCallAssumption == NoCall \notin Calls

VARIABLES
    pc,                 \* pc[c]: where call c is
    req,                \* req[c]: the request of call c
    mu,                 \* the call that holds s.mu while it dials, or NoCall
    link,               \* link[c]: the connection dialled by c
    conn,               \* s.conn
    hostClient,         \* s.hostClient
    configureSettings,  \* s.configureSettings[p], NoCall for none
    accepted,           \* the configuration the plugin last accepted for p
    base,               \* base[c]: the settings withSettings found for call c
    ctxClient,          \* ctxClient[c]: the host client in the context of c
    resp,               \* resp[c]: "none", then "ok" or "error"
    canDial,            \* pickDialFunc() # nil: fixed when the plugin starts
    closedAt,           \* history: where c was when a stop closed the
                        \* connection during it, "never" if none did
    before,             \* history: the configurations of the provider of c
                        \* that were stored before that of c
    answered,           \* history: the configurations answered before c came
    overlapped          \* history: the configurations of the provider of c
                        \* that were under way when that of c was stored

server == <<conn, hostClient, configureSettings>>
history == <<closedAt, before, answered, overlapped>>
vars == <<pc, req, mu, link, server, accepted, base, ctxClient, resp, canDial,
          history>>

Locations == {"idle", "decode", "settings", "store", "lock", "dial",
              "inject", "impl", "close", "done"}

\* Where a configuration is past the store and not answered.
Configuring == {"lock", "dial", "inject", "impl"}

\* "Execute" stands for ExecuteProvider and ExecuteProviderStream, "Inspect" for
\* DescribeWhatIf and ExtractDependencies, "List" for GetProviders and
\* GetProviderDescriptor.
Ops == {"Configure", "Stop", "Execute", "Inspect", "List"}

Requests == [op : Ops, provider : Providers \cup {NoCall}, host : BOOLEAN]

NoRequest == [op |-> "List", provider |-> NoCall, host |-> FALSE]

Init ==
    /\ pc = [c \in Calls |-> "idle"]
    /\ req = [c \in Calls |-> NoRequest]
    /\ mu = NoCall
    /\ link = [c \in Calls |-> "none"]
    /\ conn = NoCall
    /\ hostClient = NoCall
    /\ configureSettings = [p \in Providers |-> NoCall]
    /\ accepted = [p \in Providers |-> NoCall]
    /\ base = [c \in Calls |-> NoCall]
    /\ ctxClient = [c \in Calls |-> NoCall]
    /\ resp = [c \in Calls |-> "none"]
    /\ canDial \in BOOLEAN
    /\ closedAt = [c \in Calls |-> "never"]
    /\ before = [c \in Calls |-> {}]
    /\ answered = [c \in Calls |-> {}]
    /\ overlapped = [c \in Calls |-> {}]

Goto(c, loc) == pc' = [pc EXCEPT ![c] = loc]
Answer(c, r) == resp' = [resp EXCEPT ![c] = r]

\* A critical section of s.mu, for reading or writing, can run.
Unlocked == mu = NoCall

Configures(c, p) == req[c].op = "Configure" /\ req[c].provider = p

-----------------------------------------------------------------------------
(***************************************************************************)
(* Arrival of a call                                                       *)
(***************************************************************************)

Arrive(c, r, loc) ==
    /\ pc[c] = "idle"
    /\ req' = [req EXCEPT ![c] = r]
    /\ answered' = [answered EXCEPT ![c] =
                        {d \in Calls : req[d].op = "Configure" /\ pc[d] = "done"}]
    /\ Goto(c, loc)
    /\ UNCHANGED <<mu, link, server, accepted, base, ctxClient, resp, canDial,
                   closedAt, before, overlapped>>

\* The calls that give the plugin the context as it is.
GetProviders(c) == Arrive(c, NoRequest, "impl")

ExecuteProvider(c, p) ==
    Arrive(c, [op |-> "Execute", provider |-> p, host |-> FALSE], "decode")

\* DescribeWhatIf and ExtractDependencies: input and client, no settings.
Inspect(c, p) ==
    Arrive(c, [op |-> "Inspect", provider |-> p, host |-> FALSE], "decode")

ConfigureProvider(c, p, host) ==
    Arrive(c, [op |-> "Configure", provider |-> p, host |-> host], "store")

\* The plugin stops first, in the context of the call as it is.
StopProvider(c, p) ==
    Arrive(c, [op |-> "Stop", provider |-> p, host |-> FALSE], "impl")

-----------------------------------------------------------------------------
(***************************************************************************)
(* Executions                                                              *)
(***************************************************************************)

\* The input, or the context of the request, is not JSON: the call is answered.
RejectInput(c) ==
    /\ pc[c] = "decode"
    /\ Answer(c, "error")
    /\ Goto(c, "done")
    /\ UNCHANGED <<req, mu, link, server, accepted, base, ctxClient, canDial, history>>

AcceptInput(c) ==
    /\ pc[c] = "decode"
    /\ Goto(c, IF req[c].op = "Execute" THEN "settings" ELSE "inject")
    /\ UNCHANGED <<req, mu, link, server, accepted, base, ctxClient, resp, canDial,
                   history>>

\* The settings stored for the provider when the read lock is held.
WithSettings(c) ==
    /\ pc[c] = "settings"
    /\ Unlocked
    /\ base' = [base EXCEPT ![c] = configureSettings[req[c].provider]]
    /\ Goto(c, "inject")
    /\ UNCHANGED <<req, mu, link, server, accepted, ctxClient, resp, canDial, history>>

-----------------------------------------------------------------------------
(***************************************************************************)
(* Steps of ConfigureProvider                                              *)
(***************************************************************************)

\* Mutants: an entry is never overwritten; only host configurations store.
FirstWriteWins(c) ==
    [p \in Providers |->
        IF p = req[c].provider /\ configureSettings[p] = NoCall
        THEN c ELSE configureSettings[p]]
StoreForHostOnly(c) ==
    [p \in Providers |->
        IF p = req[c].provider /\ req[c].host THEN c ELSE configureSettings[p]]

\* s.configureSettings[req.ProviderName] = stored
StoredSettings(c) == [configureSettings EXCEPT ![req[c].provider] = c]

StoreSettings(c) ==
    LET p == req[c].provider IN
    /\ pc[c] = "store"
    /\ Unlocked
    /\ configureSettings' = StoredSettings(c)
    /\ before' = [before EXCEPT ![c] =
                      {d \in Calls : Configures(d, p) /\ pc[d] \in Configuring \cup {"done"}}]
    /\ overlapped' = [overlapped EXCEPT ![c] =
                          {d \in Calls : Configures(d, p) /\ pc[d] \in Configuring}]
    /\ Goto(c, IF req[c].host /\ canDial THEN "lock" ELSE "inject")
    /\ UNCHANGED <<req, mu, link, conn, hostClient, accepted, base, ctxClient, resp,
                   canDial, closedAt, answered>>

\* The test under the lock, before the dial.
NeedsDial == hostClient = NoCall

\* s.mu.Lock(): kept for the dial, released at once without one.
LockToDial(c) ==
    /\ pc[c] = "lock"
    /\ Unlocked
    /\ \/ /\ NeedsDial
          /\ mu' = c
          /\ Goto(c, "dial")
       \/ /\ ~NeedsDial
          /\ UNCHANGED mu
          /\ Goto(c, "inject")
    /\ UNCHANGED <<req, link, server, accepted, base, ctxClient, resp, canDial, history>>

\* Mutant: the client is not stored with its connection.
InstallConnOnly(c) == conn' = c /\ UNCHANGED hostClient

\* s.conn = conn; s.hostClient = NewHostServiceClient(conn)
Install(c) == conn' = c /\ hostClient' = c

DialOk(c) ==
    /\ pc[c] = "dial"
    /\ link' = [link EXCEPT ![c] = "open"]
    /\ Install(c)
    /\ mu' = NoCall
    /\ Goto(c, "inject")
    /\ UNCHANGED <<req, configureSettings, accepted, base, ctxClient, resp, canDial,
                   history>>

\* Mutant: the early return leaves the lock held.
ReturnLocked(c) == UNCHANGED mu /\ Answer(c, "error") /\ Goto(c, "done")

\* s.mu.Unlock() before the error is returned.
ReturnDialError(c) == mu' = NoCall /\ Answer(c, "error") /\ Goto(c, "done")

\* The settings stored before stay stored, the plugin is not called.
DialFail(c) ==
    /\ pc[c] = "dial"
    /\ ReturnDialError(c)
    /\ UNCHANGED <<req, link, server, accepted, base, ctxClient, canDial, history>>

-----------------------------------------------------------------------------
(***************************************************************************)
(* Steps of every call that reaches the plugin                             *)
(***************************************************************************)

\* Mutant: a call that has dialled uses its own connection, not the server's.
OwnClientFirst(c) == IF link[c] # "none" THEN c ELSE hostClient

\* The client a call finds under the read lock.
ClientSeen(c) == hostClient

InjectHostClient(c) ==
    /\ pc[c] = "inject"
    /\ Unlocked
    /\ ctxClient' = [ctxClient EXCEPT ![c] = ClientSeen(c)]
    /\ Goto(c, "impl")
    /\ UNCHANGED <<req, mu, link, server, accepted, base, resp, canDial, history>>

\* The plugin returns; only a stop that succeeded goes on to close.
ImplReturns(c, r) ==
    /\ pc[c] = "impl"
    /\ Answer(c, r)
    /\ accepted' = IF req[c].op = "Configure" /\ r = "ok"
                   THEN [accepted EXCEPT ![req[c].provider] = c] ELSE accepted
    /\ Goto(c, IF req[c].op = "Stop" /\ r = "ok" THEN "close" ELSE "done")
    /\ UNCHANGED <<req, mu, link, server, base, ctxClient, canDial, history>>

\* Mutant: a stop clears the fields and forgets to close.
ForgetWithoutClose == link

LinkAfterClose ==
    [d \in Calls |-> IF d = conn THEN "closed" ELSE link[d]]

\* The connection is closed under the lock, whichever provider is stopped.
CloseHostClient(c) ==
    /\ pc[c] = "close"
    /\ Unlocked
    /\ link' = LinkAfterClose
    /\ conn' = NoCall
    /\ hostClient' = NoCall
    /\ closedAt' = [d \in Calls |-> IF pc[d] \in {"inject", "impl"} THEN pc[d]
                                    ELSE closedAt[d]]
    /\ Goto(c, "done")
    /\ UNCHANGED <<req, mu, configureSettings, accepted, base, ctxClient, resp, canDial,
                   before, answered, overlapped>>

-----------------------------------------------------------------------------
ArriveAny(c) ==
    \/ GetProviders(c)
    \/ \E p \in Providers :
          \/ ExecuteProvider(c, p)
          \/ Inspect(c, p)
          \/ \E host \in BOOLEAN : ConfigureProvider(c, p, host)
          \/ StopProvider(c, p)

\* The steps of a call once it has arrived.
Step(c) ==
    \/ RejectInput(c)
    \/ AcceptInput(c)
    \/ WithSettings(c)
    \/ StoreSettings(c)
    \/ LockToDial(c)
    \/ DialOk(c)
    \/ DialFail(c)
    \/ InjectHostClient(c)
    \/ \E r \in {"ok", "error"} : ImplReturns(c, r)
    \/ CloseHostClient(c)

Next == \E c \in Calls : ArriveAny(c) \/ Step(c)

SafeSpec == Init /\ [][Next]_vars

\* The scheduler runs every goroutine, the plugin returns, and a dial returns
\* a connection or an error: a dial that hangs holds the lock for ever.
Fairness == \A c \in Calls : WF_vars(Step(c))

Spec == SafeSpec /\ Fairness

-----------------------------------------------------------------------------
(***************************************************************************)
(* Correctness                                                             *)
(***************************************************************************)

TypeOK ==
    /\ pc \in [Calls -> Locations]
    /\ req \in [Calls -> Requests]
    /\ mu \in Calls \cup {NoCall}
    /\ link \in [Calls -> {"none", "open", "closed"}]
    /\ conn \in Calls \cup {NoCall}
    /\ hostClient \in Calls \cup {NoCall}
    /\ configureSettings \in [Providers -> Calls \cup {NoCall}]
    /\ accepted \in [Providers -> Calls \cup {NoCall}]
    /\ base \in [Calls -> Calls \cup {NoCall}]
    /\ ctxClient \in [Calls -> Calls \cup {NoCall}]
    /\ resp \in [Calls -> {"none", "ok", "error"}]
    /\ canDial \in BOOLEAN
    /\ closedAt \in [Calls -> {"never", "inject", "impl"}]
    /\ before \in [Calls -> SUBSET Calls]
    /\ answered \in [Calls -> SUBSET Calls]
    /\ overlapped \in [Calls -> SUBSET Calls]

\* A configuration that names a host service, in a plugin that can dial, is
\* passed to the plugin with a client, unless a stop (of any provider) closed
\* the connection between the dial and injectHostClient.
NoClientOnlyIfStopped ==
    \A c \in Calls :
        (pc[c] = "impl" /\ req[c].op = "Configure" /\ req[c].host /\ canDial)
            => ctxClient[c] # NoCall \/ closedAt[c] # "never"

\* The plugin works with a client whose connection is closed only if a stop
\* closed it after the call was given it.
DeadClientOnlyIfStoppedUnderCall ==
    \A c \in Calls :
        (pc[c] = "impl" /\ ctxClient[c] # NoCall /\ link[ctxClient[c]] = "closed")
            => closedAt[c] = "impl"

\* An execution uses settings at least as new as every configuration of its
\* provider that was answered before the execution came
\* (grpc_server.go:34-37: last write wins, read on every execution).
ReadsAnsweredConfiguration ==
    \A c \in Calls :
        (req[c].op = "Execute" /\ pc[c] \in {"inject", "impl"})
            => \A d \in answered[c] :
                  Configures(d, req[c].provider)
                      => base[c] # NoCall /\ base[c] \notin before[d]

\* The settings that the server merges executions over are those the plugin
\* accepted last (grpc_server.go:94-101, 128-132), but for three reasons, all of
\* the configuration that stored them: it is still under way; it failed, and its
\* settings stay; or the one the plugin accepted last was under way already when
\* it was stored. So a configuration that succeeds and overlaps no other brings
\* server and plugin together, whatever failed or raced before.
StoredIsAccepted ==
    \A p \in Providers :
        LET s == configureSettings[p] IN
        s # accepted[p] =>
            /\ s # NoCall
            /\ \/ pc[s] # "done"
               \/ resp[s] = "error"
               \/ accepted[p] \in overlapped[s]

\* Every call that comes is answered.
EveryCallAnswered ==
    \A c \in Calls : (pc[c] # "idle") ~> (pc[c] = "done")

\* The connections of the server behave as HostSlot says.
Slot == INSTANCE HostSlot WITH Conns <- Calls, NoConn <- NoCall,
                               life <- link, slot <- conn
ImplementsHostSlot == Slot!Spec

=============================================================================
