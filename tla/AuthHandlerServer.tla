-------------------------- MODULE AuthHandlerServer --------------------------
(***************************************************************************)
(* AuthHandlerGRPCServer (plugin/grpc_auth_server.go): the server side of   *)
(* an auth handler plugin. gRPC runs every incoming call in a goroutine of  *)
(* its own; the calls share the connection to the host's HostService, which *)
(* ConfigureAuthHandler dials, every call puts in the context it gives the  *)
(* plugin, and StopAuthHandler or a failed configuration closes.            *)
(*                                                                         *)
(* A step of a call is what it does between two points where another       *)
(* goroutine can run: one critical section of s.mu, the dial (outside the   *)
(* lock), the call into the plugin. No critical section of this server      *)
(* blocks, so each is one atomic action.                                   *)
(*                                                                         *)
(* A call is used once, and dials at most once: the connection it dials is *)
(* identified with the call. What a request carries besides its handler     *)
(* and whether it names a host service is not modelled here.               *)
(***************************************************************************)
EXTENDS Naturals

CONSTANTS Calls,        \* the gRPC calls the host ever makes
          NoCall,       \* nil, where a connection or a client is expected
          Handlers,     \* names of the auth handlers of the plugin
          AllHandlers   \* the empty handler name of StopAuthHandler

ASSUME NoCallAssumption == NoCall \notin Calls
ASSUME AllHandlersAssumption == AllHandlers \notin Handlers

VARIABLES
    pc,         \* pc[c]: where call c is
    req,        \* req[c]: the request of call c
    link,       \* link[c]: the connection dialled by c: "none", "open", "closed"
    conn,       \* s.conn: the call that dialled it, or NoCall for nil
    hostClient, \* s.hostClient: the call that dialled its connection, or NoCall
    closed,     \* s.closed
    ctxClient,  \* ctxClient[c]: the host client in the context of call c
    resp,       \* resp[c]: "none" until answered, then "ok" or "error"
    canDial,    \* pickDialFunc() # nil: fixed when the plugin starts
    closedAt    \* history: where c was at the last closeHostClient that
                \* ran during it, "never" if none did

server == <<conn, hostClient, closed>>
vars == <<pc, req, link, server, ctxClient, resp, canDial, closedAt>>

Locations == {"idle", "reopen", "check", "dial", "commit",
              "inject", "impl", "close", "done"}

\* Between its arrival and its answer, a call that is still to use a client.
Waiting == {"check", "dial", "commit", "inject", "impl"}

\* "Configure" and "Stop" change the connection. "Serve" stands for the calls
\* that only read it: Login, Logout, GetStatus, GetToken, ListCachedTokens,
\* PurgeExpiredTokens, DetectAvailableFlows and ActivateServerMode. "List",
\* GetAuthHandlers, does not even do that.
Ops == {"Configure", "Stop", "Serve", "List"}

Requests == [op : Ops, handler : Handlers \cup {AllHandlers}, host : BOOLEAN]

NoRequest == [op |-> "List", handler |-> AllHandlers, host |-> FALSE]

Init ==
    /\ pc = [c \in Calls |-> "idle"]
    /\ req = [c \in Calls |-> NoRequest]
    /\ link = [c \in Calls |-> "none"]
    /\ conn = NoCall
    /\ hostClient = NoCall
    /\ closed = FALSE
    /\ ctxClient = [c \in Calls |-> NoCall]
    /\ resp = [c \in Calls |-> "none"]
    /\ canDial \in BOOLEAN
    /\ closedAt = [c \in Calls |-> "never"]

Goto(c, loc) == pc' = [pc EXCEPT ![c] = loc]
Answer(c, r) == resp' = [resp EXCEPT ![c] = r]

-----------------------------------------------------------------------------
(***************************************************************************)
(* Arrival of a call                                                       *)
(***************************************************************************)

Arrive(c, r, loc) ==
    /\ pc[c] = "idle"
    /\ req' = [req EXCEPT ![c] = r]
    /\ Goto(c, loc)
    /\ UNCHANGED <<link, server, ctxClient, resp, canDial, closedAt>>

\* GetAuthHandlers hands the plugin the context of the call as it is.
GetAuthHandlers(c) == Arrive(c, NoRequest, "impl")

\* The calls that read the connection and change nothing in the server.
Serve(c, h) ==
    Arrive(c, [op |-> "Serve", handler |-> h, host |-> FALSE], "inject")

ConfigureAuthHandler(c, h, host) ==
    Arrive(c, [op |-> "Configure", handler |-> h, host |-> host],
           IF host THEN "reopen" ELSE "inject")

\* The plugin stops first, in the context of the call as it is.
StopAuthHandler(c, h) ==
    Arrive(c, [op |-> "Stop", handler |-> h, host |-> FALSE], "impl")

-----------------------------------------------------------------------------
(***************************************************************************)
(* Steps of ConfigureAuthHandler with a host service                       *)
(***************************************************************************)

\* Mutant: the flag a stop has set is not reset.
ReopenNothing(c) ==
    /\ pc[c] = "reopen"
    /\ Goto(c, "check")
    /\ UNCHANGED <<req, link, server, ctxClient, resp, canDial, closedAt>>

\* s.closed = false, in a critical section of its own.
Reopen(c) ==
    /\ pc[c] = "reopen"
    /\ closed' = FALSE
    /\ Goto(c, "check")
    /\ UNCHANGED <<req, link, conn, hostClient, ctxClient, resp, canDial, closedAt>>

\* ensureHostClient dials when it can and saw no client.
MustDial == canDial /\ hostClient = NoCall

CheckConnected(c) ==
    /\ pc[c] = "check"
    /\ Goto(c, IF MustDial THEN "dial" ELSE "inject")
    /\ UNCHANGED <<req, link, server, ctxClient, resp, canDial, closedAt>>

\* dialFn returns a connection; the lock is not held.
DialOk(c) ==
    /\ pc[c] = "dial"
    /\ link' = [link EXCEPT ![c] = "open"]
    /\ Goto(c, "commit")
    /\ UNCHANGED <<req, server, ctxClient, resp, canDial, closedAt>>

\* dialFn fails: the call is answered, the plugin is not called.
DialFail(c) ==
    /\ pc[c] = "dial"
    /\ Answer(c, "error")
    /\ Goto(c, "done")
    /\ UNCHANGED <<req, link, server, ctxClient, canDial, closedAt>>

\* Mutants: one of the two reasons not to install a connection is not tested.
CommitIgnoresClosed == hostClient = NoCall
CommitIgnoresOther == ~closed

\* The test under the lock, after the dial.
CommitAllowed == hostClient = NoCall /\ ~closed

\* Mutant: the connection that lost the race is dropped, not closed.
DiscardWithoutClose(c) == link

\* conn.Close() on the connection that is not needed.
Discard(c) == [link EXCEPT ![c] = "closed"]

\* The connection that was just dialled enters the server or is closed.
Commit(c) ==
    /\ pc[c] = "commit"
    /\ \/ /\ CommitAllowed
          /\ conn' = c
          /\ hostClient' = c
          /\ UNCHANGED link
       \/ /\ ~CommitAllowed
          /\ link' = Discard(c)
          /\ UNCHANGED <<conn, hostClient>>
    /\ Goto(c, "inject")
    /\ UNCHANGED <<req, closed, ctxClient, resp, canDial, closedAt>>

-----------------------------------------------------------------------------
(***************************************************************************)
(* Steps of every call that reaches the plugin                             *)
(***************************************************************************)

\* Mutant: a call that has dialled uses its own connection, not the server's.
OwnClientFirst(c) == IF link[c] # "none" THEN c ELSE hostClient

\* The client a call finds under the read lock.
ClientSeen(c) == hostClient

\* Mutant: dials hold the lock that injectHostClient takes.
InjectWaitsForDials(c) ==
    /\ pc[c] = "inject"
    /\ \A d \in Calls : pc[d] # "dial"
    /\ ctxClient' = [ctxClient EXCEPT ![c] = hostClient]
    /\ Goto(c, "impl")
    /\ UNCHANGED <<req, link, server, resp, canDial, closedAt>>

InjectHostClient(c) ==
    /\ pc[c] = "inject"
    /\ ctxClient' = [ctxClient EXCEPT ![c] = ClientSeen(c)]
    /\ Goto(c, "impl")
    /\ UNCHANGED <<req, link, server, resp, canDial, closedAt>>

\* Whether the answer r of the plugin makes the server close its connection.
ClosesAfter(c, r) ==
    \/ req[c].op = "Configure" /\ r = "error"
    \/ req[c].op = "Stop" /\ r = "ok"

\* The plugin returns, with or without an error.
ImplReturns(c, r) ==
    /\ pc[c] = "impl"
    /\ Answer(c, r)
    /\ Goto(c, IF ClosesAfter(c, r) THEN "close" ELSE "done")
    /\ UNCHANGED <<req, link, server, ctxClient, canDial, closedAt>>

\* Closing nothing is not an error: conn may be nil.
LinkAfterClose ==
    [d \in Calls |-> IF d = conn THEN "closed" ELSE link[d]]

\* Mutant: the connection is closed, its client is kept.
ForgetConnOnly == conn' = NoCall /\ UNCHANGED hostClient

ForgetConn == conn' = NoCall /\ hostClient' = NoCall

CloseHostClient(c) ==
    /\ pc[c] = "close"
    /\ closed' = TRUE
    /\ link' = LinkAfterClose
    /\ ForgetConn
    /\ closedAt' = [d \in Calls |-> IF pc[d] \in Waiting THEN pc[d] ELSE closedAt[d]]
    /\ Goto(c, "done")
    /\ UNCHANGED <<req, ctxClient, resp, canDial>>

-----------------------------------------------------------------------------
ArriveAny(c) ==
    \/ GetAuthHandlers(c)
    \/ \E h \in Handlers :
          \/ Serve(c, h)
          \/ \E host \in BOOLEAN : ConfigureAuthHandler(c, h, host)
    \/ \E h \in Handlers \cup {AllHandlers} : StopAuthHandler(c, h)

\* The steps of a call that wait for nothing outside the process but the plugin.
LocalStep(c) ==
    \/ Reopen(c)
    \/ CheckConnected(c)
    \/ Commit(c)
    \/ InjectHostClient(c)
    \/ \E r \in {"ok", "error"} : ImplReturns(c, r)
    \/ CloseHostClient(c)

DialStep(c) == DialOk(c) \/ DialFail(c)

Next == \E c \in Calls : ArriveAny(c) \/ LocalStep(c) \/ DialStep(c)

SafeSpec == Init /\ [][Next]_vars

\* The scheduler runs every goroutine and the plugin returns; a dial may
\* hang for ever: broker.Dial has no timeout the server sets.
Fairness == \A c \in Calls : WF_vars(LocalStep(c))

Spec == SafeSpec /\ Fairness

-----------------------------------------------------------------------------
(***************************************************************************)
(* Correctness                                                             *)
(***************************************************************************)

TypeOK ==
    /\ pc \in [Calls -> Locations]
    /\ req \in [Calls -> Requests]
    /\ link \in [Calls -> {"none", "open", "closed"}]
    /\ conn \in Calls \cup {NoCall}
    /\ hostClient \in Calls \cup {NoCall}
    /\ closed \in BOOLEAN
    /\ ctxClient \in [Calls -> Calls \cup {NoCall}]
    /\ resp \in [Calls -> {"none", "ok", "error"}]
    /\ canDial \in BOOLEAN
    /\ closedAt \in [Calls -> Waiting \cup {"never"}]

\* Every connection that is open is the one in the server or is still in the
\* hands of the call that dialled it (ensureHostClient): concurrent
\* configurations, stops and failures never leak one.
NoConnLeak ==
    \A c \in Calls : link[c] = "open" => conn = c \/ pc[c] = "commit"

\* The client that calls are given is that of the connection in the server,
\* and that connection is open, whatever a stop or a failed configuration
\* closes meanwhile.
ClientUsable ==
    hostClient # NoCall => hostClient = conn /\ link[hostClient] = "open"

\* Once the last close is not followed by a new configuration, the process
\* holds no connection, except those it is about to close
\* (grpc_auth_server.go:33-35: closed prevents a late commit).
StoppedMeansDisconnected ==
    closed => /\ conn = NoCall
              /\ \A c \in Calls : link[c] = "open" => pc[c] = "commit"

\* A configuration that names a host service, in a plugin that can dial, is
\* passed to the plugin without a client only if a stop or a failed
\* configuration of some handler closed the connection while it ran: losing
\* the race to install a connection is no reason.
NoClientOnlyIfClosed ==
    \A c \in Calls :
        (pc[c] = "impl" /\ req[c].op = "Configure" /\ req[c].host /\ canDial)
            => ctxClient[c] # NoCall \/ closedAt[c] # "never"

\* The plugin works with a client whose connection is closed only if the close
\* happened after its call began to use it: injectHostClient never hands out
\* a client that is closed already.
DeadClientOnlyIfClosedUnderCall ==
    \A c \in Calls :
        (pc[c] = "impl" /\ ctxClient[c] # NoCall /\ link[ctxClient[c]] = "closed")
            => closedAt[c] = "impl"

\* Every call is answered, but for those that sit in a dial of their own: a
\* slow dial does not block the other calls (grpc_auth_server.go:213-214).
SlowDialBlocksNobodyElse ==
    \A c \in Calls :
        (pc[c] \notin {"idle", "done"}) ~> (pc[c] \in {"done", "dial"})

\* The connections of the server behave as HostSlot says, and a connection
\* that was dialled is installed or closed in the end.
Slot == INSTANCE HostSlot WITH Conns <- Calls, NoConn <- NoCall,
                               life <- link, slot <- conn
ImplementsHostSlot == Slot!Spec

-----------------------------------------------------------------------------
(***************************************************************************)
(* What comments say and the code does not do                              *)
(***************************************************************************)

\* grpc_auth_server.go:233-234: a connection dialled while the handler was
\* stopped is closed. The code looks at closed, which another configuration
\* resets, not at whether a stop happened.
StaleDialIsClosed ==
    conn # NoCall => closedAt[conn] # "dial"
=============================================================================
