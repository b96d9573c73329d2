----------------------- MODULE AuthHandlerServerProofs -----------------------
(***************************************************************************)
(* Proofs about AuthHandlerServer, for any set of calls and of handlers.    *)
(* IndInv is the inductive invariant; the safety properties follow from it *)
(* and every step, under it, is a step of HostSlot or leaves its variables *)
(* unchanged.                                                              *)
(***************************************************************************)
EXTENDS AuthHandlerServer, TLAPS

Before == {"idle", "reopen", "check", "dial"}
After == {"inject", "impl", "close", "done"}

\* The connections. A call has none until its dial returns and its own while
\* it commits; afterwards an open connection is the server's. The one in the
\* server is open and was installed by a call that has left its commit.
ConnInv ==
    /\ \A c \in Calls :
          /\ pc[c] \in Before => link[c] = "none"
          /\ pc[c] = "commit" => link[c] = "open"
          /\ link[c] = "open" => conn = c \/ pc[c] = "commit"
    /\ hostClient = conn
    /\ conn # NoCall => link[conn] = "open" /\ pc[conn] \in After
    /\ closed => conn = NoCall

\* The contexts. A call has a client from injection on, that of a connection
\* some call has installed; it is closed only if that happened since.
CtxInv ==
    /\ \A c \in Calls :
          /\ pc[c] \in Before \cup {"commit", "inject"} => ctxClient[c] = NoCall
          /\ ctxClient[c] # NoCall => pc[ctxClient[c]] \in After
    /\ DeadClientOnlyIfClosedUnderCall

\* The host configurations during which nothing was closed: the server stays
\* open up to the commit, and then there is a client.
ConfigureInv ==
    \A c \in Calls :
        (req[c].op = "Configure" /\ req[c].host /\ canDial /\ closedAt[c] = "never")
            => /\ pc[c] \in {"check", "dial", "commit"} => ~closed
               /\ pc[c] = "inject" => hostClient # NoCall
               /\ pc[c] = "impl" => ctxClient[c] # NoCall

IndInv ==
    /\ TypeOK
    /\ ConnInv
    /\ CtxInv
    /\ ConfigureInv

\* The initial states.
LEMMA IndInvInit == Init => IndInv
<1> SUFFICES ASSUME Init PROVE IndInv
  OBVIOUS
<1> USE NoCallAssumption DEF Init
<1>1. TypeOK
  BY DEF TypeOK, Locations, Requests, Ops, NoRequest
<1>2. ConnInv
  BY DEF ConnInv, Before
<1>3. CtxInv
  BY DEF CtxInv, DeadClientOnlyIfClosedUnderCall
<1>4. ConfigureInv
  BY DEF ConfigureInv, NoRequest
<1> QED
  BY <1>1, <1>2, <1>3, <1>4 DEF IndInv

\* Every arrival is Arrive of a request that names a host service exactly if
\* the call starts at "reopen".
LEMMA ArrivalStep ==
    ASSUME NEW c \in Calls, ArriveAny(c)
    PROVE  \E r \in Requests, loc \in {"impl", "inject", "reopen"} :
              Arrive(c, r, loc) /\ ((r.op = "Configure" /\ r.host) <=> loc = "reopen")
<1> USE DEF Requests, Ops
<1>1. CASE GetAuthHandlers(c)
  BY <1>1 DEF GetAuthHandlers, NoRequest
<1>2. ASSUME NEW h \in Handlers, Serve(c, h)
      PROVE  Arrive(c, [op |-> "Serve", handler |-> h, host |-> FALSE], "inject")
  BY <1>2 DEF Serve
<1>3. ASSUME NEW h \in Handlers, NEW host \in BOOLEAN, ConfigureAuthHandler(c, h, host)
      PROVE  Arrive(c, [op |-> "Configure", handler |-> h, host |-> host],
                    IF host THEN "reopen" ELSE "inject")
  BY <1>3 DEF ConfigureAuthHandler
<1>4. ASSUME NEW h \in Handlers \cup {AllHandlers}, StopAuthHandler(c, h)
      PROVE  Arrive(c, [op |-> "Stop", handler |-> h, host |-> FALSE], "impl")
  BY <1>4 DEF StopAuthHandler
<1> QED
  BY <1>1, <1>2, <1>3, <1>4 DEF ArriveAny

\* Every step preserves the invariant: one step per action, under it one per
\* part of the invariant.
LEMMA IndInvStep == IndInv /\ [Next]_vars => IndInv'
<1> SUFFICES ASSUME IndInv, [Next]_vars PROVE IndInv'
  OBVIOUS
<1> USE NoCallAssumption DEF IndInv, Goto
<1>1. ASSUME NEW c \in Calls, NEW r \in Requests,
             NEW loc \in {"impl", "inject", "reopen"}, Arrive(c, r, loc),
             (r.op = "Configure" /\ r.host) <=> loc = "reopen"
      PROVE  IndInv'
  <2>1. TypeOK'
    BY <1>1 DEF Arrive, server, TypeOK, Locations, Waiting
  <2>2. ConnInv'
    BY <1>1 DEF Arrive, server, ConnInv, Before, After, TypeOK
  <2>3. CtxInv'
    BY <1>1 DEF Arrive, server, CtxInv, ConnInv,
       DeadClientOnlyIfClosedUnderCall, Before, After, Waiting, TypeOK
  <2>4. ConfigureInv'
    BY <1>1 DEF Arrive, server, ConfigureInv, ConnInv, TypeOK, Waiting
  <2> QED
    BY <2>1, <2>2, <2>3, <2>4
<1>2. ASSUME NEW c \in Calls, Reopen(c)
      PROVE  IndInv'
  <2>1. TypeOK'
    BY <1>2 DEF Reopen, server, TypeOK, Locations, Waiting
  <2>2. ConnInv'
    BY <1>2 DEF Reopen, server, ConnInv, Before, After, TypeOK
  <2>3. CtxInv'
    BY <1>2 DEF Reopen, server, CtxInv, ConnInv,
       DeadClientOnlyIfClosedUnderCall, Before, After, Waiting, TypeOK
  <2>4. ConfigureInv'
    BY <1>2 DEF Reopen, server, ConfigureInv, ConnInv, TypeOK, Waiting
  <2> QED
    BY <2>1, <2>2, <2>3, <2>4
<1>3. ASSUME NEW c \in Calls, CheckConnected(c)
      PROVE  IndInv'
  <2>1. TypeOK'
    BY <1>3 DEF CheckConnected, server, TypeOK, Locations, Waiting
  <2>2. ConnInv'
    BY <1>3 DEF CheckConnected, server, ConnInv, Before, After, TypeOK
  <2>3. CtxInv'
    BY <1>3 DEF CheckConnected, server, CtxInv, ConnInv,
       DeadClientOnlyIfClosedUnderCall, Before, After, Waiting, TypeOK
  <2>4. ConfigureInv'
    BY <1>3 DEF CheckConnected, MustDial, server, ConfigureInv, ConnInv,
       TypeOK, Waiting
  <2> QED
    BY <2>1, <2>2, <2>3, <2>4
<1>4. ASSUME NEW c \in Calls, Commit(c)
      PROVE  IndInv'
  <2>1. TypeOK'
    BY <1>4 DEF Commit, CommitAllowed, Discard, server, TypeOK, Locations,
       Waiting
  <2>2. ConnInv'
    BY <1>4 DEF Commit, CommitAllowed, Discard, server, ConnInv, Before,
       After, TypeOK
  <2>3. CtxInv'
    BY <1>4 DEF Commit, CommitAllowed, Discard, server, CtxInv, ConnInv,
       DeadClientOnlyIfClosedUnderCall, Before, After, Waiting, TypeOK
  <2>4. ConfigureInv'
    BY <1>4 DEF Commit, CommitAllowed, Discard, server, ConfigureInv,
       ConnInv, TypeOK, Waiting
  <2> QED
    BY <2>1, <2>2, <2>3, <2>4
<1>5. ASSUME NEW c \in Calls, InjectHostClient(c)
      PROVE  IndInv'
  <2>1. TypeOK'
    BY <1>5 DEF InjectHostClient, ClientSeen, server, TypeOK, Locations,
       Waiting
  <2>2. ConnInv'
    BY <1>5 DEF InjectHostClient, ClientSeen, server, ConnInv, Before,
       After, TypeOK
  <2>3. CtxInv'
    BY <1>5 DEF InjectHostClient, ClientSeen, server, CtxInv, ConnInv,
       DeadClientOnlyIfClosedUnderCall, Before, After, Waiting, TypeOK
  <2>4. ConfigureInv'
    BY <1>5 DEF InjectHostClient, ClientSeen, server, ConfigureInv,
       ConnInv, TypeOK, Waiting
  <2> QED
    BY <2>1, <2>2, <2>3, <2>4
<1>6. ASSUME NEW c \in Calls, NEW r \in {"ok", "error"}, ImplReturns(c, r)
      PROVE  IndInv'
  <2>1. TypeOK'
    BY <1>6 DEF ImplReturns, ClosesAfter, Answer, server, TypeOK,
       Locations, Waiting
  <2>2. ConnInv'
    BY <1>6 DEF ImplReturns, ClosesAfter, Answer, server, ConnInv, Before,
       After, TypeOK
  <2>3. CtxInv'
    BY <1>6 DEF ImplReturns, ClosesAfter, Answer, server, CtxInv, ConnInv,
       DeadClientOnlyIfClosedUnderCall, Before, After, Waiting, TypeOK
  <2>4. ConfigureInv'
    BY <1>6 DEF ImplReturns, ClosesAfter, Answer, server, ConfigureInv,
       ConnInv, TypeOK, Waiting
  <2> QED
    BY <2>1, <2>2, <2>3, <2>4
<1>7. ASSUME NEW c \in Calls, CloseHostClient(c)
      PROVE  IndInv'
  <2>1. TypeOK'
    BY <1>7 DEF CloseHostClient, LinkAfterClose, ForgetConn, server,
       TypeOK, Locations, Waiting
  <2>2. ConnInv'
    BY <1>7 DEF CloseHostClient, LinkAfterClose, ForgetConn, server,
       ConnInv, Before, After, TypeOK
  <2>3. CtxInv'
    BY <1>7 DEF CloseHostClient, LinkAfterClose, ForgetConn, server,
       CtxInv, ConnInv, DeadClientOnlyIfClosedUnderCall, Before, After,
       Waiting, TypeOK
  <2>4. ConfigureInv'
    BY <1>7 DEF CloseHostClient, LinkAfterClose, ForgetConn, server,
       ConfigureInv, ConnInv, TypeOK, Waiting
  <2> QED
    BY <2>1, <2>2, <2>3, <2>4
<1>8. ASSUME NEW c \in Calls, DialOk(c)
      PROVE  IndInv'
  <2>1. TypeOK'
    BY <1>8 DEF DialOk, server, TypeOK, Locations, Waiting
  <2>2. ConnInv'
    BY <1>8 DEF DialOk, server, ConnInv, Before, After, TypeOK
  <2>3. CtxInv'
    BY <1>8 DEF DialOk, server, CtxInv, ConnInv,
       DeadClientOnlyIfClosedUnderCall, Before, After, Waiting, TypeOK
  <2>4. ConfigureInv'
    BY <1>8 DEF DialOk, server, ConfigureInv, ConnInv, TypeOK, Waiting
  <2> QED
    BY <2>1, <2>2, <2>3, <2>4
<1>9. ASSUME NEW c \in Calls, DialFail(c)
      PROVE  IndInv'
  <2>1. TypeOK'
    BY <1>9 DEF DialFail, Answer, server, TypeOK, Locations, Waiting
  <2>2. ConnInv'
    BY <1>9 DEF DialFail, Answer, server, ConnInv, Before, After, TypeOK
  <2>3. CtxInv'
    BY <1>9 DEF DialFail, Answer, server, CtxInv, ConnInv,
       DeadClientOnlyIfClosedUnderCall, Before, After, Waiting, TypeOK
  <2>4. ConfigureInv'
    BY <1>9 DEF DialFail, Answer, server, ConfigureInv, ConnInv, TypeOK,
       Waiting
  <2> QED
    BY <2>1, <2>2, <2>3, <2>4
<1>10. ASSUME UNCHANGED vars
      PROVE  IndInv'
  <2>1. TypeOK'
    BY <1>10 DEF vars, server, TypeOK, Locations, Waiting
  <2>2. ConnInv'
    BY <1>10 DEF vars, server, ConnInv, Before, After, TypeOK
  <2>3. CtxInv'
    BY <1>10 DEF vars, server, CtxInv, ConnInv,
       DeadClientOnlyIfClosedUnderCall, Before, After, Waiting, TypeOK
  <2>4. ConfigureInv'
    BY <1>10 DEF vars, server, ConfigureInv, ConnInv, TypeOK, Waiting
  <2> QED
    BY <2>1, <2>2, <2>3, <2>4
<1> QED
  BY ArrivalStep, <1>1, <1>2, <1>3, <1>4, <1>5, <1>6, <1>7, <1>8, <1>9, <1>10
     DEF Next, LocalStep, DialStep

LEMMA SafeInv == SafeSpec => []IndInv
  BY IndInvInit, IndInvStep, PTL DEF SafeSpec

-----------------------------------------------------------------------------
(***************************************************************************)
(* The properties TLC checks on small instances, for any number of calls    *)
(***************************************************************************)

\* Every variable keeps its type through every handler of the server.
THEOREM TypeCorrect == SafeSpec => []TypeOK
<1>1. IndInv => TypeOK
  BY DEF IndInv
<1> QED
  BY <1>1, SafeInv, PTL

\* No interleaving of ensureHostClient with itself and with closeHostClient
\* leaves a connection open that nobody will close.
THEOREM NeverLeaksConn == SafeSpec => []NoConnLeak
<1>1. IndInv => NoConnLeak
  BY DEF IndInv, ConnInv, NoConnLeak
<1> QED
  BY <1>1, SafeInv, PTL

\* The client in the server is always one of an open connection.
THEOREM ClientAlwaysUsable == SafeSpec => []ClientUsable
<1>1. IndInv => ClientUsable
  BY DEF IndInv, ConnInv, ClientUsable
<1> QED
  BY <1>1, SafeInv, PTL

\* After a close that no configuration has followed, nothing is connected.
THEOREM StoppedIsDisconnected == SafeSpec => []StoppedMeansDisconnected
<1>1. IndInv => StoppedMeansDisconnected
  BY NoCallAssumption DEF IndInv, ConnInv, TypeOK, StoppedMeansDisconnected
<1> QED
  BY <1>1, SafeInv, PTL

\* ConfigureAuthHandler gives the plugin no client only if something closed
\* the connection while it ran.
THEOREM ConfigureGetsClient == SafeSpec => []NoClientOnlyIfClosed
<1>1. IndInv => NoClientOnlyIfClosed
  BY DEF IndInv, ConfigureInv, NoClientOnlyIfClosed
<1> QED
  BY <1>1, SafeInv, PTL

\* injectHostClient never hands out a client that is closed already.
THEOREM NoDeadClientInjected == SafeSpec => []DeadClientOnlyIfClosedUnderCall
<1>1. IndInv => DeadClientOnlyIfClosedUnderCall
  BY DEF IndInv, CtxInv
<1> QED
  BY <1>1, SafeInv, PTL

-----------------------------------------------------------------------------
(***************************************************************************)
(* Refinement of HostSlot, its safety part                                 *)
(***************************************************************************)

\* Under the invariant, every step is one of HostSlot or does not change the
\* connections at all.
LEMMA SlotStep == IndInv /\ [Next]_vars => [Slot!Next]_(Slot!slotVars)
<1> SUFFICES ASSUME IndInv, [Next]_vars
             PROVE  [Slot!Next]_(Slot!slotVars)
  OBVIOUS
<1> USE NoCallAssumption DEF IndInv, Slot!slotVars
<1>1. ASSUME NEW c \in Calls, DialOk(c)
      PROVE  Slot!Next
  <2>1. Slot!Dial(c)
    BY <1>1 DEF DialOk, server, ConnInv, Before, Slot!Dial
  <2> QED
    BY <2>1 DEF Slot!Next
<1>2. ASSUME NEW c \in Calls, Commit(c)
      PROVE  Slot!Next
  <2>1. CASE CommitAllowed
    <3>1. Slot!Install(c)
      BY <1>2, <2>1 DEF Commit, CommitAllowed, ConnInv, Slot!Install
    <3> QED
      BY <3>1 DEF Slot!Next
  <2>2. CASE ~CommitAllowed
    <3>1. conn # c
      BY <1>2 DEF Commit, ConnInv, After
    <3>2. Slot!Discard(c)
      BY <1>2, <2>2, <3>1 DEF Commit, Discard, ConnInv, Slot!Discard
    <3> QED
      BY <3>2 DEF Slot!Next
  <2> QED
    BY <2>1, <2>2
<1>3. ASSUME NEW c \in Calls, CloseHostClient(c)
      PROVE  Slot!Next \/ UNCHANGED <<link, conn>>
  <2>1. CASE conn = NoCall
    BY <1>3, <2>1 DEF CloseHostClient, ForgetConn, LinkAfterClose, TypeOK
  <2>2. CASE conn # NoCall
    <3>1. conn \in Calls /\ link[conn] = "open"
      BY <2>2 DEF TypeOK, ConnInv
    <3>2. link' = [link EXCEPT ![conn] = "closed"] /\ conn' = NoCall
      BY <1>3, <3>1 DEF CloseHostClient, ForgetConn, LinkAfterClose, TypeOK
    <3>3. Slot!Release(conn)
      BY <3>1, <3>2 DEF Slot!Release
    <3> QED
      BY <3>1, <3>3 DEF Slot!Next
  <2> QED
    BY <2>1, <2>2
<1>4. ASSUME NEW c \in Calls,
             \/ ArriveAny(c)
             \/ Reopen(c)
             \/ CheckConnected(c)
             \/ InjectHostClient(c)
             \/ \E r \in {"ok", "error"} : ImplReturns(c, r)
             \/ DialFail(c)
      PROVE  UNCHANGED <<link, conn>>
  <2>1. CASE ArriveAny(c)
    BY <2>1, ArrivalStep DEF Arrive, server
  <2> QED
    BY <1>4, <2>1 DEF Reopen, CheckConnected, InjectHostClient, ImplReturns,
       DialFail, server
<1>5. CASE UNCHANGED vars
  BY <1>5 DEF vars, server
<1> QED
  BY <1>1, <1>2, <1>3, <1>4, <1>5 DEF Next, LocalStep, DialStep

\* The connections of the server, dialled outside its lock, behave as HostSlot
\* promises; that each is settled in the end is left to TLC.
THEOREM RefinesHostSlot == SafeSpec => Slot!SafeSpec
<1>1. Init => Slot!Init
  BY DEF Init, Slot!Init
<1> QED
  BY <1>1, SlotStep, SafeInv, PTL DEF SafeSpec, Slot!SafeSpec
=============================================================================
