-------------------------- MODULE ProviderServerProofs --------------------------
(***************************************************************************)
(* Proofs about ProviderServer, for any set of calls and of providers.      *)
(*                                                                         *)
(* IndInv is the inductive invariant. Its first half is about the           *)
(* connection: only the call that holds the lock dials, and nothing is in   *)
(* the server's slot while it does. Its second half is about settings: what *)
(* is stored for a provider was stored by a configuration that none of the  *)
(* stored ones came after, and differs from what the plugin accepted for a  *)
(* reason that lies with that configuration.                               *)
(***************************************************************************)
EXTENDS ProviderServer, TLAPS

\* Where a call has not dialled yet.
BeforeDial == {"idle", "decode", "settings", "store", "lock", "dial"}

\* Where a configuration has stored its settings.
Past == Configuring \cup {"done"}

\* Which call can be where.
PathInv ==
    \A c \in Calls :
        /\ pc[c] # "idle" => \/ req[c].op = "List"
                             \/ req[c].provider \in Providers
        /\ pc[c] \in {"store", "lock", "dial"} => req[c].op = "Configure"
        /\ pc[c] \in {"decode", "settings"} => req[c].op \in {"Execute", "Inspect"}
        /\ pc[c] = "close" => req[c].op = "Stop"

\* The lock is held exactly while its holder dials, and then there is no client.
LockInv ==
    /\ \A c \in Calls : pc[c] = "dial" <=> mu = c
    /\ mu # NoCall => conn = NoCall

\* A call has no connection until its dial returns; the open connections are
\* the server's, and the server's is open.
ConnInv ==
    /\ hostClient = conn
    /\ conn # NoCall => link[conn] = "open"
    /\ \A c \in Calls :
          /\ pc[c] \in BeforeDial => link[c] = "none"
          /\ link[c] = "open" => conn = c

\* A client in a context is that of a connection some call has dialled; it is
\* closed only if that happened since.
CtxInv ==
    /\ \A c \in Calls :
          /\ pc[c] \in BeforeDial \cup {"inject"} => ctxClient[c] = NoCall
          /\ ctxClient[c] # NoCall => link[ctxClient[c]] # "none"
    /\ DeadClientOnlyIfStoppedUnderCall

\* The host configurations during which no stop closed anything.
ConfigureInv ==
    \A c \in Calls :
        (req[c].op = "Configure" /\ req[c].host /\ canDial /\ closedAt[c] = "never")
            => /\ pc[c] = "inject" => hostClient # NoCall
               /\ pc[c] = "impl" => ctxClient[c] # NoCall

\* What the histories hold are configurations that are stored; the calls that
\* were answered before an execution came still are.
HistoryInv ==
    \A c \in Calls :
        /\ \A d \in before[c] : req[d].op = "Configure" /\ pc[d] \in Past
        /\ \A d \in answered[c] : req[d].op = "Configure" /\ pc[d] = "done"

\* Once a configuration is stored, the settings in the server are its own or
\* those of a later one.
LatestInv ==
    \A p \in Providers :
        /\ configureSettings[p] # NoCall =>
              Configures(configureSettings[p], p) /\ pc[configureSettings[p]] \in Past
        /\ \A d \in Calls :
              (Configures(d, p) /\ pc[d] \in Past)
                  => configureSettings[p] # NoCall /\ configureSettings[p] \notin before[d]

\* A configuration under way is the one stored, or was under way when that was
\* stored.
OverlapInv ==
    \A p \in Providers :
        \A d \in Calls :
            (Configures(d, p) /\ pc[d] \in Configuring)
                => \/ configureSettings[p] = d
                   \/ d \in overlapped[configureSettings[p]]

\* So the plugin can only come to accept what is stored, or one that overlapped it.
AcceptedInv == OverlapInv /\ StoredIsAccepted

SettingsInv ==
    /\ HistoryInv
    /\ LatestInv
    /\ AcceptedInv
    /\ ReadsAnsweredConfiguration

ConnectionInv ==
    /\ TypeOK
    /\ PathInv
    /\ LockInv
    /\ ConnInv
    /\ CtxInv
    /\ ConfigureInv

IndInv == ConnectionInv /\ SettingsInv

-----------------------------------------------------------------------------
\* The initial states.
LEMMA IndInvInit == Init => IndInv
<1> SUFFICES ASSUME Init PROVE IndInv
  OBVIOUS
<1> USE NoCallAssumption DEF Init, NoRequest
<1>1. TypeOK
  BY DEF TypeOK, Locations, Requests, Ops
<1>2. PathInv /\ LockInv /\ ConnInv
  BY DEF PathInv, LockInv, ConnInv
<1>3. CtxInv /\ ConfigureInv
  BY DEF CtxInv, ConfigureInv, DeadClientOnlyIfStoppedUnderCall
<1>4. SettingsInv
  BY DEF SettingsInv, HistoryInv, LatestInv, AcceptedInv, OverlapInv, StoredIsAccepted,
     Configures, ReadsAnsweredConfiguration
<1> QED
  BY <1>1, <1>2, <1>3, <1>4 DEF IndInv, ConnectionInv

\* Where a request starts.
ArrivesAt(r, loc) ==
    /\ r.op = "List" \/ r.provider \in Providers
    /\ loc = "store" <=> r.op = "Configure"
    /\ loc = "decode" <=> r.op \in {"Execute", "Inspect"}

\* Every arrival is Arrive of a request that starts where it should.
LEMMA ArrivalStep ==
    ASSUME NEW c \in Calls, ArriveAny(c)
    PROVE  \E r \in Requests, loc \in {"impl", "decode", "store"} :
              Arrive(c, r, loc) /\ ArrivesAt(r, loc)
<1> DEFINE goal == \E r \in Requests, loc \in {"impl", "decode", "store"} :
                      Arrive(c, r, loc) /\ ArrivesAt(r, loc)
           R(op, p, host) == [op |-> op, provider |-> p, host |-> host]
<1>r. ASSUME NEW op \in Ops, NEW p \in Providers \cup {NoCall}, NEW host \in BOOLEAN,
             NEW loc \in {"impl", "decode", "store"},
             Arrive(c, R(op, p, host), loc), ArrivesAt(R(op, p, host), loc)
      PROVE  goal
  <2>1. R(op, p, host) \in Requests
    BY DEF Requests
  <2> HIDE DEF R
  <2> QED
    BY <1>r, <2>1
<1> HIDE DEF goal
<1> USE DEF Ops
<1>1. CASE GetProviders(c)
  <2>1. Arrive(c, R("List", NoCall, FALSE), "impl")
    BY <1>1 DEF GetProviders, NoRequest
  <2>2. ArrivesAt(R("List", NoCall, FALSE), "impl")
    BY DEF ArrivesAt
  <2> QED
    BY <2>1, <2>2, <1>r DEF goal
<1>2. ASSUME NEW p \in Providers, ExecuteProvider(c, p)
      PROVE  goal
  BY <1>r, <1>2 DEF ExecuteProvider, ArrivesAt
<1>3. ASSUME NEW p \in Providers, Inspect(c, p)
      PROVE  goal
  BY <1>r, <1>3 DEF Inspect, ArrivesAt
<1>4. ASSUME NEW p \in Providers, NEW host \in BOOLEAN, ConfigureProvider(c, p, host)
      PROVE  goal
  BY <1>r, <1>4 DEF ConfigureProvider, ArrivesAt
<1>5. ASSUME NEW p \in Providers, StopProvider(c, p)
      PROVE  goal
  BY <1>r, <1>5 DEF StopProvider, ArrivesAt
<1> QED
  BY <1>1, <1>2, <1>3, <1>4, <1>5 DEF ArriveAny, goal

\* Every step preserves the first half of the invariant.
LEMMA ConnectionStep == IndInv /\ [Next]_vars => ConnectionInv'
<1> SUFFICES ASSUME IndInv, [Next]_vars PROVE ConnectionInv'
  OBVIOUS
<1> USE NoCallAssumption DEF IndInv, ConnectionInv, SettingsInv, AcceptedInv, Goto, server, history
<1>1. ASSUME NEW c \in Calls, NEW r \in Requests, NEW loc \in {"impl", "decode", "store"},
             Arrive(c, r, loc), ArrivesAt(r, loc)
      PROVE  ConnectionInv'
  <2>1. TypeOK'
    BY <1>1 DEF Arrive, ArrivesAt, TypeOK, PathInv, Locations, Requests,
       Ops, Configuring
  <2>2. PathInv'
    BY <1>1 DEF Arrive, ArrivesAt, PathInv, TypeOK
  <2>3. LockInv'
    BY <1>1 DEF Arrive, ArrivesAt, LockInv, ConnInv, TypeOK
  <2>4. ConnInv'
    BY <1>1 DEF Arrive, ArrivesAt, ConnInv, LockInv, BeforeDial, TypeOK
  <2>5. CtxInv'
    BY <1>1 DEF Arrive, ArrivesAt, CtxInv, ConnInv, LockInv,
       DeadClientOnlyIfStoppedUnderCall, BeforeDial, TypeOK
  <2>6. ConfigureInv'
    BY <1>1 DEF Arrive, ArrivesAt, ConfigureInv, ConnInv, CtxInv, PathInv,
       TypeOK
  <2> QED
    BY <2>1, <2>2, <2>3, <2>4, <2>5, <2>6
<1>2. ASSUME NEW c \in Calls, RejectInput(c)
      PROVE  ConnectionInv'
  <2>1. TypeOK'
    BY <1>2 DEF RejectInput, Answer, TypeOK, PathInv, Locations, Requests,
       Ops, Configuring
  <2>2. PathInv'
    BY <1>2 DEF RejectInput, Answer, PathInv, TypeOK
  <2>3. LockInv'
    BY <1>2 DEF RejectInput, Answer, LockInv, ConnInv, TypeOK
  <2>4. ConnInv'
    BY <1>2 DEF RejectInput, Answer, ConnInv, LockInv, BeforeDial, TypeOK
  <2>5. CtxInv'
    BY <1>2 DEF RejectInput, Answer, CtxInv, ConnInv, LockInv,
       DeadClientOnlyIfStoppedUnderCall, BeforeDial, TypeOK
  <2>6. ConfigureInv'
    BY <1>2 DEF RejectInput, Answer, ConfigureInv, ConnInv, CtxInv, PathInv,
       TypeOK
  <2> QED
    BY <2>1, <2>2, <2>3, <2>4, <2>5, <2>6
<1>3. ASSUME NEW c \in Calls, AcceptInput(c)
      PROVE  ConnectionInv'
  <2>1. TypeOK'
    BY <1>3 DEF AcceptInput, TypeOK, PathInv, Locations, Requests, Ops,
       Configuring
  <2>2. PathInv'
    BY <1>3 DEF AcceptInput, PathInv, TypeOK
  <2>3. LockInv'
    BY <1>3 DEF AcceptInput, LockInv, ConnInv, TypeOK
  <2>4. ConnInv'
    BY <1>3 DEF AcceptInput, ConnInv, LockInv, BeforeDial, TypeOK
  <2>5. CtxInv'
    BY <1>3 DEF AcceptInput, CtxInv, ConnInv, LockInv,
       DeadClientOnlyIfStoppedUnderCall, BeforeDial, TypeOK
  <2>6. ConfigureInv'
    BY <1>3 DEF AcceptInput, ConfigureInv, ConnInv, CtxInv, PathInv, TypeOK
  <2> QED
    BY <2>1, <2>2, <2>3, <2>4, <2>5, <2>6
<1>4. ASSUME NEW c \in Calls, WithSettings(c)
      PROVE  ConnectionInv'
  <2>1. TypeOK'
    BY <1>4 DEF WithSettings, Unlocked, TypeOK, PathInv, Locations,
       Requests, Ops, Configuring
  <2>2. PathInv'
    BY <1>4 DEF WithSettings, Unlocked, PathInv, TypeOK
  <2>3. LockInv'
    BY <1>4 DEF WithSettings, Unlocked, LockInv, ConnInv, TypeOK
  <2>4. ConnInv'
    BY <1>4 DEF WithSettings, Unlocked, ConnInv, LockInv, BeforeDial, TypeOK
  <2>5. CtxInv'
    BY <1>4 DEF WithSettings, Unlocked, CtxInv, ConnInv, LockInv,
       DeadClientOnlyIfStoppedUnderCall, BeforeDial, TypeOK
  <2>6. ConfigureInv'
    BY <1>4 DEF WithSettings, Unlocked, ConfigureInv, ConnInv, CtxInv,
       PathInv, TypeOK
  <2> QED
    BY <2>1, <2>2, <2>3, <2>4, <2>5, <2>6
<1>5. ASSUME NEW c \in Calls, StoreSettings(c)
      PROVE  ConnectionInv'
  <2>1. TypeOK'
    BY <1>5 DEF StoreSettings, Unlocked, StoredSettings, TypeOK, PathInv,
       Locations, Requests, Ops, Configuring
  <2>2. PathInv'
    BY <1>5 DEF StoreSettings, Unlocked, StoredSettings, PathInv, TypeOK
  <2>3. LockInv'
    BY <1>5 DEF StoreSettings, Unlocked, StoredSettings, LockInv, ConnInv,
       TypeOK
  <2>4. ConnInv'
    BY <1>5 DEF StoreSettings, Unlocked, StoredSettings, ConnInv, LockInv,
       BeforeDial, TypeOK
  <2>5. CtxInv'
    BY <1>5 DEF StoreSettings, Unlocked, StoredSettings, CtxInv, ConnInv,
       LockInv, DeadClientOnlyIfStoppedUnderCall, BeforeDial, TypeOK
  <2>6. ConfigureInv'
    BY <1>5 DEF StoreSettings, Unlocked, StoredSettings, ConfigureInv,
       ConnInv, CtxInv, PathInv, TypeOK
  <2> QED
    BY <2>1, <2>2, <2>3, <2>4, <2>5, <2>6
<1>6. ASSUME NEW c \in Calls, LockToDial(c)
      PROVE  ConnectionInv'
  <2>1. TypeOK'
    BY <1>6 DEF LockToDial, Unlocked, NeedsDial, TypeOK, PathInv, Locations,
       Requests, Ops, Configuring
  <2>2. PathInv'
    BY <1>6 DEF LockToDial, Unlocked, NeedsDial, PathInv, TypeOK
  <2>3. LockInv'
    BY <1>6 DEF LockToDial, Unlocked, NeedsDial, LockInv, ConnInv, TypeOK
  <2>4. ConnInv'
    BY <1>6 DEF LockToDial, Unlocked, NeedsDial, ConnInv, LockInv,
       BeforeDial, TypeOK
  <2>5. CtxInv'
    BY <1>6 DEF LockToDial, Unlocked, NeedsDial, CtxInv, ConnInv, LockInv,
       DeadClientOnlyIfStoppedUnderCall, BeforeDial, TypeOK
  <2>6. ConfigureInv'
    BY <1>6 DEF LockToDial, Unlocked, NeedsDial, ConfigureInv, ConnInv,
       CtxInv, PathInv, TypeOK
  <2> QED
    BY <2>1, <2>2, <2>3, <2>4, <2>5, <2>6
<1>7. ASSUME NEW c \in Calls, DialOk(c)
      PROVE  ConnectionInv'
  <2>1. TypeOK'
    BY <1>7 DEF DialOk, Install, TypeOK, PathInv, Locations, Requests, Ops,
       Configuring
  <2>2. PathInv'
    BY <1>7 DEF DialOk, Install, PathInv, TypeOK
  <2>3. LockInv'
    BY <1>7 DEF DialOk, Install, LockInv, ConnInv, TypeOK
  <2>4. ConnInv'
    BY <1>7 DEF DialOk, Install, ConnInv, LockInv, BeforeDial, TypeOK
  <2>5. CtxInv'
    BY <1>7 DEF DialOk, Install, CtxInv, ConnInv, LockInv,
       DeadClientOnlyIfStoppedUnderCall, BeforeDial, TypeOK
  <2>6. ConfigureInv'
    BY <1>7 DEF DialOk, Install, ConfigureInv, ConnInv, CtxInv, PathInv,
       TypeOK
  <2> QED
    BY <2>1, <2>2, <2>3, <2>4, <2>5, <2>6
<1>8. ASSUME NEW c \in Calls, DialFail(c)
      PROVE  ConnectionInv'
  <2>1. TypeOK'
    BY <1>8 DEF DialFail, ReturnDialError, Answer, TypeOK, PathInv,
       Locations, Requests, Ops, Configuring
  <2>2. PathInv'
    BY <1>8 DEF DialFail, ReturnDialError, Answer, PathInv, TypeOK
  <2>3. LockInv'
    BY <1>8 DEF DialFail, ReturnDialError, Answer, LockInv, ConnInv, TypeOK
  <2>4. ConnInv'
    BY <1>8 DEF DialFail, ReturnDialError, Answer, ConnInv, LockInv,
       BeforeDial, TypeOK
  <2>5. CtxInv'
    BY <1>8 DEF DialFail, ReturnDialError, Answer, CtxInv, ConnInv, LockInv,
       DeadClientOnlyIfStoppedUnderCall, BeforeDial, TypeOK
  <2>6. ConfigureInv'
    BY <1>8 DEF DialFail, ReturnDialError, Answer, ConfigureInv, ConnInv,
       CtxInv, PathInv, TypeOK
  <2> QED
    BY <2>1, <2>2, <2>3, <2>4, <2>5, <2>6
<1>9. ASSUME NEW c \in Calls, InjectHostClient(c)
      PROVE  ConnectionInv'
  <2>1. TypeOK'
    BY <1>9 DEF InjectHostClient, Unlocked, ClientSeen, TypeOK, PathInv,
       Locations, Requests, Ops, Configuring
  <2>2. PathInv'
    BY <1>9 DEF InjectHostClient, Unlocked, ClientSeen, PathInv, TypeOK
  <2>3. LockInv'
    BY <1>9 DEF InjectHostClient, Unlocked, ClientSeen, LockInv, ConnInv,
       TypeOK
  <2>4. ConnInv'
    BY <1>9 DEF InjectHostClient, Unlocked, ClientSeen, ConnInv, LockInv,
       BeforeDial, TypeOK
  <2>5. CtxInv'
    BY <1>9 DEF InjectHostClient, Unlocked, ClientSeen, CtxInv, ConnInv,
       LockInv, DeadClientOnlyIfStoppedUnderCall, BeforeDial, TypeOK
  <2>6. ConfigureInv'
    BY <1>9 DEF InjectHostClient, Unlocked, ClientSeen, ConfigureInv,
       ConnInv, CtxInv, PathInv, TypeOK
  <2> QED
    BY <2>1, <2>2, <2>3, <2>4, <2>5, <2>6
<1>10. ASSUME NEW c \in Calls, NEW r \in {"ok", "error"}, ImplReturns(c, r)
      PROVE  ConnectionInv'
  <2>1. TypeOK'
    BY <1>10 DEF ImplReturns, Answer, TypeOK, PathInv, Locations, Requests,
       Ops, Configuring
  <2>2. PathInv'
    BY <1>10 DEF ImplReturns, Answer, PathInv, TypeOK
  <2>3. LockInv'
    BY <1>10 DEF ImplReturns, Answer, LockInv, ConnInv, TypeOK
  <2>4. ConnInv'
    BY <1>10 DEF ImplReturns, Answer, ConnInv, LockInv, BeforeDial, TypeOK
  <2>5. CtxInv'
    BY <1>10 DEF ImplReturns, Answer, CtxInv, ConnInv, LockInv,
       DeadClientOnlyIfStoppedUnderCall, BeforeDial, TypeOK
  <2>6. ConfigureInv'
    BY <1>10 DEF ImplReturns, Answer, ConfigureInv, ConnInv, CtxInv,
       PathInv, TypeOK
  <2> QED
    BY <2>1, <2>2, <2>3, <2>4, <2>5, <2>6
<1>11. ASSUME NEW c \in Calls, CloseHostClient(c)
      PROVE  ConnectionInv'
  <2>1. TypeOK'
    BY <1>11 DEF CloseHostClient, Unlocked, LinkAfterClose, TypeOK, PathInv,
       Locations, Requests, Ops, Configuring
  <2>2. PathInv'
    BY <1>11 DEF CloseHostClient, Unlocked, LinkAfterClose, PathInv, TypeOK
  <2>3. LockInv'
    BY <1>11 DEF CloseHostClient, Unlocked, LinkAfterClose, LockInv,
       ConnInv, TypeOK
  <2>4. ConnInv'
    BY <1>11 DEF CloseHostClient, Unlocked, LinkAfterClose, ConnInv,
       LockInv, BeforeDial, TypeOK
  <2>5. CtxInv'
    BY <1>11 DEF CloseHostClient, Unlocked, LinkAfterClose, CtxInv, ConnInv,
       LockInv, DeadClientOnlyIfStoppedUnderCall, BeforeDial, TypeOK
  <2>6. ConfigureInv'
    BY <1>11 DEF CloseHostClient, Unlocked, LinkAfterClose, ConfigureInv,
       ConnInv, CtxInv, PathInv, TypeOK
  <2> QED
    BY <2>1, <2>2, <2>3, <2>4, <2>5, <2>6
<1>12. CASE UNCHANGED vars
    BY <1>12 DEF vars, BeforeDial, ConfigureInv, Configuring, ConnInv,
       CtxInv, DeadClientOnlyIfStoppedUnderCall, Locations, LockInv, Ops,
       PathInv, Requests, TypeOK
<1> QED
  BY ArrivalStep, <1>1, <1>2, <1>3, <1>4, <1>5, <1>6, <1>7, <1>8, <1>9, <1>10, <1>11, <1>12
     DEF Next, Step

\* Every step preserves the second half.
LEMMA SettingsStep == IndInv /\ [Next]_vars => SettingsInv'
<1> SUFFICES ASSUME IndInv, [Next]_vars PROVE SettingsInv'
  OBVIOUS
<1> USE NoCallAssumption DEF IndInv, ConnectionInv, SettingsInv, AcceptedInv, Goto, server, history
<1>1. ASSUME NEW c \in Calls, NEW r \in Requests, NEW loc \in {"impl", "decode", "store"},
             Arrive(c, r, loc), ArrivesAt(r, loc)
      PROVE  SettingsInv'
  <2>1. HistoryInv'
    BY <1>1 DEF Arrive, ArrivesAt, HistoryInv, PathInv, Past, Configuring,
       Configures, TypeOK
  <2>2. LatestInv'
    BY <1>1 DEF Arrive, ArrivesAt, LatestInv, HistoryInv, PathInv, Past,
       Configuring, Configures, TypeOK
  <2>3. AcceptedInv'
    BY <1>1 DEF Arrive, ArrivesAt, OverlapInv, StoredIsAccepted, PathInv, Past, Configuring,
       Configures, TypeOK
  <2>4. ReadsAnsweredConfiguration'
    BY <1>1 DEF Arrive, ArrivesAt, ReadsAnsweredConfiguration, LatestInv,
       HistoryInv, PathInv, Past, Configuring, Configures, TypeOK
  <2> QED
    BY <2>1, <2>2, <2>3, <2>4
<1>2. ASSUME NEW c \in Calls, WithSettings(c)
      PROVE  SettingsInv'
  <2>1. HistoryInv'
    BY <1>2 DEF WithSettings, Unlocked, HistoryInv, PathInv, Past,
       Configuring, Configures, TypeOK
  <2>2. LatestInv'
    BY <1>2 DEF WithSettings, Unlocked, LatestInv, HistoryInv, PathInv,
       Past, Configuring, Configures, TypeOK
  <2>3. AcceptedInv'
    BY <1>2 DEF WithSettings, Unlocked, OverlapInv, StoredIsAccepted, PathInv, Past,
       Configuring, Configures, TypeOK
  <2>4. ReadsAnsweredConfiguration'
    BY <1>2 DEF WithSettings, Unlocked, ReadsAnsweredConfiguration,
       LatestInv, HistoryInv, PathInv, Past, Configuring, Configures, TypeOK
  <2> QED
    BY <2>1, <2>2, <2>3, <2>4
<1>3. ASSUME NEW c \in Calls, StoreSettings(c)
      PROVE  SettingsInv'
  <2>1. HistoryInv'
    BY <1>3 DEF StoreSettings, Unlocked, StoredSettings, HistoryInv,
       PathInv, Past, Configuring, Configures, TypeOK
  <2>2. LatestInv'
    BY <1>3 DEF StoreSettings, Unlocked, StoredSettings, LatestInv,
       HistoryInv, PathInv, Past, Configuring, Configures, TypeOK
  <2>3. AcceptedInv'
    <3>1. /\ pc[c] = "store" /\ req[c].op = "Configure" /\ req[c].provider \in Providers
          /\ pc' = [pc EXCEPT ![c] = pc'[c]] /\ pc'[c] \in {"lock", "inject"}
          /\ configureSettings' = [configureSettings EXCEPT ![req[c].provider] = c]
          /\ overlapped' = [overlapped EXCEPT ![c] =
                               {d \in Calls : /\ Configures(d, req[c].provider)
                                              /\ pc[d] \in Configuring}]
          /\ UNCHANGED <<req, accepted, resp>>
      BY <1>3 DEF StoreSettings, StoredSettings, PathInv, TypeOK
    <3>2. \A p \in Providers :
              /\ configureSettings'[p] = IF p = req[c].provider THEN c
                                         ELSE configureSettings[p]
              /\ configureSettings[p] # c
      BY <3>1 DEF LatestInv, Past, Configuring, TypeOK
    <3>3. OverlapInv'
      <4> SUFFICES ASSUME NEW p \in Providers, NEW d \in Calls, Configures(d, p)',
                          (pc[d] \in Configuring)'
                   PROVE  \/ configureSettings'[p] = d
                          \/ d \in overlapped'[configureSettings'[p]]
        BY DEF OverlapInv
      <4>1. Configures(d, p) /\ (d = c \/ pc[d] \in Configuring)
        BY <3>1 DEF Configures, Configuring, TypeOK
      <4>2. CASE p = req[c].provider
        BY <3>1, <3>2, <4>1, <4>2 DEF TypeOK
      <4>3. CASE p # req[c].provider
        <5>1. d # c /\ configureSettings'[p] = configureSettings[p]
          BY <3>2, <4>1, <4>3 DEF Configures
        <5>2. overlapped'[configureSettings[p]] = overlapped[configureSettings[p]]
          BY <3>1, <3>2 DEF TypeOK
        <5> QED
          BY <4>1, <5>1, <5>2 DEF OverlapInv
      <4> QED
        BY <4>2, <4>3
    <3>4. StoredIsAccepted'
      <4> SUFFICES ASSUME NEW p \in Providers
                   PROVE  (LET s == configureSettings[p] IN
                           s # accepted[p] => /\ s # NoCall
                                              /\ \/ pc[s] # "done"
                                                 \/ resp[s] = "error"
                                                 \/ accepted[p] \in overlapped[s])'
        BY DEF StoredIsAccepted
      <4>1. CASE p = req[c].provider
        BY <3>1, <3>2, <4>1 DEF TypeOK
      <4>2. CASE p # req[c].provider
        BY <3>1, <3>2, <4>2 DEF StoredIsAccepted, TypeOK
      <4> QED
        BY <4>1, <4>2
    <3> QED
      BY <3>3, <3>4
  <2>4. ReadsAnsweredConfiguration'
    BY <1>3 DEF StoreSettings, Unlocked, StoredSettings,
       ReadsAnsweredConfiguration, LatestInv, HistoryInv, PathInv, Past,
       Configuring, Configures, TypeOK
  <2> QED
    BY <2>1, <2>2, <2>3, <2>4
<1>4. ASSUME NEW c \in Calls, DialFail(c)
      PROVE  SettingsInv'
  <2>1. HistoryInv'
    BY <1>4 DEF DialFail, ReturnDialError, Answer, HistoryInv, PathInv,
       Past, Configuring, Configures, TypeOK
  <2>2. LatestInv'
    BY <1>4 DEF DialFail, ReturnDialError, Answer, LatestInv, HistoryInv,
       PathInv, Past, Configuring, Configures, TypeOK
  <2>3. AcceptedInv'
    BY <1>4 DEF DialFail, ReturnDialError, Answer, OverlapInv, StoredIsAccepted, PathInv,
       Past, Configuring, Configures, TypeOK
  <2>4. ReadsAnsweredConfiguration'
    BY <1>4 DEF DialFail, ReturnDialError, Answer,
       ReadsAnsweredConfiguration, LatestInv, HistoryInv, PathInv, Past,
       Configuring, Configures, TypeOK
  <2> QED
    BY <2>1, <2>2, <2>3, <2>4
<1>5. ASSUME NEW c \in Calls, NEW r \in {"ok", "error"}, ImplReturns(c, r)
      PROVE  SettingsInv'
  <2>1. HistoryInv'
    BY <1>5 DEF ImplReturns, Answer, HistoryInv, PathInv, Past, Configuring,
       Configures, TypeOK
  <2>2. LatestInv'
    BY <1>5 DEF ImplReturns, Answer, LatestInv, HistoryInv, PathInv, Past,
       Configuring, Configures, TypeOK
  <2>3. AcceptedInv'
    <3>1. /\ pc[c] = "impl" /\ pc' = [pc EXCEPT ![c] = pc'[c]]
          /\ pc'[c] \in {"close", "done"} /\ (req[c].op # "Stop" => pc'[c] = "done")
          /\ resp' = [resp EXCEPT ![c] = r]
          /\ accepted' = IF req[c].op = "Configure" /\ r = "ok"
                         THEN [accepted EXCEPT ![req[c].provider] = c] ELSE accepted
          /\ UNCHANGED <<req, configureSettings, overlapped>>
      BY <1>5 DEF ImplReturns, Answer, TypeOK
    <3>2. \A d \in Calls : (pc[d] \in Configuring)' => pc[d] \in Configuring
      BY <3>1 DEF Configuring, TypeOK
    <3>3. OverlapInv'
      BY <3>1, <3>2 DEF OverlapInv, Configures
    <3>4. StoredIsAccepted'
      <4> SUFFICES ASSUME NEW p \in Providers, configureSettings[p] # accepted'[p]
                   PROVE  LET s == configureSettings[p] IN
                          /\ s # NoCall
                          /\ \/ pc'[s] # "done"
                             \/ resp'[s] = "error"
                             \/ accepted'[p] \in overlapped[s]
        BY <3>1 DEF StoredIsAccepted
      <4>1. CASE Configures(c, p) /\ r = "ok"
        <5>1. accepted'[p] = c
          BY <3>1, <4>1 DEF Configures, TypeOK
        <5>2. c \in overlapped[configureSettings[p]]
          BY <3>1, <4>1, <5>1 DEF OverlapInv, Configuring
        <5>3. configureSettings[p] # NoCall
          BY <3>1, <4>1 DEF LatestInv, Past, Configuring
        <5> QED
          BY <5>1, <5>2, <5>3
      <4>2. CASE ~(Configures(c, p) /\ r = "ok")
        <5>1. accepted'[p] = accepted[p]
          BY <3>1, <4>2 DEF Configures, TypeOK
        <5>2. configureSettings[p] # c \/ (Configures(c, p) /\ r = "error")
          BY <4>2, <5>1 DEF LatestInv
        <5>3. configureSettings[p] \in Calls
          BY <5>1 DEF StoredIsAccepted, TypeOK
        <5> QED
          BY <3>1, <5>1, <5>2, <5>3 DEF StoredIsAccepted, TypeOK
      <4> QED
        BY <4>1, <4>2
    <3> QED
      BY <3>3, <3>4
  <2>4. ReadsAnsweredConfiguration'
    BY <1>5 DEF ImplReturns, Answer, ReadsAnsweredConfiguration, LatestInv,
       HistoryInv, PathInv, Past, Configuring, Configures, TypeOK
  <2> QED
    BY <2>1, <2>2, <2>3, <2>4
<1>6. ASSUME NEW c \in Calls,
             \/ RejectInput(c)
             \/ AcceptInput(c)
             \/ LockToDial(c)
             \/ DialOk(c)
             \/ InjectHostClient(c)
             \/ CloseHostClient(c)
      PROVE  SettingsInv'
  <2>1. HistoryInv'
    BY <1>6 DEF RejectInput, AcceptInput, LockToDial, DialOk,
       InjectHostClient, CloseHostClient, Answer, ClientSeen, Install,
       LinkAfterClose, NeedsDial, Unlocked, HistoryInv, PathInv, Past,
       Configuring, Configures, TypeOK
  <2>2. LatestInv'
    BY <1>6 DEF RejectInput, AcceptInput, LockToDial, DialOk,
       InjectHostClient, CloseHostClient, Answer, ClientSeen, Install,
       LinkAfterClose, NeedsDial, Unlocked, LatestInv, HistoryInv, PathInv,
       Past, Configuring, Configures, TypeOK
  <2>3. AcceptedInv'
    <3>1. UNCHANGED <<req, configureSettings, accepted, overlapped>>
      BY <1>6 DEF RejectInput, AcceptInput, LockToDial, DialOk, Install,
         InjectHostClient, CloseHostClient
    <3>2. \A d \in Calls :
              /\ (pc[d] \in Configuring)' /\ req[d].op = "Configure" => pc[d] \in Configuring
              /\ req[d].op = "Configure" =>
                    /\ pc'[d] = "done" => pc[d] = "done"
                    /\ resp'[d] = resp[d]
      BY <1>6 DEF RejectInput, AcceptInput, LockToDial, DialOk,
         InjectHostClient, CloseHostClient, Answer, PathInv, Configuring, TypeOK
    <3>3. OverlapInv'
      BY <3>1, <3>2 DEF OverlapInv, Configures
    <3>4. StoredIsAccepted'
      BY <3>1, <3>2 DEF StoredIsAccepted, LatestInv, Configures, TypeOK
    <3> QED
      BY <3>3, <3>4
  <2>4. ReadsAnsweredConfiguration'
    BY <1>6 DEF RejectInput, AcceptInput, LockToDial, DialOk,
       InjectHostClient, CloseHostClient, Answer, ClientSeen, Install,
       LinkAfterClose, NeedsDial, Unlocked, ReadsAnsweredConfiguration,
       LatestInv, HistoryInv, PathInv, Past, Configuring, Configures, TypeOK
  <2> QED
    BY <2>1, <2>2, <2>3, <2>4
<1>7. CASE UNCHANGED vars
    BY <1>7 DEF vars, OverlapInv, StoredIsAccepted, Configures, Configuring, HistoryInv,
       LatestInv, Past, PathInv, ReadsAnsweredConfiguration, TypeOK
<1> QED
  BY ArrivalStep, <1>1, <1>2, <1>3, <1>4, <1>5, <1>6, <1>7
     DEF Next, Step

LEMMA SafeInv == SafeSpec => []IndInv
<1>1. IndInv /\ [Next]_vars => IndInv'
  BY ConnectionStep, SettingsStep DEF IndInv
<1> QED
  BY <1>1, IndInvInit, PTL DEF SafeSpec

-----------------------------------------------------------------------------
(***************************************************************************)
(* The properties TLC checks on small instances, for any number of calls    *)
(***************************************************************************)

\* Every variable keeps its type through every handler of the server.
THEOREM TypeCorrect == SafeSpec => []TypeOK
<1>1. IndInv => TypeOK
  BY DEF IndInv, ConnectionInv
<1> QED
  BY <1>1, SafeInv, PTL

\* ConfigureProvider gives the plugin no client only if a stop closed the
\* connection while it ran.
THEOREM ConfigureGetsClient == SafeSpec => []NoClientOnlyIfStopped
<1>1. IndInv => NoClientOnlyIfStopped
  BY DEF IndInv, ConnectionInv, ConfigureInv, NoClientOnlyIfStopped
<1> QED
  BY <1>1, SafeInv, PTL

\* injectHostClient never hands out a client that is closed already.
THEOREM NoDeadClientInjected == SafeSpec => []DeadClientOnlyIfStoppedUnderCall
<1>1. IndInv => DeadClientOnlyIfStoppedUnderCall
  BY DEF IndInv, ConnectionInv, CtxInv
<1> QED
  BY <1>1, SafeInv, PTL

\* withSettings finds the settings of no configuration that is older than one
\* answered before the execution came.
THEOREM ExecutionsReadAnswered == SafeSpec => []ReadsAnsweredConfiguration
<1>1. IndInv => ReadsAnsweredConfiguration
  BY DEF IndInv, SettingsInv
<1> QED
  BY <1>1, SafeInv, PTL

\* What the server merges is what the plugin accepted last, unless the very
\* configuration that stored it is under way, failed, or was stored while the
\* one accepted last was under way (grpc_server.go:94-132).
THEOREM StoredSettingsAccepted == SafeSpec => []StoredIsAccepted
<1>1. IndInv => StoredIsAccepted
  BY DEF IndInv, SettingsInv, AcceptedInv
<1> QED
  BY <1>1, SafeInv, PTL

\* Whoever holds the lock is in its dial, which ends: no error path keeps the lock,
\* and no call waits for one that waits itself (grpc_server.go:112-124).
LockHeldOnlyToDial == mu # NoCall => pc[mu] = "dial"

THEOREM LockNeverKept == SafeSpec => []LockHeldOnlyToDial
<1>1. IndInv => LockHeldOnlyToDial
  BY DEF IndInv, ConnectionInv, LockInv, TypeOK, LockHeldOnlyToDial
<1> QED
  BY <1>1, SafeInv, PTL

-----------------------------------------------------------------------------
(***************************************************************************)
(* Refinement of HostSlot, its safety part                                 *)
(***************************************************************************)

\* Under the invariant a dial that succeeds dials and installs, a stop releases
\* what is there, and nothing else touches the connections.
LEMMA SlotStep == IndInv /\ [Next]_vars => [Slot!Next]_(Slot!slotVars)
<1> SUFFICES ASSUME IndInv, [Next]_vars
             PROVE  [Slot!Next]_(Slot!slotVars)
  OBVIOUS
<1> USE NoCallAssumption DEF IndInv, ConnectionInv, Slot!slotVars
<1>1. ASSUME NEW c \in Calls, DialOk(c)
      PROVE  Slot!Next
  <2>1. conn = NoCall /\ link[c] = "none"
    BY <1>1 DEF DialOk, LockInv, ConnInv, BeforeDial
  <2>2. Slot!DialInstall(c)
    BY <1>1, <2>1 DEF DialOk, Install, Slot!DialInstall
  <2> QED
    BY <2>2 DEF Slot!Next
<1>2. ASSUME NEW c \in Calls, CloseHostClient(c)
      PROVE  Slot!Next \/ UNCHANGED <<link, conn>>
  <2>1. CASE conn = NoCall
    BY <1>2, <2>1 DEF CloseHostClient, LinkAfterClose, TypeOK
  <2>2. CASE conn # NoCall
    <3>1. conn \in Calls /\ link[conn] = "open"
      BY <2>2 DEF TypeOK, ConnInv
    <3>2. link' = [link EXCEPT ![conn] = "closed"] /\ conn' = NoCall
      BY <1>2, <3>1 DEF CloseHostClient, LinkAfterClose, TypeOK
    <3>3. Slot!Release(conn)
      BY <3>1, <3>2 DEF Slot!Release
    <3> QED
      BY <3>1, <3>3 DEF Slot!Next
  <2> QED
    BY <2>1, <2>2
<1>3. ASSUME NEW c \in Calls,
             \/ ArriveAny(c)
             \/ RejectInput(c)
             \/ AcceptInput(c)
             \/ WithSettings(c)
             \/ StoreSettings(c)
             \/ LockToDial(c)
             \/ DialFail(c)
             \/ InjectHostClient(c)
             \/ \E r \in {"ok", "error"} : ImplReturns(c, r)
      PROVE  UNCHANGED <<link, conn>>
  <2>1. CASE ArriveAny(c)
    BY <2>1, ArrivalStep DEF Arrive, server
  <2> QED
    BY <1>3, <2>1 DEF RejectInput, AcceptInput, WithSettings, StoreSettings,
       LockToDial, DialFail, InjectHostClient, ImplReturns, server
<1>4. CASE UNCHANGED vars
  BY <1>4 DEF vars, server
<1> QED
  BY <1>1, <1>2, <1>3, <1>4 DEF Next, Step

\* The connections of the server, dialled under its lock, behave as HostSlot
\* promises; that each is settled in the end is left to TLC.
THEOREM RefinesHostSlot == SafeSpec => Slot!SafeSpec
<1>1. Init => Slot!Init
  BY DEF Init, Slot!Init
<1> QED
  BY <1>1, SlotStep, SafeInv, PTL DEF SafeSpec, Slot!SafeSpec


=============================================================================
