-------------------------- MODULE MultiClusterProofs --------------------------
(***************************************************************************)
(* For any number of calls and clusters: a session does not come back after  *)
(* a Logout or a purge, a Login is seen by later calls, and purges take only *)
(* what has expired.                                                        *)
(*                                                                         *)
(* The invariants say of the map what LoggedOutStaysOut says of reports:     *)
(* from its critical section on, a Logout keeps out every session that is    *)
(* named after a Login answered before it arrived. Such a Login has had its  *)
(* critical section, so it cannot bring its session back.                   *)
(***************************************************************************)
EXTENDS MultiCluster, TLAPS

TypeInv ==
    /\ pc \in [Calls -> {"idle", "arrived", "refused", "stamped", "worked", "answered"}]
    /\ op \in [Calls -> Operations] /\ host \in [Calls -> Hosts]
    /\ stamp \in [Calls -> Nat] /\ clock \in Nat
    /\ sessions \subseteq Session
    /\ found \in [Calls -> SUBSET Session]
    /\ before \in [Calls -> SUBSET Calls]

\* No stamp is of the future.
StampInv == \A c \in Calls : stamp[c] <= clock

\* The calls that were answered before another are.
BeforeInv == \A c \in Calls : before[c] \subseteq Answered

\* A call reports nothing before it has worked.
FoundInv == \A c \in Calls : pc[c] \in {"idle", "arrived", "stamped"} => found[c] = {}

LogoutDone(k, h) ==
    op[k] = "logout" /\ pc[k] \in {"worked", "answered"} /\ Covers(k, h)

MapInv ==
    \A s \in sessions : \A k \in Calls : LogoutDone(k, s.host) => s.by \notin before[k]

IndInv == TypeInv /\ StampInv /\ BeforeInv /\ FoundInv /\ MapInv /\ LoggedOutStaysOut

LEMMA InitInv == Init => IndInv
<1> SUFFICES ASSUME Init PROVE IndInv
  OBVIOUS
<1>1. TypeInv
  BY DEF Init, TypeInv
<1>2. StampInv /\ BeforeInv /\ FoundInv /\ MapInv /\ LoggedOutStaysOut
  BY DEF Init, StampInv, BeforeInv, FoundInv, MapInv, LoggedOutStaysOut
<1> QED
  BY <1>1, <1>2 DEF IndInv

LEMMA NextInv == IndInv /\ [Next]_vars => IndInv'
<1> SUFFICES ASSUME IndInv, [Next]_vars PROVE IndInv'
  OBVIOUS
<1> USE DEF IndInv
<1>1. ASSUME NEW c \in Calls, Arrive(c) PROVE IndInv'
  <2>1. TypeInv'
    BY <1>1 DEF Arrive, TypeInv, Session, Answered
  <2>2. StampInv'
    BY <1>1 DEF Arrive, TypeInv, StampInv
  <2>3. BeforeInv'
    BY <1>1 DEF Arrive, TypeInv, BeforeInv, Answered
  <2>4. MapInv'
    BY <1>1 DEF Arrive, TypeInv, MapInv, LogoutDone, Covers, BeforeInv, Answered, Session
  <2>5. LoggedOutStaysOut'
    BY <1>1 DEF Arrive, TypeInv, FoundInv, LoggedOutStaysOut, LogoutsBefore, BeforeInv,
           Answered, MapInv, LogoutDone, Covers, Session
  <2>6. FoundInv'
    BY <1>1 DEF Arrive, TypeInv, FoundInv
  <2> QED
    BY <2>1, <2>2, <2>3, <2>4, <2>5, <2>6
<1>2. ASSUME NEW c \in Calls, CheckHandlerFails(c) PROVE IndInv'
  <2>1. TypeInv'
    BY <1>2 DEF CheckHandlerFails, TypeInv, Session, Answered
  <2>2. StampInv'
    BY <1>2 DEF CheckHandlerFails, TypeInv, StampInv
  <2>3. BeforeInv'
    BY <1>2 DEF CheckHandlerFails, TypeInv, BeforeInv, Answered
  <2>4. MapInv'
    BY <1>2 DEF CheckHandlerFails, TypeInv, MapInv, LogoutDone, Covers, BeforeInv,
           Answered, Session
  <2>5. LoggedOutStaysOut'
    BY <1>2 DEF CheckHandlerFails, TypeInv, LoggedOutStaysOut, LogoutsBefore, BeforeInv,
           Answered, MapInv, LogoutDone, Covers, Session
  <2>6. FoundInv'
    BY <1>2 DEF CheckHandlerFails, TypeInv, FoundInv
  <2> QED
    BY <2>1, <2>2, <2>3, <2>4, <2>5, <2>6
<1>3. ASSUME NEW c \in Calls, ReadClock(c) PROVE IndInv'
  <2>1. TypeInv'
    BY <1>3 DEF ReadClock, TypeInv, Session, Answered
  <2>2. StampInv'
    BY <1>3 DEF ReadClock, TypeInv, StampInv
  <2>3. BeforeInv'
    BY <1>3 DEF ReadClock, TypeInv, BeforeInv, Answered
  <2>4. MapInv'
    BY <1>3 DEF ReadClock, TypeInv, MapInv, LogoutDone, Covers, BeforeInv, Answered,
           Session
  <2>5. LoggedOutStaysOut'
    BY <1>3 DEF ReadClock, TypeInv, LoggedOutStaysOut, LogoutsBefore, BeforeInv,
           Answered, MapInv, LogoutDone, Covers, Session
  <2>6. FoundInv'
    BY <1>3 DEF ReadClock, TypeInv, FoundInv
  <2> QED
    BY <2>1, <2>2, <2>3, <2>4, <2>5, <2>6
<1>4. ASSUME NEW c \in Calls, Answer(c) PROVE IndInv'
  <2>1. TypeInv'
    BY <1>4 DEF Answer, TypeInv, Session, Answered
  <2>2. StampInv'
    BY <1>4 DEF Answer, TypeInv, StampInv
  <2>3. BeforeInv'
    BY <1>4 DEF Answer, TypeInv, BeforeInv, Answered
  <2>4. MapInv'
    BY <1>4 DEF Answer, TypeInv, MapInv, LogoutDone, Covers, BeforeInv, Answered, Session
  <2>5. LoggedOutStaysOut'
    BY <1>4 DEF Answer, TypeInv, LoggedOutStaysOut, LogoutsBefore, BeforeInv, Answered,
           MapInv, LogoutDone, Covers, Session
  <2>6. FoundInv'
    BY <1>4 DEF Answer, TypeInv, FoundInv
  <2> QED
    BY <2>1, <2>2, <2>3, <2>4, <2>5, <2>6
<1>5. ASSUME NEW c \in Calls, Login(c) PROVE IndInv'
  <2>1. TypeInv'
    BY <1>5, ClusterAssumption DEF Login, Stored, TypeInv, Session, Answered
  <2>2. StampInv'
    BY <1>5 DEF Login, Stored, TypeInv, StampInv
  <2>3. BeforeInv'
    BY <1>5 DEF Login, Stored, TypeInv, BeforeInv, Answered
  <2>4. MapInv'
    BY <1>5 DEF Login, Stored, TypeInv, MapInv, LogoutDone, Covers, BeforeInv, Answered,
           Session
  <2>5. LoggedOutStaysOut'
    BY <1>5 DEF Login, Stored, TypeInv, LoggedOutStaysOut, LogoutsBefore, BeforeInv,
           Answered, MapInv, LogoutDone, Covers, Session
  <2>6. FoundInv'
    BY <1>5 DEF Login, Stored, TypeInv, FoundInv
  <2> QED
    BY <2>1, <2>2, <2>3, <2>4, <2>5, <2>6
<1>6. ASSUME NEW c \in Calls, Logout(c) PROVE IndInv'
  <2>1. TypeInv'
    BY <1>6 DEF Logout, TypeInv, Session, Answered
  <2>2. StampInv'
    BY <1>6 DEF Logout, TypeInv, StampInv
  <2>3. BeforeInv'
    BY <1>6 DEF Logout, TypeInv, BeforeInv, Answered
  <2>4. MapInv'
    <3>1. \A s \in sessions' : s \in sessions /\ ~Covers(c, s.host)
      BY <1>6 DEF Logout
    <3>2. \A s \in sessions', k \in Calls : LogoutDone(k,
           s.host)' => k # c /\ LogoutDone(k, s.host)
      BY <1>6, <3>1 DEF Logout, TypeInv, LogoutDone, Covers
    <3>3. before' = before
      BY <1>6 DEF Logout
    <3> QED
      BY <3>1, <3>2, <3>3 DEF MapInv
  <2>5. LoggedOutStaysOut'
    BY <1>6 DEF Logout, TypeInv, LoggedOutStaysOut, LogoutsBefore, BeforeInv, Answered,
           MapInv, LogoutDone, Covers, Session
  <2>6. FoundInv'
    BY <1>6 DEF Logout, TypeInv, FoundInv
  <2> QED
    BY <2>1, <2>2, <2>3, <2>4, <2>5, <2>6
<1>7. ASSUME NEW c \in Calls, Read(c) PROVE IndInv'
  <2>1. TypeInv'
    BY <1>7 DEF Read, TypeInv, Session, Answered
  <2>2. StampInv'
    BY <1>7 DEF Read, TypeInv, StampInv
  <2>3. BeforeInv'
    BY <1>7 DEF Read, TypeInv, BeforeInv, Answered
  <2>4. MapInv'
    <3>1. sessions' = sessions /\ before' = before
      BY <1>7 DEF Read
    <3>2. \A s \in sessions, k \in Calls : LogoutDone(k, s.host)' => LogoutDone(k, s.host)
      BY <1>7 DEF Read, TypeInv, LogoutDone, Covers, Readers
    <3> QED
      BY <3>1, <3>2 DEF MapInv
  <2>5. LoggedOutStaysOut'
    BY <1>7 DEF Read, TypeInv, LoggedOutStaysOut, LogoutsBefore, BeforeInv, Answered,
           MapInv, LogoutDone, Covers, Session
  <2>6. FoundInv'
    BY <1>7 DEF Read, TypeInv, FoundInv
  <2> QED
    BY <2>1, <2>2, <2>3, <2>4, <2>5, <2>6
<1>8. ASSUME NEW c \in Calls, Purge(c) PROVE IndInv'
  <2>1. TypeInv'
    BY <1>8 DEF Purge, TypeInv, Session, Answered
  <2>2. StampInv'
    BY <1>8 DEF Purge, TypeInv, StampInv
  <2>3. BeforeInv'
    BY <1>8 DEF Purge, TypeInv, BeforeInv, Answered
  <2>4. MapInv'
    BY <1>8 DEF Purge, TypeInv, MapInv, LogoutDone, Covers, BeforeInv, Answered, Session
  <2>5. LoggedOutStaysOut'
    BY <1>8 DEF Purge, TypeInv, LoggedOutStaysOut, LogoutsBefore, BeforeInv, Answered,
           MapInv, LogoutDone, Covers, Session
  <2>6. FoundInv'
    BY <1>8 DEF Purge, TypeInv, FoundInv
  <2> QED
    BY <2>1, <2>2, <2>3, <2>4, <2>5, <2>6
<1>9. CASE Tick
  BY <1>9 DEF Tick, TypeInv, StampInv, BeforeInv, Answered, FoundInv, MapInv, LogoutDone,
         Covers,
              LoggedOutStaysOut, LogoutsBefore
<1>10. CASE UNCHANGED vars
  BY <1>10 DEF vars, TypeInv, StampInv, BeforeInv, Answered, FoundInv, MapInv,
         LogoutDone, Covers,
               LoggedOutStaysOut, LogoutsBefore
<1> QED
  BY <1>1, <1>2, <1>3, <1>4, <1>5, <1>6, <1>7, <1>8, <1>9, <1>10 DEF Next

LEMMA Invariant == Spec => []IndInv
  BY InitInv, NextInv, PTL DEF Spec

\* Every variable keeps its type, and whatever Logins overlap there is one session
\* of a cluster at most.
THEOREM TypeCorrect == Spec => []TypeOK
<1> DEFINE OneEach == \A s, t \in sessions : s.host = t.host => s = t
           Inv == IndInv /\ OneEach /\ clock \in 0 .. MaxTime
<1>1. Init => OneEach /\ clock \in 0 .. MaxTime
  BY ClusterAssumption DEF Init
<1>2. Inv /\ IndInv' /\ [Next]_vars => Inv'
  <2> SUFFICES ASSUME Inv, IndInv', [Next]_vars PROVE OneEach' /\ (clock \in 0 .. MaxTime)'
    OBVIOUS
  <2>1. ASSUME NEW c \in Calls, Login(c) PROVE OneEach'
    BY <2>1 DEF Login, Stored
  <2>2. ASSUME NEW c \in Calls, Logout(c) \/ Purge(c) PROVE OneEach'
    BY <2>2 DEF Logout, Purge
  <2>3. ASSUME UNCHANGED sessions PROVE OneEach'
    BY <2>3
  <2>4. OneEach'
    BY <2>1, <2>2, <2>3
    DEF Next, vars, Arrive, CheckHandlerFails, ReadClock, Read, Answer, Tick
  <2>5. (clock \in 0 .. MaxTime)'
    BY ClusterAssumption DEF Next, vars, Arrive, CheckHandlerFails, ReadClock, Login,
       Logout, Read, Purge, Answer, Tick
  <2> QED
    BY <2>4, <2>5
<1>3. Inv => TypeOK
  BY DEF IndInv, TypeInv, StampInv, TypeOK
<1> HIDE DEF OneEach
<1> QED
  BY <1>1, <1>2, <1>3, Invariant, PTL DEF Spec

\* A session that was there when a Logout of its cluster began is reported by no
\* call that begins after it, for any number of calls of any kind at once.
THEOREM LogoutIsFinal == Spec => []LoggedOutStaysOut
  BY Invariant, PTL DEF IndInv

\* A purge, which read the clock before it took the lock, removes only sessions
\* that have expired, and nothing else removes a session of a cluster but a
\* Logout that covers it and a Login of it.
THEOREM PurgeSparesTheLiving == Spec => OnlyExpiredPurged
<1> DEFINE removed(s) ==
             \/ s.expires < clock
             \/ \E c \in Calls : /\ pc[c] # pc'[c]
                                 /\ \/ op[c] = "logout" /\ host[c] \in {Default, s.host}
                                    \/ op[c] = "login" /\ host[c] = s.host
<1>1. IndInv /\ [Next]_vars => \A s \in sessions \ sessions' : removed(s)
  <2> SUFFICES ASSUME IndInv, [Next]_vars, NEW s \in sessions, s \notin sessions'
               PROVE  removed(s)
    OBVIOUS
  <2>1. ASSUME NEW c \in Calls, Login(c) PROVE removed(s)
    BY <2>1 DEF Login, Stored, IndInv, TypeInv
  <2>2. ASSUME NEW c \in Calls, Logout(c) PROVE removed(s)
    BY <2>2 DEF Logout, Covers, IndInv, TypeInv
  <2>3. ASSUME NEW c \in Calls, Purge(c) PROVE removed(s)
    <3>1. stamp[c] > s.expires /\ stamp[c] <= clock
      BY <2>3 DEF Purge, Over, IndInv, StampInv
    <3>2. s.expires \in Nat /\ stamp[c] \in Nat /\ clock \in Nat
      BY DEF IndInv, TypeInv, Session
    <3> QED
      BY <3>1, <3>2
  <2> QED
    BY <2>1, <2>2, <2>3
    DEF Next, vars, Arrive, CheckHandlerFails, ReadClock, Read, Answer, Tick
<1>2. IndInv /\ [Next]_vars
        => [\A s \in sessions \ sessions' : removed(s)]_vars
  BY <1>1
<1> QED
  BY <1>2, Invariant, PTL DEF Spec, OnlyExpiredPurged

-----------------------------------------------------------------------------
(***************************************************************************)
(* Purges and Logins                                                       *)
(***************************************************************************)

HasWorked(k, kind) == op[k] = kind /\ pc[k] \in {"worked", "answered"}

\* A purge has left nothing in the map that had expired before it began.
PurgeInv ==
    \A s \in sessions : \A k \in Calls :
        HasWorked(k, "purge") /\ s.by \in before[k] => stamp[k] <= s.expires

\* A call that may take the sessions of h away has begun.
Endangered(h) ==
    \E k \in Calls : /\ pc[k] # "idle"
                     /\ \/ op[k] = "purge"
                        \/ op[k] = "logout" /\ host[k] \in {Default, h}

\* After a Login its cluster has a session, of that Login or of one that was not
\* over when it began, as long as nothing may have taken it away.
SeenInv ==
    \A h \in Hosts : Endangered(h) \/
        \A k \in Calls : HasWorked(k, "login") /\ host[k] = h =>
            \E s \in sessions : s.host = h /\ s.by \notin before[k]

ReportInv == PurgeInv /\ SeenInv /\ PurgedStaysGone /\ LoginIsSeen

\* Only an arrival changes what was over before a call, and only for that call,
\* which has done nothing yet.
LEMMA ReportNext == IndInv /\ ReportInv /\ [Next]_vars => ReportInv'
<1> SUFFICES ASSUME IndInv, ReportInv, [Next]_vars PROVE ReportInv'
  OBVIOUS
<1> USE DEF IndInv, ReportInv
<1>1. ASSUME NEW c \in Calls, Arrive(c) PROVE ReportInv'
  <2>1. PurgeInv'
    BY <1>1 DEF Arrive, TypeInv, PurgeInv, HasWorked, BeforeInv, Answered, Session
  <2>2. SeenInv'
    BY <1>1 DEF Arrive, TypeInv, SeenInv, HasWorked, Endangered, BeforeInv,
       Answered, Session
  <2>3. PurgedStaysGone'
    BY <1>1 DEF Arrive, TypeInv, PurgedStaysGone, PurgeInv, HasWorked, FoundInv,
       BeforeInv, Answered, Session
  <2>4. LoginIsSeen'
    BY <1>1 DEF Arrive, TypeInv, LoginIsSeen, DoneBefore, SeenInv, HasWorked,
       Endangered, BeforeInv, Answered
  <2> QED
    BY <2>1, <2>2, <2>3, <2>4
<1>2. ASSUME NEW c \in Calls, CheckHandlerFails(c) \/ ReadClock(c) \/ Answer(c)
      PROVE  ReportInv'
  <2>1. PurgeInv'
    BY <1>2 DEF CheckHandlerFails, ReadClock, Answer, TypeInv, PurgeInv, HasWorked, BeforeInv,
       Answered, Session
  <2>2. SeenInv'
    BY <1>2 DEF CheckHandlerFails, ReadClock, Answer, TypeInv, SeenInv, HasWorked, Endangered,
       BeforeInv, Answered, Session
  <2>3. PurgedStaysGone'
    BY <1>2 DEF CheckHandlerFails, ReadClock, Answer, TypeInv, PurgedStaysGone, PurgeInv, HasWorked,
       FoundInv, BeforeInv, Answered, Session
  <2>4. LoginIsSeen'
    BY <1>2 DEF CheckHandlerFails, ReadClock, Answer, TypeInv, LoginIsSeen, DoneBefore, SeenInv,
       HasWorked, Endangered, BeforeInv, Answered
  <2> QED
    BY <2>1, <2>2, <2>3, <2>4
<1>3. ASSUME NEW c \in Calls, Login(c) PROVE ReportInv'
  <2>1. PurgeInv'
    BY <1>3 DEF Login, Stored, TypeInv, PurgeInv, HasWorked, BeforeInv, Answered,
       Session
  <2>2. SeenInv'
    <3> SUFFICES ASSUME NEW h \in Hosts, ~Endangered(h)',
                        NEW k \in Calls, HasWorked(k, "login")', host'[k] = h
                 PROVE  \E s \in sessions' : s.host = h /\ s.by \notin before'[k]
      BY DEF SeenInv
    <3>1. op' = op /\ host' = host /\ before' = before /\ ~Endangered(h)
      BY <1>3 DEF Login, Endangered, TypeInv
    <3>2. CASE host[c] = h
      <4> DEFINE t == [host |-> h, by |-> c, expires |-> stamp[c] + Lifetime]
      <4>1. t \in sessions'
        BY <1>3, <3>2 DEF Login, Stored
      <4>2. c \notin before[k]
        BY <1>3 DEF Login, BeforeInv, Answered
      <4> QED
        BY <3>1, <4>1, <4>2
    <3>3. CASE host[c] # h
      <4>1. HasWorked(k, "login")
        BY <1>3, <3>1, <3>3 DEF Login, HasWorked, TypeInv
      <4>2. PICK s \in sessions : s.host = h /\ s.by \notin before[k]
        BY <3>1, <4>1 DEF SeenInv
      <4>3. s \in sessions'
        BY <1>3, <3>3, <4>2 DEF Login, Stored
      <4> QED
        BY <3>1, <4>2, <4>3
    <3> QED
      BY <3>2, <3>3
  <2>3. PurgedStaysGone'
    BY <1>3 DEF Login, Stored, TypeInv, PurgedStaysGone, PurgeInv, HasWorked,
       FoundInv, BeforeInv, Answered, Session
  <2>4. LoginIsSeen'
    BY <1>3 DEF Login, Stored, TypeInv, LoginIsSeen, DoneBefore, SeenInv, HasWorked,
       Endangered, BeforeInv, Answered
  <2> QED
    BY <2>1, <2>2, <2>3, <2>4
<1>4. ASSUME NEW c \in Calls, Logout(c) PROVE ReportInv'
  <2>1. PurgeInv'
    BY <1>4 DEF Logout, Covers, TypeInv, PurgeInv, HasWorked, BeforeInv, Answered,
       Session
  <2>2. SeenInv'
    BY <1>4 DEF Logout, Covers, TypeInv, SeenInv, HasWorked, Endangered, BeforeInv,
       Answered, Session
  <2>3. PurgedStaysGone'
    BY <1>4 DEF Logout, Covers, TypeInv, PurgedStaysGone, PurgeInv, HasWorked,
       FoundInv, BeforeInv, Answered, Session
  <2>4. LoginIsSeen'
    BY <1>4 DEF Logout, Covers, TypeInv, LoginIsSeen, DoneBefore, SeenInv,
       HasWorked, Endangered, BeforeInv, Answered
  <2> QED
    BY <2>1, <2>2, <2>3, <2>4
<1>5. ASSUME NEW c \in Calls, Read(c) PROVE ReportInv'
  <2>1. PurgeInv'
    BY <1>5 DEF Read, Readers, TypeInv, PurgeInv, HasWorked, BeforeInv, Answered,
       Session
  <2>2. SeenInv'
    BY <1>5 DEF Read, Readers, TypeInv, SeenInv, HasWorked, Endangered, BeforeInv,
       Answered, Session
  <2>3. PurgedStaysGone'
    BY <1>5 DEF Read, Readers, TypeInv, PurgedStaysGone, PurgeInv, HasWorked,
       FoundInv, BeforeInv, Answered, Session
  <2>4. LoginIsSeen'
    BY <1>5 DEF Read, Readers, TypeInv, LoginIsSeen, DoneBefore, SeenInv, HasWorked,
       Endangered, BeforeInv, Answered
  <2> QED
    BY <2>1, <2>2, <2>3, <2>4
<1>6. ASSUME NEW c \in Calls, Purge(c) PROVE ReportInv'
  <2>1. PurgeInv'
    BY <1>6 DEF Purge, Over, TypeInv, PurgeInv, HasWorked, BeforeInv, Answered,
       Session
  <2>2. SeenInv'
    BY <1>6 DEF Purge, Over, TypeInv, SeenInv, HasWorked, Endangered, BeforeInv,
       Answered, Session
  <2>3. PurgedStaysGone'
    BY <1>6 DEF Purge, Over, TypeInv, PurgedStaysGone, PurgeInv, HasWorked,
       FoundInv, BeforeInv, Answered, Session
  <2>4. LoginIsSeen'
    BY <1>6 DEF Purge, Over, TypeInv, LoginIsSeen, DoneBefore, SeenInv, HasWorked,
       Endangered, BeforeInv, Answered
  <2> QED
    BY <2>1, <2>2, <2>3, <2>4
<1>7. CASE Tick \/ UNCHANGED vars
  BY <1>7 DEF Tick, vars, PurgeInv, SeenInv, PurgedStaysGone, LoginIsSeen, HasWorked,
     Endangered, DoneBefore
<1> QED
  BY <1>1, <1>2, <1>3, <1>4, <1>5, <1>6, <1>7 DEF Next

LEMMA ReportInvariant == Spec => []ReportInv
<1>1. Init => ReportInv
  BY DEF Init, ReportInv, PurgeInv, SeenInv, PurgedStaysGone, LoginIsSeen, HasWorked,
     DoneBefore
<1> QED
  BY <1>1, ReportNext, Invariant, PTL DEF Spec

\* What had expired before a purge began is reported by no call that begins after
\* it, whatever Logins overlap the purge.
THEOREM PurgeIsFinal == Spec => []PurgedStaysGone
  BY ReportInvariant, PTL DEF ReportInv

\* A Login that is answered is seen by every later call for its cluster, until a
\* Logout that covers the cluster or a purge begins.
THEOREM LoginIsVisible == Spec => []LoginIsSeen
  BY ReportInvariant, PTL DEF ReportInv

=============================================================================
