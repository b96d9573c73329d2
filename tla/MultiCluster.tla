----------------------------- MODULE MultiCluster -----------------------------
(***************************************************************************)
(* The multicluster example (examples/multicluster/main.go), the repository's *)
(* model of an auth handler with state: one session per cluster, in a map    *)
(* under a mutex, with calls that the host makes concurrently.              *)
(*                                                                         *)
(* A call arrives, may read the clock, does its work in one critical section *)
(* and is answered; these are steps of their own, so that calls overlap in   *)
(* every way. A session is named after the Login that made it; its token     *)
(* depends on the cluster only, and is not in the model.                    *)
(***************************************************************************)
EXTENDS Naturals, FiniteSets

CONSTANTS Calls,      \* the calls of the host
          Hosts,      \* clusters, the default one among them
          Default,    \* the empty hostname
          Lifetime,   \* of a session: one hour
          MaxTime     \* bound on the clock

ASSUME ClusterAssumption ==
    /\ Default \in Hosts
    /\ Lifetime \in Nat /\ MaxTime \in Nat

Stamped == {"login", "purge"}           \* calls that read the clock first
Readers == {"token", "status", "list"}
Operations == Stamped \union Readers \union {"logout"}

VARIABLES
    pc,        \* pc[c]: "idle", "arrived", "stamped", "worked", "answered"
    op,        \* op[c]: what call c is
    host,      \* host[c]: the hostname it names; Default if it has none
    stamp,     \* stamp[c]: the time c has read
    clock,     \* the time
    sessions,  \* the sessions in the map, at most one of a cluster
    found,     \* found[c]: the sessions that call c reports
    before     \* history: before[c], the calls answered when c arrived

vars == <<pc, op, host, stamp, clock, sessions, found, before>>

Session == [host : Hosts, by : Calls, expires : Nat]

Init ==
    /\ pc = [c \in Calls |-> "idle"]
    /\ op \in [Calls -> Operations]
    /\ host \in [Calls -> Hosts]
    /\ \A c \in Calls : op[c] \in {"purge", "list"} => host[c] = Default
    /\ stamp = [c \in Calls |-> 0]
    /\ clock = 0
    /\ sessions = {}
    /\ found = [c \in Calls |-> {}]
    /\ before = [c \in Calls |-> {}]

-----------------------------------------------------------------------------
Answered == {c \in Calls : pc[c] = "answered"}

Arrive(c) ==
    /\ pc[c] = "idle"
    /\ pc' = [pc EXCEPT ![c] = "arrived"]
    /\ before' = [before EXCEPT ![c] = Answered]
    /\ UNCHANGED <<op, host, stamp, clock, sessions, found>>

\* A call for another handler is refused at once; it stays without effect.
CheckHandlerFails(c) ==
    /\ pc[c] = "arrived"
    /\ pc' = [pc EXCEPT ![c] = "refused"]
    /\ UNCHANGED <<op, host, stamp, clock, sessions, found, before>>

\* Login and PurgeExpiredTokens read the time before they take the lock.
ReadClock(c) ==
    /\ pc[c] = "arrived"
    /\ op[c] \in Stamped
    /\ pc' = [pc EXCEPT ![c] = "stamped"]
    /\ stamp' = [stamp EXCEPT ![c] = clock]
    /\ UNCHANGED <<op, host, clock, sessions, found, before>>

\* Mutant: the session is the default cluster's.
StoredAsDefault(c) ==
    {s \in sessions : s.host # Default}
        \union {[host |-> Default, by |-> c, expires |-> stamp[c] + Lifetime]}

Stored(c) ==
    {s \in sessions : s.host # host[c]}
        \union {[host |-> host[c], by |-> c, expires |-> stamp[c] + Lifetime]}

Login(c) ==
    /\ pc[c] = "stamped" /\ op[c] = "login"
    /\ sessions' = Stored(c)
    /\ pc' = [pc EXCEPT ![c] = "worked"]
    /\ UNCHANGED <<op, host, stamp, clock, found, before>>

\* Mutant: without a hostname, Logout clears the default cluster only.
CoversNamed(c, h) == h = host[c]

\* Without a hostname, Logout clears every cluster.
Covers(c, h) == host[c] \in {Default, h}

Logout(c) ==
    /\ pc[c] = "arrived" /\ op[c] = "logout"
    /\ sessions' = {s \in sessions : ~Covers(c, s.host)}
    /\ pc' = [pc EXCEPT ![c] = "worked"]
    /\ UNCHANGED <<op, host, stamp, clock, found, before>>

\* GetToken, GetStatus: the session of the cluster; ListCachedTokens: all.
Read(c) ==
    /\ pc[c] = "arrived" /\ op[c] \in Readers
    /\ found' = [found EXCEPT ![c] =
                    {s \in sessions : op[c] = "list" \/ s.host = host[c]}]
    /\ pc' = [pc EXCEPT ![c] = "worked"]
    /\ UNCHANGED <<op, host, stamp, clock, sessions, before>>

\* Mutants: a session is over at the time it expires; or only when a whole
\* lifetime has passed since.
OverAtExpiry(c, s) == stamp[c] >= s.expires
OverLate(c, s) == stamp[c] > s.expires + Lifetime

Over(c, s) == stamp[c] > s.expires

Purge(c) ==
    /\ pc[c] = "stamped" /\ op[c] = "purge"
    /\ sessions' = {s \in sessions : ~Over(c, s)}
    /\ pc' = [pc EXCEPT ![c] = "worked"]
    /\ UNCHANGED <<op, host, stamp, clock, found, before>>

Answer(c) ==
    /\ pc[c] = "worked"
    /\ pc' = [pc EXCEPT ![c] = "answered"]
    /\ UNCHANGED <<op, host, stamp, clock, sessions, found, before>>

\* Time passes; the machine's clock is monotone.
Tick ==
    /\ clock < MaxTime
    /\ clock' = clock + 1
    /\ UNCHANGED <<pc, op, host, stamp, sessions, found, before>>

Next ==
    \/ Tick
    \/ \E c \in Calls :
          \/ Arrive(c) \/ CheckHandlerFails(c) \/ ReadClock(c) \/ Answer(c)
          \/ Login(c) \/ Logout(c) \/ Read(c) \/ Purge(c)

Spec == Init /\ [][Next]_vars

-----------------------------------------------------------------------------
(***************************************************************************)
(* Properties                                                              *)
(***************************************************************************)

\* Types; sessions is a map, whatever Logins overlap.
TypeOK ==
    /\ pc \in [Calls -> {"idle", "arrived", "refused", "stamped", "worked", "answered"}]
    /\ op \in [Calls -> Operations] /\ host \in [Calls -> Hosts]
    /\ stamp \in [Calls -> 0 .. clock]
    /\ clock \in 0 .. MaxTime
    /\ \A s \in sessions : s \in Session
    /\ \A s, t \in sessions : s.host = t.host => s = t
    /\ \A c \in Calls : \A s \in found[c] : s \in Session
    /\ before \in [Calls -> SUBSET Calls]

\* Calls the host has made that name the cluster h and are over when c arrives.
DoneBefore(c, kind, h) == {k \in before[c] : op[k] = kind /\ host[k] = h}

LogoutsBefore(c, h) == {k \in before[c] : op[k] = "logout" /\ host[k] \in {Default, h}}

\* A session that was there when a Logout of its cluster, or of all, began is
\* not reported by any call that begins after that Logout, whatever other
\* Logins, Logouts and purges overlap.
LoggedOutStaysOut ==
    \A c \in Calls : \A s \in found[c] :
        \A k \in LogoutsBefore(c, s.host) : s.by \notin before[k]

\* A session that had expired before a purge began is not reported after it.
PurgedStaysGone ==
    \A c \in Calls : \A s \in found[c] :
        \A p \in before[c] : op[p] = "purge" /\ s.by \in before[p] => stamp[p] <= s.expires

\* Once a Login of a cluster is answered, and as long as no Logout that covers
\* it and no purge begins, a call for that cluster finds the session of that
\* Login or of a later one or one that overlapped it: Logins and Logouts of
\* other clusters do not touch it.
LoginIsSeen ==
    \A c \in Calls : pc[c] \in {"worked", "answered"} /\ op[c] \in {"token", "status"} =>
        \/ \E k \in Calls : /\ pc[k] # "idle"
                            /\ \/ op[k] = "purge"
                               \/ op[k] = "logout" /\ host[k] \in {Default, host[c]}
        \/ \A l \in DoneBefore(c, "login", host[c]) :
              \E s \in found[c] : s.host = host[c] /\ s.by \notin before[l]

\* A session disappears only in a Logout that covers its cluster, in a Login that
\* replaces it, or when it has expired: a purge, which read the clock earlier,
\* takes no session that is still good.
OnlyExpiredPurged ==
    [][\A s \in sessions \ sessions' :
          \/ s.expires < clock
          \/ \E c \in Calls : /\ pc[c] # pc'[c]
                              /\ \/ op[c] = "logout" /\ host[c] \in {Default, s.host}
                                 \/ op[c] = "login" /\ host[c] = s.host]_vars

=============================================================================
