------------------------------ MODULE StaticAuth ------------------------------
(***************************************************************************)
(* The static auth example (examples/staticauth/main.go): an auth handler    *)
(* that keeps whether somebody is logged in, and the claims, in two fields  *)
(* without a lock, while the host makes calls concurrently.                 *)
(*                                                                         *)
(* The accesses of a call to the two fields race those of other calls; both *)
(* fields are one word. The compiler may put accesses to different fields   *)
(* in any order, so a call has a set of them to do.                         *)
(***************************************************************************)
EXTENDS AuthMessages

CONSTANT Calls      \* the calls of the host

Writers == {"Login", "Logout"}

\* ConfigureAuthHandler, PurgeExpiredTokens, ..., which keep no state.
Operations == Writers \cup {"GetStatus", "GetToken", "other"}

VARIABLES
    pc,         \* pc[c]: "idle", "working", "answered", "refused"
    op,         \* op[c]: what call c is
    todo,       \* todo[c]: the accesses call c has not done
    loggedIn,
    claims,
    read,       \* read[c]: what call c has read
    reply,      \* reply[c]: what the host is told
    before      \* history: before[c], the calls that were over when c arrived

vars == <<pc, op, todo, loggedIn, claims, read, reply, before>>

\* A time is the call that read it and the hours added to it.
Now(c) == <<c, 0>>
InAnHour(c) == <<c, 1>>

ClaimsOf(c) == [issuedAt |-> Now(c), expiresAt |-> NoTime]

\* Nil is no claims and no message, and the zero time none that is read.
ASSUME NilAssumption ==
    \A c \in Calls :
        /\ Now(c) # NoTime /\ InAnHour(c) # NoTime
        /\ ClaimsOf(c) # Nil /\ ClaimsToProto(ClaimsOf(c)) # Nil
        /\ TokenResponseToProto([expiresAt |-> InAnHour(c), cachedAt |-> NoTime]) # Nil

Init ==
    /\ pc = [c \in Calls |-> "idle"]
    /\ op = [c \in Calls |-> "other"]
    /\ todo = [c \in Calls |-> {}]
    /\ loggedIn = FALSE
    /\ claims = Nil
    /\ read = [c \in Calls |-> [loggedIn |-> FALSE, claims |-> Nil]]
    /\ reply = [c \in Calls |-> Nil]
    /\ before = [c \in Calls |-> {}]

\* Mutant: Logout keeps the claims.
AccessesForgetful(o) ==
    CASE o = "Login" -> {"writeClaims", "writeLoggedIn", "readClaims"}
      [] o = "Logout" -> {"writeLoggedIn"}
      [] o = "GetStatus" -> {"readLoggedIn", "readClaims"}
      [] o = "GetToken" -> {"readLoggedIn"}
      [] OTHER -> {}

\* Login reads back the claims it has written.
Accesses(o) ==
    CASE o = "Login" -> {"writeClaims", "writeLoggedIn", "readClaims"}
      [] o = "Logout" -> {"writeClaims", "writeLoggedIn"}
      [] o = "GetStatus" -> {"readLoggedIn", "readClaims"}
      [] o = "GetToken" -> {"readLoggedIn"}
      [] OTHER -> {}

Arrive(c, o) ==
    /\ pc[c] = "idle"
    /\ op' = [op EXCEPT ![c] = o]
    /\ before' = [before EXCEPT ![c] = {k \in Calls : pc[k] = "answered"}]
    /\ \/ /\ pc' = [pc EXCEPT ![c] = "working"]
          /\ todo' = [todo EXCEPT ![c] = Accesses(o)]
       \/ \* It names another handler.
          /\ pc' = [pc EXCEPT ![c] = "refused"]
          /\ UNCHANGED todo
    /\ UNCHANGED <<loggedIn, claims, read, reply>>

\* Call c does one of its accesses.
Access(c, a) ==
    /\ a \in todo[c]
    /\ todo' = [todo EXCEPT ![c] = @ \ {a}]
    /\ UNCHANGED <<pc, op, reply, before>>

WriteClaims(c) ==
    /\ Access(c, "writeClaims")
    /\ claims' = IF op[c] = "Login" THEN ClaimsOf(c) ELSE Nil
    /\ UNCHANGED <<loggedIn, read>>

WriteLoggedIn(c) ==
    /\ Access(c, "writeLoggedIn")
    /\ loggedIn' = (op[c] = "Login")
    /\ UNCHANGED <<claims, read>>

ReadClaims(c) ==
    /\ "writeClaims" \notin todo[c]
    /\ Access(c, "readClaims")
    /\ read' = [read EXCEPT ![c].claims = claims]
    /\ UNCHANGED <<loggedIn, claims>>

ReadLoggedIn(c) ==
    /\ Access(c, "readLoggedIn")
    /\ read' = [read EXCEPT ![c].loggedIn = loggedIn]
    /\ UNCHANGED <<loggedIn, claims>>

LoginReply(c) ==
    LoginResultToProto([claims |-> read[c].claims, expiresAt |-> InAnHour(c)])

StatusReply(c) ==
    StatusToProto([authenticated |-> read[c].loggedIn, claims |-> read[c].claims,
                   expiresAt |-> NoTime, lastRefresh |-> NoTime])

TokenReply(c) == TokenResponseToProto([expiresAt |-> InAnHour(c), cachedAt |-> NoTime])

\* The reply of a call that gives none, and of GetToken when nobody is logged
\* in, an error, is Nil.
Answer(c) ==
    /\ pc[c] = "working"
    /\ todo[c] = {}
    /\ pc' = [pc EXCEPT ![c] = "answered"]
    /\ reply' = [reply EXCEPT ![c] =
                    CASE op[c] = "Login" -> LoginReply(c)
                      [] op[c] = "GetStatus" -> StatusReply(c)
                      [] op[c] = "GetToken" /\ read[c].loggedIn -> TokenReply(c)
                      [] OTHER -> Nil]
    /\ UNCHANGED <<op, todo, loggedIn, claims, read, before>>

Next ==
    \E c \in Calls :
        \/ \E o \in Operations : Arrive(c, o)
        \/ WriteClaims(c) \/ WriteLoggedIn(c) \/ ReadClaims(c) \/ ReadLoggedIn(c)
        \/ Answer(c)

Spec == Init /\ [][Next]_vars

-----------------------------------------------------------------------------
(***************************************************************************)
(* Properties                                                              *)
(***************************************************************************)

Answered(o) == {c \in Calls : pc[c] = "answered" /\ op[c] = o}

WritersIn(S) == {w \in S : op[w] \in Writers /\ pc[w] \in {"working", "answered"}}

\* The Logins and Logouts that were over when c arrived and that no other such
\* call followed; those that overlapped c.
LastBefore(c) ==
    {w \in WritersIn(before[c]) : \A v \in WritersIn(before[c]) : w \notin before[v]}
Overlapping(c) ==
    {w \in WritersIn(Calls \ {c}) : w \notin before[c] /\ c \notin before[w]}

\* What a field may hold for call c, if a Login or Logout w writes Val(w).
Possible(c, Val(_), initial) ==
    {Val(w) : w \in LastBefore(c) \cup Overlapping(c)}
        \cup (IF LastBefore(c) = {} THEN {initial} ELSE {})

LoginWins(w) == op[w] = "Login"
ClaimsWritten(w) == IF op[w] = "Login" THEN ClaimsToProto(ClaimsOf(w)) ELSE Nil

\* A call is told what the last Login or Logout before it has written, or one
\* that overlapped it, for each field on its own: a status is authenticated
\* without claims, or the reverse, only if a Login and a Logout raced each other
\* or the status; once they are over and another has followed alone, every
\* answer is of that one (staticauth/main.go:42-92).
FieldsFromLastWriters ==
    /\ \A c \in Answered("GetStatus") :
          /\ reply[c].authenticated \in Possible(c, LoginWins, FALSE)
          /\ reply[c].claims \in Possible(c, ClaimsWritten, Nil)
    /\ \A c \in Answered("GetToken") : (reply[c] # Nil) \in Possible(c, LoginWins, FALSE)
    /\ \A c \in Answered("Login") :
          reply[c].claims \in {ClaimsWritten(w) : w \in {c} \cup Overlapping(c)}

=============================================================================
