---------------------------- MODULE StaticAuthProofs ----------------------------
(***************************************************************************)
(* Proofs about StaticAuth, for any set of calls.                           *)
(*                                                                         *)
(* A field holds what some Login or Logout wrote that was not over when any *)
(* other that has written the field arrived. So whoever reads it, at any    *)
(* time, reads the last such call before it or one that overlaps it; and    *)
(* which calls these are does not change any more (WindowsStable).         *)
(***************************************************************************)
EXTENDS StaticAuth, TLAPS

AccessNames == {"writeClaims", "writeLoggedIn", "readClaims", "readLoggedIn"}
Live == {"working", "answered"}

\* What w writes to claims, if it is a Login or Logout.
RawClaims(w) == IF op[w] = "Login" THEN ClaimsOf(w) ELSE Nil

TypeInv ==
    /\ pc \in [Calls -> {"idle", "working", "answered", "refused"}]
    /\ op \in [Calls -> Operations]
    /\ todo \in [Calls -> SUBSET AccessNames]
    /\ loggedIn \in BOOLEAN
    /\ claims \in {Nil} \cup {ClaimsOf(w) : w \in Calls}
    /\ read \in [Calls -> [loggedIn : BOOLEAN,
                           claims : {Nil} \cup {ClaimsOf(w) : w \in Calls}]]
    /\ reply = [c \in Calls |-> reply[c]]
    /\ before \in [Calls -> SUBSET Calls]

\* Accesses are left only to calls at work; what was over before a call is over.
PathInv ==
    \A c \in Calls :
        /\ todo[c] \subseteq Accesses(op[c])
        /\ pc[c] # "working" => todo[c] = {}
        /\ before[c] \subseteq {k \in Calls : pc[k] = "answered"}

\* Call w has made the write a.
Wrote(w, a) == op[w] \in Writers /\ pc[w] \in Live /\ a \notin todo[w]

\* No call that has made the write a came after w, which has; nobody has made it.
Latest(a, w) == Wrote(w, a) /\ \A v \in Calls : Wrote(v, a) => w \notin before[v]
NoneWrote(a) == \A v \in Calls : ~Wrote(v, a)

LoggedInInv ==
    \/ loggedIn = FALSE /\ NoneWrote("writeLoggedIn")
    \/ \E w \in Calls : loggedIn = LoginWins(w) /\ Latest("writeLoggedIn", w)

ClaimsInv ==
    \/ claims = Nil /\ NoneWrote("writeClaims")
    \/ \E w \in Calls : claims = RawClaims(w) /\ Latest("writeClaims", w)

FieldInv == LoggedInInv /\ ClaimsInv

\* The calls whose writes c may see.
Window(c) == LastBefore(c) \cup Overlapping(c)

\* A value of a field that call c may have read, in a status or token, and the
\* claims that a Login may.
SeenLoggedIn(c, v) ==
    \/ v = FALSE /\ LastBefore(c) = {}
    \/ \E w \in Window(c) : v = LoginWins(w)

SeenClaims(c, v) ==
    \/ v = Nil /\ LastBefore(c) = {}
    \/ \E w \in Window(c) : v = RawClaims(w)

SeenInLogin(c, v) == \E w \in {c} \cup Overlapping(c) : v = RawClaims(w)

\* What a call has read is of its window.
ReadOK(c) ==
    /\ op[c] \in {"GetStatus", "GetToken"} /\ "readLoggedIn" \notin todo[c] =>
          SeenLoggedIn(c, read[c].loggedIn)
    /\ op[c] = "GetStatus" /\ "readClaims" \notin todo[c] => SeenClaims(c, read[c].claims)
    /\ op[c] = "Login" /\ "readClaims" \notin todo[c] => SeenInLogin(c, read[c].claims)

ReadInv == \A c \in Calls : pc[c] \in Live => ReadOK(c)

\* An answer is made of what was read.
ReplyInv ==
    \A c \in Calls :
        /\ c \in Answered("Login") => reply[c] = LoginReply(c)
        /\ c \in Answered("GetStatus") => reply[c] = StatusReply(c)
        /\ c \in Answered("GetToken") =>
              reply[c] = IF read[c].loggedIn THEN TokenReply(c) ELSE Nil

StateInv == TypeInv /\ PathInv /\ FieldInv

IndInv == StateInv /\ ReadInv /\ ReplyInv

-----------------------------------------------------------------------------
(***************************************************************************)
(* Windows                                                                 *)
(***************************************************************************)

LEMMA InLastBefore ==
    ASSUME NEW c \in Calls, NEW w \in Calls, PathInv, TypeInv
    PROVE  w \in LastBefore(c) <=>
              /\ w \in before[c] /\ op[w] \in Writers
              /\ \A v \in before[c] : op[v] \in Writers => w \notin before[v]
  BY DEF LastBefore, WritersIn, PathInv, TypeInv, Live

LEMMA InOverlapping ==
    ASSUME NEW c \in Calls, NEW w \in Calls
    PROVE  w \in Overlapping(c) <=>
              /\ w # c /\ op[w] \in Writers /\ pc[w] \in Live
              /\ w \notin before[c] /\ c \notin before[w]
  BY DEF Overlapping, WritersIn, Live

\* Once a call has arrived, no call leaves its window, and none joins those
\* that were over.
LEMMA WindowsStable ==
    ASSUME StateInv, StateInv', [Next]_vars, NEW c \in Calls, pc[c] \in Live
    PROVE  /\ LastBefore(c)' = LastBefore(c)
           /\ Overlapping(c) \subseteq Overlapping(c)'
           /\ \A w \in Window(c) \cup {c} : op'[w] = op[w]
<1> USE DEF StateInv
<1>1. \A w \in Calls : pc[w] \in Live =>
          pc'[w] \in Live /\ op'[w] = op[w] /\ before'[w] = before[w]
  BY DEF Next, vars, Arrive, Access, WriteClaims, WriteLoggedIn, ReadClaims, ReadLoggedIn,
     Answer, TypeInv, Live
<1>2. \A w \in before[c] : w \in Calls /\ pc[w] \in Live
  BY DEF PathInv, TypeInv, Live
<1>3. \A w \in Calls : w \in LastBefore(c)' <=> w \in LastBefore(c)
  <2>1. ASSUME NEW w \in Calls
        PROVE  w \in LastBefore(c)' <=>
                  /\ w \in before'[c] /\ op'[w] \in Writers
                  /\ \A v \in before'[c] : op'[v] \in Writers => w \notin before'[v]
    BY DEF LastBefore, WritersIn, PathInv, TypeInv, Live
  <2> QED
    BY <1>1, <1>2, <2>1, InLastBefore
<1>4. LastBefore(c)' = LastBefore(c)
  BY <1>3 DEF LastBefore, WritersIn, TypeInv
<1>5. Overlapping(c) \subseteq Overlapping(c)'
  BY <1>1 DEF Overlapping, WritersIn, Live
<1>6. \A w \in Window(c) \cup {c} : w \in Calls /\ pc[w] \in Live
  BY <1>2 DEF Window, LastBefore, Overlapping, WritersIn, Live
<1> QED
  BY <1>1, <1>4, <1>5, <1>6

\* A call at work finds in a field what a call of its window wrote, or what
\* nobody has, and a Login in the claims what it or a call that overlaps wrote.
LEMMA FieldSeen ==
    ASSUME StateInv, NEW c \in Calls, pc[c] = "working"
    PROVE  /\ op[c] \notin Writers => SeenLoggedIn(c, loggedIn) /\ SeenClaims(c, claims)
           /\ op[c] \in Writers /\ "writeClaims" \notin todo[c] => SeenInLogin(c, claims)
<1> USE DEF StateInv
<1>1. \A v \in Calls : c \notin before[v]
  BY DEF PathInv
<1>2. \A v \in before[c] : op[v] \in Writers =>
          v \in Calls /\ Wrote(v, "writeLoggedIn") /\ Wrote(v, "writeClaims")
  BY DEF PathInv, TypeInv, Wrote, Live
<1>3. ASSUME NEW w \in Calls, NEW a \in {"writeLoggedIn", "writeClaims"},
             Latest(a, w), w # c
      PROVE  w \in Window(c)
  BY <1>1, <1>2, <1>3, InLastBefore, InOverlapping DEF Latest, Wrote, Window
<1>4. ASSUME NEW a \in {"writeLoggedIn", "writeClaims"}, NoneWrote(a)
      PROVE  LastBefore(c) = {}
  BY <1>2, <1>4 DEF NoneWrote, LastBefore, WritersIn, TypeInv
<1>5. ASSUME op[c] \notin Writers, NEW w \in Calls, NEW a, Wrote(w, a)
      PROVE  w # c
  BY <1>5 DEF Wrote
<1>6. ASSUME op[c] \in Writers, "writeClaims" \notin todo[c]
      PROVE  SeenInLogin(c, claims)
  <2>1. Wrote(c, "writeClaims")
    BY <1>6 DEF Wrote, Live
  <2>2. PICK w \in Calls : claims = RawClaims(w) /\ Latest("writeClaims", w)
    BY <2>1 DEF FieldInv, LoggedInInv, ClaimsInv, NoneWrote
  <2>3. w = c \/ w \in Overlapping(c)
    BY <1>1, <2>1, <2>2, InOverlapping DEF Latest, Wrote
  <2> QED
    BY <2>2, <2>3 DEF SeenInLogin
<1> QED
  BY <1>3, <1>4, <1>5, <1>6 DEF FieldInv, LoggedInInv, ClaimsInv, Latest, SeenLoggedIn,
     SeenClaims

-----------------------------------------------------------------------------
(***************************************************************************)
(* The invariant                                                           *)
(***************************************************************************)

LEMMA IndInvInit == Init => IndInv
<1> SUFFICES ASSUME Init PROVE IndInv
  OBVIOUS
<1> USE DEF Init
<1>1. TypeInv /\ PathInv
  BY DEF TypeInv, PathInv, Operations, Writers
<1>2. FieldInv /\ ReadInv /\ ReplyInv
  BY DEF FieldInv, LoggedInInv, ClaimsInv, NoneWrote, Wrote, ReadInv, ReplyInv, Answered, Live
<1> QED
  BY <1>1, <1>2 DEF IndInv, StateInv

\* A step that makes no write a, and changes no call that has, keeps what can be
\* said of the field.
Frame(a) ==
    \A v \in Calls : /\ Wrote(v, a)' <=> Wrote(v, a)
                     /\ Wrote(v, a) => op'[v] = op[v] /\ before'[v] = before[v]

LEMMA FieldFrame ==
    /\ LoggedInInv /\ loggedIn' = loggedIn /\ Frame("writeLoggedIn") => LoggedInInv'
    /\ ClaimsInv /\ claims' = claims /\ Frame("writeClaims") => ClaimsInv'
<1>1. ASSUME LoggedInInv, loggedIn' = loggedIn, Frame("writeLoggedIn") PROVE LoggedInInv'
  BY <1>1 DEF LoggedInInv, Frame, Latest, NoneWrote, LoginWins
<1>2. ASSUME ClaimsInv, claims' = claims, Frame("writeClaims") PROVE ClaimsInv'
  BY <1>2 DEF ClaimsInv, Frame, Latest, NoneWrote, RawClaims
<1> QED
  BY <1>1, <1>2

\* The new value of a field is that of the call that writes it.
LEMMA FieldWritten ==
    ASSUME StateInv, NEW c \in Calls, NEW a \in {"writeLoggedIn", "writeClaims"},
           Access(c, a)
    PROVE  Latest(a, c)' /\ op' = op
<1>1. pc[c] = "working" /\ op[c] \in Writers
  BY DEF StateInv, PathInv, Access, Accesses, Writers
<1>2. \A v \in Calls : c \notin before'[v]
  BY <1>1 DEF StateInv, PathInv, Access
<1> QED
  BY <1>1, <1>2 DEF Latest, Wrote, Access, StateInv, TypeInv, Live

\* Every step preserves the first part of the invariant.
LEMMA StateStep == StateInv /\ [Next]_vars => StateInv'
<1> SUFFICES ASSUME StateInv, [Next]_vars PROVE StateInv'
  OBVIOUS
<1> USE DEF StateInv
<1>1. ASSUME NEW c \in Calls, NEW o \in Operations, Arrive(c, o)
      PROVE  StateInv'
  <2>0. /\ Accesses(o) \subseteq AccessNames
        /\ o \in Writers => {"writeLoggedIn", "writeClaims"} \subseteq Accesses(o)
    BY DEF Accesses, AccessNames, Operations, Writers
  <2>1. TypeInv'
    <3>1. todo' \in [Calls -> SUBSET AccessNames]
      BY <1>1, <2>0 DEF Arrive, TypeInv
    <3>2. before' \in [Calls -> SUBSET Calls]
      BY <1>1 DEF Arrive, TypeInv
    <3> QED
      BY <1>1, <3>1, <3>2 DEF Arrive, TypeInv
  <2>2. PathInv'
    BY <1>1 DEF Arrive, TypeInv, PathInv
  <2>3. Frame("writeLoggedIn") /\ Frame("writeClaims")
    BY <1>1, <2>0 DEF Arrive, TypeInv, PathInv, Frame, Wrote, Live
  <2>4. FieldInv'
    BY <1>1, <2>3, FieldFrame DEF Arrive, FieldInv
  <2> QED
    BY <2>1, <2>2, <2>4
<1>2. ASSUME NEW c \in Calls, WriteClaims(c)
      PROVE  StateInv'
  <2>1. TypeInv'
    BY <1>2 DEF WriteClaims, Access, TypeInv, PathInv
  <2>2. PathInv'
    BY <1>2 DEF WriteClaims, Access, TypeInv, PathInv
  <2>3. ClaimsInv'
    BY <1>2, FieldWritten DEF WriteClaims, ClaimsInv, RawClaims
  <2>4. Frame("writeLoggedIn")
    BY <1>2 DEF WriteClaims, Access, TypeInv, PathInv, Frame, Wrote, Live
  <2>5. LoggedInInv'
    BY <1>2, <2>4, FieldFrame DEF WriteClaims, FieldInv
  <2> QED
    BY <2>1, <2>2, <2>3, <2>5 DEF FieldInv
<1>3. ASSUME NEW c \in Calls, WriteLoggedIn(c)
      PROVE  StateInv'
  <2>1. TypeInv'
    BY <1>3 DEF WriteLoggedIn, Access, TypeInv, PathInv
  <2>2. PathInv'
    BY <1>3 DEF WriteLoggedIn, Access, TypeInv, PathInv
  <2>3. LoggedInInv'
    BY <1>3, FieldWritten DEF WriteLoggedIn, LoggedInInv, LoginWins
  <2>4. Frame("writeClaims")
    BY <1>3 DEF WriteLoggedIn, Access, TypeInv, PathInv, Frame, Wrote, Live
  <2>5. ClaimsInv'
    BY <1>3, <2>4, FieldFrame DEF WriteLoggedIn, FieldInv
  <2> QED
    BY <2>1, <2>2, <2>3, <2>5 DEF FieldInv
<1>4. ASSUME NEW c \in Calls, ReadClaims(c)
      PROVE  StateInv'
  <2>1. TypeInv'
    BY <1>4 DEF ReadClaims, Access, TypeInv, PathInv
  <2>2. PathInv'
    BY <1>4 DEF ReadClaims, Access, TypeInv, PathInv
  <2>3. Frame("writeLoggedIn") /\ Frame("writeClaims")
    BY <1>4 DEF ReadClaims, Access, TypeInv, PathInv, Frame, Wrote, Live
  <2>4. FieldInv'
    BY <1>4, <2>3, FieldFrame DEF ReadClaims, Access, FieldInv
  <2> QED
    BY <2>1, <2>2, <2>4
<1>5. ASSUME NEW c \in Calls, ReadLoggedIn(c)
      PROVE  StateInv'
  <2>1. TypeInv'
    BY <1>5 DEF ReadLoggedIn, Access, TypeInv, PathInv
  <2>2. PathInv'
    BY <1>5 DEF ReadLoggedIn, Access, TypeInv, PathInv
  <2>3. Frame("writeLoggedIn") /\ Frame("writeClaims")
    BY <1>5 DEF ReadLoggedIn, Access, TypeInv, PathInv, Frame, Wrote, Live
  <2>4. FieldInv'
    BY <1>5, <2>3, FieldFrame DEF ReadLoggedIn, Access, FieldInv
  <2> QED
    BY <2>1, <2>2, <2>4
<1>6. ASSUME NEW c \in Calls, Answer(c)
      PROVE  StateInv'
  <2>1. TypeInv'
    BY <1>6 DEF Answer, TypeInv, PathInv
  <2>2. PathInv'
    BY <1>6 DEF Answer, TypeInv, PathInv
  <2>3. Frame("writeLoggedIn") /\ Frame("writeClaims")
    BY <1>6 DEF Answer, TypeInv, PathInv, Frame, Wrote, Live
  <2>4. FieldInv'
    BY <1>6, <2>3, FieldFrame DEF Answer, FieldInv
  <2> QED
    BY <2>1, <2>2, <2>4
<1>7. CASE UNCHANGED vars
  BY <1>7 DEF vars, TypeInv, PathInv, FieldInv, LoggedInInv, ClaimsInv, Latest, NoneWrote,
     Wrote, RawClaims, LoginWins
<1> QED
  BY <1>1, <1>2, <1>3, <1>4, <1>5, <1>6, <1>7 DEF Next

\* What a call may have read, it may have read at any later time.
LEMMA SeenStable ==
    ASSUME StateInv, StateInv', [Next]_vars, NEW c \in Calls, pc[c] \in Live, NEW v
    PROVE  /\ SeenLoggedIn(c, v) => SeenLoggedIn(c, v)'
           /\ SeenClaims(c, v) => SeenClaims(c, v)'
           /\ SeenInLogin(c, v) => SeenInLogin(c, v)'
<1>1. Window(c) \subseteq Window(c)'
  BY WindowsStable DEF Window
<1>2. \A w \in Window(c) \cup {c} : LoginWins(w)' = LoginWins(w) /\ RawClaims(w)' = RawClaims(w)
  BY WindowsStable DEF LoginWins, RawClaims, ClaimsOf, Now
<1>3. LastBefore(c)' = LastBefore(c) /\ Overlapping(c) \subseteq Overlapping(c)'
  BY WindowsStable
<1>4. Overlapping(c) \subseteq Window(c)
  BY DEF Window
<1> QED
  BY <1>1, <1>2, <1>3, <1>4 DEF SeenLoggedIn, SeenClaims, SeenInLogin

LEMMA ReadStep == IndInv /\ StateInv' /\ [Next]_vars => ReadInv'
<1> SUFFICES ASSUME IndInv, StateInv', [Next]_vars, NEW c \in Calls, pc'[c] \in Live
             PROVE  ReadOK(c)'
  BY DEF ReadInv, Live
<1> USE DEF IndInv
\* A call that arrives has its reads before it.
<1>1. CASE pc[c] \notin Live
  <2>1. PICK o \in Operations : Arrive(c, o) /\ todo'[c] = Accesses(o) /\ op'[c] = o
    BY <1>1 DEF Next, vars, Arrive, Access, WriteClaims, WriteLoggedIn, ReadClaims,
       ReadLoggedIn, Answer, StateInv, TypeInv, Live
  <2>2. /\ o = "GetStatus" => {"readLoggedIn", "readClaims"} \subseteq Accesses(o)
        /\ o = "GetToken" => "readLoggedIn" \in Accesses(o)
        /\ o = "Login" => "readClaims" \in Accesses(o)
    BY DEF Accesses
  <2> QED
    BY <2>1, <2>2 DEF ReadOK
<1>2. CASE pc[c] \in Live
  <2>1. ReadOK(c) /\ op'[c] = op[c]
    BY <1>2, WindowsStable DEF ReadInv
  <2>2. CASE ReadLoggedIn(c)
    <3>1. /\ op[c] \notin Writers /\ pc[c] = "working"
          /\ read'[c].loggedIn = loggedIn /\ read'[c].claims = read[c].claims
          /\ "readClaims" \in todo'[c] <=> "readClaims" \in todo[c]
      BY <2>2 DEF ReadLoggedIn, Access, StateInv, TypeInv, PathInv, Accesses, Writers
    <3> QED
      BY <1>2, <2>1, <3>1, FieldSeen, SeenStable DEF ReadOK, Writers
  <2>3. CASE ReadClaims(c)
    <3>1. /\ pc[c] = "working" /\ "writeClaims" \notin todo[c]
          /\ read'[c].claims = claims /\ read'[c].loggedIn = read[c].loggedIn
          /\ "readLoggedIn" \in todo'[c] <=> "readLoggedIn" \in todo[c]
      BY <2>3 DEF ReadClaims, Access, StateInv, TypeInv, PathInv
    <3> QED
      BY <1>2, <2>1, <3>1, FieldSeen, SeenStable DEF ReadOK, Writers
  <2>4. CASE ~ReadLoggedIn(c) /\ ~ReadClaims(c)
    <3>1. /\ read'[c] = read[c]
          /\ \A a \in {"readLoggedIn", "readClaims"} : a \in todo'[c] <=> a \in todo[c]
      BY <1>2, <2>4 DEF Next, vars, Arrive, Access, WriteClaims, WriteLoggedIn, ReadClaims,
         ReadLoggedIn, Answer, StateInv, TypeInv, Live
    <3> QED
      BY <1>2, <2>1, <3>1, SeenStable DEF ReadOK
  <2> QED
    BY <2>2, <2>3, <2>4
<1> QED
  BY <1>1, <1>2

LEMMA ReplyStep == IndInv /\ [Next]_vars => ReplyInv'
<1> SUFFICES ASSUME IndInv, [Next]_vars, NEW c \in Calls, pc'[c] = "answered"
             PROVE  /\ op'[c] = "Login" => reply'[c] = LoginReply(c)'
                    /\ op'[c] = "GetStatus" => reply'[c] = StatusReply(c)'
                    /\ op'[c] = "GetToken" =>
                          reply'[c] = IF read'[c].loggedIn THEN TokenReply(c) ELSE Nil
  BY DEF ReplyInv, Answered, TokenReply, InAnHour, TokenResponseToProto, SafeUnix
<1> USE DEF IndInv, StateInv
<1>1. CASE pc[c] = "answered"
  <2>1. /\ op'[c] = op[c] /\ reply'[c] = reply[c] /\ read'[c] = read[c]
    BY <1>1 DEF Next, vars, Arrive, Access, WriteClaims, WriteLoggedIn, ReadClaims,
       ReadLoggedIn, Answer, TypeInv, PathInv
  <2> QED
    BY <1>1, <2>1 DEF ReplyInv, Answered, LoginReply, StatusReply
<1>2. CASE pc[c] # "answered"
  <2>1. Answer(c)
    BY <1>2 DEF Next, vars, Arrive, Access, WriteClaims, WriteLoggedIn, ReadClaims,
       ReadLoggedIn, Answer, TypeInv
  <2>2. /\ op' = op /\ read' = read
        /\ reply'[c] = CASE op[c] = "Login" -> LoginReply(c)
                          [] op[c] = "GetStatus" -> StatusReply(c)
                          [] op[c] = "GetToken" /\ read[c].loggedIn -> TokenReply(c)
                          [] OTHER -> Nil
    BY <2>1 DEF Answer, TypeInv
  <2>3. LoginReply(c)' = LoginReply(c) /\ StatusReply(c)' = StatusReply(c)
    BY <2>2 DEF LoginReply, StatusReply
  <2> QED
    BY <2>2, <2>3
<1> QED
  BY <1>1, <1>2

LEMMA Invariant == Spec => []IndInv
<1>1. IndInv /\ [Next]_vars => IndInv'
  BY StateStep, ReadStep, ReplyStep DEF IndInv
<1> QED
  BY <1>1, IndInvInit, PTL DEF Spec

-----------------------------------------------------------------------------
(***************************************************************************)
(* The properties TLC checks on four calls                                  *)
(***************************************************************************)

\* What an answered call has read, and that it has read it all.
LEMMA AnsweredRead ==
    ASSUME IndInv, NEW c \in Calls, pc[c] = "answered"
    PROVE  ReadOK(c) /\ todo[c] = {} /\ read[c].loggedIn \in BOOLEAN
  BY DEF IndInv, StateInv, TypeInv, PathInv, ReadInv, Live

\* Claims become claims of the message, and none become none.
LEMMA ClaimsConverted ==
    /\ ClaimsToProto(Nil) = Nil
    /\ \A w \in Calls : ClaimsToProto(RawClaims(w)) = ClaimsWritten(w)
    /\ \A w \in Calls : ClaimsToProto(ClaimsOf(w)).expiresAt = <<NoTime>>
<1>1. \A w \in Calls :
          ClaimsToProto(ClaimsOf(w)) = [issuedAt |-> Unix(Now(w)), expiresAt |-> Unix(NoTime)]
  BY NilAssumption DEF ClaimsToProto, ClaimsOf
<1>2. ClaimsToProto(Nil) = Nil
  BY DEF ClaimsToProto
<1>3. ASSUME NEW w \in Calls
      PROVE  ClaimsToProto(RawClaims(w)) = ClaimsWritten(w)
  <2>1. CASE op[w] = "Login"
    BY <2>1 DEF RawClaims, ClaimsWritten
  <2>2. CASE op[w] # "Login"
    BY <1>2, <2>2 DEF RawClaims, ClaimsWritten
  <2> QED
    BY <2>1, <2>2
<1>4. ASSUME NEW w \in Calls
      PROVE  ClaimsToProto(ClaimsOf(w)).expiresAt = <<NoTime>>
  <2>1. ClaimsToProto(ClaimsOf(w)).expiresAt = Unix(NoTime)
    BY <1>1
  <2> QED
    BY <2>1 DEF Unix
<1> QED
  BY <1>2, <1>3, <1>4

\* For any calls at once, each field that a call reports is that of the last Login
\* or Logout before it, or of one that overlapped it.
THEOREM FieldsAreOfLastWriters == Spec => []FieldsFromLastWriters
<1>1. IndInv => FieldsFromLastWriters
  <2> SUFFICES ASSUME IndInv PROVE FieldsFromLastWriters
    OBVIOUS
  <2>1. ASSUME NEW c \in Answered("GetStatus")
        PROVE  /\ reply[c].authenticated \in Possible(c, LoginWins, FALSE)
               /\ reply[c].claims \in Possible(c, ClaimsWritten, Nil)
    <3>1. c \in Calls /\ pc[c] = "answered" /\ op[c] = "GetStatus" /\ reply[c] = StatusReply(c)
      BY DEF Answered, IndInv, ReplyInv
    <3>2. /\ reply[c].authenticated = read[c].loggedIn
          /\ reply[c].claims = ClaimsToProto(read[c].claims)
      BY <3>1 DEF StatusReply, StatusToProto
    <3>3. SeenLoggedIn(c, read[c].loggedIn) /\ SeenClaims(c, read[c].claims)
      BY <3>1, AnsweredRead DEF ReadOK
    <3>4. Window(c) \subseteq Calls
      BY <3>1 DEF Window, LastBefore, Overlapping, WritersIn, IndInv, StateInv, TypeInv
    <3> QED
      BY <3>2, <3>3, <3>4, ClaimsConverted DEF SeenLoggedIn, SeenClaims, Possible, Window
  <2>2. ASSUME NEW c \in Answered("GetToken")
        PROVE  (reply[c] # Nil) \in Possible(c, LoginWins, FALSE)
    <3>1. c \in Calls /\ pc[c] = "answered" /\ op[c] = "GetToken"
      BY DEF Answered
    <3>2. (reply[c] # Nil) = read[c].loggedIn
      BY <3>1, NilAssumption, AnsweredRead DEF IndInv, ReplyInv, Answered, TokenReply
    <3>3. SeenLoggedIn(c, read[c].loggedIn)
      BY <3>1, AnsweredRead DEF ReadOK
    <3> QED
      BY <3>2, <3>3 DEF SeenLoggedIn, Possible, Window
  <2>3. ASSUME NEW c \in Answered("Login")
        PROVE  reply[c].claims \in {ClaimsWritten(w) : w \in {c} \cup Overlapping(c)}
    <3>1. c \in Calls /\ pc[c] = "answered" /\ op[c] = "Login" /\ reply[c] = LoginReply(c)
      BY DEF Answered, IndInv, ReplyInv
    <3>2. reply[c].claims = ClaimsToProto(read[c].claims)
      BY <3>1 DEF LoginReply, LoginResultToProto
    <3>3. PICK w \in {c} \cup Overlapping(c) : read[c].claims = RawClaims(w)
      BY <3>1, AnsweredRead DEF ReadOK, SeenInLogin
    <3>4. w \in Calls
      BY <3>1 DEF Overlapping, WritersIn
    <3> QED
      BY <3>2, <3>3, <3>4, ClaimsConverted
  <2> QED
    BY <2>1, <2>2, <2>3 DEF FieldsFromLastWriters
<1> QED
  BY <1>1, Invariant, PTL

=============================================================================
