----------------------------- MODULE StreamProofs -----------------------------
(***************************************************************************)
(* Proofs about the two streams of the plugin, ExecStream and LoginStream,   *)
(* for any goroutines, chunks and prompts and number of them.                *)
(*                                                                         *)
(* The invariant of ExecStream has three parts. LockInv: who is in Send is   *)
(* who holds f.mu, it found no error, and the chunk it sends is the last it  *)
(* was given. CallInv: what the handler has done, and that the goroutines    *)
(* are out of forward once it has left a plugin that waits for them.         *)
(* HandlerInv and CountInv: where in the wire the message of the handler is, *)
(* and that until a Send fails the Results there are as many as those behind *)
(* the goroutines. ChunksInOrder is inductive next to the first two. With    *)
(* them every step is one of ServerStream. LoginStream has invariants of its *)
(* own at the end, LoginInv and LateInv, and implements ServerStream too.    *)
(***************************************************************************)
EXTENDS ExecStream, LoginStream, FiniteSetTheorems, TLAPS

LockInv ==
    \A w \in Workers :
        /\ worker[w] = "sending" <=> mu = w
        /\ worker[w] = "sending" => ~err /\ chunk[w] # {}
        /\ worker[w] # "out" => /\ Len(offered[w]) > 0
                                /\ chunk[w] = offered[w][Len(offered[w])]
        /\ Len(offered[w]) <= MaxChunks

\* An error of the forwarder is of a host that has gone, or of a goroutine left
\* behind.
CallInv ==
    /\ handler = "decode" => \A w \in Workers : worker[w] = "out"
    /\ joins /\ handler \in {"final", "returned"} => \A w \in Workers : worker[w] = "out"
    /\ err => broken \/ (handler = "returned" /\ ~joins)
    /\ handler = "final" => outcome \in {"rejected", "error"}
    /\ handler \in {"decode", "impl"} => outcome = "none"
    /\ handler = "returned" => outcome # "none"
    /\ status = "ok" => handler = "returned"

\* The handler sends one message at most, the last, and one if it has returned
\* OK without the plugin having succeeded.
HandlerInv ==
    /\ \A i \in DOMAIN wire : wire[i].from = Handler =>
          /\ wire[i].kind = "failure" /\ i = Len(wire)
          /\ handler = "returned" /\ outcome # "ok"
    /\ status = "ok" /\ outcome # "ok" => wire # <<>> /\ wire[Len(wire)].from = Handler

\* The Results behind the goroutines.
PastResults ==
    {x \in Workers \X (1..MaxChunks) : x[2] <= Past(x[1]) /\ IsResult(offered[x[1]][x[2]])}

CountInv ==
    /\ IsFiniteSet(PastResults)
    /\ ~err => Cardinality(Results \ OwnResults) = Cardinality(PastResults)

StateInv == TypeOK /\ LockInv /\ CallInv
IndInv == StateInv /\ HandlerInv /\ ChunksInOrder /\ CountInv

-----------------------------------------------------------------------------
(***************************************************************************)
(* Messages and counts                                                     *)
(***************************************************************************)

\* What becomes of a chunk: nothing just if it is empty, a Result just if it is
\* one, and else what is due.
LEMMA MessageIsDue ==
    ASSUME NEW ch \in SUBSET Fields
    PROVE  /\ MessageOf(ch) = {} <=> ch = {}
           /\ ch # {} => MessageOf(ch) = {Due(ch)}
           /\ Due(ch) \in Kinds
           /\ IsResult(ch) <=> ch # {} /\ Due(ch) \in {"result", "failure"}
  BY DEF MessageOf, Due, IsOutput, IsResult, Fields, Kinds

\* The places of something among the first n are finitely many.
LEMMA PlacesFinite ==
    ASSUME NEW n \in Int
    PROVE  /\ IsFiniteSet(1..n)
           /\ \A w : IsFiniteSet(SentBy(w, n)) /\ IsFiniteSet(SendableOf(w, n))
<1>1. IsFiniteSet(1..n)
  BY FS_Interval
<1>2. \A w : SentBy(w, n) \in SUBSET (1..n) /\ SendableOf(w, n) \in SUBSET (1..n)
  BY DEF SentBy, SendableOf
<1> QED
  BY <1>1, <1>2, FS_Subset

\* A place more counts one more.
LEMMA CountOneMore ==
    ASSUME NEW S, IsFiniteSet(S), NEW x, x \notin S
    PROVE  IsFiniteSet(S \cup {x}) /\ Cardinality(S \cup {x}) = Cardinality(S) + 1
  BY FS_AddElement

-----------------------------------------------------------------------------
(***************************************************************************)
(* Types, the mutex and the course of the call                             *)
(***************************************************************************)

\* A message more on the wire is of the type, whoever sends it.
LEMMA WireGrows ==
    ASSUME TypeOK, NEW from \in Workers \cup {Handler}, NEW kind \in Kinds
    PROVE  Append(wire, Message(from, kind)) \in
              Seq([from : Workers \cup {Handler}, kind : Kinds])
<1> DEFINE Messages == [from : Workers \cup {Handler}, kind : Kinds]
<1>1. Message(from, kind) \in Messages
  BY DEF Message
<1>2. wire \in Seq(Messages)
  BY DEF TypeOK
<1> HIDE DEF Messages
<1>3. Append(wire, Message(from, kind)) \in Seq(Messages)
  BY <1>1, <1>2
<1> QED
  BY <1>3 DEF Messages

LEMMA StateInvInit == Init => StateInv
<1> SUFFICES ASSUME Init PROVE StateInv
  OBVIOUS
<1>1. TypeOK
  <2>1. wire \in Seq([from : Workers \cup {Handler}, kind : Kinds])
    BY DEF Init
  <2>2. offered \in [Workers -> Seq(SUBSET Fields)]
    BY DEF Init
  <2> QED
    BY <2>1, <2>2 DEF Init, TypeOK
<1>2. LockInv
  BY StreamAssumption DEF Init, LockInv
<1>3. CallInv
  BY DEF Init, CallInv
<1> QED
  BY <1>1, <1>2, <1>3 DEF StateInv

LEMMA StateStep == StateInv /\ [Next]_vars => StateInv'
<1> SUFFICES ASSUME StateInv, [Next]_vars PROVE StateInv'
  OBVIOUS
<1> USE DEF StateInv
<1>1. ASSUME NEW w \in Workers, NEW ch \in Chunks, Forward(w, ch)
      PROVE  StateInv'
  <2>1. ch \in SUBSET Fields
    BY StreamAssumption
  <2>2. TypeOK'
    BY <1>1, <2>1 DEF Forward, TypeOK
  <2>3. offered'[w] = Append(offered[w], ch) /\ \A v \in Workers \ {w} : offered'[v] = offered[v]
    BY <1>1 DEF Forward, TypeOK
  <2>4. LockInv'
    BY <1>1, <2>3, StreamAssumption DEF Forward, LockInv, TypeOK
  <2>5. CallInv'
    BY <1>1 DEF Forward, CallInv, TypeOK
  <2> QED
    BY <2>2, <2>4, <2>5
<1>2. ASSUME NEW w \in Workers, LockForwarder(w)
      PROVE  StateInv'
  <2>1. TypeOK'
    BY <1>2 DEF LockForwarder, TypeOK
  <2>2. chunk[w] = {} => NothingToSend(w)
    BY MessageIsDue DEF NothingToSend, TypeOK
  <2>3. LockInv'
    BY <1>2, <2>2, StreamAssumption
       DEF LockForwarder, LockFree, NothingToSend, LockInv, TypeOK
  <2>4. CallInv'
    BY <1>2 DEF LockForwarder, CallInv, TypeOK
  <2> QED
    BY <2>1, <2>3, <2>4
<1>3. ASSUME NEW w \in Workers, SendReturns(w)
      PROVE  StateInv'
  <2>1. PICK kind \in Kinds : wire' = Append(wire, Message(w, kind))
    <3>1. chunk[w] \in SUBSET Fields /\ chunk[w] # {}
      BY <1>3 DEF SendReturns, TypeOK, LockInv
    <3> QED
      BY <1>3, <3>1, MessageIsDue DEF SendReturns
  <2>2. TypeOK'
    BY <1>3, <2>1, WireGrows DEF SendReturns, TypeOK
  <2>3. LockInv'
    BY <1>3, StreamAssumption DEF SendReturns, LockInv, TypeOK
  <2>4. CallInv'
    BY <1>3 DEF SendReturns, CallInv, TypeOK
  <2> QED
    BY <2>2, <2>3, <2>4
<1>4. ASSUME NEW w \in Workers, SendFails(w)
      PROVE  StateInv'
  <2>1. TypeOK'
    BY <1>4 DEF SendFails, RecordFailure, TypeOK
  <2>2. LockInv'
    BY <1>4, StreamAssumption DEF SendFails, RecordFailure, LockInv, TypeOK
  <2>3. CallInv'
    BY <1>4 DEF SendFails, RecordFailure, SendWorks, CallInv, TypeOK
  <2> QED
    BY <2>1, <2>2, <2>3
<1>5. CASE RejectInput \/ AcceptInput \/ ImplSucceeds \/ ImplUnsupported \/ ImplFails
  <2>1. TypeOK'
    BY <1>5 DEF RejectInput, AcceptInput, ImplSucceeds, ImplUnsupported, ImplFails, Return,
       GoToFinalSend, TypeOK
  <2>2. LockInv'
    BY <1>5 DEF RejectInput, AcceptInput, ImplSucceeds, ImplUnsupported, ImplFails, LockInv
  <2>3. CallInv'
    BY <1>5 DEF RejectInput, AcceptInput, ImplSucceeds, ImplUnsupported, ImplFails, Return,
       GoToFinalSend, MayReturn, CallInv, TypeOK
  <2> QED
    BY <2>1, <2>2, <2>3
<1>6. CASE FinalSend
  <2>1. wire' = wire \/ wire' = Append(wire, Message(Handler, "failure"))
    BY <1>6 DEF FinalSend
  <2>2. "failure" \in Kinds
    BY DEF Kinds
  <2>3. wire' \in Seq([from : Workers \cup {Handler}, kind : Kinds])
    BY <2>1, <2>2, WireGrows DEF TypeOK
  <2>4. TypeOK'
    BY <1>6, <2>3 DEF FinalSend, Return, TypeOK
  <2>5. LockInv'
    BY <1>6 DEF FinalSend, LockInv
  <2>6. CallInv'
    BY <1>6 DEF FinalSend, Return, CallInv, TypeOK
  <2> QED
    BY <2>4, <2>5, <2>6
<1>7. CASE Break
  BY <1>7 DEF Break, TypeOK, LockInv, CallInv
<1>8. CASE UNCHANGED vars
  BY <1>8 DEF vars, TypeOK, LockInv, CallInv
<1> QED
  BY <1>1, <1>2, <1>3, <1>4, <1>5, <1>6, <1>7, <1>8 DEF Next, WorkerStep

LEMMA StateInvariant == SafeSpec => []StateInv
  BY StateInvInit, StateStep, PTL DEF SafeSpec

-----------------------------------------------------------------------------
(***************************************************************************)
(* What is on the wire                                                     *)
(***************************************************************************)

\* ChunksInOrder for one goroutine, the next number of its messages, the last of
\* which is at place n, being that of its k-th chunk.
InOrder(w) ==
    /\ \A i \in SentBy(w, Len(wire)) : \E k \in SendableOf(w, Past(w)) :
          /\ Cardinality(SentBy(w, i)) = Cardinality(SendableOf(w, k))
          /\ wire[i].kind = Due(offered[w][k])
    /\ ~err => Cardinality(SentBy(w, Len(wire))) = Cardinality(SendableOf(w, Past(w)))

\* What is sent, and what is forwarded, stays.
LEMMA HistoryStays ==
    ASSUME StateInv, [Next]_vars
    PROVE  /\ Len(wire') >= Len(wire) /\ \A i \in 1..Len(wire) : wire'[i] = wire[i]
           /\ \A w \in Workers :
                 /\ Past(w)' >= Past(w)
                 /\ \A k \in 1..Past(w) : offered'[w][k] = offered[w][k]
           /\ err => err'
<1> USE DEF StateInv
<1>1. wire' = wire \/ \E from, kind : wire' = Append(wire, Message(from, kind))
  BY DEF Next, vars, WorkerStep, Forward, LockForwarder, SendReturns, SendFails,
     RejectInput, AcceptInput, ImplSucceeds, ImplUnsupported, ImplFails, FinalSend, Break
<1>2. Len(wire') >= Len(wire) /\ \A i \in 1..Len(wire) : wire'[i] = wire[i]
  BY <1>1 DEF TypeOK
<1>3. err => err'
  BY DEF Next, vars, WorkerStep, Forward, LockForwarder, SendReturns, SendFails, RecordFailure,
     RejectInput, AcceptInput, ImplSucceeds, ImplUnsupported, ImplFails, FinalSend, Break
<1>4. ASSUME NEW w \in Workers
      PROVE  /\ Past(w)' >= Past(w)
             /\ \A k \in 1..Past(w) : offered'[w][k] = offered[w][k]
  <2>1. CASE \E ch \in Chunks : Forward(w, ch)
    BY <2>1, StreamAssumption DEF Forward, Past, TypeOK
  <2>2. CASE ~ \E ch \in Chunks : Forward(w, ch)
    <3>1. offered'[w] = offered[w] /\ (worker[w] = "out" => worker'[w] = "out")
      BY <2>2 DEF Next, vars, WorkerStep, Forward, LockForwarder, SendReturns, SendFails,
         RejectInput, AcceptInput, ImplSucceeds, ImplUnsupported, ImplFails, FinalSend, Break,
         TypeOK
    <3> QED
      BY <3>1 DEF Past, TypeOK
  <2> QED
    BY <2>1, <2>2
<1> QED
  BY <1>2, <1>3, <1>4

LEMMA HandlerInvInit == Init => HandlerInv
  BY DEF Init, HandlerInv

\* The handler sends last: whatever is sent when it has returned fails.
LEMMA HandlerStep == StateInv /\ HandlerInv /\ [Next]_vars => HandlerInv'
<1> SUFFICES ASSUME StateInv, HandlerInv, [Next]_vars PROVE HandlerInv'
  OBVIOUS
<1> USE DEF StateInv
<1>1. ASSUME NEW w \in Workers, SendReturns(w)
      PROVE  HandlerInv'
  <2>1. PICK kind : wire' = Append(wire, Message(w, kind))
    BY <1>1 DEF SendReturns
  <2>2. handler # "returned" /\ handler' = handler /\ status' = status
    BY <1>1 DEF SendReturns, SendWorks
  <2>3. \A i \in DOMAIN wire' : wire'[i].from # Handler
    BY <2>1, <2>2, HandlerAssumption DEF HandlerInv, Message, TypeOK
  <2> QED
    BY <2>2, <2>3 DEF HandlerInv, CallInv
<1>2. CASE FinalSend
  <2>1. \A i \in DOMAIN wire : wire[i].from # Handler
    BY <1>2 DEF FinalSend, HandlerInv
  <2>2. CASE wire' = Append(wire, Message(Handler, "failure"))
    BY <1>2, <2>1, <2>2 DEF FinalSend, Return, HandlerInv, CallInv, Message, TypeOK
  <2>3. CASE wire' = wire /\ status' = "failed"
    BY <1>2, <2>1, <2>3 DEF FinalSend, Return, HandlerInv
  <2> QED
    BY <1>2, <2>2, <2>3 DEF FinalSend, Return
<1>3. CASE wire' = wire /\ ~FinalSend
  <2>1. \/ handler' = handler /\ status' = status /\ outcome' = outcome
        \/ handler # "returned" /\ (status' = "ok" => outcome' = "ok")
    BY <1>3 DEF Next, vars, WorkerStep, Forward, LockForwarder, SendReturns, SendFails,
       RejectInput, AcceptInput, ImplSucceeds, ImplUnsupported, ImplFails, FinalSend, Break,
       Return, GoToFinalSend, CallInv
  <2> QED
    BY <1>3, <2>1 DEF HandlerInv
<1> QED
  BY <1>1, <1>2, <1>3 DEF Next, vars, WorkerStep, Forward, LockForwarder, SendReturns, SendFails,
     RejectInput, AcceptInput, ImplSucceeds, ImplUnsupported, ImplFails, FinalSend, Break

\* The places of the messages and chunks there are stay, and new ones come after.
LEMMA PlacesStay ==
    ASSUME StateInv, [Next]_vars, NEW w \in Workers
    PROVE  /\ {Len(wire), Past(w), Len(wire'), Past(w)'} \subseteq Nat
           /\ \A n \in 0..Len(wire) : SentBy(w, n)' = SentBy(w, n)
           /\ \A k \in 0..Past(w) : SendableOf(w, k)' = SendableOf(w, k)
<1>1. Len(wire) \in Nat /\ Past(w) \in Nat
  BY DEF StateInv, TypeOK, LockInv, Past
<1>2. Len(wire') \in Nat /\ Past(w)' \in Nat
  BY StateStep DEF StateInv, TypeOK, LockInv, Past
<1> QED
  BY <1>1, <1>2, HistoryStays DEF SentBy, SendableOf

\* A step by which w sends nothing, and puts no chunk behind it, or an empty
\* one, or finds an error.
LEMMA OrderFrame ==
    ASSUME StateInv, [Next]_vars, NEW w \in Workers, InOrder(w),
           SentBy(w, Len(wire))' = SentBy(w, Len(wire)),
           err' \/ SendableOf(w, Past(w))' = SendableOf(w, Past(w))
    PROVE  InOrder(w)'
<1>1. ASSUME NEW i \in SentBy(w, Len(wire))
      PROVE  \E k \in SendableOf(w, Past(w))' :
                /\ Cardinality(SentBy(w, i))' = Cardinality(SendableOf(w, k))'
                /\ wire'[i].kind = Due(offered'[w][k])
  <2>1. PICK k \in SendableOf(w, Past(w)) :
            /\ Cardinality(SentBy(w, i)) = Cardinality(SendableOf(w, k))
            /\ wire[i].kind = Due(offered[w][k])
    BY DEF InOrder
  <2>2. i \in 1..Len(wire) /\ k \in 1..Past(w)
    BY DEF SentBy, SendableOf
  <2>3. SentBy(w, i)' = SentBy(w, i) /\ SendableOf(w, k)' = SendableOf(w, k)
    BY <2>2, PlacesStay
  <2>4. wire'[i] = wire[i] /\ offered'[w][k] = offered[w][k] /\ k \in 1..Past(w)'
    BY <2>2, HistoryStays, PlacesStay
  <2>5. k \in SendableOf(w, Past(w))'
    BY <2>4, <2>1 DEF SendableOf
  <2> QED
    BY <2>1, <2>3, <2>4, <2>5
<1>2. ~err' => Cardinality(SentBy(w, Len(wire)))' = Cardinality(SendableOf(w, Past(w)))'
  BY HistoryStays DEF InOrder
<1> QED
  BY <1>1, <1>2 DEF InOrder

\* A step by which w sends the chunk that it was given last.
LEMMA OrderSend ==
    ASSUME StateInv, [Next]_vars, NEW w \in Workers, InOrder(w), SendReturns(w)
    PROVE  InOrder(w)'
<1>0. PICK n \in Nat, p \in Nat : n = Len(wire) /\ p = Past(w)
  BY PlacesStay
<1>1. /\ ~err /\ ~err'
      /\ wire' = Append(wire, Message(w, Due(chunk[w]))) /\ chunk[w] # {}
      /\ offered' = offered /\ Past(w)' = p + 1 /\ offered[w][p + 1] = chunk[w]
  <2>1. chunk[w] # {} /\ chunk[w] \in SUBSET Fields /\ ~err
    BY DEF SendReturns, StateInv, TypeOK, LockInv
  <2>2. wire' = Append(wire, Message(w, Due(chunk[w])))
    BY <2>1, MessageIsDue DEF SendReturns
  <2> QED
    BY <1>0, <2>1, <2>2 DEF SendReturns, StateInv, TypeOK, LockInv, Past
<1>2. /\ Len(wire') = n + 1 /\ wire'[n + 1] = Message(w, Due(chunk[w]))
      /\ \A i \in 1..n : wire'[i] = wire[i]
  BY <1>0, <1>1 DEF StateInv, TypeOK
<1>3. SentBy(w, n + 1)' = SentBy(w, n) \cup {n + 1}
  BY <1>1, <1>2 DEF SentBy, Message
<1>4. SendableOf(w, p + 1)' = SendableOf(w, p) \cup {p + 1}
  BY <1>1 DEF SendableOf
<1>5. Cardinality(SentBy(w, n + 1))' = Cardinality(SendableOf(w, p + 1))'
  <2>1. n + 1 \notin SentBy(w, n) /\ p + 1 \notin SendableOf(w, p)
    BY DEF SentBy, SendableOf
  <2>2. IsFiniteSet(SentBy(w, n)) /\ IsFiniteSet(SendableOf(w, p))
    BY PlacesFinite
  <2>3. Cardinality(SentBy(w, n)) = Cardinality(SendableOf(w, p))
    BY <1>0, <1>1 DEF InOrder
  <2> QED
    BY <1>3, <1>4, <2>1, <2>2, <2>3, CountOneMore
<1>6. ASSUME NEW i \in SentBy(w, n)
      PROVE  \E k \in SendableOf(w, p + 1)' :
                /\ Cardinality(SentBy(w, i))' = Cardinality(SendableOf(w, k))'
                /\ wire'[i].kind = Due(offered'[w][k])
  <2>1. PICK k \in SendableOf(w, p) :
            /\ Cardinality(SentBy(w, i)) = Cardinality(SendableOf(w, k))
            /\ wire[i].kind = Due(offered[w][k])
    BY <1>0 DEF InOrder
  <2>2. i \in 1..n /\ k \in 1..p
    BY DEF SentBy, SendableOf
  <2>3. SentBy(w, i)' = SentBy(w, i) /\ SendableOf(w, k)' = SendableOf(w, k)
    BY <1>0, <2>2, PlacesStay
  <2> QED
    BY <1>1, <1>2, <1>4, <2>1, <2>2, <2>3
<1>7. /\ p + 1 \in SendableOf(w, p + 1)'
      /\ wire'[n + 1].kind = Due(offered'[w][p + 1])
  BY <1>1, <1>2, <1>4 DEF Message
<1> QED
  <2>1. /\ SentBy(w, Len(wire))' = SentBy(w, n + 1)'
        /\ SendableOf(w, Past(w))' = SendableOf(w, p + 1)'
    BY <1>1, <1>2 DEF SentBy, SendableOf
  <2>2. ASSUME NEW i \in SentBy(w, Len(wire))'
        PROVE  \E k \in SendableOf(w, Past(w))' :
                  /\ Cardinality(SentBy(w, i))' = Cardinality(SendableOf(w, k))'
                  /\ wire'[i].kind = Due(offered'[w][k])
    <3>1. CASE i \in SentBy(w, n)
      BY <1>6, <2>1, <3>1
    <3>2. CASE i = n + 1
      BY <1>5, <1>7, <2>1, <3>2
    <3> QED
      BY <1>3, <2>1, <3>1, <3>2
  <2> QED
    BY <1>5, <2>1, <2>2 DEF InOrder

LEMMA OrderStep == StateInv /\ ChunksInOrder /\ [Next]_vars => ChunksInOrder'
<1> SUFFICES ASSUME StateInv, ChunksInOrder, [Next]_vars, NEW w \in Workers
             PROVE  InOrder(w)'
  BY DEF ChunksInOrder, InOrder
<1>1. InOrder(w)
  BY DEF ChunksInOrder, InOrder
<1>2. CASE SendReturns(w)
  BY <1>1, <1>2, OrderSend
<1>3. CASE ~SendReturns(w)
  <2>1. wire' = wire \/ \E from, kind : from # w /\ wire' = Append(wire, Message(from, kind))
    BY <1>3, HandlerAssumption DEF Next, vars, WorkerStep, Forward, LockForwarder, SendReturns,
       SendFails, RejectInput, AcceptInput, ImplSucceeds, ImplUnsupported, ImplFails, FinalSend,
       Break
  <2>2. SentBy(w, Len(wire))' = SentBy(w, Len(wire))
    <3>1. CASE wire' = wire
      BY <3>1 DEF SentBy
    <3>2. ASSUME NEW from, NEW kind, from # w, wire' = Append(wire, Message(from, kind))
          PROVE  SentBy(w, Len(wire))' = SentBy(w, Len(wire))
      <4>1. /\ Len(wire') = Len(wire) + 1 /\ wire'[Len(wire) + 1].from # w
            /\ \A i \in 1..Len(wire) : wire'[i] = wire[i]
        BY <3>2 DEF Message, StateInv, TypeOK
      <4>2. Len(wire) \in Nat
        BY PlacesStay
      <4> QED
        BY <4>1, <4>2 DEF SentBy
    <3> QED
      BY <2>1, <3>1, <3>2
  <2>3. \/ err'
        \/ Past(w)' = Past(w)
        \/ Past(w)' = Past(w) + 1 /\ offered'[w] = offered[w] /\ offered[w][Past(w) + 1] = {}
    <3>1. CASE \E ch \in Chunks : Forward(w, ch)
      BY <3>1, StreamAssumption DEF Forward, Past, StateInv, TypeOK
    <3>2. CASE LockForwarder(w)
      <4>1. chunk[w] \in SUBSET Fields
        BY DEF StateInv, TypeOK
      <4>2. NothingToSend(w) => err \/ chunk[w] = {}
        BY <4>1, MessageIsDue DEF NothingToSend
      <4>3. /\ offered' = offered /\ err' = err /\ worker[w] = "waiting"
            /\ \/ worker'[w] = "out" /\ NothingToSend(w)
               \/ worker'[w] = "sending"
        BY <3>2 DEF LockForwarder, StateInv, TypeOK
      <4>4. Past(w) = Len(offered[w]) - 1 /\ chunk[w] = offered[w][Past(w) + 1]
        BY <4>3 DEF Past, StateInv, TypeOK, LockInv
      <4>5. Past(w)' = Past(w) \/ Past(w)' = Past(w) + 1
        BY <4>3, <4>4 DEF Past, StateInv, TypeOK
      <4> QED
        BY <4>2, <4>3, <4>4, <4>5 DEF Past
    <3>3. CASE SendFails(w)
      BY <3>3 DEF SendFails, RecordFailure
    <3>4. CASE offered'[w] = offered[w] /\ worker'[w] = worker[w]
      BY <3>4 DEF Past
    <3> QED
      BY <1>3, <3>1, <3>2, <3>3, <3>4 DEF Next, vars, WorkerStep, Forward, LockForwarder,
         SendReturns, SendFails, RejectInput, AcceptInput, ImplSucceeds, ImplUnsupported,
         ImplFails, FinalSend, Break, StateInv, TypeOK
  <2>4. err' \/ SendableOf(w, Past(w))' = SendableOf(w, Past(w))
    <3>1. CASE Past(w)' = Past(w)
      BY <3>1, PlacesStay
    <3>2. CASE Past(w)' = Past(w) + 1 /\ offered'[w] = offered[w] /\ offered[w][Past(w) + 1] = {}
      BY <3>2, PlacesStay DEF SendableOf
    <3> QED
      BY <2>3, <3>1, <3>2
  <2> QED
    BY <1>1, <2>2, <2>4, OrderFrame
<1> QED
  BY <1>2, <1>3

-----------------------------------------------------------------------------
(***************************************************************************)
(* The Results are counted                                                 *)
(***************************************************************************)

\* The Results on the wire that goroutines have sent.
LEMMA OthersResults ==
    Results \ OwnResults =
        {i \in 1..Len(wire) : wire[i].kind \in {"result", "failure"} /\ wire[i].from # Handler}
  BY DEF Results, OwnResults

\* What a step puts behind a goroutine is the chunk that it was given last: none
\* when the goroutine was out, or goes to Send.
LEMMA PastStep ==
    ASSUME StateInv, [Next]_vars, NEW w \in Workers
    PROVE  \/ /\ Past(w)' = Past(w)
              /\ ~(SendReturns(w) \/ SendFails(w))
           \/ /\ Past(w)' = Past(w) + 1 /\ Past(w) + 1 <= MaxChunks
              /\ offered' = offered /\ offered[w][Past(w) + 1] = chunk[w]
              /\ \A v \in Workers \ {w} : worker'[v] = worker[v]
              /\ SendReturns(w) \/ err' \/ chunk[w] = {}
<1> USE DEF StateInv
<1>1. CASE \E ch \in Chunks : Forward(w, ch)
  BY <1>1, StreamAssumption DEF Forward, SendReturns, SendFails, Past, TypeOK
<1>2. CASE LockForwarder(w) \/ SendReturns(w) \/ SendFails(w)
  <2>1. /\ offered' = offered /\ worker[w] # "out" /\ worker'[w] \in {"out", "sending"}
        /\ \A v \in Workers \ {w} : worker'[v] = worker[v]
        /\ worker'[w] = "sending" => LockForwarder(w) /\ worker[w] = "waiting"
    BY <1>2 DEF LockForwarder, SendReturns, SendFails, TypeOK
  <2>2. /\ Past(w) = Len(offered[w]) - 1 /\ chunk[w] = offered[w][Past(w) + 1]
        /\ Past(w) + 1 <= MaxChunks
    BY <2>1 DEF Past, TypeOK, LockInv
  <2>3. worker'[w] = "out" => SendReturns(w) \/ err' \/ chunk[w] = {}
    <3>1. chunk[w] \in SUBSET Fields
      BY DEF TypeOK
    <3>2. NothingToSend(w) => err \/ chunk[w] = {}
      BY <3>1, MessageIsDue DEF NothingToSend
    <3> QED
      BY <1>2, <3>2 DEF LockForwarder, SendFails, RecordFailure, TypeOK
  <2>4. Past(w)' = IF worker'[w] = "out" THEN Past(w) + 1 ELSE Past(w)
    BY <2>1, <2>2 DEF Past, TypeOK
  <2>5. worker'[w] = "sending" => ~(SendReturns(w) \/ SendFails(w))
    BY <2>1 DEF SendReturns, SendFails
  <2> QED
    BY <2>1, <2>2, <2>3, <2>4, <2>5
<1>3. CASE /\ ~ \E ch \in Chunks : Forward(w, ch)
           /\ ~(LockForwarder(w) \/ SendReturns(w) \/ SendFails(w))
  <2>1. offered'[w] = offered[w] /\ worker'[w] = worker[w]
    BY <1>3 DEF Next, vars, WorkerStep, Forward, LockForwarder, SendReturns, SendFails,
       RejectInput, AcceptInput, ImplSucceeds, ImplUnsupported, ImplFails, FinalSend, Break,
       TypeOK
  <2> QED
    BY <1>3, <2>1 DEF Past
<1> QED
  BY <1>1, <1>2, <1>3

\* The Results behind the goroutines grow by the one that a step leaves behind.
LEMMA PastResultsStep ==
    ASSUME StateInv, [Next]_vars
    PROVE  \/ /\ PastResults' = PastResults
              /\ \A w \in Workers : SendReturns(w) => ~IsResult(chunk[w])
           \/ \E w \in Workers :
                 /\ PastResults' = PastResults \cup {<<w, Past(w) + 1>>}
                 /\ <<w, Past(w) + 1>> \notin PastResults
                 /\ IsResult(chunk[w]) /\ (SendReturns(w) \/ err')
<1>1. ASSUME NEW w \in Workers, NEW k \in 1..MaxChunks
      PROVE  /\ <<w, k>> \in PastResults <=> k <= Past(w) /\ IsResult(offered[w][k])
             /\ <<w, k>> \in PastResults' <=> k <= Past(w)' /\ IsResult(offered'[w][k])
  BY DEF PastResults
<1>2. CASE \E w \in Workers : Past(w)' = Past(w) + 1 /\ IsResult(chunk[w])
  <2>1. PICK w \in Workers : Past(w)' = Past(w) + 1 /\ IsResult(chunk[w])
    BY <1>2
  <2>2. /\ Past(w) + 1 \in 1..MaxChunks
        /\ offered' = offered /\ offered[w][Past(w) + 1] = chunk[w]
        /\ \A v \in Workers \ {w} : worker'[v] = worker[v]
        /\ SendReturns(w) \/ err'
    BY <2>1, PastStep, PlacesStay, StreamAssumption DEF IsResult
  <2>3. \A v \in Workers \ {w} : Past(v)' = Past(v)
    BY <2>2 DEF Past
  <2>4. ASSUME NEW v \in Workers, NEW k \in 1..MaxChunks
        PROVE  <<v, k>> \in PastResults' <=> <<v, k>> \in PastResults \/ (v = w /\ k = Past(w) + 1)
    BY <1>1, <2>1, <2>2, <2>3, PlacesStay
  <2>5. <<w, Past(w) + 1>> \notin PastResults
    BY <1>1, <2>2, PlacesStay
  <2>6. PastResults' = PastResults \cup {<<w, Past(w) + 1>>}
    BY <2>2, <2>4 DEF PastResults
  <2> QED
    BY <2>1, <2>2, <2>5, <2>6
<1>3. CASE ~ \E w \in Workers : Past(w)' = Past(w) + 1 /\ IsResult(chunk[w])
  <2>1. ASSUME NEW v \in Workers, NEW k \in 1..MaxChunks
        PROVE  <<v, k>> \in PastResults' <=> <<v, k>> \in PastResults
    <3>1. CASE Past(v)' = Past(v)
      BY <1>1, <3>1, HistoryStays, PlacesStay
    <3>2. CASE Past(v)' = Past(v) + 1
      <4>1. ~IsResult(chunk[v]) /\ offered' = offered /\ offered[v][Past(v) + 1] = chunk[v]
        BY <1>3, <3>2, PastStep, PlacesStay
      <4> QED
        BY <1>1, <3>2, <4>1, PlacesStay
    <3> QED
      BY <3>1, <3>2, PastStep
  <2>2. PastResults' = PastResults
    BY <2>1 DEF PastResults
  <2>3. \A w \in Workers : SendReturns(w) => ~IsResult(chunk[w])
    BY <1>3, PastStep
  <2> QED
    BY <2>2, <2>3
<1> QED
  BY <1>2, <1>3

LEMMA CountInvInit == Init => CountInv
<1> SUFFICES ASSUME Init PROVE CountInv
  OBVIOUS
<1>1. PastResults = {} /\ Results \ OwnResults = {}
  BY DEF Init, PastResults, Past, Results
<1> QED
  BY <1>1, FS_EmptySet DEF CountInv

LEMMA CountStep == StateInv /\ CountInv /\ [Next]_vars => CountInv'
<1> SUFFICES ASSUME StateInv, CountInv, [Next]_vars PROVE CountInv'
  OBVIOUS
<1>1. PICK n \in Nat : n = Len(wire)
  BY DEF StateInv, TypeOK
<1>2. IsFiniteSet(Results \ OwnResults)
  <2>1. (Results \ OwnResults) \in SUBSET (1..n)
    BY <1>1, OthersResults
  <2> QED
    BY <2>1, PlacesFinite, FS_Subset
<1>3. ASSUME NEW w \in Workers, SendReturns(w)
      PROVE  /\ chunk[w] # {} /\ chunk[w] \in SUBSET Fields /\ ~err
             /\ wire' = Append(wire, Message(w, Due(chunk[w])))
  <2>1. chunk[w] # {} /\ chunk[w] \in SUBSET Fields /\ ~err
    BY <1>3 DEF SendReturns, StateInv, TypeOK, LockInv
  <2> QED
    BY <1>3, <2>1, MessageIsDue DEF SendReturns
<1>4. ASSUME NEW w \in Workers, SendReturns(w), IsResult(chunk[w])
      PROVE  /\ (Results \ OwnResults)' = (Results \ OwnResults) \cup {n + 1}
             /\ n + 1 \notin Results \ OwnResults
  <2>1. /\ Len(wire') = n + 1 /\ \A i \in 1..n : wire'[i] = wire[i]
        /\ wire'[n + 1].from # Handler
        /\ wire'[n + 1].kind = Due(chunk[w])
    <3>1. wire' = Append(wire, Message(w, Due(chunk[w]))) /\ w # Handler
      BY <1>3, <1>4, HandlerAssumption
    <3> QED
      BY <1>1, <3>1 DEF Message, StateInv, TypeOK
  <2>2. wire'[n + 1].kind \in {"result", "failure"}
    BY <1>3, <1>4, <2>1, MessageIsDue
  <2>3. (Results \ OwnResults)' = {i \in 1..(n + 1) :
            wire'[i].kind \in {"result", "failure"} /\ wire'[i].from # Handler}
    BY <2>1 DEF Results, OwnResults
  <2> QED
    BY <1>1, <2>1, <2>2, <2>3, OthersResults
<1>5. ASSUME \A w \in Workers : SendReturns(w) => ~IsResult(chunk[w])
      PROVE  (Results \ OwnResults)' = Results \ OwnResults
  <2>1. \/ wire' = wire
        \/ \E from, kind : /\ wire' = Append(wire, Message(from, kind))
                           /\ from = Handler \/ kind \notin {"result", "failure"}
    <3>1. CASE \E w \in Workers : SendReturns(w)
      BY <1>3, <1>5, <3>1, MessageIsDue
    <3>2. CASE ~ \E w \in Workers : SendReturns(w)
      BY <3>2 DEF Next, vars, WorkerStep, Forward, LockForwarder, SendFails,
         RejectInput, AcceptInput, ImplSucceeds, ImplUnsupported, ImplFails, FinalSend, Break
    <3> QED
      BY <3>1, <3>2
  <2>2. CASE wire' = wire
    BY <2>2 DEF Results, OwnResults
  <2>3. ASSUME NEW from, NEW kind, wire' = Append(wire, Message(from, kind)),
               from = Handler \/ kind \notin {"result", "failure"}
        PROVE  (Results \ OwnResults)' = Results \ OwnResults
    <3>1. /\ Len(wire') = n + 1 /\ \A i \in 1..n : wire'[i] = wire[i]
          /\ wire'[n + 1].from = Handler \/ wire'[n + 1].kind \notin {"result", "failure"}
      BY <1>1, <2>3 DEF Message, StateInv, TypeOK
    <3>2. (Results \ OwnResults)' = {i \in 1..(n + 1) :
              wire'[i].kind \in {"result", "failure"} /\ wire'[i].from # Handler}
      BY <3>1 DEF Results, OwnResults
    <3> QED
      BY <1>1, <3>1, <3>2, OthersResults
  <2> QED
    BY <2>1, <2>2, <2>3
<1>6. CASE /\ PastResults' = PastResults
           /\ \A w \in Workers : SendReturns(w) => ~IsResult(chunk[w])
  BY <1>5, <1>6, HistoryStays DEF CountInv
<1>7. ASSUME NEW w \in Workers, PastResults' = PastResults \cup {<<w, Past(w) + 1>>},
             <<w, Past(w) + 1>> \notin PastResults, IsResult(chunk[w]), SendReturns(w) \/ err'
      PROVE  CountInv'
  <2>1. /\ IsFiniteSet(PastResults')
        /\ Cardinality(PastResults') = Cardinality(PastResults) + 1
    BY <1>7, CountOneMore DEF CountInv
  <2>2. CASE err'
    BY <2>1, <2>2 DEF CountInv
  <2>3. CASE SendReturns(w)
    <3>1. Cardinality((Results \ OwnResults)') = Cardinality(Results \ OwnResults) + 1
      BY <1>2, <1>4, <1>7, <2>3, CountOneMore
    <3> QED
      BY <1>3, <2>1, <2>3, <3>1 DEF CountInv
  <2> QED
    BY <1>7, <2>2, <2>3
<1> QED
  BY <1>6, <1>7, PastResultsStep

-----------------------------------------------------------------------------
(***************************************************************************)
(* The properties TLC checks on two goroutines with two chunks each          *)
(***************************************************************************)

\* The variables keep their types.
THEOREM TypeCorrect == Spec => []TypeOK
<1>1. StateInv => TypeOK
  BY DEF StateInv
<1> QED
  BY <1>1, StateInvariant, PTL DEF Spec

\* For any number of goroutines the forwarder has one Send at a time, and that of
\* the handler is alone if the plugin waits for them.
THEOREM OneSendAtATime == Spec => []SendsExclusive
<1>1. StateInv => SendsExclusive
  BY DEF StateInv, LockInv, CallInv, SendsExclusive
<1> QED
  BY <1>1, StateInvariant, PTL DEF Spec

\* Whoever holds the mutex is in Send, which ends: no early return of forward keeps
\* the mutex (grpc_server.go:348-377).
MutexHeldOnlyToSend == mu # NoWorker => worker[mu] = "sending"

THEOREM MutexNeverKept == Spec => []MutexHeldOnlyToSend
<1>1. StateInv => MutexHeldOnlyToSend
  BY DEF StateInv, LockInv, TypeOK, MutexHeldOnlyToSend
<1> QED
  BY <1>1, StateInvariant, PTL DEF Spec

\* For any number of goroutines and chunks the host gets those of each goroutine
\* in order, and all of them until a Send fails.
THEOREM ChunksArriveInOrder == Spec => []ChunksInOrder
<1>1. Init => ChunksInOrder
  <2>1. ASSUME Init, NEW w \in Workers
        PROVE  SentBy(w, Len(wire)) = {} /\ SendableOf(w, Past(w)) = {}
    BY <2>1 DEF Init, SentBy, SendableOf, Past
  <2> QED
    BY <2>1 DEF ChunksInOrder
<1> QED
  BY <1>1, StateInvariant, OrderStep, PTL DEF Spec, SafeSpec

\* A call that ends well has told the host every Result that the plugin forwarded,
\* and one more, last, just if the plugin has not succeeded.
THEOREM EveryResultTold == Spec => []ResultsAccounted
<1>1. StateInv /\ HandlerInv /\ CountInv => ResultsAccounted
  <2> SUFFICES ASSUME StateInv, HandlerInv, CountInv, joins, Completed
               PROVE  /\ OwnResults = IF outcome = "ok" THEN {} ELSE {Len(wire)}
                      /\ Cardinality(Results \ OwnResults) = Cardinality(ForwardedResults)
    BY DEF ResultsAccounted
  <2>1. OwnResults = IF outcome = "ok" THEN {} ELSE {Len(wire)}
    BY DEF OwnResults, Results, HandlerInv, Completed, StateInv, TypeOK
  <2>2. ~err /\ \A w \in Workers : worker[w] = "out"
    BY DEF StateInv, CallInv, Completed
  <2>3. ForwardedResults = PastResults
    BY <2>2 DEF ForwardedResults, PastResults, Past
  <2> QED
    BY <2>1, <2>2, <2>3 DEF CountInv
<1> QED
  BY <1>1, StateInvariant, HandlerInvInit, HandlerStep, CountInvInit, CountStep, PTL
     DEF Spec, SafeSpec

-----------------------------------------------------------------------------
(***************************************************************************)
(* ExecStream implements ServerStream                                      *)
(*                                                                         *)
(* StateInv is enough: err is set only when the stream takes nothing any     *)
(* more, so a chunk that forward leaves out could not have been sent.        *)
(***************************************************************************)

Senders == Workers \cup {Handler}

LEMMA SendersDiffer == Handler \in Senders /\ \A w \in Workers : w \in Senders /\ w # Handler
  BY HandlerAssumption DEF Senders

\* A sender is asked once more, and the others are not.
LEMMA AsksOnceMore ==
    ASSUME NEW s \in Senders, AskedOf(s)' = AskedOf(s) + 1,
           \A t \in Senders \ {s} : AskedOf(t)' = AskedOf(t)
    PROVE  Streaming!CountAsked(s)
  BY DEF Streaming!CountAsked, Senders

\* A step by which a sender is rid of its message.
LEMMA Settles ==
    ASSUME NEW s \in Senders, UNCHANGED <<outcome, offered>>, PendingOf(s)' = {},
           \A t \in Senders \ {s} : PendingOf(t)' = PendingOf(t)
    PROVE  /\ Streaming!Send(s) <=>
                SendWorks /\ \E m \in PendingOf(s) : wire' = Append(wire, m)
           /\ Streaming!Drop(s) <=>
                /\ ~SendWorks /\ PendingOf(s) # {}
                /\ wire' = wire /\ SendWorks' = SendWorks
<1>1. \A t \in Senders : AskedOf(t)' = AskedOf(t)
  BY DEF AskedOf, SendableOf
<1> QED
  BY <1>1 DEF Streaming!Send, Streaming!Drop, Senders

\* A chunk more has something to send, or not.
LEMMA ForwardAsks ==
    ASSUME StateInv, NEW w \in Workers, NEW ch \in Chunks, Forward(w, ch)
    PROVE  /\ AskedOf(w)' = IF ch = {} THEN AskedOf(w) ELSE AskedOf(w) + 1
           /\ \A t \in Senders \ {w} : AskedOf(t)' = AskedOf(t)
<1>1. PICK n \in Nat : n = Len(offered[w])
  BY DEF StateInv, TypeOK
<1>2. /\ Len(offered'[w]) = n + 1 /\ offered'[w][n + 1] = ch
      /\ \A i \in 1..n : offered'[w][i] = offered[w][i]
      /\ \A v \in Workers \ {w} : offered'[v] = offered[v]
  BY <1>1, StreamAssumption DEF Forward, StateInv, TypeOK
<1>3. SendableOf(w, Len(offered[w]))' =
          IF ch = {} THEN SendableOf(w, n) ELSE SendableOf(w, n) \cup {n + 1}
  <2>1. SendableOf(w, Len(offered[w]))' = {i \in 1..(n + 1) : offered'[w][i] # {}}
    BY <1>2 DEF SendableOf
  <2> QED
    BY <1>2, <2>1 DEF SendableOf
<1>4. IsFiniteSet(SendableOf(w, n)) /\ n + 1 \notin SendableOf(w, n)
  <2>1. IsFiniteSet(SendableOf(w, n))
    BY PlacesFinite
  <2> QED
    BY <2>1 DEF SendableOf
<1>5. AskedOf(w)' = IF ch = {} THEN AskedOf(w) ELSE AskedOf(w) + 1
  BY <1>1, <1>3, <1>4, CountOneMore, SendersDiffer DEF AskedOf
<1>6. \A t \in Senders \ {w} : AskedOf(t)' = AskedOf(t)
  <2>1. outcome' = outcome
    BY DEF Forward
  <2>2. \A v \in Workers \ {w} : SendableOf(v, Len(offered[v]))' = SendableOf(v, Len(offered[v]))
    BY <1>2 DEF SendableOf
  <2> QED
    BY <2>1, <2>2 DEF AskedOf, Senders
<1> QED
  BY <1>5, <1>6

LEMMA StepImplements ==
    ASSUME StateInv, [Next]_vars
    PROVE  [Streaming!Next]_(Streaming!streamVars)
<1> USE DEF StateInv, TypeOK
<1>0. Handler \in Senders /\ \A w \in Workers : w \in Senders /\ w # Handler
  BY SendersDiffer
<1>1. ASSUME UNCHANGED <<outcome, offered, wire>>, SendWorks' = SendWorks,
             \A t \in Senders : PendingOf(t)' = PendingOf(t)
      PROVE  UNCHANGED Streaming!streamVars
  <2>1. \A t \in Senders : AskedOf(t)' = AskedOf(t)
    BY <1>1 DEF AskedOf, SendableOf
  <2> QED
    BY <1>1, <2>1 DEF Streaming!streamVars, Senders
<1>2. ASSUME NEW w \in Workers, NEW ch \in Chunks, Forward(w, ch)
      PROVE  [Streaming!Next]_(Streaming!streamVars)
  <2>1. ch \in SUBSET Fields
    BY StreamAssumption
  <2>2. /\ PendingOf(w) = {}
        /\ PendingOf(w)' = IF ch = {} THEN {} ELSE {Message(w, Due(ch))}
    BY <1>0, <1>2 DEF Forward, PendingOf
  <2>3. \A t \in Senders \ {w} : PendingOf(t)' = PendingOf(t)
    BY <1>2 DEF Forward, PendingOf, Senders
  <2>4. wire' = wire /\ SendWorks' = SendWorks
    BY <1>2 DEF Forward, SendWorks
  <2>5. CASE ch = {}
    <3>1. \A t \in Senders : AskedOf(t)' = AskedOf(t) /\ PendingOf(t)' = PendingOf(t)
      BY <1>2, <2>2, <2>3, <2>5, ForwardAsks
    <3> QED
      BY <2>4, <3>1 DEF Streaming!streamVars, Senders
  <2>6. CASE ch # {}
    <3>1. Streaming!CountAsked(w)
      BY <1>0, <1>2, <2>6, ForwardAsks, AsksOnceMore
    <3>2. Streaming!Ask(w, Message(w, Due(ch)))
      BY <1>0, <2>2, <2>3, <2>4, <2>6, <3>1 DEF Streaming!Ask, Senders
    <3>3. Message(w, Due(ch)) \in [from : Workers \cup {Handler}, kind : Kinds]
      BY <2>1, MessageIsDue DEF Message
    <3> QED
      BY <1>0, <3>2, <3>3 DEF Streaming!Next, Senders
  <2> QED
    BY <2>5, <2>6
<1>3. ASSUME NEW w \in Workers, LockForwarder(w)
      PROVE  [Streaming!Next]_(Streaming!streamVars)
  <2>1. /\ UNCHANGED <<handler, outcome, offered, wire, chunk>> /\ SendWorks' = SendWorks
        /\ worker[w] = "waiting" /\ \A v \in Workers \ {w} : worker'[v] = worker[v]
        /\ worker'[w] = IF NothingToSend(w) THEN "out" ELSE "sending"
    BY <1>3 DEF LockForwarder, SendWorks
  <2>2. \A t \in Senders \ {w} : PendingOf(t)' = PendingOf(t)
    BY <2>1 DEF PendingOf, Senders
  <2>3. NothingToSend(w) <=> err \/ chunk[w] = {}
    BY MessageIsDue DEF NothingToSend
  <2>4. CASE err /\ chunk[w] # {}
    <3>1. PendingOf(w) # {} /\ PendingOf(w)' = {}
      BY <1>0, <2>1, <2>3, <2>4 DEF PendingOf
    <3>2. ~SendWorks
      BY <2>4 DEF CallInv, SendWorks
    <3>3. Streaming!Drop(w)
      BY <1>0, <2>1, <2>2, <3>1, <3>2, Settles
    <3> QED
      BY <1>0, <3>3 DEF Streaming!Settle, Streaming!Next, Senders
  <2>5. CASE ~(err /\ chunk[w] # {})
    <3>1. PendingOf(w)' = PendingOf(w)
      BY <1>0, <2>1, <2>3, <2>5 DEF PendingOf
    <3> QED
      BY <1>1, <2>1, <2>2, <3>1
  <2> QED
    BY <2>4, <2>5
<1>4. ASSUME NEW w \in Workers, SendReturns(w)
      PROVE  Streaming!Next
  <2>1. chunk[w] # {} /\ PendingOf(w) = {Message(w, Due(chunk[w]))} /\ PendingOf(w)' = {}
    BY <1>0, <1>4 DEF SendReturns, PendingOf, LockInv
  <2>2. \A t \in Senders \ {w} : PendingOf(t)' = PendingOf(t)
    BY <1>4 DEF SendReturns, PendingOf, Senders
  <2>3. UNCHANGED <<outcome, offered>> /\ SendWorks /\ SendWorks' = SendWorks
    BY <1>4 DEF SendReturns, SendWorks
  <2>4. wire' = Append(wire, Message(w, Due(chunk[w])))
    <3>1. chunk[w] \in SUBSET Fields
      OBVIOUS
    <3> QED
      BY <1>4, <2>1, <3>1, MessageIsDue DEF SendReturns
  <2>5. Streaming!Send(w)
    BY <1>0, <2>1, <2>2, <2>3, <2>4, Settles
  <2> QED
    BY <1>0, <2>3, <2>5 DEF Streaming!Deliver, Streaming!Settle, Streaming!Next, Senders
<1>5. ASSUME NEW w \in Workers, SendFails(w)
      PROVE  Streaming!Next
  <2>1. PendingOf(w) # {} /\ PendingOf(w)' = {}
    BY <1>0, <1>5 DEF SendFails, PendingOf, LockInv
  <2>2. \A t \in Senders \ {w} : PendingOf(t)' = PendingOf(t)
    BY <1>5 DEF SendFails, PendingOf, Senders
  <2>3. UNCHANGED <<outcome, offered, wire>> /\ ~SendWorks /\ SendWorks' = SendWorks
    BY <1>5 DEF SendFails, SendWorks
  <2>4. Streaming!Drop(w)
    BY <1>0, <2>1, <2>2, <2>3, Settles
  <2> QED
    BY <1>0, <2>4 DEF Streaming!Settle, Streaming!Next, Senders
<1>6. CASE RejectInput \/ ImplFails
  <2>1. /\ outcome = "none" /\ handler # "final" /\ handler' = "final"
        /\ outcome' \in {"rejected", "error"} /\ UNCHANGED <<worker, chunk, offered, wire>>
    BY <1>6 DEF RejectInput, ImplFails, GoToFinalSend, CallInv
  <2>2. SendWorks' = SendWorks
    BY <1>6 DEF RejectInput, ImplFails, GoToFinalSend, SendWorks
  <2>3. AskedOf(Handler)' = AskedOf(Handler) + 1
    BY <2>1 DEF AskedOf
  <2>4. \A t \in Senders \ {Handler} : AskedOf(t)' = AskedOf(t) /\ PendingOf(t)' = PendingOf(t)
    BY <2>1 DEF AskedOf, SendableOf, PendingOf
  <2>5. PendingOf(Handler) = {} /\ PendingOf(Handler)' = {Message(Handler, "failure")}
    BY <2>1 DEF PendingOf
  <2>6. Streaming!CountAsked(Handler)
    BY <1>0, <2>3, <2>4, AsksOnceMore
  <2>7. Streaming!Ask(Handler, Message(Handler, "failure"))
    BY <1>0, <2>1, <2>2, <2>4, <2>5, <2>6 DEF Streaming!Ask, Senders
  <2>8. Message(Handler, "failure") \in [from : Workers \cup {Handler}, kind : Kinds]
    BY DEF Message, Kinds
  <2> QED
    BY <1>0, <2>7, <2>8 DEF Streaming!Next, Senders
<1>7. CASE AcceptInput
  <2>1. \A t \in Senders : PendingOf(t)' = PendingOf(t)
    BY <1>7 DEF AcceptInput, PendingOf
  <2> QED
    BY <1>1, <1>7, <2>1 DEF AcceptInput, SendWorks
<1>8. CASE ImplSucceeds \/ ImplUnsupported \/ Break
  <2>1. UNCHANGED <<worker, chunk, offered, wire>> /\ (SendWorks => ~SendWorks')
    BY <1>8 DEF ImplSucceeds, ImplUnsupported, Break, Return, SendWorks
  <2>2. ~SendWorks => ~SendWorks'
    BY <1>8 DEF ImplSucceeds, ImplUnsupported, Break, Return, SendWorks
  <2>3. \/ outcome' = outcome
        \/ outcome = "none" /\ outcome' \in {"ok", "unsupported"}
    BY <1>8 DEF ImplSucceeds, ImplUnsupported, Break, CallInv
  <2>4. handler' = "final" <=> handler = "final"
    BY <1>8 DEF ImplSucceeds, ImplUnsupported, Break, Return
  <2>5. \A t \in Senders : AskedOf(t)' = AskedOf(t) /\ PendingOf(t)' = PendingOf(t)
    BY <2>1, <2>3, <2>4 DEF AskedOf, SendableOf, PendingOf
  <2>6. CASE SendWorks
    <3>1. Streaming!Close
      BY <2>1, <2>5, <2>6 DEF Streaming!Close, Senders
    <3> QED
      BY <3>1 DEF Streaming!Next
  <2>7. CASE ~SendWorks
    BY <2>1, <2>2, <2>5, <2>7 DEF Streaming!streamVars, Senders, SendWorks
  <2> QED
    BY <2>6, <2>7
<1>9. CASE FinalSend
  <2>1. PendingOf(Handler) = {Message(Handler, "failure")} /\ PendingOf(Handler)' = {}
    BY <1>9 DEF FinalSend, Return, PendingOf
  <2>2. \A t \in Senders \ {Handler} : PendingOf(t)' = PendingOf(t)
    BY <1>9 DEF FinalSend, PendingOf
  <2>3. UNCHANGED <<outcome, offered>> /\ ~SendWorks'
    BY <1>9 DEF FinalSend, Return, SendWorks
  <2>4. CASE SendWorks
    <3>1. wire' = Append(wire, Message(Handler, "failure"))
      BY <1>9, <2>4 DEF FinalSend
    <3>2. Streaming!Send(Handler)
      BY <1>0, <2>1, <2>2, <2>3, <2>4, <3>1, Settles
    <3> QED
      BY <1>0, <2>3, <3>2 DEF Streaming!DeliverLast, Streaming!Settle, Streaming!Next, Senders
  <2>5. CASE ~SendWorks
    <3>1. wire' = wire /\ SendWorks' = SendWorks
      BY <1>9, <2>3, <2>5 DEF FinalSend, SendWorks
    <3>2. Streaming!Drop(Handler)
      BY <1>0, <2>1, <2>2, <2>3, <2>5, <3>1, Settles
    <3> QED
      BY <1>0, <3>2 DEF Streaming!Settle, Streaming!Next, Senders
  <2> QED
    BY <2>4, <2>5
<1>10. CASE UNCHANGED vars
  <2>1. \A t \in Senders : PendingOf(t)' = PendingOf(t)
    BY <1>10 DEF vars, PendingOf
  <2> QED
    BY <1>1, <1>10, <2>1 DEF vars, SendWorks
<1> QED
  BY <1>2, <1>3, <1>4, <1>5, <1>6, <1>7, <1>8, <1>9, <1>10 DEF Next, WorkerStep

\* For any number of goroutines and chunks each chunk with something to send, and
\* the error of the plugin, reaches the host once while it is there, in the order
\* of its sender.
THEOREM ExecKeepsStreamPromise == SafeSpec => Streaming!SafeSpec
<1>1. Init => Streaming!Init
  <2> SUFFICES ASSUME Init PROVE Streaming!Init
    OBVIOUS
  <2>1. \A w \in Workers : SendableOf(w, Len(offered[w])) = {}
    BY DEF Init, SendableOf
  <2>2. \A s \in Senders : AskedOf(s) = 0 /\ PendingOf(s) = {}
    BY <2>1, FS_EmptySet DEF Init, AskedOf, PendingOf, Senders
  <2>3. wire = <<>> /\ SendWorks
    BY DEF Init, SendWorks
  <2> QED
    BY <2>2, <2>3 DEF Streaming!Init, Senders
<1> QED
  BY <1>1, StateInvariant, StepImplements, PTL
     DEF SafeSpec, Streaming!SafeSpec

-----------------------------------------------------------------------------
(***************************************************************************)
(* The stream of Login                                                     *)
(***************************************************************************)

\* Only the last message is one about the outcome, and just when Login returned
\* OK: whatever is sent when it has returned fails.
LoginInv ==
    /\ LoginTypeOK
    /\ final = "result" <=> outcome = "ok"
    /\ \A i \in 1..Len(wire) :
          wire[i] \in Finals => status = "ok" /\ i = Len(wire) /\ wire[i] = final
    /\ status = "ok" => Len(wire) > 0 /\ wire[Len(wire)] = final

LEMMA LoginInvInit == LoginInit => LoginInv
<1> SUFFICES ASSUME LoginInit PROVE LoginInv
  OBVIOUS
<1>1. LoginTypeOK
  <2>1. wire \in Seq({"prompt"} \union Finals)
    BY DEF LoginInit
  <2>2. prompts \in [Workers -> 0..MaxPrompts]
    BY LoginAssumption DEF LoginInit
  <2> QED
    BY <2>1, <2>2 DEF LoginInit, LoginTypeOK
<1> QED
  BY <1>1 DEF LoginInit, LoginInv

LEMMA LoginStep == LoginInv /\ [LoginNext]_loginVars => LoginInv'
<1> SUFFICES ASSUME LoginInv, [LoginNext]_loginVars PROVE LoginInv'
  OBVIOUS
<1> USE DEF LoginInv, LoginTypeOK
<1>1. ASSUME NEW w \in Workers, Prompt(w)
      PROVE  LoginInv'
  BY <1>1, LoginAssumption DEF Prompt, Silent, Sending
<1>2. ASSUME NEW w \in Workers, PromptSent(w)
      PROVE  LoginInv'
  <2>1. status # "ok" /\ wire' = Append(wire, "prompt") /\ status' = status
    BY <1>2 DEF PromptSent, SendWorks
  <2>2. wire' \in Seq({"prompt"} \union Finals)
    BY <2>1
  <2>3. LoginTypeOK'
    BY <1>2, <2>2 DEF PromptSent
  <2>4. \A i \in 1..Len(wire') : wire'[i] \notin Finals
    BY <2>1 DEF Finals
  <2> QED
    BY <1>2, <2>1, <2>3, <2>4 DEF PromptSent
<1>3. ASSUME NEW w \in Workers, PromptFails(w) \/ StoreSendFailed(w)
      PROVE  LoginInv'
  BY <1>3 DEF PromptFails, StoreSendFailed
<1>4. CASE ImplReturns
  BY <1>4 DEF ImplReturns, FinalMessage, Finals
<1>5. CASE LoginFinalSend
  <2>1. /\ handler = "final" /\ handler' = "returned" /\ final \in Finals
        /\ final' = final /\ outcome' = outcome
        /\ \A i \in 1..Len(wire) : wire[i] \notin Finals
    BY <1>5 DEF LoginFinalSend
  <2>2. CASE wire' = Append(wire, final) /\ status' = "ok"
    <3>1. wire' \in Seq({"prompt"} \union Finals)
      BY <2>1, <2>2
    <3>2. LoginTypeOK'
      BY <1>5, <2>1, <2>2, <3>1 DEF LoginFinalSend, Sending
    <3>3. /\ Len(wire') = Len(wire) + 1 /\ wire'[Len(wire')] = final
          /\ \A i \in 1..Len(wire) : wire'[i] = wire[i]
      BY <2>1, <2>2
    <3> QED
      BY <2>1, <2>2, <3>2, <3>3
  <2>3. CASE wire' = wire /\ status' = "failed"
    BY <1>5, <2>1, <2>3 DEF LoginFinalSend, Sending
  <2> QED
    BY <1>5, <2>2, <2>3 DEF LoginFinalSend
<1>6. CASE LoginBreak
  BY <1>6 DEF LoginBreak
<1>7. CASE UNCHANGED loginVars
  BY <1>7 DEF loginVars
<1> QED
  BY <1>1, <1>2, <1>3, <1>4, <1>5, <1>6, <1>7 DEF LoginNext, Callback

\* For any number of goroutines and prompts the host hears of the outcome of Login
\* once, last, or the call fails.
THEOREM LoginOutcomeHeard == LoginSpec => []OutcomeHeardOnce
<1>1. LoginInv => OutcomeHeardOnce
  <2> SUFFICES ASSUME LoginInv PROVE OutcomeHeardOnce
    OBVIOUS
  <2>1. Len(wire) \in Nat /\ DOMAIN wire = 1..Len(wire)
    BY DEF LoginInv, LoginTypeOK
  <2>2. status = "ok" => final \in Finals
    BY DEF LoginInv, LoginTypeOK
  <2> DEFINE ends == {i \in DOMAIN wire : wire[i] \in Finals}
  <2>3. ASSUME NEW i
        PROVE  i \in ends <=> status = "ok" /\ i = Len(wire)
    <3>1. i \in ends <=> i \in 1..Len(wire) /\ wire[i] \in Finals
      BY <2>1
    <3>2. i \in 1..Len(wire) /\ wire[i] \in Finals => status = "ok" /\ i = Len(wire)
      BY DEF LoginInv
    <3>3. status = "ok" => Len(wire) \in 1..Len(wire) /\ wire[Len(wire)] \in Finals
      <4>1. status = "ok" => Len(wire) > 0 /\ wire[Len(wire)] = final
        BY DEF LoginInv
      <4>2. Len(wire) > 0 => Len(wire) \in 1..Len(wire)
        BY <2>1
      <4> QED
        BY <2>2, <4>1, <4>2
    <3> QED
      BY <3>1, <3>2, <3>3
  <2>4. \A i \in ends : (wire[i] = "result" <=> outcome = "ok") /\ i = Len(wire)
    BY <2>3 DEF LoginInv
  <2> HIDE DEF ends
  <2>5. /\ status = "ok" <=> ends # {}
        /\ \A i \in ends : /\ wire[i] = "result" <=> outcome = "ok"
                           /\ ends = {i}
                           /\ joins => i = Len(wire)
    <3>1. ends = IF status = "ok" THEN {Len(wire)} ELSE {}
      BY <2>3
    <3> QED
      BY <2>4, <3>1
  <2> QED
    BY <2>5 DEF OutcomeHeardOnce, ends
<1> QED
  BY <1>1, LoginInvInit, LoginStep, PTL DEF LoginSpec, LoginSafeSpec

-----------------------------------------------------------------------------
(***************************************************************************)
(* LoginStream implements ServerStream                                     *)
(*                                                                         *)
(* What it needs besides LoginInv is LateInv: sendFailed is set, or about to *)
(* be, only when the stream takes nothing any more. So a prompt left out     *)
(* because of it could not have been sent.                                  *)
(***************************************************************************)

LateInv == sendFailed \/ (\E w \in Workers : worker[w] = "storing") => ~SendWorks

LEMMA LateStep == LoginInv /\ LateInv /\ [LoginNext]_loginVars => LateInv'
<1> SUFFICES ASSUME LoginInv, LateInv, [LoginNext]_loginVars PROVE LateInv'
  OBVIOUS
<1>1. ~SendWorks => ~SendWorks'
  BY DEF SendWorks, LoginNext, loginVars, Callback, Prompt, PromptSent, PromptFails,
     StoreSendFailed, ImplReturns, LoginFinalSend, LoginBreak
<1>2. CASE \E w \in Workers : PromptFails(w)
  BY <1>1, <1>2 DEF PromptFails, LateInv
<1>3. CASE \E w \in Workers : Prompt(w) \/ PromptSent(w) \/ StoreSendFailed(w)
  BY <1>1, <1>3 DEF Prompt, PromptSent, StoreSendFailed, LateInv, LoginInv, LoginTypeOK
<1>4. CASE ImplReturns \/ LoginFinalSend \/ LoginBreak \/ UNCHANGED loginVars
  BY <1>1, <1>4 DEF ImplReturns, LoginFinalSend, LoginBreak, loginVars, LateInv
<1> QED
  BY <1>2, <1>3, <1>4 DEF LoginNext, Callback

LEMMA LoginInvariant == LoginSafeSpec => [](LoginInv /\ LateInv)
<1>1. LoginInit => LateInv
  BY DEF LoginInit, LateInv
<1> QED
  BY <1>1, LoginInvInit, LoginStep, LateStep, PTL DEF LoginSafeSpec

\* A sender is asked once more, and the others are not.
LEMMA LoginAsks ==
    ASSUME NEW s \in Senders, AskedSoFar(s)' = AskedSoFar(s) + 1,
           \A t \in Senders \ {s} : AskedSoFar(t)' = AskedSoFar(t)
    PROVE  LoginStreaming!CountAsked(s)
  BY DEF LoginStreaming!CountAsked, Senders

\* A step by which a sender is rid of its message.
LEMMA LoginSettles ==
    ASSUME NEW s \in Senders, UNCHANGED <<handler, prompts>> \/ (s = Handler /\ LoginFinalSend),
           PendingMessage(s)' = {},
           \A t \in Senders \ {s} : PendingMessage(t)' = PendingMessage(t)
    PROVE  /\ LoginStreaming!Send(s) <=>
                /\ SendWorks
                /\ \E m \in PendingMessage(s) : wire' = Append(wire, m)
           /\ LoginStreaming!Drop(s) <=>
                /\ ~SendWorks /\ PendingMessage(s) # {}
                /\ wire' = wire /\ SendWorks' = SendWorks
<1>1. \A t \in Senders : AskedSoFar(t)' = AskedSoFar(t)
  BY DEF AskedSoFar, LoginFinalSend
<1> QED
  BY <1>1 DEF LoginStreaming!Send, LoginStreaming!Drop, Senders

LEMMA LoginStepImplements ==
    ASSUME LoginInv, LateInv, [LoginNext]_loginVars
    PROVE  [LoginStreaming!Next]_(LoginStreaming!streamVars)
<1> USE DEF LoginInv, LoginTypeOK
<1>0. Handler \in Senders /\ \A w \in Workers : w \in Senders /\ w # Handler
  BY SendersDiffer
<1>1. ASSUME NEW w \in Workers, Prompt(w)
      PROVE  LoginStreaming!Next
  <2>1. LoginStreaming!CountAsked(w)
    <3>1. AskedSoFar(w)' = AskedSoFar(w) + 1
      BY <1>0, <1>1 DEF Prompt, AskedSoFar
    <3>2. \A t \in Senders \ {w} : AskedSoFar(t)' = AskedSoFar(t)
      BY <1>1 DEF Prompt, AskedSoFar, Senders
    <3> QED
      BY <1>0, <3>1, <3>2, LoginAsks
  <2>2. PendingMessage(w) = {} /\ \A t \in Senders \ {w} : PendingMessage(t)' = PendingMessage(t)
    BY <1>0, <1>1 DEF Prompt, PendingMessage, Senders
  <2>3. wire' = wire /\ SendWorks' = SendWorks
    BY <1>1 DEF Prompt, SendWorks
  <2>4. CASE Silent
    <3>1. ~SendWorks
      BY <2>4 DEF Silent, LateInv
    <3>2. PendingMessage(w)' = {}
      BY <1>0, <1>1, <2>4 DEF Prompt, PendingMessage
    <3>3. LoginStreaming!AskInVain(w)
      BY <1>0, <2>1, <2>2, <2>3, <3>1, <3>2 DEF LoginStreaming!AskInVain, Senders
    <3> QED
      BY <1>0, <3>3 DEF LoginStreaming!Next, Senders
  <2>5. CASE ~Silent
    <3>1. PendingMessage(w)' = {"prompt"}
      BY <1>0, <1>1, <2>5 DEF Prompt, PendingMessage
    <3>2. LoginStreaming!Ask(w, "prompt")
      BY <1>0, <2>1, <2>2, <2>3, <3>1 DEF LoginStreaming!Ask, Senders
    <3> QED
      BY <1>0, <3>2 DEF LoginStreaming!Next, Senders
  <2> QED
    BY <2>4, <2>5
<1>2. ASSUME NEW w \in Workers, PromptSent(w)
      PROVE  LoginStreaming!Next
  <2>1. PendingMessage(w) = {"prompt"} /\ PendingMessage(w)' = {}
    BY <1>0, <1>2 DEF PromptSent, PendingMessage
  <2>2. \A t \in Senders \ {w} : PendingMessage(t)' = PendingMessage(t)
    BY <1>2 DEF PromptSent, PendingMessage, Senders
  <2>3. UNCHANGED <<handler, prompts>> /\ SendWorks /\ SendWorks' = SendWorks
    BY <1>2 DEF PromptSent, SendWorks
  <2>4. LoginStreaming!Deliver(w)
    <3>1. LoginStreaming!Send(w)
      BY <1>0, <1>2, <2>1, <2>2, <2>3, LoginSettles DEF PromptSent
    <3> QED
      BY <2>3, <3>1 DEF LoginStreaming!Deliver
  <2> QED
    BY <1>0, <2>4 DEF LoginStreaming!Settle, LoginStreaming!Next, Senders
<1>3. ASSUME NEW w \in Workers, PromptFails(w)
      PROVE  LoginStreaming!Next
  <2>1. PendingMessage(w) # {} /\ PendingMessage(w)' = {}
    BY <1>0, <1>3 DEF PromptFails, PendingMessage
  <2>2. \A t \in Senders \ {w} : PendingMessage(t)' = PendingMessage(t)
    BY <1>3 DEF PromptFails, PendingMessage, Senders
  <2>3. UNCHANGED <<handler, prompts, wire>> /\ ~SendWorks /\ SendWorks' = SendWorks
    BY <1>3 DEF PromptFails, SendWorks
  <2>4. LoginStreaming!Drop(w)
    BY <1>0, <2>1, <2>2, <2>3, LoginSettles
  <2> QED
    BY <1>0, <2>4 DEF LoginStreaming!Settle, LoginStreaming!Next, Senders
<1>4. ASSUME NEW w \in Workers, StoreSendFailed(w)
      PROVE  UNCHANGED LoginStreaming!streamVars
  <2>1. \A t \in Senders : AskedSoFar(t)' = AskedSoFar(t) /\ PendingMessage(t)' = PendingMessage(t)
    BY <1>4 DEF StoreSendFailed, AskedSoFar, PendingMessage, Senders
  <2> QED
    BY <1>4, <2>1 DEF StoreSendFailed, LoginStreaming!streamVars, SendWorks, Senders
<1>5. CASE ImplReturns
  <2>1. AskedSoFar(Handler)' = AskedSoFar(Handler) + 1 /\ PendingMessage(Handler) = {}
    BY <1>5 DEF ImplReturns, AskedSoFar, PendingMessage
  <2>2. \A t \in Senders \ {Handler} :
            AskedSoFar(t)' = AskedSoFar(t) /\ PendingMessage(t)' = PendingMessage(t)
    BY <1>5 DEF ImplReturns, AskedSoFar, PendingMessage, Senders
  <2>3. final' \in Finals /\ PendingMessage(Handler)' = {final'}
    BY <1>5 DEF ImplReturns, FinalMessage, Finals, PendingMessage
  <2>4. wire' = wire /\ SendWorks' = SendWorks
    BY <1>5 DEF ImplReturns, SendWorks
  <2>5. LoginStreaming!CountAsked(Handler)
    BY <1>0, <2>1, <2>2, LoginAsks
  <2>6. LoginStreaming!Ask(Handler, final')
    BY <1>0, <2>1, <2>2, <2>3, <2>4, <2>5 DEF LoginStreaming!Ask, Senders
  <2> QED
    BY <1>0, <2>3, <2>6 DEF LoginStreaming!Next, Senders
<1>6. CASE LoginFinalSend
  <2>1. PendingMessage(Handler) = {final} /\ PendingMessage(Handler)' = {}
    BY <1>6 DEF LoginFinalSend, PendingMessage
  <2>2. \A t \in Senders \ {Handler} : PendingMessage(t)' = PendingMessage(t)
    BY <1>6 DEF LoginFinalSend, PendingMessage, Senders
  <2>3. ~SendWorks'
    BY <1>6 DEF LoginFinalSend, SendWorks
  <2>4. CASE SendWorks
    <3>1. wire' = Append(wire, final)
      BY <1>6, <2>4 DEF LoginFinalSend
    <3>2. LoginStreaming!Send(Handler)
      BY <1>0, <1>6, <2>1, <2>2, <2>4, <3>1, LoginSettles
    <3> QED
      BY <1>0, <2>3, <3>2 DEF LoginStreaming!DeliverLast,
         LoginStreaming!Settle, LoginStreaming!Next, Senders
  <2>5. CASE ~SendWorks
    <3>1. wire' = wire /\ SendWorks' = SendWorks
      BY <1>6, <2>3, <2>5 DEF LoginFinalSend, SendWorks
    <3>2. LoginStreaming!Drop(Handler)
      BY <1>0, <1>6, <2>1, <2>2, <2>5, <3>1, LoginSettles
    <3> QED
      BY <1>0, <3>2 DEF LoginStreaming!Settle, LoginStreaming!Next, Senders
  <2> QED
    BY <2>4, <2>5
<1>7. CASE LoginBreak
  <2>1. \A t \in Senders : AskedSoFar(t)' = AskedSoFar(t) /\ PendingMessage(t)' = PendingMessage(t)
    BY <1>7 DEF LoginBreak, AskedSoFar, PendingMessage, Senders
  <2>2. wire' = wire /\ ~SendWorks'
    BY <1>7 DEF LoginBreak, SendWorks
  <2>3. CASE SendWorks
    <3>1. LoginStreaming!Close
      BY <2>1, <2>2, <2>3 DEF LoginStreaming!Close, Senders
    <3> QED
      BY <3>1 DEF LoginStreaming!Next
  <2>4. CASE ~SendWorks
    <3>1. SendWorks' = SendWorks
      BY <2>2, <2>4, <1>7 DEF LoginBreak, SendWorks
    <3> QED
      BY <2>1, <2>2, <3>1 DEF LoginStreaming!streamVars, Senders
  <2> QED
    BY <2>3, <2>4
<1>8. CASE UNCHANGED loginVars
  <2>1. \A t \in Senders : AskedSoFar(t)' = AskedSoFar(t) /\ PendingMessage(t)' = PendingMessage(t)
    BY <1>8 DEF loginVars, AskedSoFar, PendingMessage
  <2> QED
    BY <1>8, <2>1 DEF loginVars, LoginStreaming!streamVars, SendWorks, Senders
<1> QED
  BY <1>1, <1>2, <1>3, <1>4, <1>5, <1>6, <1>7, <1>8 DEF LoginNext, Callback

\* For any number of goroutines and prompts each prompt, and the outcome, reaches
\* the host once while it is there, although the callback has no mutex.
THEOREM LoginKeepsStreamPromise == LoginSafeSpec => LoginStreaming!SafeSpec
<1>1. LoginInit => LoginStreaming!Init
  <2> SUFFICES ASSUME LoginInit PROVE LoginStreaming!Init
    OBVIOUS
  <2>1. \A s \in Senders : AskedSoFar(s) = 0 /\ PendingMessage(s) = {}
    BY DEF LoginInit, AskedSoFar, PendingMessage, Senders
  <2>2. wire = <<>> /\ SendWorks
    BY DEF LoginInit, SendWorks
  <2> QED
    BY <2>1, <2>2 DEF LoginStreaming!Init, Senders
<1> QED
  BY <1>1, LoginInvariant, LoginStepImplements, PTL
     DEF LoginSafeSpec, LoginStreaming!SafeSpec

=============================================================================
