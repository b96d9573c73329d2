------------------------------ MODULE ExecStream ------------------------------
(***************************************************************************)
(* One ExecuteProviderStream call (plugin/grpc_server.go): the plugin runs  *)
(* and passes chunks of output to streamForwarder.forward, from as many     *)
(* goroutines as it likes; the forwarder sends them one at a time under     *)
(* its mutex and gives up at the first failure; when the plugin has         *)
(* returned an error, the handler sends that itself, without the forwarder. *)
(*                                                                         *)
(* A Send takes time (flow control) and is two steps: while it runs, the    *)
(* goroutine is at "sending" or the handler at "final".                     *)
(***************************************************************************)
EXTENDS PluginStream

CONSTANTS NoWorker,     \* the forwarder's mutex is free
          Chunks,       \* the chunks the plugin makes, each a set of Fields
          MaxChunks     \* bound: chunks one goroutine forwards

\* The fields of a StreamChunk that are set. "badResult" is a Result that
\* json.Marshal refuses.
Fields == {"stdout", "stderr", "result", "badResult", "error"}

ASSUME StreamAssumption ==
    /\ Chunks \subseteq SUBSET Fields
    /\ NoWorker \notin Workers
    /\ MaxChunks \in Nat

\* The handler is at "decode", "impl", "final", "returned", and returns "ok",
\* "unimplemented" or "failed"; a worker is "waiting" for f.mu or "sending"; the
\* outcome tells whether the plugin was called at all.
VARIABLES
    chunk,    \* chunk[w]: the chunk of its last forward
    mu,       \* the worker that holds f.mu, or NoWorker
    err,      \* f.err # nil
    offered   \* history: offered[w], the chunks w has forwarded

vars == <<handler, status, worker, chunk, mu, err, wire, broken, joins, offered, outcome>>

Kinds == {"stdout", "stderr", "result", "failure"}

Init ==
    /\ handler = "decode"
    /\ status = "none"
    /\ worker = [w \in Workers |-> "out"]
    /\ chunk = [w \in Workers |-> {}]
    /\ mu = NoWorker
    /\ err = FALSE
    /\ wire = <<>>
    /\ broken = FALSE
    /\ joins \in BOOLEAN
    /\ offered = [w \in Workers |-> <<>>]
    /\ outcome = "none"

-----------------------------------------------------------------------------
(***************************************************************************)
(* streamForwarder.forward                                                 *)
(***************************************************************************)

\* Mutant: what cannot be encoded is skipped.
MessageIfEncoded(ch) ==
    CASE "stdout" \in ch -> {"stdout"}
      [] "stdout" \notin ch /\ "stderr" \in ch -> {"stderr"}
      [] OTHER -> ch \cap {"result"}

\* The message of a chunk, as a set: the first of Stdout, Stderr and a Result,
\* whatever else is set, and none for an empty chunk. A Result that cannot be
\* encoded, or that has an Error, is a failure.
MessageOf(ch) ==
    CASE "stdout" \in ch -> {"stdout"}
      [] "stdout" \notin ch /\ "stderr" \in ch -> {"stderr"}
      [] ch \subseteq {"result"} -> ch
      [] OTHER -> {"failure"}

\* The plugin calls forward with a chunk.
Forward(w, ch) ==
    /\ handler # "decode"
    /\ joins => handler = "impl"
    /\ worker[w] = "out"
    /\ Len(offered[w]) < MaxChunks
    /\ worker' = [worker EXCEPT ![w] = "waiting"]
    /\ chunk' = [chunk EXCEPT ![w] = ch]
    /\ offered' = [offered EXCEPT ![w] = Append(@, ch)]
    /\ UNCHANGED <<handler, status, mu, err, wire, broken, joins, outcome>>

\* Mutant: forward does not lock.
LockIgnored == TRUE

LockFree == mu = NoWorker

\* forward returns at once: an earlier Send failed, or there is nothing to send.
NothingToSend(w) == err \/ MessageOf(chunk[w]) = {}

LockForwarder(w) ==
    /\ worker[w] = "waiting"
    /\ LockFree
    /\ \/ /\ NothingToSend(w)
          /\ worker' = [worker EXCEPT ![w] = "out"]
          /\ UNCHANGED mu
       \/ /\ ~NothingToSend(w)
          /\ worker' = [worker EXCEPT ![w] = "sending"]
          /\ mu' = w
    /\ UNCHANGED <<handler, status, chunk, err, wire, broken, joins, offered, outcome>>

Message(from, kind) == [from |-> from, kind |-> kind]

SendReturns(w) ==
    /\ worker[w] = "sending"
    /\ SendWorks
    /\ \E kind \in MessageOf(chunk[w]) : wire' = Append(wire, Message(w, kind))
    /\ mu' = NoWorker
    /\ worker' = [worker EXCEPT ![w] = "out"]
    /\ UNCHANGED <<handler, status, chunk, err, broken, joins, offered, outcome>>

\* Mutants: the early return after a failure forgets the mutex; leaves no error.
FailLocked == err' = TRUE /\ UNCHANGED mu
FailSilently == UNCHANGED err /\ mu' = NoWorker

\* f.err = sErr, then the deferred unlock.
RecordFailure == err' = TRUE /\ mu' = NoWorker

SendFails(w) ==
    /\ worker[w] = "sending"
    /\ ~SendWorks
    /\ RecordFailure
    /\ worker' = [worker EXCEPT ![w] = "out"]
    /\ UNCHANGED <<handler, status, chunk, wire, broken, joins, offered, outcome>>

-----------------------------------------------------------------------------
(***************************************************************************)
(* The handler                                                             *)
(***************************************************************************)

\* Input or context that is not JSON is answered by a Result, the plugin is
\* not called.
RejectInput ==
    /\ handler = "decode"
    /\ handler' = "final"
    /\ outcome' = "rejected"
    /\ UNCHANGED <<status, worker, chunk, mu, err, wire, broken, joins, offered>>

AcceptInput ==
    /\ handler = "decode"
    /\ handler' = "impl"
    /\ UNCHANGED <<status, worker, chunk, mu, err, wire, broken, joins, offered, outcome>>

Return(st) == handler' = "returned" /\ status' = st

\* The plugin succeeds: nothing more is sent, whatever it has forwarded.
ImplSucceeds ==
    /\ handler = "impl"
    /\ MayReturn
    /\ Return("ok")
    /\ outcome' = "ok"
    /\ UNCHANGED <<worker, chunk, mu, err, wire, broken, joins, offered>>

\* ErrStreamingNotSupported becomes the status of the call.
ImplUnsupported ==
    /\ handler = "impl"
    /\ MayReturn
    /\ Return("unimplemented")
    /\ outcome' = "unsupported"
    /\ UNCHANGED <<worker, chunk, mu, err, wire, broken, joins, offered>>

\* Mutant: the error of the plugin ends the call without a Result.
ReturnWithoutResult == Return("ok")

\* stream.Send of a Result with the error, next.
GoToFinalSend == handler' = "final" /\ UNCHANGED status

ImplFails ==
    /\ handler = "impl"
    /\ MayReturn
    /\ GoToFinalSend
    /\ outcome' = "error"
    /\ UNCHANGED <<worker, chunk, mu, err, wire, broken, joins, offered>>

\* return stream.Send(...): not through the forwarder, and whether or not one
\* of its messages has failed.
FinalSend ==
    /\ handler = "final"
    /\ \/ /\ SendWorks
          /\ wire' = Append(wire, Message(Handler, "failure"))
          /\ Return("ok")
       \/ /\ ~SendWorks
          /\ Return("failed")
          /\ UNCHANGED wire
    /\ UNCHANGED <<worker, chunk, mu, err, broken, joins, offered, outcome>>

\* The host cancels the call or dies.
Break ==
    /\ ~broken
    /\ handler # "returned"
    /\ broken' = TRUE
    /\ UNCHANGED <<handler, status, worker, chunk, mu, err, wire, joins, offered, outcome>>

-----------------------------------------------------------------------------
WorkerStep(w) == LockForwarder(w) \/ SendReturns(w) \/ SendFails(w)

Next ==
    \/ \E w \in Workers :
          \/ \E ch \in Chunks : Forward(w, ch)
          \/ WorkerStep(w)
    \/ RejectInput
    \/ AcceptInput
    \/ ImplSucceeds
    \/ ImplUnsupported
    \/ ImplFails
    \/ FinalSend
    \/ Break

SafeSpec == Init /\ [][Next]_vars

\* The scheduler runs the goroutines, and a Send returns; the plugin need not.
\* sync.Mutex does not starve a goroutine that waits.
Fairness ==
    /\ WF_vars(FinalSend)
    /\ \A w \in Workers : SF_vars(LockForwarder(w)) /\ WF_vars(WorkerStep(w))

Spec == SafeSpec /\ Fairness

-----------------------------------------------------------------------------
(***************************************************************************)
(* Correctness                                                             *)
(***************************************************************************)

TypeOK ==
    /\ handler \in {"decode", "impl", "final", "returned"}
    /\ status \in {"none", "ok", "unimplemented", "failed"}
    /\ worker \in [Workers -> {"out", "waiting", "sending"}]
    /\ chunk \in [Workers -> SUBSET Fields]
    /\ mu \in Workers \cup {NoWorker}
    /\ err \in BOOLEAN
    /\ wire \in Seq([from : Workers \cup {Handler}, kind : Kinds])
    /\ broken \in BOOLEAN
    /\ joins \in BOOLEAN
    /\ offered \in [Workers -> Seq(SUBSET Fields)]

\* A gRPC stream allows one Send at a time: the forwarder never has two at
\* once, even for goroutines that were left behind, and the one of the
\* handler overlaps none of them if the plugin waits for its goroutines.
SendsExclusive ==
    /\ \A v, w \in Workers : worker[v] = "sending" /\ worker[w] = "sending" => v = w
    /\ joins /\ handler = "final" => \A w \in Workers : worker[w] # "sending"

\* Whether a chunk is output, a Result, or nothing at all.
IsOutput(ch) == "stdout" \in ch \/ "stderr" \in ch
IsResult(ch) == ch # {} /\ ~IsOutput(ch)

\* What a chunk should be on the wire.
Due(ch) == IF IsOutput(ch) THEN IF "stdout" \in ch THEN "stdout" ELSE "stderr"
           ELSE IF ch = {"result"} THEN "result" ELSE "failure"

\* How many of the chunks of worker w are behind it: all but the one it is still
\* in forward with.
Past(w) == IF worker[w] = "out" THEN Len(offered[w]) ELSE Len(offered[w]) - 1

\* The places of the messages of w among the first n, and of the chunks with
\* something to send among its first n.
SentBy(w, n) == {i \in 1..n : wire[i].from = w}
SendableOf(w, n) == {i \in 1..n : offered[w][i] # {}}

\* The host gets the chunks of each goroutine in the order it made them,
\* without a hole: its n-th message is that of the n-th chunk behind it that is
\* not empty, and there is one for all of those until a Send fails.
ChunksInOrder ==
    \A w \in Workers :
        /\ \A i \in SentBy(w, Len(wire)) : \E k \in SendableOf(w, Past(w)) :
              /\ Cardinality(SentBy(w, i)) = Cardinality(SendableOf(w, k))
              /\ wire[i].kind = Due(offered[w][k])
        /\ ~err => Cardinality(SentBy(w, Len(wire))) = Cardinality(SendableOf(w, Past(w)))

\* The places in the wire of the Results the host gets.
Results == {i \in 1..Len(wire) : wire[i].kind \in {"result", "failure"}}

OwnResults == {i \in Results : wire[i].from = Handler}

\* The Results that the plugin has forwarded, each by its goroutine and place.
ForwardedResults ==
    {x \in Workers \X (1..MaxChunks) :
        x[2] <= Len(offered[x[1]]) /\ IsResult(offered[x[1]][x[2]])}

\* The call has ended with status OK and the stream did not break.
Completed == handler = "returned" /\ status = "ok" /\ ~broken

\* From a plugin that waits for its goroutines the host gets every Result it
\* forwards and, after everything else, one more exactly when the plugin
\* returns an error or was not called. So a plugin that either forwards one
\* Result or returns an error keeps the contract of plugin.proto:20-23.
ResultsAccounted ==
    joins /\ Completed
        => /\ OwnResults = IF outcome = "ok" THEN {} ELSE {Len(wire)}
           /\ Cardinality(Results \ OwnResults) = Cardinality(ForwardedResults)

\* The messages that the plugin's goroutines and the handler have been asked for
\* and have not sent: those of chunks in forward, and of the final Result.
AskedOf(s) ==
    IF s = Handler THEN IF outcome \in {"rejected", "error"} THEN 1 ELSE 0
    ELSE Cardinality(SendableOf(s, Len(offered[s])))
PendingOf(s) ==
    IF s = Handler THEN IF handler = "final" THEN {Message(Handler, "failure")} ELSE {}
    ELSE IF worker[s] = "out" \/ chunk[s] = {} THEN {}
    ELSE {Message(s, Due(chunk[s]))}

Streaming == INSTANCE ServerStream WITH
    Senders <- Workers \cup {Handler},
    Messages <- [from : Workers \cup {Handler}, kind : Kinds],
    asked <- [s \in Workers \cup {Handler} |-> AskedOf(s)],
    pending <- [s \in Workers \cup {Handler} |-> PendingOf(s)],
    open <- SendWorks

\* No chunk with something to send and no final Result is given up while the
\* host is there, each gets to it once, and nobody who sends is stuck, also
\* when the host has gone (grpc_server.go:156-168 and 348-377).
ImplementsServerStream == Streaming!Spec

=============================================================================
