----------------------------- MODULE LoginStream ------------------------------
(***************************************************************************)
(* One Login call (plugin/grpc_auth_server.go): the plugin logs the user in  *)
(* and calls back with device code prompts, from as many goroutines as it    *)
(* likes; each is sent to the host until a Send has failed. When the plugin  *)
(* returns, the handler sends its Result, or an Error, as the last message.  *)
(*                                                                         *)
(* The callback has no mutex: it loads sendFailed, Sends, which takes time,  *)
(* and stores sendFailed; the final Send does not look at sendFailed. gRPC   *)
(* promises nothing once two Sends of a stream overlap: overlapped records   *)
(* that they have.                                                          *)
(***************************************************************************)
EXTENDS PluginStream

CONSTANT MaxPrompts   \* bound: prompts of one goroutine

ASSUME LoginAssumption == MaxPrompts \in Nat

\* The handler is at "impl", "final", "returned", and returns "ok" or "failed"; a
\* worker is "sending" or "storing".
VARIABLES
    final,       \* the last message: "none" yet, "error", "result"
    prompts,     \* prompts[w]: the prompts w has called back with
    sendFailed,  \* the flag of the callback
    overlapped   \* history: two Sends have overlapped

loginVars == <<handler, status, final, worker, prompts, sendFailed, wire, broken,
               joins, outcome, overlapped>>

LoginInit ==
    /\ handler = "impl"
    /\ status = "none"
    /\ final = "none"
    /\ worker = [w \in Workers |-> "out"]
    /\ prompts = [w \in Workers |-> 0]
    /\ sendFailed = FALSE
    /\ wire = <<>>
    /\ broken = FALSE
    /\ joins \in BOOLEAN
    /\ outcome = "none"
    /\ overlapped = FALSE

Sending == {w \in Workers : worker[w] = "sending"}

-----------------------------------------------------------------------------
(***************************************************************************)
(* The device code callback                                                *)
(***************************************************************************)

\* Mutant: a prompt while another is being sent is left out.
SilentWhileSending == sendFailed \/ Sending # {}

Silent == sendFailed

\* The plugin calls back; after a failure the callback returns at once.
Prompt(w) ==
    /\ worker[w] = "out"
    /\ joins => handler = "impl"
    /\ prompts[w] < MaxPrompts
    /\ prompts' = [prompts EXCEPT ![w] = @ + 1]
    /\ worker' = [worker EXCEPT ![w] = IF Silent THEN "out" ELSE "sending"]
    /\ overlapped' = (overlapped \/ (~Silent /\ Sending # {}))
    /\ UNCHANGED <<handler, status, final, sendFailed, wire, broken, joins,
                   outcome>>

PromptSent(w) ==
    /\ worker[w] = "sending"
    /\ SendWorks
    /\ wire' = Append(wire, "prompt")
    /\ worker' = [worker EXCEPT ![w] = "out"]
    /\ UNCHANGED <<handler, status, final, prompts, sendFailed, broken, joins,
                   outcome, overlapped>>

PromptFails(w) ==
    /\ worker[w] = "sending"
    /\ ~SendWorks
    /\ worker' = [worker EXCEPT ![w] = "storing"]
    /\ UNCHANGED <<handler, status, final, prompts, sendFailed, wire, broken,
                   joins, outcome, overlapped>>

StoreSendFailed(w) ==
    /\ worker[w] = "storing"
    /\ sendFailed' = TRUE
    /\ worker' = [worker EXCEPT ![w] = "out"]
    /\ UNCHANGED <<handler, status, final, prompts, wire, broken, joins,
                   outcome, overlapped>>

-----------------------------------------------------------------------------
(***************************************************************************)
(* The handler                                                             *)
(***************************************************************************)

\* Mutant: a nil result is sent as a result.
NilIsResult(o) == IF o = "err" THEN "error" ELSE "result"

\* An error, and a result that is nil, are sent as an Error.
FinalMessage(o) == IF o = "ok" THEN "result" ELSE "error"

\* Login of the plugin returns a result, a nil result or an error.
ImplReturns ==
    /\ handler = "impl"
    /\ MayReturn
    /\ outcome' \in {"ok", "nil", "err"}
    /\ final' = FinalMessage(outcome')
    /\ handler' = "final"
    /\ UNCHANGED <<status, worker, prompts, sendFailed, wire, broken, joins,
                   overlapped>>

\* Mutant: a Login whose prompts failed is given up.
WaitForPrompts == ~sendFailed

FinalAllowed == TRUE

\* Whether the plugin logged in or not, the status is about this Send.
LoginFinalSend ==
    /\ handler = "final"
    /\ FinalAllowed
    /\ \/ /\ SendWorks
          /\ wire' = Append(wire, final)
          /\ status' = "ok"
       \/ /\ ~SendWorks
          /\ status' = "failed"
          /\ UNCHANGED wire
    /\ handler' = "returned"
    /\ overlapped' = (overlapped \/ Sending # {})
    /\ UNCHANGED <<final, worker, prompts, sendFailed, broken, joins, outcome>>

\* The host cancels the call, or dies.
LoginBreak ==
    /\ ~broken
    /\ broken' = TRUE
    /\ UNCHANGED <<handler, status, final, worker, prompts, sendFailed, wire,
                   joins, outcome, overlapped>>

Callback(w) == PromptSent(w) \/ PromptFails(w) \/ StoreSendFailed(w)

LoginNext ==
    \/ ImplReturns \/ LoginFinalSend \/ LoginBreak
    \/ \E w \in Workers : Prompt(w) \/ Callback(w)

\* Send returns in the end, as gRPC sees to once the host is gone; the plugin
\* need not return.
LoginFairness ==
    /\ WF_loginVars(LoginFinalSend)
    /\ \A w \in Workers : WF_loginVars(Callback(w))

LoginSafeSpec == LoginInit /\ [][LoginNext]_loginVars

LoginSpec == LoginSafeSpec /\ LoginFairness

-----------------------------------------------------------------------------
(***************************************************************************)
(* Properties                                                              *)
(***************************************************************************)

Finals == {"error", "result"}

\* Types; the handler has a final message and an outcome when it has left the
\* plugin, and a status when it has returned.
LoginTypeOK ==
    /\ handler \in {"impl", "final", "returned"}
    /\ status \in {"none", "ok", "failed"} /\ (status = "none" <=> handler # "returned")
    /\ final \in {"none"} \union Finals /\ (final = "none" <=> handler = "impl")
    /\ outcome \in {"none", "ok", "nil", "err"} /\ (outcome = "none" <=> handler = "impl")
    /\ worker \in [Workers -> {"out", "sending", "storing"}]
    /\ prompts \in [Workers -> 0 .. MaxPrompts]
    /\ wire \in Seq({"prompt"} \union Finals)
    /\ {sendFailed, broken, joins, overlapped} \subseteq BOOLEAN

\* As long as no Sends overlap, the host hears of the outcome once or the call
\* fails: when Login returns OK the stream has one final message, a Result just
\* when the plugin returned one, else none; and it is the last, if the plugin
\* left no goroutine behind, whenever the host goes away.
OutcomeHeardOnce ==
    ~overlapped =>
    LET ends == {i \in DOMAIN wire : wire[i] \in Finals}
    IN  /\ status = "ok" <=> ends # {}
        /\ \A i \in ends : /\ wire[i] = "result" <=> outcome = "ok"
                           /\ ends = {i}
                           /\ joins => i = Len(wire)

\* What a goroutine, or the handler, has been asked to send, and has not sent.
PendingMessage(s) ==
    IF s = Handler THEN IF handler = "final" THEN {final} ELSE {}
    ELSE IF worker[s] = "sending" THEN {"prompt"} ELSE {}
AskedSoFar(s) ==
    IF s = Handler THEN IF handler = "impl" THEN 0 ELSE 1 ELSE prompts[s]

LoginStreaming == INSTANCE ServerStream WITH
    Senders <- Workers \cup {Handler},
    Messages <- {"prompt"} \cup Finals,
    asked <- [s \in Workers \cup {Handler} |-> AskedSoFar(s)],
    pending <- [s \in Workers \cup {Handler} |-> PendingMessage(s)],
    open <- SendWorks

\* No prompt is left out while the host is there, although goroutines share
\* sendFailed without a lock, nor is the outcome; and lost prompts keep neither
\* their callers nor Login (grpc_auth_server.go:66-105).
LoginImplementsServerStream == LoginStreaming!Spec

=============================================================================
