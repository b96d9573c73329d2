----------------------------- MODULE ServerStream -----------------------------
(***************************************************************************)
(* What both calls that stream to the host promise to those who call them   *)
(* back: while the stream is open no message is given up, each reaches the   *)
(* host once, and those of one sender in the order it asked for them; once   *)
(* it is closed nothing reaches the host; and every sender gets away in the  *)
(* end.                                                                    *)
(*                                                                         *)
(* ExecStream, whose forwarder has a mutex, and LoginStream, whose callback  *)
(* has none, implement it. Sends that overlap, which gRPC does not allow,    *)
(* count here as one after the other: whether they do is the question of     *)
(* SendsExclusive and of overlapped.                                        *)
(***************************************************************************)
EXTENDS Naturals, Sequences

CONSTANTS Senders,  \* those who send, the handler of the call among them
          Messages  \* what is sent

VARIABLES
    asked,    \* asked[s]: how many messages s has been asked to send
    pending,  \* pending[s]: the one it has not sent, as a set
    wire,     \* the messages the host gets, in order
    open      \* the stream takes messages

streamVars == <<asked, pending, wire, open>>

Init ==
    /\ asked = [s \in Senders |-> 0]
    /\ pending = [s \in Senders |-> {}]
    /\ wire = <<>>
    /\ open = TRUE

CountAsked(s) == asked' = [asked EXCEPT ![s] = @ + 1]

\* A sender has one message at a time.
Ask(s, m) ==
    /\ pending[s] = {}
    /\ pending' = [pending EXCEPT ![s] = {m}]
    /\ CountAsked(s)
    /\ UNCHANGED <<wire, open>>

\* It may know that nobody listens any more.
AskInVain(s) ==
    /\ ~open
    /\ pending[s] = {}
    /\ CountAsked(s)
    /\ UNCHANGED <<pending, wire, open>>

Send(s) ==
    /\ open
    /\ \E m \in pending[s] : wire' = Append(wire, m)
    /\ pending' = [pending EXCEPT ![s] = {}]
    /\ UNCHANGED asked

Deliver(s) == Send(s) /\ UNCHANGED open

\* The last message ends the stream.
DeliverLast(s) == Send(s) /\ open' = FALSE

\* A message is given up only when the stream is closed.
Drop(s) ==
    /\ ~open
    /\ pending[s] # {}
    /\ pending' = [pending EXCEPT ![s] = {}]
    /\ UNCHANGED <<asked, wire, open>>

\* The call ends without a message, or the host goes away.
Close ==
    /\ open
    /\ open' = FALSE
    /\ UNCHANGED <<asked, pending, wire>>

Settle(s) == Deliver(s) \/ DeliverLast(s) \/ Drop(s)

Next ==
    \/ \E s \in Senders : \/ \E m \in Messages : Ask(s, m)
                          \/ AskInVain(s)
                          \/ Settle(s)
    \/ Close

SafeSpec == Init /\ [][Next]_streamVars

\* Whoever has a message to send is rid of it in the end.
Spec == SafeSpec /\ \A s \in Senders : WF_streamVars(Settle(s))

=============================================================================
