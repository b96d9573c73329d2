------------------------------ MODULE HostSlot ------------------------------
(***************************************************************************)
(* What both plugin servers promise about the connection to the host: a    *)
(* process dials connections, keeps at most one of them in its slot, the   *)
(* one in the slot is open, and a connection that is dialled and does not  *)
(* enter the slot is closed again.                                         *)
(*                                                                         *)
(* AuthHandlerServer (dials outside its lock, so several dials may be in   *)
(* flight) and ProviderServer (dials under its lock) implement it.         *)
(***************************************************************************)
CONSTANTS Conns,    \* the connections a process may ever dial
          NoConn    \* the empty slot, not a connection

VARIABLES life,     \* life[k]: "none" before its dial, then "open", then "closed"
          slot      \* the connection the server uses, or NoConn

slotVars == <<life, slot>>

Init ==
    /\ life = [k \in Conns |-> "none"]
    /\ slot = NoConn

\* The dial of k succeeds.
Dial(k) ==
    /\ life[k] = "none"
    /\ life' = [life EXCEPT ![k] = "open"]
    /\ UNCHANGED slot

\* A dialled connection becomes the one in use, never in place of another.
Install(k) ==
    /\ slot = NoConn
    /\ life[k] = "open"
    /\ slot' = k
    /\ UNCHANGED life

\* Dial and Install in one step, for a server that dials under its lock.
DialInstall(k) ==
    /\ slot = NoConn
    /\ life[k] = "none"
    /\ life' = [life EXCEPT ![k] = "open"]
    /\ slot' = k

\* A dialled connection that is not needed is closed.
Discard(k) ==
    /\ life[k] = "open"
    /\ slot # k
    /\ life' = [life EXCEPT ![k] = "closed"]
    /\ UNCHANGED slot

\* The server lets its connection go: closed and forgotten together.
Release(k) ==
    /\ slot = k
    /\ life[k] = "open"
    /\ life' = [life EXCEPT ![k] = "closed"]
    /\ slot' = NoConn

Next ==
    \E k \in Conns : \/ Dial(k)
                     \/ Install(k)
                     \/ DialInstall(k)
                     \/ Discard(k)
                     \/ Release(k)

SafeSpec == Init /\ [][Next]_slotVars

\* A dialled connection does not stay outside the slot for ever.
Settle(k) == Install(k) \/ Discard(k)

Spec == SafeSpec /\ \A k \in Conns : WF_slotVars(Settle(k))
=============================================================================
