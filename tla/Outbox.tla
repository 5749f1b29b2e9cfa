------------------------------- MODULE Outbox -------------------------------
(***************************************************************************)
(* What the websocket server promises each of its clients, without saying  *)
(* how: the frames handed to a client's session come out of its socket in  *)
(* the order in which they were handed over, none skipped and none         *)
(* repeated, each with the opcode (text or binary) it was handed over      *)
(* with, and nothing more comes out once the session has been released.    *)
(* A session may stall for ever: a promise of progress needs a healthy     *)
(* transport and is stated in WsSession.                                   *)
(***************************************************************************)
EXTENDS Integers, Sequences

CONSTANTS Sessions,   \* client sessions
          Frames      \* what can be sent: a message together with its opcode

VARIABLES sent,       \* sent[s]: frames handed to s, in order
          delivered,  \* delivered[s]: frames written to the socket of s, in order
          released    \* sessions that are gone

vars == <<sent, delivered, released>>

Init ==
    /\ sent = [s \in Sessions |-> <<>>]
    /\ delivered = [s \in Sessions |-> <<>>]
    /\ released = {}

Send(s, f) ==
    /\ s \notin released
    /\ sent' = [sent EXCEPT ![s] = Append(@, f)]
    /\ UNCHANGED <<delivered, released>>

Deliver(s) ==
    /\ s \notin released
    /\ Len(delivered[s]) < Len(sent[s])
    /\ delivered' = [delivered EXCEPT ![s] = Append(@, sent[s][Len(@) + 1])]
    /\ UNCHANGED <<sent, released>>

\* A session may write its last frame and be released in the same step.
LastDeliver(s) ==
    /\ s \notin released
    /\ Len(delivered[s]) < Len(sent[s])
    /\ delivered' = [delivered EXCEPT ![s] = Append(@, sent[s][Len(@) + 1])]
    /\ released' = released \cup {s}
    /\ UNCHANGED sent

Release(s) ==
    /\ s \notin released
    /\ released' = released \cup {s}
    /\ UNCHANGED <<sent, delivered>>

Next ==
    \E s \in Sessions :
        \/ \E f \in Frames : Send(s, f)
        \/ Deliver(s)
        \/ LastDeliver(s)
        \/ Release(s)

Spec == Init /\ [][Next]_vars
=============================================================================
