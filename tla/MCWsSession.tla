----------------------------- MODULE MCWsSession -----------------------------
(***************************************************************************)
(* Small instances of WsSession for TLC.                                   *)
(***************************************************************************)
EXTENDS WsSession, TLC

\* Alternate text and binary messages, so that a wrong opcode shows.
EvenMessages == {m \in MessageIds : m % 2 = 0}

SessionSymmetry == Permutations(Sessions)
=============================================================================
