---------------------------- MODULE MCWebClient ----------------------------
(***************************************************************************)
(* A small instance of WebClient for TLC: the loops that wait one and two  *)
(* seconds; the one that waits 25 ms is like the first.                    *)
(***************************************************************************)
EXTENDS WebClient

CONSTANTS demod, stats

Periods == [k \in {demod, stats} |-> IF k = demod THEN 1 ELSE 2]
=============================================================================
