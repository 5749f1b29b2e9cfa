------------------------------- MODULE MCRtty -------------------------------
(***************************************************************************)
(* A small instance of Rtty for TLC: characters of two or three bits, one  *)
(* or two stop bits, all noise of up to three bits.                        *)
(***************************************************************************)
EXTENDS Rtty

AllNoise == UNION {[1 .. n -> {0, 1}] : n \in {0, 3}}
Pairs == [1 .. 2 -> 0 .. 3]
=============================================================================
