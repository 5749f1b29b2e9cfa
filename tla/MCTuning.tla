------------------------------- MODULE MCTuning -------------------------------
(***************************************************************************)
(* A small instance of Tuning for TLC: two frequencies far apart, a        *)
(* correction that is too small, one up and one down.                      *)
(***************************************************************************)
EXTENDS Tuning

TwoFrequencies == {0, 100}
SomeCorrections == {-3, 1, 5}
=============================================================================
