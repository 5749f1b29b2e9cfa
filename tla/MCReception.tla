---------------------------- MODULE MCReception ----------------------------
(***************************************************************************)
(* A small instance of Reception for TLC: eight samples a bit, bits that   *)
(* are exact or end early and late, samples dropped after nine bits.       *)
(***************************************************************************)
EXTENDS Reception

SomeNoise == {<<>>, <<0, 1, 0>>}
SomeTexts == {<<1, 2>>, <<0, 3>>}
SomeShapes == {<<0>>, <<1, -1, 2>>}
=============================================================================
