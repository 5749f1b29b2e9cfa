----------------------------- MODULE MCPipeline -----------------------------
(***************************************************************************)
(* A small instance of Pipeline for TLC: two factors that have filters and *)
(* one that leaves no decimation, which is too fast to decode; two         *)
(* bandwidths; a filter that is not made, one that fits into any input and *)
(* one that is longer; batches of one sample, of a block and of two.       *)
(***************************************************************************)
EXTENDS Pipeline
=============================================================================
