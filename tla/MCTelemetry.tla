----------------------------- MODULE MCTelemetry -----------------------------
(***************************************************************************)
(* A small instance of Telemetry for TLC: enough frame ids for them to     *)
(* rise, and to start over.                                                *)
(***************************************************************************)
EXTENDS Telemetry

FrameIds == 1 .. 3
=============================================================================
