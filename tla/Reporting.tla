------------------------------ MODULE Reporting ------------------------------
(***************************************************************************)
(* What habdec promises about the telemetry it reports to SondeHub, without *)
(* saying how: every item is reported at most once, in the order in which  *)
(* the items were decoded, and items are given up only as whole stretches  *)
(* of that order.                                                          *)
(***************************************************************************)
EXTENDS Integers, Sequences

CONSTANT Items       \* what can be reported

VARIABLES pushed,    \* items handed over for reporting, in order
          settled,   \* how many of them have been reported or given up
          service    \* items the service has received, in order

vars == <<pushed, settled, service>>

Init == pushed = <<>> /\ settled = 0 /\ service = <<>>

Push ==
    /\ \E i \in Items : pushed' = Append(pushed, i)
    /\ UNCHANGED <<settled, service>>

Report ==
    /\ \E n \in settled + 1 .. Len(pushed) :
        /\ settled' = n
        /\ service' \in {service, service \o SubSeq(pushed, settled + 1, n)}
    /\ UNCHANGED pushed

Next == Push \/ Report

Spec == Init /\ [][Next]_vars
=============================================================================
