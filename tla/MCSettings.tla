------------------------------ MODULE MCSettings ------------------------------
(***************************************************************************)
(* A small instance of Settings for TLC: for each setting the default and  *)
(* the values whose treatment differs.                                     *)
(***************************************************************************)
EXTENDS Settings

SetByClients == [freq |-> {1, 6}, dec |-> {4, 9}, gain |-> {20, 25}, baud |-> {3000, 455},
                 bits |-> {7, 5}, stops |-> {1, 3}, lowpass |-> {2}, datasize |-> {0, 3}]

Constructed == [lat |-> 0, lon |-> 0, freq |-> 0, dec |-> 6, gain |-> 30, baud |-> 3000,
                bits |-> 8, stops |-> 2, lowpass |-> 1, no_exit |-> 0, datasize |-> 4]

\* No file, and files of stations that wait for their receiver.  Each coordinate
\* has its sixth digit at another place: one is rounded down or up, one carries
\* into a new digit, one is written exactly, one is a tie.
At(lat, lon) == <<lat, lon, 4, 6, 30, 3000, 8, 2, 1, 1>>
Files == {<<>>, At(52229670, 9999996), At(450050, -118243500)}
=============================================================================
