------------------------------- MODULE MCSsdv -------------------------------
(***************************************************************************)
(* A small instance of Ssdv for TLC: packets of four bytes, one with a     *)
(* sync byte inside, of two stations that use the same image number.       *)
(***************************************************************************)
EXTENDS Ssdv

CONSTANTS a1, b1, s, l

Pkt(k, i, z) == [key |-> k, id |-> i, size |-> z]
OfPacket(p, ns) == [m \in DOMAIN ns |->
    [pkt |-> p, pos |-> ns[m], sync |-> ns[m] = 1 \/ (ns[m] = 3 /\ p.id = 2)]]
Other(sync) == <<[pkt |-> NoPacket, pos |-> 0, sync |-> sync]>>

Whole == {OfPacket(Pkt(k, i, z), <<1, 2, 3, 4>>) : k \in {a1}, i \in {1, 2}, z \in {s, l}}
             \union {OfPacket(Pkt(b1, 1, l), <<1, 2, 3, 4>>)}
Broken == {OfPacket(Pkt(a1, 2, s), <<1, 2, 3>>), OfPacket(Pkt(a1, 1, s), <<1, 2, 4>>)}
Noise == {Other(TRUE), Other(FALSE)}

Pieces == Whole \union Broken \union Noise
AllStreams == {x[1] \o x[2] \o x[3] \o x[4] : x \in [1 .. 4 -> Pieces]}
=============================================================================
