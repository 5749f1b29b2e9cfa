-------------------------------- MODULE Ssdv --------------------------------
(***************************************************************************)
(* SSDV: the packets of pictures out of the characters that process()      *)
(* hands over in portions, and the picture each packet belongs to.  A      *)
(* packet is PktSize bytes that begin with a sync byte; the same byte may  *)
(* be anywhere else too, in text, in noise and inside a packet.            *)
(*                                                                         *)
(* A byte in the buffer is its number in the transmission, 0 is the noise  *)
(* that a receiver decodes when nothing is sent.  Sequences are numbered   *)
(* from 1, the code's from 0: begin = 0 is packet_begin_ = -1.             *)
(***************************************************************************)
EXTENDS Integers, Sequences, FiniteSets, SequencesExt

CONSTANTS
    PktSize,    \* SSDV_PKT_SIZE
    Keys,       \* image_key_t: callsign and number of an image
    Ids,        \* packet_id
    Sizes,      \* width and height of an image
    Streams,    \* transmissions: sequences of bytes
    Chunks      \* bound: how many characters one call may bring

Packet == [key : Keys, id : Ids, size : Sizes]
NoPacket == [key |-> "none"]

\* The pos-th byte of pkt, or a byte of something else.
Byte == [pkt : Packet \union {NoPacket}, pos : Nat, sync : BOOLEAN]

ASSUME SizeAssumption == PktSize \in Nat \ {0}
ASSUME ChunksAssumption == Chunks \subseteq Nat \ {0}
ASSUME IdsAssumption == Ids \subseteq Int
ASSUME StreamsAssumption ==
    /\ Streams \subseteq Seq(Byte)
    /\ \A s \in Streams : \A i \in DOMAIN s :
           s[i].pkt \in Packet /\ s[i].pos = 1 => s[i].sync

VARIABLES
    stream, pos,    \* the transmission, and how much of it has been received
    buff, begin,    \* buff_, packet_begin_
    packets,        \* packets_: for each image the packets of its set
    jpegs,          \* jpegs_: the size its buffer has been allocated for, or 0
    last_img,       \* last_img_k_, which the callback shows
    taken,          \* where in the transmission each packet taken began
    got             \* for each image the packets that have been taken

vars == <<stream, pos, buff, begin, packets, jpegs, last_img, taken, got>>

NoImage == "no image"

Init ==
    /\ stream \in Streams
    /\ pos = 0
    /\ buff = <<>> /\ begin = 0
    /\ packets = [k \in Keys |-> {}]
    /\ jpegs = [k \in Keys |-> {}]
    /\ last_img = NoImage
    /\ taken = <<>>
    /\ got = [k \in Keys |-> <<>>]

-----------------------------------------------------------------------------
IsSync(n) == n # 0 /\ stream[n].sync

\* Where the sync bytes of b are, from i on.
SyncsFrom(b, i) == {j \in i .. Len(b) : IsSync(b[j])}
First(S) == CHOOSE j \in S : \A m \in S : j <= m

\* Bytes i, i+1, ... of b are packet p (ssdv_dec_is_packet).
Holds(b, i, p) ==
    \A j \in 1 .. PktSize :
        b[i + j - 1] # 0 /\ stream[b[i + j - 1]].pkt = p /\ stream[b[i + j - 1]].pos = j

IsPacket(b, i) == stream[b[i]].pkt \in Packet /\ Holds(b, i, stream[b[i]].pkt)

\* Not: the byte behind the packet goes too.
CutLong(b, i) == SubSeq(b, 1, i - 1) \o SubSeq(b, i + PktSize + 1, Len(b))

Cut(b, i) == SubSeq(b, 1, i - 1) \o SubSeq(b, i + PktSize, Len(b))

\* Not: another size is no conflict.
SameId(S, p) == \E q \in S : q.id = p.id

\* The set of its image with packet p in it: it begins anew if p cannot be
\* of the same image as the packets there are.  They are ordered by id.
Conflicts(S, p) ==
    \/ \E q \in S : q.id = p.id
    \/ \E q \in S : (\A r \in S : r.id <= q.id) /\ q.size # p.size

Inserted(S, p) == IF Conflicts(S, p) THEN {p} ELSE S \union {p}

\* Not: pictures are told apart by their numbers, which stations share.
NumberOf(p) == CHOOSE k \in Keys : TRUE

KeyOf(p) == p.key

\* make_jpeg(): a buffer is allocated once for each image number.
Allocated(size, p) == IF size = {} THEN {p.size} ELSE size

-----------------------------------------------------------------------------
\* push(): the outcomes for the bytes b in the buffer.

TooFew(b) ==
    /\ Len(b) < PktSize
    /\ buff' = b
    /\ UNCHANGED begin

\* Not: the first byte is passed over.
CandidatesBehind(b) == IF begin = 0 THEN SyncsFrom(b, 2) ELSE {begin}

\* Where a packet could begin, or nowhere.
Candidates(b) == IF begin = 0 THEN SyncsFrom(b, 1) ELSE {begin}

Clear == buff' = <<>> /\ begin' = 0

NoSync(b) ==
    /\ Len(b) >= PktSize
    /\ Candidates(b) = {}
    /\ Clear

Ready(b, i) ==
    /\ Len(b) >= PktSize
    /\ Candidates(b) # {} /\ i = First(Candidates(b))

Incomplete(b) ==
    \E i \in 1 .. Len(b) :
        /\ Ready(b, i) /\ Len(b) - i + 1 < PktSize
        /\ buff' = b /\ begin' = i

\* No packet there: go to the next sync byte, and leave the rest to the next call.
Resync(b) ==
    \E i \in 1 .. Len(b) :
        /\ Ready(b, i) /\ Len(b) - i + 1 >= PktSize
        /\ ~IsPacket(b, i)
        /\ LET S == SyncsFrom(b, i + 1)
           IN  IF S = {} THEN Clear
               ELSE buff' = SubSeq(b, First(S), Len(b)) /\ begin' = 1

TakePacket(b) ==
    \E i \in 1 .. Len(b) :
        /\ Ready(b, i) /\ Len(b) - i + 1 >= PktSize
        /\ IsPacket(b, i)
        /\ buff' = Cut(b, i) /\ begin' = 0
        /\ LET p == stream[b[i]].pkt
               k == KeyOf(p)
           IN  /\ packets' = [packets EXCEPT ![k] = Inserted(@, p)]
               /\ jpegs' = [jpegs EXCEPT ![k] = Allocated(@, p)]
               /\ last_img' = k
               /\ got' = [got EXCEPT ![p.key] = Append(@, p)]
        /\ taken' = Append(taken, b[i])

NoPacketTaken == UNCHANGED <<packets, jpegs, last_img, taken, got>>

Handle(b) ==
    \/ TooFew(b) /\ NoPacketTaken
    \/ NoSync(b) /\ NoPacketTaken
    \/ Incomplete(b) /\ NoPacketTaken
    \/ Resync(b) /\ NoPacketTaken
    \/ TakePacket(b)

\* The next n bytes come in.
Receive(n) ==
    /\ pos + n <= Len(stream)
    /\ pos' = pos + n
    /\ Handle(buff \o [i \in 1 .. n |-> pos + i])
    /\ UNCHANGED stream

\* The transmission is over, and noise goes on.
ReceiveNoise ==
    /\ pos = Len(stream)
    /\ Handle(Append(buff, 0))
    /\ UNCHANGED <<stream, pos>>

Push == (\E n \in Chunks : Receive(n)) \/ ReceiveNoise

Next == Push

Spec == Init /\ [][Next]_vars /\ WF_vars(Push)

-----------------------------------------------------------------------------
TypeOK ==
    /\ stream \in Streams
    /\ pos \in 0 .. Len(stream)
    /\ buff \in Seq(0 .. Len(stream))
    /\ begin \in 0 .. Len(buff)
    /\ packets \in [Keys -> SUBSET Packet]
    /\ jpegs \in [Keys -> SUBSET Sizes]
    /\ last_img \in Keys \union {NoImage}
    /\ taken \in Seq(1 .. Len(stream))
    /\ got \in [Keys -> Seq(Packet)]

\* An intact packet begins at byte i of the transmission.
IntactAt(i) == i + PktSize - 1 <= Len(stream) /\ \E p \in Packet :
    \A j \in 1 .. PktSize : stream[i + j - 1].pkt = p /\ stream[i + j - 1].pos = j

\* The packet that begins at byte i of the transmission is in the buffer whole,
\* and not before the place where the next call begins to look.
Waiting(i) == \E b \in 1 .. Len(buff) :
    /\ b >= begin /\ b + PktSize - 1 <= Len(buff)
    /\ \A j \in 1 .. PktSize : buff[b + j - 1] = i + j - 1

(***************************************************************************)
(* Wherever the characters are split into calls, whatever stands between   *)
(* the packets and however often a sync byte is a false one: of the intact *)
(* packets received the first ones have been taken, once each and in their *)
(* order, and the others wait in the buffer.  Nothing else is taken for a  *)
(* packet.                                                                 *)
(***************************************************************************)
NoPacketLost ==
    /\ \A m \in DOMAIN taken :
           /\ IntactAt(taken[m]) /\ ~Waiting(taken[m])
           /\ \A n \in DOMAIN taken : m < n => taken[m] < taken[n]
    /\ \A i \in 1 .. (pos - PktSize + 1) : IntactAt(i) =>
           i \in Range(taken) \/ (Waiting(i) /\ \A t \in Range(taken) : t < i)

\* The packets of image k since the m-th.
Since(k, m) == {got[k][n] : n \in m .. Len(got[k])}

(***************************************************************************)
(* The set of an image is what has come since some packet: complete, with  *)
(* no packet of before, with the newest, and with packets that can be of   *)
(* one picture: no id twice and one size.                                  *)
(***************************************************************************)
SetIsARun == \A k \in Keys : got[k] # <<>> =>
    \E m \in DOMAIN got[k] :
        /\ packets[k] = Since(k, m)
        /\ \A n, o \in m .. Len(got[k]) :
               /\ got[k][n].size = got[k][o].size
               /\ got[k][n].id = got[k][o].id => n = o

(***************************************************************************)
(* While a station does not use the number of a picture again for one of   *)
(* another size, a picture is drawn into a buffer of its size, whatever    *)
(* other stations do under the same number.  (Afterwards it is not: the    *)
(* old buffer stays.)                                                      *)
(***************************************************************************)
BufferFits == \A k \in Keys : \A p \in packets[k] :
    (\A m \in DOMAIN got[k] : got[k][m].size = p.size) => jpegs[k] = {p.size}

(***************************************************************************)
(* Every intact packet is taken in the end, also when one call brings many *)
(* characters and handles only one of the false beginnings among them.     *)
(***************************************************************************)
PacketsComeOut ==
    (pos = Len(stream)) ~> (\A i \in 1 .. Len(stream) : IntactAt(i) => i \in Range(taken))
=============================================================================
