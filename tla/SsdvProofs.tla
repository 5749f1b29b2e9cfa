----------------------------- MODULE SsdvProofs -----------------------------
(***************************************************************************)
(* Theorems about Ssdv for any packet length, images, transmissions and    *)
(* portions: types, the packet sets, the JPEG buffers, and that no packet  *)
(* is lost.                                                                *)
(***************************************************************************)
EXTENDS Ssdv, SequenceTheorems, WellFoundedInduction, TLAPS

-----------------------------------------------------------------------------
\* Sets of numbers and pieces of sequences.

LEMMA FirstFacts ==
    ASSUME NEW S, S \subseteq Nat, S # {}
    PROVE  First(S) \in S /\ \A m \in S : First(S) <= m
<1> DEFINE R == {ss \in Nat \X Nat : ss[1] < ss[2]}
<1>1. IsWellFoundedOn(R, Nat)
  BY NatLessThanWellFounded DEF OpToRel
<1>2. PICK x \in S : \A y \in S : ~(<<y, x>> \in R)
  <2> HIDE DEF R
  <2> QED
    BY <1>1, WFMin, Zenon
<1>3. ASSUME NEW y \in S PROVE x <= y
  <2>1. x \in Nat /\ y \in Nat
    OBVIOUS
  <2>2. ~(y < x)
    <3>1. ASSUME y < x PROVE <<y, x>> \in R
      BY <2>1, <3>1
    <3> QED
      BY <1>2, <3>1
  <2> QED
    BY <2>1, <2>2
<1> QED
  BY <1>3 DEF First

LEMMA FromFacts ==
    ASSUME NEW S, NEW s \in Seq(S), NEW i \in 1 .. (Len(s) + 1)
    PROVE  LET rest == SubSeq(s, i, Len(s))
           IN /\ rest \in Seq(S)
              /\ Len(rest) = Len(s) - i + 1
              /\ \A j \in 1 .. Len(rest) : rest[j] = s[i + j - 1]
<1> DEFINE rest == SubSeq(s, i, Len(s))
<1>1. i \in Int /\ Len(s) \in Int /\ i <= Len(s) + 1 /\ i >= 1
  OBVIOUS
<1>2. \A j \in i .. Len(s) : s[j] \in S
  BY <1>1
<1>3. /\ rest \in Seq(S)
      /\ Len(rest) = IF i <= Len(s) THEN Len(s) - i + 1 ELSE 0
      /\ \A j \in 1 .. Len(s) - i + 1 : rest[j] = s[i + j - 1]
  BY <1>1, <1>2, SubSeqProperties
<1> HIDE DEF rest
<1>4. Len(rest) = Len(s) - i + 1
  BY <1>1, <1>3
<1>5. QED
  BY <1>3, <1>4 DEF rest

LEMMA CutFacts ==
    ASSUME NEW S, NEW s \in Seq(S), NEW i \in 1 .. Len(s), i + PktSize - 1 <= Len(s)
    PROVE  /\ Cut(s, i) \in Seq(S)
           /\ Len(Cut(s, i)) = Len(s) - PktSize
           /\ \A j \in 1 .. Len(s) - PktSize :
                  Cut(s, i)[j] = IF j < i THEN s[j] ELSE s[j + PktSize]
<1> DEFINE u == SubSeq(s, 1, i - 1)
           v == SubSeq(s, i + PktSize, Len(s))
<1>1. i \in Nat /\ PktSize \in Nat /\ PktSize >= 1 /\ Len(s) \in Nat /\ i >= 1 /\ i <= Len(s)
  BY SizeAssumption
<1>2. u \in Seq(S) /\ Len(u) = i - 1 /\ \A j \in 1 .. i - 1 : u[j] = s[j]
  <2>1. 1 \in Int /\ i - 1 \in Int /\ \A j \in 1 .. i - 1 : s[j] \in S
    BY <1>1
  <2>2. /\ u \in Seq(S)
        /\ Len(u) = IF 1 <= i - 1 THEN (i - 1) - 1 + 1 ELSE 0
        /\ \A j \in 1 .. (i - 1) - 1 + 1 : u[j] = s[1 + j - 1]
    BY <2>1, SubSeqProperties
  <2> HIDE DEF u
  <2> QED
    BY <1>1, <2>2
<1>3. /\ v \in Seq(S) /\ Len(v) = Len(s) - i - PktSize + 1
      /\ \A j \in 1 .. Len(v) : v[j] = s[i + PktSize + j - 1]
  <2>1. i + PktSize \in 1 .. (Len(s) + 1)
    BY <1>1
  <2>2. /\ v \in Seq(S) /\ Len(v) = Len(s) - (i + PktSize) + 1
        /\ \A j \in 1 .. Len(v) : v[j] = s[(i + PktSize) + j - 1]
    BY <2>1, FromFacts
  <2> HIDE DEF v
  <2> QED
    BY <1>1, <2>2
<1>4. Cut(s, i) = u \o v
  BY DEF Cut
<1> HIDE DEF u, v
<1>5. /\ u \o v \in Seq(S) /\ Len(u \o v) = Len(u) + Len(v)
      /\ \A j \in 1 .. Len(u) + Len(v) : (u \o v)[j] = IF j <= Len(u) THEN u[j] ELSE v[j - Len(u)]
  BY <1>2, <1>3, ConcatProperties
<1>6. Len(u) + Len(v) = Len(s) - PktSize
  BY <1>1, <1>2, <1>3
<1>7. ASSUME NEW j \in 1 .. Len(s) - PktSize
      PROVE  (u \o v)[j] = IF j < i THEN s[j] ELSE s[j + PktSize]
  <2>1. CASE j < i
    <3>1. j <= Len(u) /\ j \in 1 .. Len(u) + Len(v) /\ j \in 1 .. i - 1
      BY <1>1, <1>2, <1>6, <2>1
    <3> QED
      BY <1>2, <1>5, <2>1, <3>1
  <2>2. CASE ~(j < i)
    <3>1. ~(j <= Len(u)) /\ j \in 1 .. Len(u) + Len(v) /\ j - Len(u) \in 1 .. Len(v)
      BY <1>1, <1>2, <1>3, <1>6, <2>2
    <3>2. i + PktSize + (j - Len(u)) - 1 = j + PktSize
      BY <1>1, <1>2
    <3>3. (u \o v)[j] = v[j - Len(u)]
      BY <1>5, <3>1
    <3>4. v[j - Len(u)] = s[i + PktSize + (j - Len(u)) - 1]
      BY <1>3, <3>1
    <3> QED
      BY <2>2, <3>2, <3>3, <3>4
  <2> QED
    BY <2>1, <2>2
<1> QED
  BY <1>4, <1>5, <1>6, <1>7

-----------------------------------------------------------------------------
\* The buffer b when n bytes have been received: no sync byte before place d,
\* and from there on the transmission from byte c on, and then noise.
Behind(b, n, c, d) ==
    /\ d \in 1 .. (Len(b) + 1)
    /\ c + Len(b) - d >= n
    /\ c + Len(b) - d > n => n = Len(stream)
    /\ \A j \in 1 .. (d - 1) : ~IsSync(b[j])
    /\ \A j \in d .. Len(b) : b[j] = IF c + j - d <= n THEN c + j - d ELSE 0

\* The buffer that push() works on.
Arrived(b, n) ==
    /\ b \in Seq(0 .. Len(stream))
    /\ n \in 0 .. Len(stream)
    /\ Len(b) >= Len(buff)
    /\ \A c, d \in Nat : Behind(buff, pos, c, d) => Behind(b, n, c, d)

LEMMA StreamFacts ==
    ASSUME stream \in Streams
    PROVE  /\ stream \in Seq(Byte)
           /\ Len(stream) \in Nat
           /\ \A i \in 1 .. Len(stream) :
                  /\ stream[i] \in Byte
                  /\ stream[i].pkt \in Packet /\ stream[i].pos = 1 => stream[i].sync
<1>1. stream \in Seq(Byte)
  BY StreamsAssumption
<1>2. Len(stream) \in Nat /\ DOMAIN stream = 1 .. Len(stream)
  BY <1>1, LenProperties
<1>3. \A i \in 1 .. Len(stream) : stream[i] \in Byte
  BY <1>1, ElementOfSeq
<1> QED
  BY <1>1, <1>2, <1>3, StreamsAssumption

LEMMA Arrives ==
    ASSUME TypeOK, Push
    PROVE  stream' = stream /\ \E b : Arrived(b, pos') /\ Handle(b)
<1>1. Len(stream) \in Nat /\ Len(buff) \in Nat /\ pos \in 0 .. Len(stream)
  BY StreamFacts DEF TypeOK
<1>2. ASSUME NEW n \in Chunks, Receive(n)
      PROVE  \E b : Arrived(b, pos') /\ Handle(b)
  <2> DEFINE t == [i \in 1 .. n |-> pos + i]
             b == buff \o t
  <2>1. n \in Nat /\ n >= 1 /\ pos + n <= Len(stream) /\ pos' = pos + n
    BY <1>2, ChunksAssumption DEF Receive
  <2>2. t \in Seq(0 .. Len(stream)) /\ Len(t) = n
    <3>1. t \in [1 .. n -> 0 .. Len(stream)]
      BY <1>1, <2>1
    <3> QED
      BY <2>1, <3>1
  <2>4. \A j \in 1 .. n : t[j] = pos + j
    OBVIOUS
  <2> HIDE DEF t
  <2>3. /\ b \in Seq(0 .. Len(stream)) /\ Len(b) = Len(buff) + n
        /\ \A j \in 1 .. (Len(buff) + n) : b[j] = IF j <= Len(buff) THEN buff[j] ELSE t[j - Len(buff)]
    <3>1. buff \in Seq(0 .. Len(stream))
      BY DEF TypeOK
    <3>2. /\ b \in Seq(0 .. Len(stream)) /\ Len(b) = Len(buff) + Len(t)
          /\ \A j \in 1 .. Len(buff) + Len(t) : b[j] = IF j <= Len(buff) THEN buff[j] ELSE t[j - Len(buff)]
      BY <2>2, <3>1, ConcatProperties
    <3> QED
      BY <2>2, <3>2
  <2> HIDE DEF b
  <2>5. ASSUME NEW c \in Nat, NEW d \in Nat, Behind(buff, pos, c, d)
        PROVE  Behind(b, pos + n, c, d)
    <3>1. /\ d >= 1 /\ d <= Len(buff) + 1 /\ c + Len(buff) - d = pos
          /\ \A j \in 1 .. (d - 1) : ~IsSync(buff[j])
          /\ \A j \in d .. Len(buff) : buff[j] = IF c + j - d <= pos THEN c + j - d ELSE 0
      BY <1>1, <2>1, <2>5 DEF Behind
    <3>2. \A j \in 1 .. (d - 1) : ~IsSync(b[j])
      <4> SUFFICES ASSUME NEW j \in 1 .. (d - 1) PROVE ~IsSync(b[j])
        OBVIOUS
      <4>1. j \in 1 .. (Len(buff) + n) /\ j <= Len(buff)
        BY <1>1, <2>1, <3>1
      <4>2. b[j] = buff[j]
        BY <2>3, <4>1
      <4> QED
        BY <3>1, <4>2
    <3>3. ASSUME NEW j \in d .. Len(b) PROVE b[j] = c + j - d /\ c + j - d <= pos + n
      <4>1. j \in 1 .. (Len(buff) + n) /\ j \in Nat
        BY <1>1, <2>1, <2>3, <3>1
      <4>2. CASE j <= Len(buff)
        <5>1. b[j] = buff[j] /\ j \in d .. Len(buff)
          BY <1>1, <2>3, <3>1, <4>1, <4>2
        <5>2. c + j - d <= pos
          BY <1>1, <3>1, <4>1, <4>2
        <5> QED
          BY <1>1, <2>1, <3>1, <4>1, <5>1, <5>2
      <4>3. CASE j > Len(buff)
        <5>1. b[j] = t[j - Len(buff)] /\ j - Len(buff) \in 1 .. n
          BY <1>1, <2>1, <2>3, <4>1, <4>3
        <5>2. b[j] = pos + (j - Len(buff))
          BY <2>4, <5>1
        <5>3. pos + (j - Len(buff)) = c + j - d /\ pos + (j - Len(buff)) <= pos + n
          BY <1>1, <2>1, <3>1, <4>1, <5>1
        <5> QED
          BY <5>2, <5>3
      <4> QED
        BY <1>1, <4>1, <4>2, <4>3
    <3> QED
      BY <1>1, <2>1, <2>3, <3>1, <3>2, <3>3, SMTT(40) DEF Behind
  <2>6. Arrived(b, pos')
    BY <1>1, <2>1, <2>3, <2>5 DEF Arrived
  <2>7. Handle(b)
    BY <1>2 DEF Receive, b, t
  <2> QED
    BY <2>6, <2>7
<1>3. ASSUME ReceiveNoise
      PROVE  \E b : Arrived(b, pos') /\ Handle(b)
  <2> DEFINE b == Append(buff, 0)
  <2>1. pos = Len(stream) /\ pos' = pos
    BY <1>3 DEF ReceiveNoise
  <2>2. /\ b \in Seq(0 .. Len(stream)) /\ Len(b) = Len(buff) + 1
        /\ \A j \in 1 .. Len(buff) : b[j] = buff[j]
        /\ b[Len(buff) + 1] = 0
    BY <1>1 DEF TypeOK
  <2> HIDE DEF b
  <2>3. ASSUME NEW c \in Nat, NEW d \in Nat, Behind(buff, pos, c, d)
        PROVE  Behind(b, pos, c, d)
    <3>1. /\ d >= 1 /\ d <= Len(buff) + 1 /\ c + Len(buff) - d >= pos
          /\ \A j \in 1 .. (d - 1) : ~IsSync(buff[j])
          /\ \A j \in d .. Len(buff) : buff[j] = IF c + j - d <= pos THEN c + j - d ELSE 0
      BY <1>1, <2>1, <2>3 DEF Behind
    <3>2. \A j \in 1 .. (d - 1) : ~IsSync(b[j])
      BY <1>1, <2>2, <3>1, SMTT(40)
    <3>3. \A j \in d .. Len(b) : b[j] = IF c + j - d <= pos THEN c + j - d ELSE 0
      BY <1>1, <2>2, <3>1
    <3> QED
      BY <1>1, <2>1, <2>2, <3>1, <3>2, <3>3 DEF Behind
  <2>4. Arrived(b, pos')
    BY <1>1, <2>1, <2>2, <2>3 DEF Arrived
  <2>5. Handle(b)
    BY <1>3 DEF ReceiveNoise, b
  <2> QED
    BY <2>4, <2>5
<1>4. stream' = stream
  BY DEF Push, Receive, ReceiveNoise
<1> QED
  BY <1>2, <1>3, <1>4 DEF Push

-----------------------------------------------------------------------------
\* What push() finds in the buffer.

LEMMA SyncFacts ==
    ASSUME NEW b \in Seq(Nat), NEW i \in 1 .. (Len(b) + 1)
    PROVE  LET S == SyncsFrom(b, i)
           IN /\ S = {} => \A j \in i .. Len(b) : ~IsSync(b[j])
              /\ S # {} => /\ First(S) \in i .. Len(b)
                           /\ IsSync(b[First(S)])
                           /\ \A j \in i .. (First(S) - 1) : ~IsSync(b[j])
<1> DEFINE S == SyncsFrom(b, i)
<1>1. /\ S \subseteq i .. Len(b) /\ S \subseteq Nat
      /\ \A j \in i .. Len(b) : j \in S <=> IsSync(b[j])
      /\ \A j \in S : IsSync(b[j])
  BY DEF SyncsFrom
<1> HIDE DEF S
<1>2. ASSUME S # {}
      PROVE  /\ First(S) \in i .. Len(b) /\ IsSync(b[First(S)])
             /\ \A j \in i .. (First(S) - 1) : ~IsSync(b[j])
  <2>1. First(S) \in S /\ \A m \in S : First(S) <= m
    BY <1>1, <1>2, FirstFacts
  <2>2. First(S) \in i .. Len(b) /\ First(S) \in Nat /\ i \in Nat /\ Len(b) \in Nat
    <3>1. First(S) \in i .. Len(b)
      BY <1>1, <2>1, Zenon
    <3>2. i \in Nat /\ Len(b) \in Nat
      OBVIOUS
    <3> QED
      BY <3>1, <3>2
  <2>3. ASSUME NEW j \in i .. (First(S) - 1) PROVE ~IsSync(b[j])
    <3>1. j \in i .. Len(b) /\ j \in Nat /\ ~(First(S) <= j)
      BY <2>2
    <3> QED
      BY <1>1, <2>1, <3>1
  <2> QED
    BY <1>1, <2>1, <2>2, <2>3
<1>3. S = {} => \A j \in i .. Len(b) : ~IsSync(b[j])
  BY <1>1
<1> QED
  BY <1>2, <1>3 DEF S

LEMMA ReadyFacts ==
    ASSUME NEW b \in Seq(Nat), NEW i \in 1 .. Len(b), Ready(b, i), begin \in Nat
    PROVE  /\ begin # 0 => i = begin
           /\ begin = 0 => IsSync(b[i]) /\ \A j \in 1 .. (i - 1) : ~IsSync(b[j])
<1>1. CASE begin = 0
  <2>1. Candidates(b) = SyncsFrom(b, 1) /\ SyncsFrom(b, 1) # {} /\ i = First(SyncsFrom(b, 1))
    BY <1>1, Zenon DEF Ready, Candidates
  <2>2. 1 \in 1 .. (Len(b) + 1)
    OBVIOUS
  <2>3. IsSync(b[First(SyncsFrom(b, 1))]) /\ \A j \in 1 .. (First(SyncsFrom(b, 1)) - 1) : ~IsSync(b[j])
    BY <2>1, <2>2, SyncFacts, Zenon
  <2>4. IsSync(b[i]) /\ \A j \in 1 .. (i - 1) : ~IsSync(b[j])
    BY <2>1, <2>3, Zenon
  <2> QED
    BY <1>1, <2>4
<1>2. CASE begin # 0
  <2>1. i = First({begin})
    BY <1>2, Zenon DEF Ready, Candidates
  <2>2. First({begin}) = begin
    <3>1. {begin} \subseteq Nat /\ {begin} # {}
      OBVIOUS
    <3> QED
      BY <3>1, FirstFacts, Zenon
  <2> QED
    BY <1>2, <2>1, <2>2
<1> QED
  BY <1>1, <1>2

\* A packet that push() finds is one of the transmission.
LEMMA PacketFacts ==
    ASSUME NEW b \in Seq(0 .. Len(stream)), NEW i \in 1 .. Len(b), stream \in Streams,
           i + PktSize - 1 <= Len(b), IsPacket(b, i)
    PROVE  /\ b[i] \in 1 .. Len(stream)
           /\ stream[b[i]].pkt \in Packet
           /\ \A j \in 1 .. PktSize : /\ b[i + j - 1] # 0
                                     /\ stream[b[i + j - 1]].pkt = stream[b[i]].pkt
                                     /\ stream[b[i + j - 1]].pos = j
<1>1. \A j \in 1 .. PktSize : /\ b[i + j - 1] # 0
                             /\ stream[b[i + j - 1]].pkt = stream[b[i]].pkt
                             /\ stream[b[i + j - 1]].pos = j
  BY DEF IsPacket, Holds
<1>2. 1 \in 1 .. PktSize /\ i + 1 - 1 = i
  BY SizeAssumption
<1>3. b[i] # 0
  BY <1>1, <1>2
<1>4. b[i] \in 0 .. Len(stream) /\ Len(stream) \in Nat
  BY StreamFacts
<1> QED
  BY <1>1, <1>3, <1>4 DEF IsPacket

-----------------------------------------------------------------------------
(***************************************************************************)
(* Types.                                                                  *)
(***************************************************************************)
PktTypes ==
    /\ packets \in [Keys -> SUBSET Packet]
    /\ jpegs \in [Keys -> SUBSET Sizes]
    /\ last_img \in Keys \union {NoImage}
    /\ taken \in Seq(1 .. Len(stream))
    /\ got \in [Keys -> Seq(Packet)]

LEMMA TakeFacts ==
    ASSUME TypeOK, NEW b \in Seq(0 .. Len(stream)), NEW i \in 1 .. Len(b),
           Ready(b, i), Len(b) - i + 1 >= PktSize, IsPacket(b, i)
    PROVE  /\ b \in Seq(Nat) /\ i + PktSize - 1 <= Len(b)
           /\ b[i] \in 1 .. Len(stream)
           /\ stream[b[i]].pkt \in Packet
           /\ stream[b[i]].pkt.key \in Keys /\ stream[b[i]].pkt.id \in Int
           /\ stream[b[i]].pkt.size \in Sizes
<1>1. i + PktSize - 1 <= Len(b)
  BY SizeAssumption
<1>2. b[i] \in 1 .. Len(stream) /\ stream[b[i]].pkt \in Packet
  BY <1>1, PacketFacts DEF TypeOK
<1>3. b \in Seq(Nat)
  <2>1. 0 .. Len(stream) \subseteq Nat
    BY StreamFacts DEF TypeOK
  <2> QED
    BY <2>1, SeqMonotonic
<1> QED
  BY <1>1, <1>2, <1>3, IdsAssumption DEF Packet

LEMMA BuffTypes ==
    ASSUME TypeOK, stream' = stream, NEW b, Arrived(b, pos'), Handle(b)
    PROVE  /\ buff' \in Seq(0 .. Len(stream))
           /\ begin' \in 0 .. Len(buff')
<1>1. /\ b \in Seq(0 .. Len(stream)) /\ Len(b) >= Len(buff) /\ begin \in 0 .. Len(buff)
      /\ Len(b) \in Nat /\ Len(buff) \in Nat
  BY DEF Arrived, TypeOK
<1>2. b \in Seq(Nat)
  <2>1. 0 .. Len(stream) \subseteq Nat
    BY StreamFacts DEF TypeOK
  <2> QED
    BY <1>1, <2>1, SeqMonotonic
<1>3. CASE TooFew(b)
  BY <1>1, <1>3 DEF TooFew
<1>4. ASSUME Clear
      PROVE  buff' \in Seq(0 .. Len(stream)) /\ begin' \in 0 .. Len(buff')
  BY <1>4 DEF Clear
<1>5. CASE NoSync(b)
  BY <1>4, <1>5 DEF NoSync
<1>6. CASE Incomplete(b)
  BY <1>1, <1>6 DEF Incomplete
<1>7. CASE Resync(b)
  <2>1. PICK i \in 1 .. Len(b) :
            LET S == SyncsFrom(b, i + 1)
            IN  IF S = {} THEN Clear
                ELSE buff' = SubSeq(b, First(S), Len(b)) /\ begin' = 1
    BY <1>7 DEF Resync
  <2> DEFINE S == SyncsFrom(b, i + 1)
             rest == SubSeq(b, First(S), Len(b))
  <2>2. CASE S # {}
    <3>1. i + 1 \in 1 .. (Len(b) + 1)
      BY <1>1
    <3>2. First(S) \in i + 1 .. Len(b)
      BY <1>2, <2>2, <3>1, SyncFacts, Zenon
    <3>3. First(S) \in 1 .. (Len(b) + 1) /\ First(S) \in 1 .. Len(b)
      BY <1>1, <3>2
    <3>4. rest \in Seq(0 .. Len(stream)) /\ Len(rest) = Len(b) - First(S) + 1
      BY <1>1, <3>3, FromFacts, Zenon
    <3>5. buff' = rest /\ begin' = 1
      BY <2>1, <2>2
    <3> HIDE DEF rest, S
    <3>6. Len(rest) >= 1 /\ Len(rest) \in Nat
      BY <1>1, <3>3, <3>4
    <3> QED
      BY <3>4, <3>5, <3>6
  <2>3. CASE S = {}
    BY <1>4, <2>1, <2>3
  <2> QED
    BY <2>2, <2>3
<1>8. CASE TakePacket(b)
  <2>1. PICK i \in 1 .. Len(b) :
            /\ Len(b) - i + 1 >= PktSize
            /\ buff' = Cut(b, i) /\ begin' = 0
    BY <1>8 DEF TakePacket
  <2>2. i + PktSize - 1 <= Len(b)
    BY <1>1, <2>1, SizeAssumption
  <2>3. Cut(b, i) \in Seq(0 .. Len(stream))
    BY <1>1, <2>2, CutFacts
  <2>4. Len(buff') \in Nat
    BY <2>1, <2>3
  <2> QED
    BY <2>1, <2>3, <2>4
<1> QED
  BY <1>3, <1>5, <1>6, <1>7, <1>8 DEF Handle

LEMMA PacketTypes ==
    ASSUME TypeOK, stream' = stream, NEW b, Arrived(b, pos'), Handle(b)
    PROVE  PktTypes'
<1>1. b \in Seq(0 .. Len(stream)) /\ PktTypes
  BY DEF Arrived, TypeOK, PktTypes
<1>2. CASE NoPacketTaken
  BY <1>1, <1>2 DEF NoPacketTaken, PktTypes
<1>3. CASE TakePacket(b)
  <2>1. PICK i \in 1 .. Len(b) :
            /\ Ready(b, i) /\ Len(b) - i + 1 >= PktSize /\ IsPacket(b, i)
            /\ LET p == stream[b[i]].pkt
                   k == KeyOf(p)
               IN  /\ packets' = [packets EXCEPT ![k] = Inserted(@, p)]
                   /\ jpegs' = [jpegs EXCEPT ![k] = Allocated(@, p)]
                   /\ last_img' = k
                   /\ got' = [got EXCEPT ![p.key] = Append(@, p)]
            /\ taken' = Append(taken, b[i])
    BY <1>3 DEF TakePacket
  <2> DEFINE p == stream[b[i]].pkt
  <2>2. p \in Packet /\ p.key \in Keys /\ p.size \in Sizes /\ b[i] \in 1 .. Len(stream)
    BY <1>1, <2>1, TakeFacts
  <2>3. KeyOf(p) = p.key
    BY DEF KeyOf
  <2>4. Inserted(packets[p.key], p) \in SUBSET Packet
    BY <1>1, <2>2 DEF Inserted, PktTypes
  <2>5. Allocated(jpegs[p.key], p) \in SUBSET Sizes
    BY <1>1, <2>2 DEF Allocated, PktTypes
  <2>6. Append(got[p.key], p) \in Seq(Packet)
    BY <1>1, <2>2 DEF PktTypes
  <2>7. Append(taken, b[i]) \in Seq(1 .. Len(stream))
    BY <1>1, <2>2 DEF PktTypes
  <2>8. /\ packets' = [packets EXCEPT ![p.key] = Inserted(packets[p.key], p)]
        /\ jpegs' = [jpegs EXCEPT ![p.key] = Allocated(jpegs[p.key], p)]
        /\ last_img' = p.key
        /\ got' = [got EXCEPT ![p.key] = Append(got[p.key], p)]
        /\ taken' = Append(taken, b[i])
    BY <2>1, <2>3
  <2> HIDE DEF p
  <2> QED
    BY <1>1, <2>2, <2>4, <2>5, <2>6, <2>7, <2>8, SMTT(40) DEF PktTypes
<1> QED
  BY <1>2, <1>3 DEF Handle

LEMMA TypeStep ==
    ASSUME TypeOK, [Next]_vars
    PROVE  TypeOK'
<1>1. CASE Push
  <2>1. stream' = stream
    BY <1>1, Arrives
  <2>2. PICK b : Arrived(b, pos') /\ Handle(b)
    BY <1>1, Arrives
  <2>3. pos' \in 0 .. Len(stream)
    BY <2>2 DEF Arrived
  <2>4. buff' \in Seq(0 .. Len(stream)) /\ begin' \in 0 .. Len(buff')
    BY <2>1, <2>2, BuffTypes
  <2>5. PktTypes'
    BY <2>1, <2>2, PacketTypes
  <2> QED
    BY <2>1, <2>3, <2>4, <2>5 DEF TypeOK, PktTypes
<1>2. CASE UNCHANGED vars
  BY <1>2, SMTT(40) DEF vars, TypeOK
<1> QED
  BY <1>1, <1>2 DEF Next

LEMMA TypeInit == Init => TypeOK
<1> SUFFICES ASSUME Init PROVE TypeOK
  OBVIOUS
<1>1. Len(stream) \in Nat
  BY StreamFacts DEF Init
<1> QED
  BY <1>1 DEF Init, TypeOK

\* Every variable keeps its type, for all packet lengths, images, transmissions
\* and portions; in particular packet_begin_ never points behind the buffer.
THEOREM TypeCorrect == Spec => []TypeOK
<1> QED
  BY TypeInit, TypeStep, PTL DEF Spec

-----------------------------------------------------------------------------
(***************************************************************************)
(* Pictures.                                                               *)
(***************************************************************************)
\* S is the run of the packets G from the m-th on, and one of them has the
\* highest id.
Run(S, G, m) ==
    /\ S = {G[n] : n \in m .. Len(G)}
    /\ \A n, o \in m .. Len(G) :
           /\ G[n].size = G[o].size
           /\ G[n].id = G[o].id => n = o
    /\ \E q \in S : \A r \in S : r.id <= q.id

PictureInv == \A k \in Keys :
    IF got[k] = <<>> THEN packets[k] = {} /\ jpegs[k] = {}
    ELSE /\ jpegs[k] = {got[k][1].size}
         /\ \E m \in DOMAIN got[k] : Run(packets[k], got[k], m)

\* What taking packet p for image k does.
LEMMA TakeAsStep ==
    ASSUME TypeOK, NEW b \in Seq(0 .. Len(stream)), TakePacket(b)
    PROVE  \E p \in Packet :
               /\ p.key \in Keys /\ p.id \in Int
               /\ packets' = [packets EXCEPT ![p.key] = Inserted(packets[p.key], p)]
               /\ jpegs' = [jpegs EXCEPT ![p.key] = Allocated(jpegs[p.key], p)]
               /\ got' = [got EXCEPT ![p.key] = Append(got[p.key], p)]
<1>1. PICK i \in 1 .. Len(b) :
          /\ Ready(b, i) /\ Len(b) - i + 1 >= PktSize /\ IsPacket(b, i)
          /\ LET p == stream[b[i]].pkt
                 k == KeyOf(p)
             IN  /\ packets' = [packets EXCEPT ![k] = Inserted(@, p)]
                 /\ jpegs' = [jpegs EXCEPT ![k] = Allocated(@, p)]
                 /\ got' = [got EXCEPT ![p.key] = Append(@, p)]
  BY DEF TakePacket
<1>2. stream[b[i]].pkt \in Packet /\ stream[b[i]].pkt.key \in Keys /\ stream[b[i]].pkt.id \in Int
  BY <1>1, TakeFacts
<1> QED
  BY <1>1, <1>2 DEF KeyOf

LEMMA PictureStep ==
    ASSUME TypeOK, PictureInv, NEW p \in Packet, p.key \in Keys, p.id \in Int,
           packets' = [packets EXCEPT ![p.key] = Inserted(packets[p.key], p)],
           jpegs' = [jpegs EXCEPT ![p.key] = Allocated(jpegs[p.key], p)],
           got' = [got EXCEPT ![p.key] = Append(got[p.key], p)]
    PROVE  PictureInv'
<1> DEFINE k == p.key
           g == got[k]
           G == Append(g, p)
           S == packets[k]
<1>1. /\ packets'[k] = Inserted(S, p) /\ jpegs'[k] = Allocated(jpegs[k], p) /\ got'[k] = G
      /\ \A x \in Keys \ {k} : /\ packets'[x] = packets[x] /\ jpegs'[x] = jpegs[x]
                              /\ got'[x] = got[x]
  BY DEF TypeOK
<1>2. /\ g \in Seq(Packet) /\ S \subseteq Packet
      /\ Len(g) \in Nat /\ G \in Seq(Packet) /\ G # <<>> /\ Len(G) = Len(g) + 1
      /\ G[Len(g) + 1] = p /\ \A n \in 1 .. Len(g) : G[n] = g[n]
      /\ DOMAIN G = 1 .. (Len(g) + 1) /\ DOMAIN g = 1 .. Len(g)
  <2>1. g \in Seq(Packet) /\ S \subseteq Packet
    BY DEF TypeOK
  <2> HIDE DEF g, S
  <2>2. Len(g) \in Nat /\ DOMAIN g = 1 .. Len(g)
    BY <2>1
  <2>3. /\ G \in Seq(Packet) /\ Len(G) = Len(g) + 1
        /\ G[Len(g) + 1] = p /\ \A n \in 1 .. Len(g) : G[n] = g[n]
    BY <2>1
  <2> HIDE DEF G
  <2>4. DOMAIN G = 1 .. (Len(g) + 1) /\ G # <<>>
    BY <2>2, <2>3
  <2> QED
    BY <2>1, <2>2, <2>3, <2>4
<1>3. \A q \in Packet : q.id \in Int
  BY IdsAssumption DEF Packet
<1>4. ASSUME NEW x \in Keys \ {k}
      PROVE  (IF got[x] = <<>> THEN packets[x] = {} /\ jpegs[x] = {}
              ELSE jpegs[x] = {got[x][1].size} /\ \E m \in DOMAIN got[x] : Run(packets[x], got[x], m))'
  <2>1. IF got[x] = <<>> THEN packets[x] = {} /\ jpegs[x] = {}
        ELSE jpegs[x] = {got[x][1].size} /\ \E m \in DOMAIN got[x] : Run(packets[x], got[x], m)
    BY DEF PictureInv
  <2>2. /\ packets'[x] = packets[x] /\ jpegs'[x] = jpegs[x] /\ got'[x] = got[x]
    BY <1>1
  <2> QED
    BY <2>1, <2>2
<1>5. jpegs'[k] = {G[1].size}
  <2>1. CASE g = <<>>
    <3>1. Len(g) = 0 /\ jpegs[k] = {}
      BY <2>1 DEF PictureInv
    <3> QED
      BY <1>1, <1>2, <3>1 DEF Allocated
  <2>2. CASE g # <<>>
    <3>1. 1 \in 1 .. Len(g) /\ jpegs[k] = {g[1].size}
      BY <1>2, <2>2 DEF PictureInv
    <3> QED
      BY <1>1, <1>2, <3>1 DEF Allocated
  <2> QED
    BY <2>1, <2>2
<1>6. ASSUME Inserted(S, p) = {p} PROVE Run(Inserted(S, p), G, Len(G))
  <2>1. Len(G) .. Len(G) = {Len(G)} /\ G[Len(G)] = p
    BY <1>2
  <2>2. {G[n] : n \in Len(G) .. Len(G)} = {p}
    BY <2>1
  <2>3. p.id <= p.id
    OBVIOUS
  <2> QED
    BY <1>6, <2>1, <2>2, <2>3 DEF Run
<1>7. ASSUME g # <<>>, ~Conflicts(S, p) PROVE \E m \in 1 .. Len(G) : Run(Inserted(S, p), G, m)
  <2>1. PICK m \in 1 .. Len(g) : Run(S, g, m)
    BY <1>2, <1>7 DEF PictureInv
  <2>2. /\ S = {g[n] : n \in m .. Len(g)}
        /\ \A n, o \in m .. Len(g) : g[n].size = g[o].size /\ (g[n].id = g[o].id => n = o)
        /\ \E q \in S : \A r \in S : r.id <= q.id
    BY <2>1 DEF Run
  <2>3. PICK q \in S : \A r \in S : r.id <= q.id
    BY <2>2
  <2>4. q.size = p.size /\ \A r \in S : r.id # p.id
    BY <1>7, <2>3 DEF Conflicts
  <2>5. PICK nq \in m .. Len(g) : q = g[nq]
    BY <2>2
  <2>6. Inserted(S, p) = S \union {p}
    BY <1>7 DEF Inserted
  <2>7. m .. Len(G) = (m .. Len(g)) \union {Len(G)} /\ Len(G) \notin m .. Len(g)
    BY <1>2
  <2>8. \A n \in m .. Len(g) : G[n] = g[n] /\ g[n] \in S
    BY <1>2, <2>2
  <2>9. S \union {p} = {G[n] : n \in m .. Len(G)}
    <3>1. G[Len(G)] = p
      BY <1>2
    <3>2. \A n \in m .. Len(G) : G[n] \in S \union {p}
      BY <2>7, <2>8, <3>1
    <3>3. \A r \in S \union {p} : \E n \in m .. Len(G) : r = G[n]
      BY <2>2, <2>7, <2>8, <3>1
    <3> QED
      BY <3>2, <3>3
  <2>10. ASSUME NEW n \in m .. Len(G), NEW o \in m .. Len(G)
         PROVE  G[n].size = G[o].size /\ (G[n].id = G[o].id => n = o)
    <3>1. G[Len(G)] = p
      BY <1>2
    <3> HIDE DEF G, S, g
    <3>2. CASE n \in m .. Len(g) /\ o \in m .. Len(g)
      <4>1. G[n] = g[n] /\ G[o] = g[o]
        BY <2>8, <3>2
      <4> QED
        BY <2>2, <3>2, <4>1
    <3>3. ASSUME NEW j \in m .. Len(g)
          PROVE  G[j].size = p.size /\ G[j].id # p.id
      <4>1. G[j] = g[j] /\ g[j] \in S
        BY <2>8
      <4>2. g[j].size = g[nq].size
        BY <2>2
      <4> QED
        BY <2>4, <2>5, <4>1, <4>2
    <3>4. CASE n \in m .. Len(g) /\ o = Len(G)
      BY <3>1, <3>3, <3>4
    <3>5. CASE n = Len(G) /\ o \in m .. Len(g)
      BY <3>1, <3>3, <3>5
    <3>6. CASE n = Len(G) /\ o = Len(G)
      BY <3>6
    <3> QED
      BY <2>7, <3>2, <3>4, <3>5, <3>6
  <2>11. \E u \in S \union {p} : \A r \in S \union {p} : r.id <= u.id
    <3>1. \A r \in S \union {p} : r.id \in Int
      BY <1>2, <1>3
    <3>2. CASE p.id <= q.id
      BY <2>3, <3>1, <3>2
    <3>3. CASE ~(p.id <= q.id)
      BY <2>3, <3>1, <3>3
    <3> QED
      BY <3>2, <3>3
  <2>12. m \in 1 .. Len(G)
    BY <1>2
  <2> QED
    BY <2>6, <2>9, <2>10, <2>11, <2>12 DEF Run
<1>8. \E m \in 1 .. Len(G) : Run(Inserted(S, p), G, m)
  <2>1. Len(G) \in 1 .. Len(G)
    BY <1>2
  <2>2. CASE Conflicts(S, p)
    BY <1>6, <2>1, <2>2 DEF Inserted
  <2>3. CASE g = <<>>
    <3>1. S = {}
      BY <2>3 DEF PictureInv
    <3>2. Inserted(S, p) = {p}
      BY <3>1 DEF Inserted
    <3> QED
      BY <1>6, <2>1, <3>2
  <2> QED
    BY <1>7, <2>2, <2>3
<1>9. \E m \in DOMAIN got'[k] : Run(packets'[k], got'[k], m)
  BY <1>1, <1>2, <1>8
<1>10. got'[k] # <<>> /\ jpegs'[k] = {got'[k][1].size}
  BY <1>1, <1>2, <1>5
<1> HIDE DEF k, g, G, S
<1> QED
  BY <1>4, <1>9, <1>10 DEF PictureInv

LEMMA PictureInvariant == Spec => []PictureInv
<1>1. Init => PictureInv
  BY DEF Init, PictureInv
<1>2. ASSUME TypeOK, PictureInv, [Next]_vars PROVE PictureInv'
  <2>1. CASE Push
    <3>1. PICK b : Arrived(b, pos') /\ Handle(b)
      BY <1>2, <2>1, Arrives
    <3>2. b \in Seq(0 .. Len(stream))
      BY <3>1 DEF Arrived
    <3>3. CASE NoPacketTaken
      BY <1>2, <3>3 DEF NoPacketTaken, PictureInv
    <3>4. CASE TakePacket(b)
      BY <1>2, <3>2, <3>4, TakeAsStep, PictureStep, Zenon
    <3> QED
      BY <3>1, <3>3, <3>4 DEF Handle
  <2>2. CASE UNCHANGED vars
    BY <1>2, <2>2 DEF vars, PictureInv
  <2> QED
    BY <1>2, <2>1, <2>2 DEF Next
<1> QED
  BY <1>1, <1>2, TypeCorrect, PTL DEF Spec

\* The packets of an image are always those that have come since one of them,
\* all of one size and no id twice: a new picture under an old number never
\* leaves a packet of the old one behind, and none is dropped for one.
THEOREM OnePicture == Spec => []SetIsARun
<1>1. PictureInv => SetIsARun
  BY DEF PictureInv, Run, Since, SetIsARun
<1> QED
  BY <1>1, PictureInvariant, PTL

\* The JPEG buffer has the size of the pictures of its number as long as they
\* all have one size.
THEOREM BuffersFit == Spec => []BufferFits
<1>1. ASSUME TypeOK, PictureInv PROVE BufferFits
  <2> SUFFICES ASSUME NEW k \in Keys, NEW p \in packets[k],
                      \A m \in DOMAIN got[k] : got[k][m].size = p.size
               PROVE  jpegs[k] = {p.size}
    BY DEF BufferFits
  <2>1. got[k] # <<>> /\ jpegs[k] = {got[k][1].size}
    BY <1>1 DEF PictureInv
  <2>2. 1 \in DOMAIN got[k]
    <3>1. got[k] \in Seq(Packet)
      BY <1>1 DEF TypeOK
    <3> QED
      BY <2>1, <3>1
  <2> QED
    BY <2>1, <2>2
<1> QED
  BY <1>1, TypeCorrect, PictureInvariant, PTL

-----------------------------------------------------------------------------
(***************************************************************************)
(* No packet is lost.                                                      *)
(***************************************************************************)
\* The intact packets before byte c have been taken, in order, and nothing else.
Accounted(tk, c) ==
    /\ \A m \in DOMAIN tk : tk[m] < c /\ IntactAt(tk[m])
    /\ \A m, n \in DOMAIN tk : m < n => tk[m] < tk[n]
    /\ \A i \in 1 .. (c - 1) : IntactAt(i) => i \in Range(tk)

\* What has been looked at, and what is still to come.
Progress(b, n, q, tk, c, d) ==
    /\ Behind(b, n, c, d)
    /\ q # 0 => q = d
    /\ Accounted(tk, c)

QueueInv == \E c \in Nat \ {0}, d \in Nat : Progress(buff, pos, begin, taken, c, d)

LEMMA IntactFacts ==
    ASSUME stream \in Streams, NEW i \in Nat \ {0}, IntactAt(i)
    PROVE  /\ i + PktSize - 1 <= Len(stream)
           /\ i \in 1 .. Len(stream)
           /\ stream[i].pkt \in Packet /\ stream[i].pos = 1 /\ stream[i].sync
           /\ \A j \in 1 .. PktSize : /\ stream[i + j - 1].pkt = stream[i].pkt
                                     /\ stream[i + j - 1].pos = j
<1>1. Len(stream) \in Nat /\ PktSize \in Nat /\ PktSize >= 1
  BY StreamFacts, SizeAssumption
<1>2. i + PktSize - 1 <= Len(stream) /\ i \in 1 .. Len(stream)
  BY <1>1 DEF IntactAt
<1>3. PICK p \in Packet : \A j \in 1 .. PktSize : stream[i + j - 1].pkt = p /\ stream[i + j - 1].pos = j
  BY DEF IntactAt
<1>4. stream[i].pkt = p /\ stream[i].pos = 1
  <2>1. 1 \in 1 .. PktSize /\ i + 1 - 1 = i
    BY <1>1
  <2>2. stream[i + 1 - 1].pkt = p /\ stream[i + 1 - 1].pos = 1
    BY <1>3, <2>1
  <2> QED
    BY <2>1, <2>2
<1> QED
  BY <1>2, <1>3, <1>4, StreamFacts

\* No packet begins at a byte of the buffer that is no sync byte.
LEMMA NoneBegins ==
    ASSUME stream \in Streams, NEW b, NEW n \in 0 .. Len(stream), Len(b) \in Nat,
           NEW c \in Nat \ {0}, NEW d \in Nat, Behind(b, n, c, d),
           NEW j \in d .. Len(b), ~IsSync(b[j])
    PROVE  ~IntactAt(c + j - d)
<1> DEFINE i == c + j - d
<1> SUFFICES ASSUME IntactAt(i) PROVE FALSE
  OBVIOUS
<1>1. i \in Nat \ {0} /\ i <= c + Len(b) - d /\ Len(stream) \in Nat
  BY StreamFacts
<1> HIDE DEF i
<1>2. i <= Len(stream) /\ stream[i].sync
  BY <1>1, IntactFacts
<1>3. b[j] = IF i <= n THEN i ELSE 0
  BY DEF Behind, i
<1>4. c + Len(b) - d > n => n = Len(stream)
  BY DEF Behind
<1>5. i <= n
  <2>1. CASE c + Len(b) - d > n
    BY <1>1, <1>2, <1>4, <2>1
  <2>2. CASE ~(c + Len(b) - d > n)
    <3>1. c + Len(b) - d \in Int
      OBVIOUS
    <3> QED
      BY <1>1, <2>2, <3>1
  <2> QED
    BY <2>1, <2>2
<1> QED
  BY <1>1, <1>2, <1>3, <1>5 DEF IsSync

\* Bytes where no packet begins may be passed over.
LEMMA Passed ==
    ASSUME NEW tk, NEW c \in Nat \ {0}, NEW e \in Nat, c <= e, Accounted(tk, c),
           \A m \in DOMAIN tk : tk[m] \in Nat,
           \A i \in c .. (e - 1) : ~IntactAt(i)
    PROVE  Accounted(tk, e)
<1>1. \A m \in DOMAIN tk : tk[m] < e
  BY DEF Accounted
<1>2. ASSUME NEW i \in 1 .. (e - 1), IntactAt(i) PROVE i \in Range(tk)
  <2>1. i \in 1 .. (c - 1) \/ i \in c .. (e - 1)
    OBVIOUS
  <2> QED
    BY <1>2, <2>1 DEF Accounted
<1> QED
  BY <1>1, <1>2 DEF Accounted

\* ... as many as there are places from d to e without a packet.
LEMMA Skipped ==
    ASSUME NEW tk, NEW c \in Nat \ {0}, NEW d \in Nat, NEW e \in Nat, d <= e,
           Accounted(tk, c), \A m \in DOMAIN tk : tk[m] \in Nat,
           \A j \in d .. (e - 1) : ~IntactAt(c + j - d)
    PROVE  Accounted(tk, c + e - d) /\ c + e - d \in Nat \ {0}
<1>1. c + e - d \in Nat \ {0} /\ c <= c + e - d
  OBVIOUS
<1>2. ASSUME NEW i \in c .. (c + e - d - 1) PROVE ~IntactAt(i)
  <2>1. i - c + d \in d .. (e - 1) /\ c + (i - c + d) - d = i
    OBVIOUS
  <2> QED
    BY <2>1
<1> QED
  BY <1>1, <1>2, Passed

\* The same buffer, described from a later place on.
LEMMA Forward ==
    ASSUME NEW b, NEW n \in Nat, Len(b) \in Nat, NEW c \in Nat \ {0}, NEW d \in Nat,
           Behind(b, n, c, d), NEW e \in d .. (Len(b) + 1),
           \A j \in 1 .. (e - 1) : ~IsSync(b[j])
    PROVE  Behind(b, n, c + e - d, e)
<1>1. /\ d >= 1 /\ c + Len(b) - d >= n /\ (c + Len(b) - d > n => n = Len(stream))
      /\ \A j \in d .. Len(b) : b[j] = IF c + j - d <= n THEN c + j - d ELSE 0
  BY DEF Behind
<1>2. e \in 1 .. (Len(b) + 1) /\ e \in Nat /\ (c + e - d) + Len(b) - e = c + Len(b) - d
  BY <1>1
<1>3. ASSUME NEW j \in e .. Len(b)
      PROVE  b[j] = IF (c + e - d) + j - e <= n THEN (c + e - d) + j - e ELSE 0
  <2>1. j \in d .. Len(b) /\ (c + e - d) + j - e = c + j - d
    BY <1>2
  <2> QED
    BY <1>1, <2>1
<1> QED
  BY <1>1, <1>2, <1>3 DEF Behind

\* What is before place f is thrown away.
LEMMA Dropped ==
    ASSUME NEW b \in Seq(0 .. Len(stream)), NEW n \in Nat, NEW c \in Nat \ {0}, NEW d \in Nat,
           Behind(b, n, c, d), NEW f \in d .. (Len(b) + 1)
    PROVE  Behind(SubSeq(b, f, Len(b)), n, c + f - d, 1)
<1> DEFINE r == SubSeq(b, f, Len(b))
<1>1. /\ d >= 1 /\ c + Len(b) - d >= n /\ (c + Len(b) - d > n => n = Len(stream))
      /\ \A j \in d .. Len(b) : b[j] = IF c + j - d <= n THEN c + j - d ELSE 0
      /\ Len(b) \in Nat
  BY DEF Behind
<1>2. f \in 1 .. (Len(b) + 1) /\ f \in Nat
  BY <1>1
<1>3. Len(r) = Len(b) - f + 1 /\ \A j \in 1 .. Len(r) : r[j] = b[f + j - 1]
  BY <1>2, FromFacts, Zenon
<1> HIDE DEF r
<1>4. Len(r) \in Nat /\ (c + f - d) + Len(r) - 1 = c + Len(b) - d
  BY <1>1, <1>2, <1>3
<1>5. ASSUME NEW j \in 1 .. Len(r)
      PROVE  r[j] = IF (c + f - d) + j - 1 <= n THEN (c + f - d) + j - 1 ELSE 0
  <2>1. f + j - 1 \in d .. Len(b) /\ c + (f + j - 1) - d = (c + f - d) + j - 1
    BY <1>1, <1>2, <1>3
  <2> QED
    BY <1>1, <1>3, <2>1
<1>6. 1 \in 1 .. (Len(r) + 1) /\ 1 .. (1 - 1) = {}
  BY <1>4
<1>7. Behind(r, n, c + f - d, 1)
  BY <1>1, <1>4, <1>5, <1>6 DEF Behind
<1> QED
  BY <1>7 DEF r

-----------------------------------------------------------------------------
\* The invariant after a step, of the same transmission.
LEMMA SameStream ==
    ASSUME stream' = stream, NEW c \in Nat \ {0}, NEW d \in Nat,
           Progress(buff', pos', begin', taken', c, d)
    PROVE  QueueInv'
<1>1. \A x : IsSync(x)' <=> IsSync(x)
  BY DEF IsSync
<1>2. \A x : IntactAt(x)' <=> IntactAt(x)
  BY DEF IntactAt
<1>3. Behind(buff, pos, c, d)'
  BY <1>1 DEF Progress, Behind
<1>4. Accounted(taken, c)'
  BY <1>2 DEF Progress, Accounted
<1>5. (begin # 0 => begin = d)'
  BY DEF Progress
<1> QED
  BY <1>3, <1>4, <1>5 DEF QueueInv, Progress

\* A call begins with the buffer described, and with nothing but passed over
\* places before the candidate.
LEMMA CallBegins ==
    ASSUME TypeOK, QueueInv, NEW b, Arrived(b, pos')
    PROVE  /\ b \in Seq(0 .. Len(stream)) /\ b \in Seq(Nat) /\ Len(b) \in Nat /\ begin \in Nat
           /\ Len(b) >= Len(buff)
           /\ pos' \in 0 .. Len(stream) /\ pos' \in Nat /\ Len(stream) \in Nat
           /\ \A m \in DOMAIN taken : taken[m] \in Nat
           /\ \E c \in Nat \ {0}, d \in Nat : Progress(b, pos', begin, taken, c, d)
<1>1. /\ b \in Seq(0 .. Len(stream)) /\ Len(b) >= Len(buff) /\ pos' \in 0 .. Len(stream)
      /\ \A c, d \in Nat : Behind(buff, pos, c, d) => Behind(b, pos', c, d)
  BY DEF Arrived
<1>2. Len(stream) \in Nat
  BY StreamFacts DEF TypeOK
<1>3. b \in Seq(Nat)
  <2>1. 0 .. Len(stream) \subseteq Nat
    BY <1>2
  <2> QED
    BY <1>1, <2>1, SeqMonotonic
<1>4. \A m \in DOMAIN taken : taken[m] \in Nat
  <2>1. taken \in Seq(1 .. Len(stream))
    BY DEF TypeOK
  <2>2. \A m \in DOMAIN taken : taken[m] \in 1 .. Len(stream)
    BY <2>1
  <2> QED
    BY <1>2, <2>2
<1>5. \E c \in Nat \ {0}, d \in Nat : Progress(b, pos', begin, taken, c, d)
  <2>1. PICK c \in Nat \ {0}, d \in Nat : Progress(buff, pos, begin, taken, c, d)
    BY DEF QueueInv
  <2>2. c \in Nat /\ Behind(b, pos', c, d)
    BY <1>1, <2>1 DEF Progress
  <2> QED
    BY <2>1, <2>2 DEF Progress
<1>6. begin \in Nat /\ Len(b) \in Nat
  <2>1. Len(buff) \in Nat /\ begin \in 0 .. Len(buff)
    BY DEF TypeOK
  <2> QED
    BY <1>1, <2>1
<1> QED
  BY <1>1, <1>2, <1>3, <1>4, <1>5, <1>6

\* The candidate i itself may be taken as the place from which on nothing has
\* been looked at.
LEMMA AtCandidate ==
    ASSUME TypeOK, NEW b \in Seq(0 .. Len(stream)), b \in Seq(Nat), NEW n \in 0 .. Len(stream),
           Len(b) \in Nat, begin \in Nat, Len(stream) \in Nat,
           \A m \in DOMAIN taken : taken[m] \in Nat,
           NEW c \in Nat \ {0}, NEW d \in Nat, Progress(b, n, begin, taken, c, d),
           NEW i \in 1 .. Len(b), Ready(b, i)
    PROVE  \E e \in Nat \ {0} : Behind(b, n, e, i) /\ Accounted(taken, e)
<1>1. Behind(b, n, c, d) /\ Accounted(taken, c) /\ d >= 1 /\ \A j \in 1 .. (d - 1) : ~IsSync(b[j])
  BY DEF Progress, Behind
<1>2. CASE begin # 0
  <2>1. i = d
    BY <1>2, ReadyFacts DEF Progress
  <2> QED
    BY <1>1, <2>1
<1>3. CASE begin = 0
  <2>1. IsSync(b[i]) /\ \A j \in 1 .. (i - 1) : ~IsSync(b[j])
    BY <1>3, ReadyFacts
  <2>2. ~(i < d)
    <3>1. ASSUME i < d PROVE i \in 1 .. (d - 1)
      BY <3>1
    <3> QED
      BY <1>1, <2>1, <3>1
  <2>3. i \in d .. (Len(b) + 1) /\ i \in Nat /\ d <= i
    BY <2>2
  <2>4. ASSUME NEW j \in d .. (i - 1) PROVE ~IntactAt(c + j - d)
    <3>1. j \in 1 .. (i - 1) /\ j \in d .. Len(b)
      BY <1>1, <2>3
    <3>2. ~IsSync(b[j])
      BY <2>1, <3>1
    <3>3. stream \in Streams
      BY DEF TypeOK
    <3> QED
      BY <1>1, <3>1, <3>2, <3>3, NoneBegins
  <2>5. Accounted(taken, c + i - d) /\ c + i - d \in Nat \ {0}
    BY <1>1, <2>3, <2>4, Skipped
  <2>6. n \in Nat
    OBVIOUS
  <2>7. Behind(b, n, c + i - d, i)
    BY <1>1, <2>1, <2>3, <2>6, Forward
  <2> QED
    BY <2>5, <2>7
<1> QED
  BY <1>2, <1>3

\* Nothing but noise is left when the buffer is cleared, from place d on no
\* packet begins.
LEMMA Cleared ==
    ASSUME TypeOK, stream' = stream, NEW b \in Seq(0 .. Len(stream)), pos' \in Nat,
           \A m \in DOMAIN taken : taken[m] \in Nat, Len(b) \in Nat,
           NEW c \in Nat \ {0}, NEW d \in Nat, Behind(b, pos', c, d), Accounted(taken, c),
           \A j \in d .. Len(b) : ~IntactAt(c + j - d), Clear, taken' = taken
    PROVE  QueueInv'
<1> DEFINE f == Len(b) + 1
<1>1. f \in Nat /\ f \in d .. (Len(b) + 1) /\ d <= f /\ f - 1 = Len(b)
  BY DEF Behind
<1>2. Behind(SubSeq(b, f, Len(b)), pos', c + f - d, 1)
  BY <1>1, Dropped
<1>3. SubSeq(b, f, Len(b)) = <<>>
  BY SubSeqEmpty
<1>4. Accounted(taken, c + f - d) /\ c + f - d \in Nat \ {0}
  <2>1. \A j \in d .. (f - 1) : ~IntactAt(c + j - d)
    BY <1>1
  <2> HIDE DEF f
  <2> QED
    BY <1>1, <2>1, Skipped
<1> HIDE DEF f
<1>5. Progress(buff', pos', begin', taken', c + f - d, 1)
  BY <1>2, <1>3, <1>4 DEF Clear, Progress
<1> QED
  BY <1>4, <1>5, SameStream

-----------------------------------------------------------------------------
\* A packet is cut out of the buffer and accounted for.
LEMMA Taken ==
    ASSUME TypeOK, stream' = stream, NEW b \in Seq(0 .. Len(stream)), pos' \in 0 .. Len(stream),
           Len(b) \in Nat, Len(stream) \in Nat, NEW i \in 1 .. Len(b),
           NEW e \in Nat \ {0}, Behind(b, pos', e, i), Accounted(taken, e),
           Len(b) - i + 1 >= PktSize, IsPacket(b, i),
           buff' = Cut(b, i), begin' = 0, taken' = Append(taken, b[i])
    PROVE  QueueInv'
<1> DEFINE P == PktSize
           r == Cut(b, i)
<1>1. P \in Nat /\ P >= 1 /\ i \in Nat /\ i >= 1 /\ pos' \in Nat /\ pos' <= Len(stream)
      /\ i + P - 1 <= Len(b)
  BY SizeAssumption
<1>2. /\ e + Len(b) - i >= pos' /\ (e + Len(b) - i > pos' => pos' = Len(stream))
      /\ \A j \in 1 .. (i - 1) : ~IsSync(b[j])
      /\ \A j \in i .. Len(b) : b[j] = IF e + j - i <= pos' THEN e + j - i ELSE 0
  BY DEF Behind
<1>3. /\ b[i] \in 1 .. Len(stream) /\ stream[b[i]].pkt \in Packet
      /\ \A j \in 1 .. P : /\ b[i + j - 1] # 0
                           /\ stream[b[i + j - 1]].pkt = stream[b[i]].pkt
                           /\ stream[b[i + j - 1]].pos = j
  BY <1>1, PacketFacts, ZenonT(60) DEF TypeOK
<1>4. /\ Len(r) = Len(b) - P
      /\ \A j \in 1 .. Len(b) - P : r[j] = IF j < i THEN b[j] ELSE b[j + P]
  BY <1>1, CutFacts
<1> HIDE DEF P, r
<1>5. ASSUME NEW j \in 1 .. P PROVE b[i + j - 1] = e + j - 1 /\ e + j - 1 <= pos'
  <2>1. i + j - 1 \in i .. Len(b) /\ e + (i + j - 1) - i = e + j - 1
    BY <1>1
  <2>2. b[i + j - 1] = IF e + j - 1 <= pos' THEN e + j - 1 ELSE 0
    BY <1>2, <2>1
  <2> QED
    BY <1>3, <2>2
<1>6. b[i] = e
  <2>1. 1 \in 1 .. P /\ i + 1 - 1 = i /\ e + 1 - 1 = e
    BY <1>1
  <2>2. b[i + 1 - 1] = e + 1 - 1
    BY <1>5, <2>1
  <2> QED
    BY <2>1, <2>2
<1>7. e + P - 1 <= pos'
  <2>1. P \in 1 .. P
    BY <1>1
  <2> QED
    BY <1>5, <2>1
<1>8. \A j \in 1 .. P : stream[e + j - 1].pkt = stream[e].pkt /\ stream[e + j - 1].pos = j
  <2> SUFFICES ASSUME NEW j \in 1 .. P
               PROVE  stream[e + j - 1].pkt = stream[e].pkt /\ stream[e + j - 1].pos = j
    OBVIOUS
  <2>1. b[i + j - 1] = e + j - 1
    BY <1>5
  <2>2. stream[b[i + j - 1]].pkt = stream[b[i]].pkt /\ stream[b[i + j - 1]].pos = j
    BY <1>3
  <2> QED
    BY <1>6, <2>1, <2>2
<1>9. IntactAt(e)
  <2>1. e + PktSize - 1 <= Len(stream)
    BY <1>1, <1>7 DEF P
  <2>2. stream[e].pkt \in Packet
    BY <1>3, <1>6
  <2> QED
    BY <1>8, <2>1, <2>2 DEF IntactAt, P
<1>10. ASSUME NEW x \in (e + 1) .. (e + P - 1) PROVE ~IntactAt(x)
  <2> SUFFICES ASSUME IntactAt(x) PROVE FALSE
    OBVIOUS
  <2>1. x \in Nat \ {0} /\ x - e + 1 \in 1 .. P /\ e + (x - e + 1) - 1 = x /\ x - e + 1 # 1
    BY <1>1
  <2>2. stream[e + (x - e + 1) - 1].pos = x - e + 1
    BY <1>8, <2>1
  <2>3. stream[x].pos = 1
    BY <2>1, IntactFacts DEF TypeOK
  <2> QED
    BY <2>1, <2>2, <2>3
<1>11. Accounted(Append(taken, e), e + P)
  <2> DEFINE tk == Append(taken, e)
  <2>1. taken \in Seq(Nat) /\ Len(taken) \in Nat /\ DOMAIN taken = 1 .. Len(taken)
    <3>1. 1 .. Len(stream) \subseteq Nat
      OBVIOUS
    <3>2. taken \in Seq(1 .. Len(stream))
      BY DEF TypeOK
    <3>3. taken \in Seq(Nat)
      BY <3>1, <3>2, SeqMonotonic
    <3> QED
      BY <3>3
  <2>2. /\ DOMAIN tk = 1 .. (Len(taken) + 1) /\ tk[Len(taken) + 1] = e
        /\ \A m \in 1 .. Len(taken) : tk[m] = taken[m]
    BY <2>1
  <2> HIDE DEF tk
  <2>3. /\ \A m \in 1 .. Len(taken) : taken[m] \in Nat /\ taken[m] < e /\ IntactAt(taken[m])
        /\ \A m, n \in 1 .. Len(taken) : m < n => taken[m] < taken[n]
        /\ \A x \in 1 .. (e - 1) : IntactAt(x) => x \in Range(taken)
    <3>1. \A m \in 1 .. Len(taken) : taken[m] \in Nat
      BY <2>1, SMTT(40)
    <3>2. /\ \A m \in 1 .. Len(taken) : taken[m] < e /\ IntactAt(taken[m])
          /\ \A m, n \in 1 .. Len(taken) : m < n => taken[m] < taken[n]
          /\ \A x \in 1 .. (e - 1) : IntactAt(x) => x \in Range(taken)
      BY <2>1, Zenon DEF Accounted
    <3> QED
      BY <3>1, <3>2
  <2>4. ASSUME NEW m \in DOMAIN tk PROVE tk[m] < e + P /\ IntactAt(tk[m])
    <3>1. CASE m \in 1 .. Len(taken)
      <4>1. tk[m] = taken[m] /\ taken[m] \in Nat /\ taken[m] < e /\ IntactAt(taken[m])
        BY <2>2, <2>3, <3>1
      <4>2. taken[m] < e + P
        BY <1>1, <4>1, SMTT(40)
      <4> QED
        BY <4>1, <4>2
    <3>2. CASE m = Len(taken) + 1
      <4>1. tk[m] = e /\ e < e + P
        BY <1>1, <2>2, <3>2
      <4> QED
        BY <1>9, <4>1
    <3> QED
      BY <2>1, <2>2, <3>1, <3>2, SMTT(40)
  <2>5. ASSUME NEW m \in DOMAIN tk, NEW n \in DOMAIN tk, m < n PROVE tk[m] < tk[n]
    <3>1. m \in 1 .. Len(taken)
      BY <2>1, <2>2, <2>5
    <3>2. CASE n \in 1 .. Len(taken)
      BY <2>2, <2>3, <2>5, <3>1, <3>2
    <3>3. CASE n = Len(taken) + 1
      BY <2>2, <2>3, <3>1, <3>3
    <3> QED
      BY <2>1, <2>2, <3>2, <3>3, SMTT(40)
  <2>6. ASSUME NEW x \in 1 .. ((e + P) - 1), IntactAt(x) PROVE x \in Range(tk)
    <3>1. CASE x < e
      <4>1. x \in 1 .. (e - 1)
        BY <3>1
      <4>2. x \in Range(taken)
        BY <2>3, <2>6, <4>1
      <4>3. PICK m \in 1 .. Len(taken) : x = taken[m]
        BY <2>1, <4>2 DEF Range
      <4>4. m \in DOMAIN tk /\ tk[m] = x
        BY <2>1, <2>2, <4>3
      <4> QED
        BY <4>4 DEF Range
    <3>2. CASE x = e
      <4>1. Len(taken) + 1 \in DOMAIN tk /\ tk[Len(taken) + 1] = x
        BY <2>1, <2>2, <3>2
      <4> QED
        BY <4>1 DEF Range
    <3>3. CASE x > e
      <4>1. x \in (e + 1) .. (e + P - 1)
        BY <1>1, <3>3
      <4> QED
        BY <1>10, <2>6, <4>1
    <3> QED
      BY <3>1, <3>2, <3>3
  <2>7. Accounted(tk, e + P)
    BY <2>4, <2>5, <2>6, Zenon DEF Accounted
  <2> QED
    BY <2>7 DEF tk
<1>12. Behind(r, pos', e + P, i)
  <2>1. Len(r) \in Nat /\ i \in 1 .. (Len(r) + 1) /\ (e + P) + Len(r) - i = e + Len(b) - i
    BY <1>1, <1>4
  <2>2. ASSUME NEW j \in 1 .. (i - 1) PROVE ~IsSync(r[j])
    <3>1. j \in 1 .. Len(b) - P /\ j < i
      BY <1>1
    <3>2. r[j] = b[j]
      BY <1>4, <3>1
    <3> QED
      BY <1>2, <3>2
  <2>3. ASSUME NEW j \in i .. Len(r)
        PROVE  r[j] = IF (e + P) + j - i <= pos' THEN (e + P) + j - i ELSE 0
    <3>1. j \in 1 .. Len(b) - P /\ ~(j < i) /\ j + P \in i .. Len(b) /\ e + (j + P) - i = (e + P) + j - i
      <4>1. j \in Nat /\ i <= j /\ j <= Len(b) - P
        BY <1>1, <1>4, <2>1
      <4> QED
        BY <1>1, <4>1
    <3>2. r[j] = b[j + P]
      BY <1>4, <3>1
    <3> QED
      BY <1>2, <3>1, <3>2
  <2> QED
    BY <1>2, <2>1, <2>2, <2>3 DEF Behind
<1>13. Progress(buff', pos', begin', taken', e + P, i)
  BY <1>6, <1>11, <1>12 DEF Progress, r
<1>14. e + P \in Nat \ {0}
  BY <1>1
<1> QED
  BY <1>1, <1>13, <1>14, SameStream

-----------------------------------------------------------------------------
LEMMA QueueStep ==
    ASSUME TypeOK, QueueInv, stream' = stream, NEW b, Arrived(b, pos'), Handle(b)
    PROVE  QueueInv'
<1>1. /\ b \in Seq(0 .. Len(stream)) /\ b \in Seq(Nat) /\ Len(b) \in Nat /\ begin \in Nat
      /\ Len(b) >= Len(buff)
      /\ pos' \in 0 .. Len(stream) /\ pos' \in Nat /\ Len(stream) \in Nat
      /\ \A m \in DOMAIN taken : taken[m] \in Nat
  BY CallBegins
<1>2. PICK c \in Nat \ {0}, d \in Nat : Progress(b, pos', begin, taken, c, d)
  BY CallBegins
<1>3. /\ Behind(b, pos', c, d) /\ Accounted(taken, c) /\ d \in 1 .. (Len(b) + 1)
      /\ stream \in Streams
  BY <1>2 DEF Progress, Behind, TypeOK
<1>4. CASE TooFew(b) /\ NoPacketTaken
  <2>1. Progress(buff', pos', begin', taken', c, d)
    BY <1>2, <1>4 DEF TooFew, NoPacketTaken
  <2> QED
    BY <2>1, SameStream
<1>5. CASE NoSync(b) /\ NoPacketTaken
  <2>1. SyncsFrom(b, 1) = {} /\ Clear /\ taken' = taken
    BY <1>1, <1>5 DEF NoSync, Candidates, NoPacketTaken
  <2>2. 1 \in 1 .. (Len(b) + 1)
    BY <1>1
  <2>3. \A j \in 1 .. Len(b) : ~IsSync(b[j])
    BY <1>1, <2>1, <2>2, SyncFacts
  <2>4. ASSUME NEW j \in d .. Len(b) PROVE ~IntactAt(c + j - d)
    <3>1. j \in 1 .. Len(b)
      BY <1>1, <1>3
    <3>2. ~IsSync(b[j])
      BY <2>3, <3>1
    <3> QED
      BY <1>1, <1>3, <3>2, NoneBegins
  <2> QED
    BY <1>1, <1>3, <2>1, <2>4, Cleared
<1>6. CASE Incomplete(b) /\ NoPacketTaken
  <2>1. PICK i \in 1 .. Len(b) : Ready(b, i) /\ buff' = b /\ begin' = i /\ taken' = taken
    BY <1>6 DEF Incomplete, NoPacketTaken
  <2>2. PICK e \in Nat \ {0} : Behind(b, pos', e, i) /\ Accounted(taken, e)
    BY <1>1, <1>2, <2>1, AtCandidate
  <2>3. Progress(buff', pos', begin', taken', e, i) /\ i \in Nat
    BY <2>1, <2>2 DEF Progress
  <2> QED
    BY <2>3, SameStream
<1>7. CASE Resync(b) /\ NoPacketTaken
  <2>1. PICK i \in 1 .. Len(b) :
            /\ Ready(b, i) /\ Len(b) - i + 1 >= PktSize /\ ~IsPacket(b, i)
            /\ LET S == SyncsFrom(b, i + 1)
               IN  IF S = {} THEN Clear
                   ELSE buff' = SubSeq(b, First(S), Len(b)) /\ begin' = 1
    BY <1>7 DEF Resync
  <2>2. PICK e \in Nat \ {0} : Behind(b, pos', e, i) /\ Accounted(taken, e)
    BY <1>1, <1>2, <2>1, AtCandidate
  <2>3. taken' = taken
    BY <1>7 DEF NoPacketTaken
  <2>4. ~IntactAt(e)
    <3> SUFFICES ASSUME IntactAt(e) PROVE FALSE
      OBVIOUS
    <3>1. /\ e + PktSize - 1 <= Len(stream) /\ stream[e].pkt \in Packet
          /\ \A j \in 1 .. PktSize : /\ stream[e + j - 1].pkt = stream[e].pkt
                                    /\ stream[e + j - 1].pos = j
      BY <1>3, IntactFacts
    <3>2. /\ e + Len(b) - i >= pos' /\ (e + Len(b) - i > pos' => pos' = Len(stream))
          /\ \A j \in i .. Len(b) : b[j] = IF e + j - i <= pos' THEN e + j - i ELSE 0
      BY <2>2 DEF Behind
    <3>3. PktSize \in Nat /\ PktSize >= 1
      BY SizeAssumption
    <3>4. ASSUME NEW j \in 1 .. PktSize PROVE b[i + j - 1] = e + j - 1
      <4>1. i + j - 1 \in i .. Len(b) /\ e + (i + j - 1) - i = e + j - 1
        BY <1>1, <2>1, <3>3
      <4>2. e + j - 1 <= e + PktSize - 1 /\ e + PktSize - 1 <= e + Len(b) - i
        BY <1>1, <2>1, <3>3
      <4>3. e + j - 1 <= pos'
        BY <1>1, <3>1, <3>2, <3>3, <4>2
      <4> QED
        BY <3>2, <4>1, <4>3
    <3>5. b[i] = e
      <4>1. 1 \in 1 .. PktSize /\ i + 1 - 1 = i /\ e + 1 - 1 = e
        BY <3>3
      <4>2. b[i + 1 - 1] = e + 1 - 1
        BY <3>4, <4>1
      <4> QED
        BY <4>1, <4>2
    <3>6. ASSUME NEW j \in 1 .. PktSize
          PROVE  /\ b[i + j - 1] # 0
                 /\ stream[b[i + j - 1]].pkt = stream[b[i]].pkt
                 /\ stream[b[i + j - 1]].pos = j
      <4>1. b[i + j - 1] = e + j - 1 /\ e + j - 1 # 0
        BY <3>3, <3>4
      <4>2. stream[e + j - 1].pkt = stream[e].pkt /\ stream[e + j - 1].pos = j
        BY <3>1
      <4> QED
        BY <3>5, <4>1, <4>2
    <3>7. IsPacket(b, i)
      BY <3>1, <3>5, <3>6 DEF IsPacket, Holds
    <3> QED
      BY <2>1, <3>7
  <2> DEFINE S == SyncsFrom(b, i + 1)
             f == IF S = {} THEN Len(b) + 1 ELSE First(S)
  <2>5. i + 1 \in 1 .. (Len(b) + 1)
    BY <1>1
  <2>6. /\ S = {} => \A j \in (i + 1) .. Len(b) : ~IsSync(b[j])
        /\ S # {} => First(S) \in (i + 1) .. Len(b) /\ \A j \in (i + 1) .. (First(S) - 1) : ~IsSync(b[j])
    BY <1>1, <2>5, SyncFacts, Zenon
  <2>7. IF S = {} THEN Clear ELSE buff' = SubSeq(b, First(S), Len(b)) /\ begin' = 1
    BY <2>1
  <2> HIDE DEF S
  <2>8. f \in i .. (Len(b) + 1) /\ i <= f /\ f \in Nat /\ i \in Nat
    BY <1>1, <2>6
  <2>9. ASSUME NEW j \in i .. (f - 1) PROVE ~IntactAt(e + j - i)
    <3>1. CASE j = i
      BY <2>4, <3>1
    <3>2. CASE j # i
      <4>1. j \in (i + 1) .. Len(b) /\ (S # {} => j \in (i + 1) .. (First(S) - 1))
        BY <1>1, <2>6, <2>8, <3>2
      <4>2. ~IsSync(b[j]) /\ j \in i .. Len(b)
        BY <2>6, <2>8, <4>1
      <4> QED
        BY <1>1, <1>3, <2>2, <2>8, <4>2, NoneBegins
    <3> QED
      BY <3>1, <3>2
  <2>10. CASE S = {}
    <3>1. \A j \in i .. Len(b) : ~IntactAt(e + j - i)
      BY <1>1, <2>9, <2>10
    <3> QED
      BY <1>1, <2>2, <2>3, <2>7, <2>8, <2>10, <3>1, Cleared
  <2>11. CASE S # {}
    <3> HIDE DEF f
    <3>1. Behind(SubSeq(b, f, Len(b)), pos', e + f - i, 1)
      BY <1>1, <2>2, <2>8, Dropped
    <3>2. Accounted(taken, e + f - i) /\ e + f - i \in Nat \ {0}
      BY <1>1, <2>2, <2>8, <2>9, Skipped
    <3>3. buff' = SubSeq(b, f, Len(b)) /\ begin' = 1
      BY <2>7, <2>11 DEF f
    <3>4. Progress(buff', pos', begin', taken', e + f - i, 1)
      BY <2>3, <3>1, <3>2, <3>3 DEF Progress
    <3> QED
      BY <3>2, <3>4, SameStream
  <2> QED
    BY <2>10, <2>11
<1>8. CASE TakePacket(b)
  <2>1. PICK i \in 1 .. Len(b) :
            /\ Ready(b, i) /\ Len(b) - i + 1 >= PktSize /\ IsPacket(b, i)
            /\ buff' = Cut(b, i) /\ begin' = 0 /\ taken' = Append(taken, b[i])
    BY <1>8 DEF TakePacket
  <2>2. PICK e \in Nat \ {0} : Behind(b, pos', e, i) /\ Accounted(taken, e)
    BY <1>1, <1>2, <2>1, AtCandidate
  <2> QED
    BY <1>1, <2>1, <2>2, Taken
<1> QED
  BY <1>4, <1>5, <1>6, <1>7, <1>8 DEF Handle

LEMMA QueueInvariant == Spec => []QueueInv
<1>1. Init => QueueInv
  <2> SUFFICES ASSUME Init PROVE QueueInv
    OBVIOUS
  <2>1. Behind(buff, pos, 1, 1) /\ Accounted(taken, 1) /\ begin = 0
    BY DEF Init, Behind, Accounted
  <2> QED
    BY <2>1 DEF QueueInv, Progress
<1>2. ASSUME TypeOK, QueueInv, [Next]_vars PROVE QueueInv'
  <2>1. CASE Push
    <3>1. stream' = stream /\ \E b : Arrived(b, pos') /\ Handle(b)
      BY <1>2, <2>1, Arrives
    <3> QED
      BY <1>2, <3>1, QueueStep
  <2>2. CASE UNCHANGED vars
    <3>1. stream' = stream /\ pos' = pos /\ buff' = buff /\ begin' = begin /\ taken' = taken
      BY <2>2 DEF vars
    <3>2. PICK c \in Nat \ {0}, d \in Nat : Progress(buff, pos, begin, taken, c, d)
      BY <1>2 DEF QueueInv
    <3>3. Progress(buff', pos', begin', taken', c, d)
      BY <3>1, <3>2
    <3> QED
      BY <3>1, <3>3, SameStream
  <2> QED
    BY <1>2, <2>1, <2>2 DEF Next
<1> QED
  BY <1>1, <1>2, TypeCorrect, PTL DEF Spec

LEMMA NoneLost ==
    ASSUME TypeOK, QueueInv
    PROVE  NoPacketLost
<1>1. PICK c \in Nat \ {0}, d \in Nat : Progress(buff, pos, begin, taken, c, d)
  BY DEF QueueInv
<1>2. /\ d >= 1 /\ d <= Len(buff) + 1 /\ c + Len(buff) - d >= pos
      /\ \A j \in 1 .. (d - 1) : ~IsSync(buff[j])
      /\ \A j \in d .. Len(buff) : buff[j] = IF c + j - d <= pos THEN c + j - d ELSE 0
      /\ begin # 0 => begin = d
  BY <1>1 DEF Progress, Behind
<1>3. /\ \A m \in DOMAIN taken : taken[m] < c /\ IntactAt(taken[m])
      /\ \A m, n \in DOMAIN taken : m < n => taken[m] < taken[n]
      /\ \A i \in 1 .. (c - 1) : IntactAt(i) => i \in Range(taken)
  BY <1>1, Zenon DEF Progress, Accounted
<1>4. /\ PktSize \in Nat /\ PktSize >= 1 /\ Len(buff) \in Nat /\ Len(stream) \in Nat
      /\ pos \in 0 .. Len(stream) /\ begin \in 0 .. Len(buff) /\ stream \in Streams
  BY SizeAssumption, StreamFacts DEF TypeOK
<1>5. \A m \in DOMAIN taken : taken[m] \in Nat \ {0}
  <2>1. taken \in Seq(1 .. Len(stream))
    BY DEF TypeOK
  <2>2. \A m \in DOMAIN taken : taken[m] \in 1 .. Len(stream)
    BY <2>1
  <2> QED
    BY <1>4, <2>2
<1>6. ASSUME NEW m \in DOMAIN taken PROVE ~Waiting(taken[m])
  <2> DEFINE t == taken[m]
  <2> SUFFICES ASSUME NEW x \in 1 .. Len(buff), x + PktSize - 1 <= Len(buff),
                      \A j \in 1 .. PktSize : buff[x + j - 1] = t + j - 1
               PROVE  FALSE
    BY DEF Waiting
  <2>1. t \in Nat \ {0} /\ t < c /\ IntactAt(t)
    BY <1>3, <1>5
  <2> HIDE DEF t
  <2>2. buff[x] = t
    <3>1. 1 \in 1 .. PktSize /\ x + 1 - 1 = x /\ t + 1 - 1 = t
      BY <1>4, <2>1
    <3>2. buff[x + 1 - 1] = t + 1 - 1
      BY <3>1
    <3> QED
      BY <3>1, <3>2
  <2>3. CASE x < d
    <3>1. x \in 1 .. (d - 1)
      BY <1>2, <2>3
    <3>2. IsSync(t)
      BY <1>4, <2>1, IntactFacts DEF IsSync
    <3> QED
      BY <1>2, <2>2, <3>1, <3>2
  <2>4. CASE ~(x < d)
    <3>1. x \in d .. Len(buff) /\ c + x - d >= c
      BY <1>4, <2>4
    <3> QED
      BY <1>2, <2>1, <2>2, <3>1
  <2> QED
    BY <2>3, <2>4
<1>7. ASSUME NEW i \in 1 .. (pos - PktSize + 1), IntactAt(i)
      PROVE  i \in Range(taken) \/ (Waiting(i) /\ \A t \in Range(taken) : t < i)
  <2>1. CASE i < c
    <3>1. i \in 1 .. (c - 1)
      BY <2>1
    <3> QED
      BY <1>3, <1>7, <3>1
  <2>2. CASE ~(i < c)
    <3> DEFINE x == d + (i - c)
    <3>1. i \in Nat /\ i >= c /\ i + PktSize - 1 <= pos
      BY <1>4, <2>2
    <3>2. x \in d .. Len(buff) /\ x + PktSize - 1 <= Len(buff) /\ x >= begin
      BY <1>2, <1>4, <3>1
    <3>3. ASSUME NEW j \in 1 .. PktSize PROVE buff[x + j - 1] = i + j - 1
      <4>1. x + j - 1 \in d .. Len(buff) /\ c + (x + j - 1) - d = i + j - 1 /\ i + j - 1 <= pos
        BY <1>2, <1>4, <3>1
      <4> HIDE DEF x
      <4> QED
        BY <1>2, <4>1
    <3>4. x \in 1 .. Len(buff)
      BY <1>2, <3>2
    <3> HIDE DEF x
    <3>5. Waiting(i)
      BY <3>2, <3>3, <3>4 DEF Waiting
    <3>6. ASSUME NEW t \in Range(taken) PROVE t < i
      <4>1. PICK m \in DOMAIN taken : t = taken[m]
        BY DEF Range
      <4> QED
        BY <1>3, <1>5, <3>1, <4>1
    <3> QED
      BY <3>5, <3>6
  <2> QED
    BY <2>1, <2>2
<1> QED
  BY <1>3, <1>6, <1>7, Zenon DEF NoPacketLost

\* However a transmission is cut into calls of push(), whatever stands between
\* the packets: the intact ones that have come are taken, once and in order, or
\* wait in the buffer at or behind packet_begin_, and nothing else is taken.
THEOREM NothingLost == Spec => []NoPacketLost
<1> QED
  BY NoneLost, TypeCorrect, QueueInvariant, PTL
=============================================================================
