-------------------------------- MODULE Rtty --------------------------------
(***************************************************************************)
(* RTTY: characters out of a stream of bits that arrives in portions.  A   *)
(* character is a start bit 0, nbits data bits, the lowest first, and      *)
(* nstops stop bits 1.  Clients may change both numbers between two calls  *)
(* of process().  Sequences are numbered from 1, the code's from 0.        *)
(***************************************************************************)
EXTENDS Integers, Sequences, FiniteSets, SequencesExt

CONSTANTS BitCounts, StopCounts, \* what nbits_ and nstops_ are set to
          Noise,                 \* bits before a transmission
          Texts,                 \* characters that are transmitted
          Gaps,                  \* idle bits behind each character
          MaxChunk,              \* bound: bits in one process()
          MaxSettings            \* bound: changes of nbits_ and nstops_

ASSUME CountsAssumption == BitCounts \subseteq Nat /\ StopCounts \subseteq Nat

\* What is transmitted are characters that have room in a frame.
ASSUME LineAssumption ==
    /\ Noise \subseteq Seq({0, 1}) /\ Gaps \subseteq Nat
    /\ Texts \subseteq Seq({c \in 0 .. 255 : \A n \in BitCounts : c < 2 ^ n})

ASSUME BoundsAssumption == MaxChunk \in Nat /\ MaxSettings \in Nat

VARIABLES
    nbits, nstops,  \* nbits_, nstops_
    bits,           \* bits_
    line,           \* the bits that have yet to come
    text, gap,      \* the characters transmitted, and the idle bits behind each
    settings,       \* how often nbits and nstops have been changed
    seen,           \* bits_ at the last change and what came since
    chars           \* what process() has been given since then

vars == <<nbits, nstops, bits, line, text, gap, settings, seen, chars>>

-----------------------------------------------------------------------------
Idle(n) == [m \in 1 .. n |-> 1]

\* What a tracker sends for a character.
Framed(c, n, s) == <<0>> \o [m \in 1 .. n |-> (c \div 2 ^ (m - 1)) % 2] \o Idle(s)

\* Noise, then idle for the length of data and stop bits, then the text.
Transmission(noise, t, idle, n, s) ==
    noise \o Idle(n + s) \o FlattenSeq([m \in DOMAIN t |-> Framed(t[m], n, s) \o Idle(idle)])

Init ==
    /\ nbits \in BitCounts /\ nstops \in StopCounts
    /\ bits = <<>>
    /\ text \in Texts /\ gap \in Gaps
    /\ line \in {Transmission(noise, text, gap, nbits, nstops) : noise \in Noise}
    /\ settings = 0
    /\ seen = <<>> /\ chars = <<>>

-----------------------------------------------------------------------------
FrameLen == 1 + nbits + nstops

\* A whole character begins at i of b.
IsStart(b, i) == b[i] = 0
IsCharSeq(b, i) ==
    /\ IsStart(b, i)
    /\ i + FrameLen - 1 <= Len(b)
    /\ \A s \in 1 .. nstops : b[i + nbits + s] = 1

\* A char has eight bits.
CharAt(b, i) ==
    LET value[m \in 0 .. nbits] ==
            IF m = 0 THEN 0 ELSE value[m - 1] + b[i + m] * 2 ^ (m - 1)
    IN  value[nbits] % 256

HighestFirst(b, i) ==
    LET value[m \in 0 .. nbits] ==
            IF m = 0 THEN 0 ELSE 2 * value[m - 1] + b[i + m]
    IN  value[nbits] % 256

WithStopBit(b, i) == CharAt(b, i) + b[i + nbits + 1] * 2 ^ nbits

Char(b, i) == CharAt(b, i)

\* The loop of operator() from bit i on: where the characters begin.
Starts(b) ==
    LET from[i \in 1 .. (Len(b) + 1)] ==
            IF i > Len(b) THEN <<>>
            ELSE IF IsCharSeq(b, i) THEN <<i>> \o from[i + FrameLen]
            ELSE from[i + 1]
    IN  from[1]

\* What is erased: up to the last stop bit of the last character.
WholeBuffer(b) == Len(b)
UpToLastStop(b) ==
    IF Starts(b) = <<>> THEN 0 ELSE Last(Starts(b)) + FrameLen - 1

Erased(b) == UpToLastStop(b)

\* Nothing is tried with too few bits, or before the decoder is set up.
Tried(b) == ~(nbits = 0 /\ nstops = 0) /\ Len(b) >= FrameLen

Decoded(b) == IF Tried(b) THEN [m \in DOMAIN Starts(b) |-> Char(b, Starts(b)[m])]
              ELSE <<>>

Rest(b) == IF Tried(b) THEN SubSeq(b, Erased(b) + 1, Len(b)) ELSE b

-----------------------------------------------------------------------------
\* process(): the bits b are pushed, decoded, and the characters taken.
Receive(b) ==
    /\ bits' = Rest(bits \o b)
    /\ chars' = chars \o Decoded(bits \o b)
    /\ seen' = seen \o b
    /\ UNCHANGED <<nbits, nstops, text, gap, settings>>

\* The next n bits come in one call.
Process(n) ==
    /\ n <= Len(line)
    /\ Receive(SubSeq(line, 1, n))
    /\ line' = SubSeq(line, n + 1, Len(line))

\* A client sets the numbers; bits_ keeps what it holds.
Set ==
    /\ settings < MaxSettings /\ settings' = settings + 1
    /\ seen' = bits /\ chars' = <<>>
    /\ UNCHANGED <<bits, line, text, gap>>

SetBits  == Set /\ nbits' \in BitCounts /\ UNCHANGED nstops
SetStops == Set /\ nstops' \in StopCounts /\ UNCHANGED nbits

Next == (\E n \in 1 .. MaxChunk : Process(n)) \/ SetBits \/ SetStops

Spec == Init /\ [][Next]_vars

-----------------------------------------------------------------------------
TypeOK ==
    /\ nbits \in BitCounts /\ nstops \in StopCounts
    /\ bits \in Seq({0, 1}) /\ line \in Seq({0, 1}) /\ seen \in Seq({0, 1})
    /\ text \in Texts /\ gap \in Gaps
    /\ settings \in 0 .. MaxSettings
    /\ chars \in Seq(0 .. (2 ^ nbits - 1)) /\ chars \in Seq(0 .. 255)

(***************************************************************************)
(* Wherever the stream is split into calls of process(), the characters    *)
(* are after each call those that one call would find in all of it, none   *)
(* lost with what was erased and no bit used twice.  After a change of the *)
(* settings "all of it" begins with the bits that were left over.          *)
(***************************************************************************)
ChunkIndependent == [][line' # line => chars' = Decoded(seen)']_vars

(***************************************************************************)
(* Noise is forgotten: behind noise that ends in an idle line, every       *)
(* character sent is decoded as soon as its last stop bit is in, and       *)
(* nothing is decoded in between.                                          *)
(***************************************************************************)
Complete == Cardinality({m \in DOMAIN text :
                Len(line) <= (Len(text) - m) * (FrameLen + gap) + gap})

Resynchronises == settings = 0 /\ FrameLen > 1 => IsSuffix(SubSeq(text, 1, Complete), chars)
=============================================================================
