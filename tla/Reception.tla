------------------------------ MODULE Reception ------------------------------
(***************************************************************************)
(* The end of process(): the symbol extractor and RTTY behind it.  Samples *)
(* come in batches; the bits found in them are decoded in the same call.   *)
(***************************************************************************)
EXTENDS SymbolExtractor, SequencesExt

CONSTANTS
    BitCounts, StopCounts, Noise, Texts, Gaps,      \* as in Rtty
    Shapes,     \* how far each end of a bit is from where it should be
    Glitches,   \* every so many samples one is on the wrong side; 0 for none
    Portions    \* bound: samples in one process()

\* Bits, characters that have room in a frame, and samples as they may come.
ASSUME SignalAssumption ==
    /\ BitCounts \subseteq Nat /\ StopCounts \subseteq Nat
    /\ Noise \subseteq Seq({0, 1}) /\ Gaps \subseteq Nat
    /\ Texts \subseteq Seq({c \in 0 .. 255 : \A n \in BitCounts : c < 2 ^ n}) \ {<<>>}
    /\ Shapes \subseteq Seq(Int) \ {<<>>} /\ Glitches \subseteq Nat
    /\ Portions \subseteq Nat \ {0}

VARIABLES
    nbits, nstops, bits, text, gap, seen, chars,    \* as in Rtty
    glitch,     \* one of Glitches
    signal,     \* the samples transmitted
    pos,        \* how many of them have been received
    heard,      \* the bits extracted from them
    vent        \* how many of them had come when the last were dropped, or 0

Line == INSTANCE Rtty WITH line <- <<>>, settings <- 0, MaxSettings <- 0, MaxChunk <- 0

rttyVars == <<nbits, nstops, bits, text, gap, seen, chars>>
receptionVars == <<samples, rttyVars, glitch, signal, pos, heard, vent>>

-----------------------------------------------------------------------------
\* Bits as samples; the end of bit m comes shape[m] samples late.
EndOf(shape, m) == IF m = 0 THEN 0 ELSE m * Spb + shape[1 + (m % Len(shape))]
Wrong(i) == glitch # 0 /\ i % glitch = 0
Modulated(b, shape) ==
    [i \in 1 .. EndOf(shape, Len(b)) |->
        LET m == CHOOSE m \in DOMAIN b : EndOf(shape, m - 1) < i /\ i <= EndOf(shape, m)
        IN  IF Wrong(i) THEN 1 - 2 * b[m] ELSE 2 * b[m] - 1]

\* Idle bits stand between the characters; the transmission ends with the
\* carrier on one side, as for a start bit.
Sent(noise, n, s) ==
    Line!Transmission(noise, Front(text), gap, n, s) \o Line!Framed(Last(text), n, s) \o <<0, 0, 0>>

ReceptionInit ==
    /\ ExtractorInit
    /\ nbits \in BitCounts /\ nstops \in StopCounts
    /\ text \in Texts /\ gap \in Gaps
    /\ glitch \in Glitches
    /\ signal \in {Modulated(Sent(noise, nbits, nstops), shape) :
                       noise \in Noise, shape \in Shapes}
    /\ bits = <<>> /\ seen = <<>> /\ chars = <<>>
    /\ pos = 0 /\ heard = <<>> /\ vent = 0

\* process() with a batch of n samples, or of the last ones.
ProcessSamples(n) ==
    LET next == IF pos + n < Len(signal) THEN pos + n ELSE Len(signal)
        v == SubSeq(signal, pos + 1, next)
        b == Bits(Pushed(v))
    IN  /\ pos < Len(signal) /\ pos' = next
        /\ Extract(v)
        /\ IF b = <<>> THEN UNCHANGED rttyVars ELSE Line!Receive(b)
        /\ heard' = heard \o b
        /\ vent' = IF Full THEN pos ELSE vent
        /\ UNCHANGED <<glitch, signal>>

ReceptionNext == \E n \in Portions : ProcessSamples(n)

ReceptionSpec == ReceptionInit /\ [][ReceptionNext]_receptionVars

-----------------------------------------------------------------------------
(***************************************************************************)
(* Types; and of a signal that never flips no more is kept than the vent   *)
(* allows and one batch.                                                   *)
(***************************************************************************)
ReceptionTypeOK ==
    /\ samples \in Seq({1, -1}) /\ \E n \in Portions \cup {0} : Len(samples) <= Vent + n
    /\ bits \in Seq({0, 1}) /\ heard \in Seq({0, 1})
    /\ chars \in Seq(0 .. 255)
    /\ pos \in 0 .. Len(signal) /\ vent \in 0 .. pos

(***************************************************************************)
(* However the samples are split into batches, clean or not, the same bits *)
(* are extracted from them: no flip is found twice, missed at the seam of  *)
(* two batches or found elsewhere, as long as nothing was dropped.  What   *)
(* was heard and what the samples that wait still hold is what all samples *)
(* received give in one call, and they hold nothing unless they are too    *)
(* few to be tried; and the characters are those of the bits.              *)
(***************************************************************************)
BatchIndependent ==
    /\ vent = 0 =>
         LET all == Runs(SubSeq(signal, 1, pos)).bits
         IN  /\ all = heard \o Runs(samples).bits
             /\ Tried(samples) => all = heard
    /\ chars = Line!Decoded(heard)

\* The bit, counted from 0, that sample i belongs to, and the one that the
\* m-th character begins with (the one behind the last, for what follows it).
BitAt(i) == (2 * i + Spb) \div (2 * Spb)
Begins(m) == BitAt(Len(signal)) - 3 - (Len(text) - m + 1) * Line!FrameLen
                 - IF m < Len(text) THEN (Len(text) - m) * gap ELSE 0

\* The last samples dropped were dropped in good time before a character, not
\* less than data and stop bits before it or while its start bit came in.
Harmless == vent = 0 \/ \A m \in 1 .. (Len(text) + 1) :
    BitAt(vent) \notin (Begins(m) - nbits - nstops) .. (Begins(m) + 2)

(***************************************************************************)
(* From samples that are all on the right side every character is decoded, *)
(* whatever noise was before, however uneven the bits are, and also when   *)
(* the line stands still so long that its samples are dropped, if the next *)
(* character leaves time to recover.  A character is there three bits      *)
(* after the next one begins.                                              *)
(***************************************************************************)
Recovers == glitch = 0 /\ Harmless =>
    \E last \in 0 .. Len(text) :
        /\ \A m \in DOMAIN text : Begins(m + 1) + 3 <= BitAt(pos) => m <= last
        /\ IsSuffix(SubSeq(text, 1, last), chars)
=============================================================================
