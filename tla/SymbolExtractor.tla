--------------------------- MODULE SymbolExtractor ---------------------------
(***************************************************************************)
(* Bits out of demodulated samples.  A sample is 1 or -1, the side of the  *)
(* carrier it is on.  A flip point is where the samples change side; all   *)
(* that is before the last flip point found becomes bits and is erased.    *)
(* A flip point is the number of samples before it, as in the code.        *)
(***************************************************************************)
EXTENDS Integers, Sequences, FiniteSets

CONSTANTS
    Spb,        \* samplesPerBit()
    Vent        \* samples_ is cleared above this

\* With fewer samples per bit the averages would reach past the buffer.
ASSUME SpbAssumption == Spb \in Nat /\ Spb >= 8
ASSUME VentAssumption == Vent \in Nat

VARIABLE samples    \* samples_

-----------------------------------------------------------------------------
Average(b, first, last) ==
    Cardinality({i \in first .. last : b[i] = 1}) - Cardinality({i \in first .. last : b[i] = -1})

Sgn(x) == IF x > 0 THEN 1 ELSE IF x < 0 THEN -1 ELSE 0
Abs(x) == IF x < 0 THEN -x ELSE x

\* How far to either side a flip point is looked for.
R == IF Spb \div 4 > 4 THEN Spb \div 4 ELSE 4

LeftOf(b, i) == Average(b, i - R + 1, i)
RightOf(b, i) == Average(b, i + 1, IF i + R < Len(b) THEN i + R ELSE Len(b))

Differ(b, i) == Sgn(LeftOf(b, i)) # Sgn(RightOf(b, i))
Weight(b, i) == Abs(RightOf(b, i) - LeftOf(b, i))

\* The first of the points S with the largest weight.
Sharpest(b, S) ==
    CHOOSE f \in S : \A i \in S :
        Weight(b, i) < Weight(b, f) \/ (Weight(b, i) = Weight(b, f) /\ f <= i)

\* The scan ends a bit before the end of the samples.
ScanLimit(b) == Len(b) - Spb

Least(S) == CHOOSE i \in S : \A j \in S : i <= j

\* findFirstFlipPoint(): from where the two sides differ first until where
\* they no longer do, the point where they differ most; none if the limit
\* comes before.
FirstFlips(b, start) ==
    IF Len(b) - start < Spb THEN {}
    ELSE LET within == (start + R) .. (ScanLimit(b) - 1)
             differ == {i \in within : Differ(b, i)}
             after  == {j \in within \ differ : differ # {} /\ j > Least(differ)}
         IN  IF after = {} THEN {}
             ELSE {Sharpest(b, Least(differ) .. (Least(after) - 1))}

\* The bits between two flip points: a whole number of them, rounded.
\* Not: a part of a bit is no bit.
WholeBits(n) == n \div Spb

BitCount(n) == (2 * n + Spb) \div (2 * Spb)
RunOfBits(b, from, to) ==
    [i \in 1 .. BitCount(to - from) |-> IF Average(b, from + 1, to) > 0 THEN 1 ELSE 0]

\* findFlipPoints(), each from the one before on, and the loop of operator():
\* the bits up to the last flip point, and that point.
Runs(b) ==
    LET from[start \in 0 .. Len(b)] ==
            LET S == FirstFlips(b, start)
            IN  IF S = {} THEN [bits |-> <<>>, end |-> start]
                ELSE LET f == CHOOSE f \in S : TRUE
                         rest == from[f]
                     IN  [bits |-> RunOfBits(b, start, f) \o rest.bits, end |-> rest.end]
    IN  from[0]

\* At least three symbols.
Tried(b) == Len(b) >= 3 * Spb

\* operator() and get(): the bits that samples b give, and what stays of b.
Bits(b) == IF Tried(b) THEN Runs(b).bits ELSE <<>>

\* Not: what is left is erased too.
AllErased(b) == IF Bits(b) = <<>> THEN 0 ELSE Len(b)

Erased(b) == IF Tried(b) THEN Runs(b).end ELSE 0

Remaining(b) == SubSeq(b, Erased(b) + 1, Len(b))

-----------------------------------------------------------------------------
ExtractorInit == samples = <<>>

\* pushSamples(): what has waited too long for a flip is dropped.
\* Not: it waits on.
NeverFull == FALSE

Full == Len(samples) > Vent
Pushed(v) == IF Full THEN v ELSE samples \o v

\* process(): push the samples v, extract, and get the bits Bits(Pushed(v)).
Extract(v) == samples' = Remaining(Pushed(v))
=============================================================================
