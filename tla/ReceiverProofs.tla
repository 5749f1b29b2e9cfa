--------------------------- MODULE ReceiverProofs ---------------------------
(***************************************************************************)
(* Theorems about what the decoder thread and the io thread do to the      *)
(* receiver together: Pipeline, for any decimation factors, block and      *)
(* filter lengths, batches and numbers of samples (types, what is left     *)
(* over between two calls, the order of the samples, the length of the     *)
(* filter), and Tuning, for any frequencies and corrections (parameter,    *)
(* device and clients agree, a command prevails); and about the end of     *)
(* process(): Reception, for any signal, samples per bit and batches       *)
(* (types, and the bits do not depend on the batches).                     *)
(***************************************************************************)
EXTENDS Pipeline, Tuning, Reception, SequenceTheorems, FiniteSetTheorems,
        WellFoundedInduction, TLAPS

\* Who holds process_mutex_, by where the threads are.
LockInv ==
    /\ process = "decoder" <=> dec \in {"afc", "measure", "filter", "symbols"}
    /\ process = "io" <=> io \in {"stages", "factor"}

\* The stages are those of the factor unless they are being replaced.
RatesInv == stages = IF io = "factor" THEN request ELSE factor

\* A block is there when it is filtered, and has been filtered afterwards.
BlockInv ==
    /\ IF dec \in {"afc", "measure", "filter"} THEN Len(decimated) >= Block
                                               ELSE Len(decimated) < Block
    /\ dec # "take" => Len(input) < MaxFactor
    /\ dec = "symbols" => fed >= Block

IInv == TypeOK /\ LockInv /\ RatesInv /\ BlockInv /\ InOrder /\ FilterFits

-----------------------------------------------------------------------------
LEMMA MinOfTwo ==
    ASSUME NEW a \in Nat, NEW b \in Nat
    PROVE  Min({a, b}) = IF a <= b THEN a ELSE b
<1> DEFINE m == IF a <= b THEN a ELSE b
<1>1. m \in {a, b} /\ \A y \in {a, b} : m <= y
  OBVIOUS
<1>2. \A x \in {a, b} : (\A y \in {a, b} : x <= y) => x = m
  OBVIOUS
<1> QED
  BY <1>1, <1>2, Zenon DEF Min

LEMMA Remainder ==
    ASSUME NEW n \in Nat, NEW d \in Nat \ {0}
    PROVE  /\ n % d \in 0 .. d - 1
           /\ n - (n % d) \in 0 .. n
           /\ n >= d => n - (n % d) >= d
           /\ ((n - (n % d)) \div d) * d = n - (n % d)
           /\ (n - (n % d)) \div d \in Nat
<1> DEFINE q == n \div d
<1>1. q \in Nat /\ n % d \in 0 .. d - 1 /\ n = d * q + (n % d)
  BY Z3
<1>2. n - (n % d) = d * q
  BY <1>1
<1>3. d * q \in Nat
  BY <1>1
<1>4. (d * q) \div d = q
  BY <1>1, Z3
<1>5. n >= d => d * q >= d
  <2>1. q = 0 => d * q = 0
    BY <1>1
  <2>2. q >= 1 => d * q >= d
    BY <1>1, Z3
  <2> QED
    BY <1>1, <2>1, <2>2
<1> QED
  BY <1>1, <1>2, <1>3, <1>4, <1>5

\* An odd number of taps, at most one more than asked for.
LEMMA OddFacts ==
    ASSUME NEW n \in Nat
    PROVE  Odd(n) \in n .. n + 1
<1>1. n % 2 \in 0 .. 1
  BY Remainder
<1> QED
  BY <1>1 DEF Odd

LEMMA DesignFacts ==
    ASSUME NEW f \in [bw : Bandwidths, length : Lengths], NEW n \in Nat,
           taps \in [length : Nat, bw : Bandwidths \cup {0}]
    PROVE  /\ Design(f, n) \in [length : Nat, bw : Bandwidths \cup {0}]
           /\ n >= Block /\ Odd(f.length) > MinTaps => Design(f, n).length \in 1 .. n + 1
<1> DEFINE count == TapCount(f.length, n)
<1>1. f.length \in Nat /\ f.bw \in Bandwidths
  BY FilterAssumption
<1>2. count = Odd(IF f.length <= n THEN f.length ELSE n)
  BY <1>1, MinOfTwo DEF TapCount, UpToInput
<1>3. count \in Nat /\ count <= n + 1
  BY <1>1, <1>2, OddFacts
<1>4. n >= Block /\ Odd(f.length) > MinTaps => count > MinTaps /\ n # 0
  BY <1>1, <1>2, OddFacts, FilterAssumption
<1>5. Design(f, n) = IF n = 0 \/ count <= MinTaps \/ count = taps.length THEN taps
                     ELSE [length |-> count, bw |-> f.bw]
  BY DEF Design
<1> HIDE DEF count
<1>6. Design(f, n) \in [length : Nat, bw : Bandwidths \cup {0}]
  BY <1>1, <1>3, <1>5
<1>7. ASSUME n >= Block, Odd(f.length) > MinTaps PROVE Design(f, n).length \in 1 .. n + 1
  <2>1. count > MinTaps /\ n # 0
    BY <1>4, <1>7
  <2>2. Design(f, n).length = count
    <3>1. CASE count = taps.length
      BY <1>5, <3>1
    <3>2. CASE count # taps.length
      <4>1. ~(n = 0 \/ count <= MinTaps \/ count = taps.length)
        BY <1>3, <2>1, <3>2, FilterAssumption
      <4>2. Design(f, n) = [length |-> count, bw |-> f.bw]
        BY <1>5, <4>1, Zenon
      <4> QED
        BY <4>2
    <3> QED
      BY <3>1, <3>2
  <2> QED
    BY <1>3, <2>1, <2>2, FilterAssumption
<1> QED
  BY <1>6, <1>7

-----------------------------------------------------------------------------
\* What is left of a sequence behind its first n elements.
LEMMA RestFacts ==
    ASSUME NEW S, NEW s \in Seq(S), NEW n \in 0 .. Len(s)
    PROVE  LET rest == SubSeq(s, n + 1, Len(s))
           IN /\ rest \in Seq(S)
              /\ Len(rest) = Len(s) - n
              /\ \A i \in 1 .. Len(rest) : rest[i] = s[n + i]
<1> DEFINE rest == SubSeq(s, n + 1, Len(s))
<1>1. n \in Nat /\ Len(s) \in Nat /\ n <= Len(s)
  OBVIOUS
<1>2. \A i \in n + 1 .. Len(s) : s[i] \in S
  BY <1>1
<1>3. /\ rest \in Seq(S)
      /\ Len(rest) = IF n + 1 <= Len(s) THEN Len(s) - (n + 1) + 1 ELSE 0
      /\ \A i \in 1 .. Len(s) - (n + 1) + 1 : rest[i] = s[n + 1 + i - 1]
  <2>1. n + 1 \in Int /\ Len(s) \in Int
    BY <1>1
  <2> QED
    BY <1>2, <2>1, SubSeqProperties
<1> HIDE DEF rest
<1>4. Len(rest) = Len(s) - n
  BY <1>1, <1>3
<1>5. ASSUME NEW i \in 1 .. Len(rest) PROVE rest[i] = s[n + i]
  <2>1. i \in 1 .. Len(s) - (n + 1) + 1 /\ n + 1 + i - 1 = n + i
    BY <1>1, <1>4
  <2> QED
    BY <1>3, <2>1
<1> QED
  BY <1>3, <1>4, <1>5 DEF rest

-----------------------------------------------------------------------------
\* Decimating consecutive samples gives consecutive intervals.
LEMMA DecimateFacts ==
    ASSUME NEW s \in Seq(Nat), NEW e \in Nat, NEW k \in Nat, stages \in Nat \ {0},
           \A i \in 1 .. Len(s) : s[i] = e + i - 1,
           Len(s) = k * stages, Len(s) \div stages = k
    PROVE  /\ Decimate(s) \in Seq(Intervals)
           /\ Len(Decimate(s)) = k
           /\ \A i \in 1 .. k : /\ Decimate(s)[i].from = e + (i - 1) * stages
                                /\ Decimate(s)[i].to = e + i * stages
<1> DEFINE one(i) == [from |-> s[(i - 1) * stages + 1], to |-> s[i * stages] + 1]
<1>1. Decimate(s) = [i \in 1 .. k |-> one(i)]
  BY DEF Decimate
<1>2. ASSUME NEW i \in 1 .. k
      PROVE  /\ one(i).from = e + (i - 1) * stages
             /\ one(i).to = e + i * stages
             /\ one(i) \in Intervals
  <2>1. /\ (i - 1) * stages \in Nat
        /\ i * stages = (i - 1) * stages + stages
        /\ i * stages <= Len(s)
    BY <1>2, Z3
  <2>2. (i - 1) * stages + 1 \in 1 .. Len(s) /\ i * stages \in 1 .. Len(s)
    BY <2>1
  <2>3. /\ s[(i - 1) * stages + 1] = e + (i - 1) * stages
        /\ s[i * stages] = e + i * stages - 1
    BY <2>1, <2>2
  <2> QED
    BY <2>1, <2>3 DEF Intervals
<1> HIDE DEF one
<1>3. Decimate(s) \in Seq(Intervals) /\ Len(Decimate(s)) = k
  BY <1>1, <1>2
<1> QED
  BY <1>1, <1>2, <1>3

-----------------------------------------------------------------------------
\* What TypeOK says about a state, with the constants' assumptions.
LEMMA Positive ==
    ASSUME TypeOK
    PROVE  /\ factor \in Nat \ {0} /\ stages \in Nat \ {0}
           /\ factor <= MaxFactor /\ stages <= MaxFactor
           /\ Block \in Nat \ {0} /\ Bins \in Nat \ {0}
<1>1. factor \in Factors \cup {1} /\ stages \in Factors \cup {1}
  BY DEF TypeOK
<1>2. \A f \in Factors \cup {1} : f \in Nat \ {0} /\ f <= MaxFactor
  BY FactorsAssumption
<1> QED
  BY <1>1, <1>2, FilterAssumption, BoundAssumption

LEMMA EdgeFacts ==
    ASSUME TypeOK
    PROVE  Edge \in Nat
<1>1. CASE decimated = <<>>
  BY <1>1 DEF Edge, TypeOK
<1>2. CASE decimated # <<>>
  <2>1. Len(decimated) \in 1 .. Len(decimated)
    BY <1>2 DEF TypeOK
  <2>2. decimated[Len(decimated)] \in Intervals
    BY <2>1 DEF TypeOK
  <2> QED
    BY <1>2, <2>2 DEF Edge, End, Intervals
<1> QED
  BY <1>1, <1>2

-----------------------------------------------------------------------------
LEMMA InitInv == Init => IInv
<1> SUFFICES ASSUME Init PROVE IInv
  OBVIOUS
<1>1. TypeOK
  BY FactorsAssumption, BoundAssumption, FilterAssumption DEF Init, TypeOK
<1>2. LockInv /\ RatesInv /\ FilterFits
  BY DEF Init, LockInv, RatesInv, FilterFits
<1>3. BlockInv
  BY FilterAssumption, FactorsAssumption DEF Init, BlockInv
<1>4. InOrder
  BY DEF Init, InOrder, Edge
<1> QED
  BY <1>1, <1>2, <1>3, <1>4 DEF IInv

\* Samples are appended to the input.
LEMMA PushInv ==
    ASSUME IInv, NEW n \in Batches, Push(n)
    PROVE  IInv'
<1> USE DEF IInv
<1> DEFINE new == [i \in 1 .. n |-> next + i - 1]
<1>1. n \in Nat /\ next \in Nat
  BY BoundAssumption DEF TypeOK
<1>2. new \in Seq(Nat) /\ Len(new) = n
  BY <1>1
<1>3. input' = input \o new
  BY DEF Push
<1>4. /\ Len(input') = Len(input) + n
      /\ \A i \in 1 .. Len(input') :
            input'[i] = IF i <= Len(input) THEN input[i] ELSE next + (i - Len(input)) - 1
  BY <1>1, <1>2, <1>3 DEF TypeOK
<1>5. Edge' = Edge /\ Edge \in Nat
  BY EdgeFacts DEF Push, Edge, End
<1>6. TypeOK'
  BY <1>1, <1>2, <1>3 DEF Push, TypeOK, rates, lowpass
<1>7. InOrder'
  <2>1. \A i \in 1 .. Len(input') : input'[i] = Edge + i - 1
    <3>1. /\ Len(input) \in Nat /\ next = Edge + Len(input)
          /\ \A i \in 1 .. Len(input) : input[i] = Edge + i - 1
      BY DEF InOrder, TypeOK
    <3>2. TAKE i \in 1 .. Len(input')
    <3>3. CASE i <= Len(input)
      <4>1. i \in 1 .. Len(input)
        BY <3>1, <3>3, <1>4, <1>1
      <4> QED
        BY <3>1, <3>3, <4>1, <1>4
    <3>4. CASE i > Len(input)
      <4>1. i \in Int /\ ~(i <= Len(input)) /\ input'[i] = next + (i - Len(input)) - 1
        BY <3>1, <3>4, <1>4, <1>1
      <4> QED
        BY <3>1, <4>1, <1>1, <1>5
    <3> QED
      BY <3>1, <3>3, <3>4, <1>4, <1>1
  <2>2. next' = Edge + Len(input')
    BY <1>1, <1>4, <1>5 DEF InOrder, Push, TypeOK
  <2> QED
    BY <1>5, <2>1, <2>2 DEF InOrder, Push
<1>8. LockInv' /\ RatesInv' /\ BlockInv' /\ FilterFits'
  BY DEF LockInv, RatesInv, BlockInv, FilterFits, Push, rates, lowpass
<1> QED
  BY <1>6, <1>7, <1>8

\* What changes neither the samples nor where they are.
LEMMA KeepsOrder ==
    ASSUME InOrder, UNCHANGED buffers
    PROVE  InOrder'
BY DEF InOrder, Edge, End, buffers

LEMMA TakeNothingInv ==
    ASSUME IInv, TakeNothing
    PROVE  IInv'
<1> USE DEF IInv, TakeNothing, Leave, buffers, rates, lowpass
<1>1. TypeOK'
  BY DEF TypeOK
<1>2. LockInv' /\ RatesInv' /\ FilterFits'
  BY DEF LockInv, RatesInv, FilterFits
<1>3. Len(input) < MaxFactor
  BY Positive, FactorsAssumption DEF TypeOK
<1>4. BlockInv'
  BY <1>3 DEF BlockInv
<1> QED
  BY <1>1, <1>2, <1>4, KeepsOrder

\* Whole samples are decimated and go behind what has been decimated before.
LEMMA TakeInv ==
    ASSUME IInv, Take
    PROVE  IInv'
<1> USE DEF IInv
<1> DEFINE n  == Whole(Len(input))
           k  == n \div factor
           s  == SubSeq(input, 1, n)
           ds == Decimate(s)
           c  == Min({Bins, collected + Len(ds)})
<1>1. /\ input \in Seq(Nat) /\ Len(input) \in Nat /\ Len(input) >= factor
      /\ decimated \in Seq(Intervals) /\ Len(decimated) \in Nat
      /\ passed \in Nat /\ next \in Nat /\ collected \in Nat
  BY DEF Take, TypeOK
<1>2. process = "free" /\ dec = "take" /\ stages = factor /\ factor \in Nat \ {0}
  BY Positive DEF Take, LockInv, RatesInv
<1>3. /\ n \in Nat /\ k \in Nat /\ n = k * stages
      /\ n <= Len(input) /\ n >= factor
      /\ Len(input) - n < factor
  <2>1. n = Len(input) - (Len(input) % factor)
    BY DEF Whole
  <2> HIDE DEF n
  <2>2. k = n \div factor
    OBVIOUS
  <2> HIDE DEF k
  <2>3. /\ n \in 0 .. Len(input) /\ n >= factor
        /\ (n \div factor) * factor = n /\ n \div factor \in Nat
        /\ Len(input) % factor \in 0 .. factor - 1
    BY <1>1, <1>2, <2>1, Remainder
  <2> QED
    BY <1>1, <1>2, <2>1, <2>2, <2>3
<1>4. k >= 1
  <2>1. k = 0 => k * stages = 0
    BY <1>2
  <2> QED
    BY <1>2, <1>3, <2>1
<1>5. Edge \in Nat
  BY EdgeFacts
<1>6. /\ s \in Seq(Nat) /\ Len(s) = n
      /\ \A i \in 1 .. Len(s) : s[i] = Edge + i - 1
  BY <1>1, <1>3 DEF InOrder
<1>7. /\ ds \in Seq(Intervals) /\ Len(ds) = k
      /\ \A i \in 1 .. k : /\ ds[i].from = Edge + (i - 1) * stages
                           /\ ds[i].to = Edge + i * stages
  <2>1. Len(s) = k * stages /\ Len(s) \div stages = k
    BY <1>2, <1>3, <1>6
  <2>2. s \in Seq(Nat) /\ Edge \in Nat /\ k \in Nat /\ stages \in Nat \ {0}
    BY <1>2, <1>3, <1>5, <1>6
  <2> HIDE DEF s, k, n
  <2> QED
    BY <1>6, <2>1, <2>2, DecimateFacts, Zenon
<1>8. /\ input' = SubSeq(input, n + 1, Len(input))
      /\ decimated' = decimated \o ds
      /\ collected' = Uncleared(c)
      /\ UNCHANGED <<next, passed, rates, lowpass, io, request>>
      /\ IF Len(decimated') < Block THEN dec' = "push" /\ process' = "free"
                                    ELSE process' = "decoder" /\ dec' = "afc"
  BY DEF Take, Leave
<1> HIDE DEF n, k, s, ds, c
<1>9. /\ input' \in Seq(Nat) /\ Len(input') = Len(input) - n
      /\ \A i \in 1 .. Len(input') : input'[i] = input[n + i]
  <2>1. n \in 0 .. Len(input)
    BY <1>1, <1>3
  <2> QED
    BY <1>1, <1>8, <2>1, RestFacts
<1>10. /\ decimated' \in Seq(Intervals) /\ Len(decimated') = Len(decimated) + k
       /\ \A i \in 1 .. Len(decimated) : decimated'[i] = decimated[i]
       /\ \A i \in 1 .. k : decimated'[Len(decimated) + i] = ds[i]
  BY <1>1, <1>3, <1>7, <1>8, SMTT(40)
<1>11. Edge' = Edge + n
  <2>1. decimated' # <<>> /\ End(decimated') = ds[k].to
    BY <1>1, <1>3, <1>4, <1>10 DEF End
  <2>2. ds[k].to = Edge + n
    BY <1>3, <1>4, <1>7
  <2>3. Edge' = IF decimated' = <<>> THEN passed' ELSE End(decimated')
    BY DEF Edge, End
  <2> QED
    BY <2>1, <2>2, <2>3
<1>12. TypeOK'
  <2>1. c \in 0 .. Bins
    <3>1. collected + Len(ds) \in Nat /\ Bins \in Nat
      BY <1>1, <1>3, <1>7, BoundAssumption
    <3> QED
      BY <3>1, MinOfTwo DEF c
  <2>2. collected' \in 0 .. Bins - 1
    BY <1>8, <2>1, BoundAssumption DEF Uncleared
  <2> QED
    BY <1>8, <1>9, <1>10, <2>2 DEF TypeOK, rates, lowpass
<1>13. InOrder'
  <2>1. ASSUME NEW i \in 1 .. Len(decimated')
        PROVE  decimated'[i].from = IF i = 1 THEN passed' ELSE decimated'[i - 1].to
    <3>1. CASE i <= Len(decimated)
      <4>1. i \in 1 .. Len(decimated) /\ (i # 1 => i - 1 \in 1 .. Len(decimated))
        BY <1>1, <2>1, <3>1
      <4> QED
        BY <1>8, <1>10, <4>1 DEF InOrder
    <3>2. CASE i = Len(decimated) + 1
      <4>1. decimated'[i].from = Edge
        <5>1. decimated'[i] = ds[1] /\ 1 \in 1 .. k
          BY <1>3, <1>4, <1>10, <3>2
        <5>2. ds[1].from = Edge + (1 - 1) * stages
          BY <1>7, <5>1
        <5>3. (1 - 1) * stages = 0
          BY <1>2
        <5> QED
          BY <1>5, <5>1, <5>2, <5>3
      <4>2. CASE decimated = <<>>
        BY <1>8, <3>2, <4>1, <4>2 DEF Edge
      <4>3. CASE decimated # <<>>
        <5>1. i - 1 = Len(decimated) /\ i - 1 \in 1 .. Len(decimated) /\ i # 1
          BY <1>1, <3>2, <4>3
        <5> QED
          BY <1>10, <4>1, <4>3, <5>1 DEF Edge, End
      <4> QED
        BY <4>2, <4>3
    <3>3. CASE i > Len(decimated) + 1
      <4> DEFINE j == i - Len(decimated)
      <4>1. j \in 1 .. k /\ j - 1 \in 1 .. k /\ i = Len(decimated) + j
        BY <1>1, <1>3, <1>10, <2>1, <3>3
      <4>2. i # 1 /\ i - 1 = Len(decimated) + (j - 1)
        BY <1>1, <3>3
      <4> HIDE DEF j
      <4>3. decimated'[i] = ds[j] /\ decimated'[i - 1] = ds[j - 1]
        BY <1>10, <4>1, <4>2
      <4>4. ds[j].from = Edge + (j - 1) * stages /\ ds[j - 1].to = Edge + (j - 1) * stages
        BY <1>7, <4>1
      <4> QED
        BY <4>2, <4>3, <4>4
    <3> QED
      BY <1>1, <2>1, <3>1, <3>2, <3>3
  <2>2. \A i \in 1 .. Len(input') : input'[i] = Edge' + i - 1
    <3>1. TAKE i \in 1 .. Len(input')
    <3>2. n + i \in 1 .. Len(input)
      BY <1>1, <1>3, <1>9, SMTT(40)
    <3>3. input'[i] = Edge + (n + i) - 1
      BY <1>9, <3>2 DEF InOrder
    <3> QED
      BY <1>3, <1>5, <1>11, <3>3
  <2>3. next' = Edge' + Len(input')
    BY <1>1, <1>3, <1>5, <1>8, <1>9, <1>11 DEF InOrder
  <2> QED
    BY <2>1, <2>2, <2>3 DEF InOrder
<1>14. BlockInv'
  <2>1. Len(input') < MaxFactor
    BY <1>1, <1>2, <1>3, <1>9, Positive, FactorsAssumption
  <2>2. Len(decimated') \in Nat /\ Block \in Nat
    BY <1>10, FilterAssumption
  <2>3. CASE Len(decimated') < Block
    <3>1. dec' = "push"
      BY <1>8, <2>3
    <3> QED
      BY <2>1, <2>3, <3>1 DEF BlockInv
  <2>4. CASE ~(Len(decimated') < Block)
    <3>1. dec' = "afc"
      BY <1>8, <2>4
    <3>2. Len(decimated') >= Block
      BY <2>2, <2>4
    <3> QED
      BY <2>1, <3>1, <3>2 DEF BlockInv
  <2> QED
    BY <2>3, <2>4
<1>15. LockInv' /\ RatesInv' /\ FilterFits'
  <2>1. io \notin {"stages", "factor"}
    BY <1>2 DEF LockInv
  <2> QED
    BY <1>2, <1>8, <2>1 DEF LockInv, RatesInv, FilterFits, rates, lowpass
<1> QED
  BY <1>12, <1>13, <1>14, <1>15

\* Steps that change neither samples nor rates nor filter, only where the
\* threads are.
LEMMA AfcInv ==
    ASSUME IInv, AfcBegin \/ AfcEnd
    PROVE  IInv'
<1> USE DEF IInv, AfcBegin, AfcEnd, rates, lowpass, buffers
<1>1. TypeOK'
  BY DEF TypeOK
<1>2. LockInv' /\ RatesInv' /\ FilterFits'
  BY DEF LockInv, RatesInv, FilterFits
<1>3. BlockInv'
  BY DEF BlockInv
<1> QED
  BY <1>1, <1>2, <1>3, KeepsOrder

LEMMA SymbolsInv ==
    ASSUME IInv, Symbols
    PROVE  IInv'
<1> USE DEF IInv, Symbols, Leave, rates, lowpass, buffers
<1>1. TypeOK'
  BY DEF TypeOK
<1>2. LockInv' /\ RatesInv' /\ FilterFits'
  BY DEF LockInv, RatesInv, FilterFits
<1>3. BlockInv'
  BY DEF BlockInv
<1> QED
  BY <1>1, <1>2, <1>3, KeepsOrder

LEMMA SpectrumInv ==
    ASSUME IInv, CopyBegin \/ CopyEnd
    PROVE  IInv'
<1> USE DEF IInv, CopyBegin, CopyEnd, rates, lowpass, buffers
<1>1. TypeOK'
  BY DEF TypeOK
<1>2. LockInv' /\ RatesInv' /\ FilterFits'
  BY DEF LockInv, RatesInv, FilterFits
<1>3. BlockInv'
  BY DEF BlockInv
<1> QED
  BY <1>1, <1>2, <1>3, KeepsOrder

\* All that is decimated is dropped.
LEMMA DropFastInv ==
    ASSUME IInv, DropFast
    PROVE  IInv'
<1> USE DEF IInv, DropFast, Leave, rates, lowpass
<1>1. /\ decimated \in Seq(Intervals) /\ Len(decimated) >= Block
      /\ decimated # <<>>
  BY FilterAssumption DEF BlockInv, TypeOK
<1>2. Edge = End(decimated) /\ Edge \in Nat
  BY <1>1, EdgeFacts DEF Edge
<1>3. Edge' = Edge
  BY <1>2 DEF Edge
<1>4. TypeOK'
  BY <1>2 DEF TypeOK
<1>5. InOrder'
  BY <1>3 DEF InOrder
<1>6. BlockInv'
  BY FilterAssumption DEF BlockInv
<1>7. LockInv' /\ RatesInv' /\ FilterFits'
  BY DEF LockInv, RatesInv, FilterFits
<1> QED
  BY <1>4, <1>5, <1>6, <1>7

\* Whole blocks are filtered and demodulated; the rest of them stays.
LEMMA FilterInv ==
    ASSUME IInv, Filter
    PROVE  IInv'
<1> USE DEF IInv
<1> DEFINE n     == Blocks(Len(decimated))
           block == SubSeq(decimated, 1, n)
<1>1. /\ decimated \in Seq(Intervals) /\ Len(decimated) \in Nat
      /\ Len(decimated) >= Block /\ Block \in Nat \ {0}
      /\ dec = "filter"
  BY FilterAssumption DEF Filter, BlockInv, TypeOK
<1>2. n \in 0 .. Len(decimated) /\ n >= Block /\ Len(decimated) - n < Block
  <2>1. n = Len(decimated) - (Len(decimated) % Block)
    BY DEF Blocks
  <2>2. Len(decimated) % Block \in 0 .. Block - 1
    BY <1>1, Remainder
  <2>3. Len(decimated) - (Len(decimated) % Block) >= Block
    BY <1>1, Remainder
  <2> HIDE DEF n
  <2> QED
    BY <1>1, <2>1, <2>2, <2>3
<1>3. /\ fed' = n
      /\ taps' = Design(filter, n)
      /\ passed' = End(block)
      /\ decimated' = SubSeq(decimated, n + 1, Len(decimated))
      /\ dec' = "symbols"
      /\ UNCHANGED <<next, input, rates, collected, filter, process, io, request>>
  BY DEF Filter
<1> HIDE DEF n
<1>4. End(block) = decimated[n].to /\ n \in 1 .. Len(decimated)
  <2>1. n \in 1 .. Len(decimated)
    BY <1>1, <1>2
  <2>2. Len(block) = n /\ block[n] = decimated[n]
    BY <1>1, <2>1
  <2> HIDE DEF block
  <2> QED
    BY <2>1, <2>2 DEF End
<1> HIDE DEF block
<1>5. /\ decimated' \in Seq(Intervals) /\ Len(decimated') = Len(decimated) - n
      /\ \A i \in 1 .. Len(decimated') : decimated'[i] = decimated[n + i]
  BY <1>1, <1>2, <1>3, RestFacts
<1>6. decimated[n].to \in Nat
  <2>1. decimated[n] \in Intervals
    BY <1>1, <1>4
  <2> QED
    BY <2>1 DEF Intervals
<1>7. Edge' = Edge
  <2>1. Edge = decimated[Len(decimated)].to
    BY <1>1, <1>4 DEF Edge, End
  <2>2. CASE n = Len(decimated)
    <3>1. decimated' = <<>>
      BY <1>1, <1>5, <2>2
    <3> QED
      BY <1>3, <1>4, <2>1, <2>2, <3>1 DEF Edge
  <2>3. CASE n # Len(decimated)
    <3>1. Len(decimated') >= 1 /\ Len(decimated') \in 1 .. Len(decimated')
      <4>1. Len(decimated) - n \in Nat /\ Len(decimated) - n >= 1
        BY <1>1, <1>2, <2>3
      <4> QED
        BY <1>5, <4>1
    <3>2. decimated' # <<>>
      BY <3>1
    <3>3. decimated'[Len(decimated')] = decimated[Len(decimated)]
      <4>1. n + Len(decimated') = Len(decimated)
        BY <1>1, <1>2, <1>5
      <4> QED
        BY <1>5, <3>1, <4>1
    <3>4. Edge' = decimated'[Len(decimated')].to
      BY <3>2 DEF Edge, End
    <3> QED
      BY <2>1, <3>3, <3>4
  <2> QED
    BY <2>2, <2>3
<1>8. filter \in [bw : Bandwidths, length : Lengths]
      /\ taps \in [length : Nat, bw : Bandwidths \cup {0}]
  BY DEF TypeOK
<1>9. /\ Design(filter, n) \in [length : Nat, bw : Bandwidths \cup {0}]
      /\ Odd(filter.length) > MinTaps => Design(filter, n).length \in 1 .. n + 1
  <2>1. n \in Nat
    BY <1>1, <1>2
  <2> QED
    BY <1>2, <1>8, <2>1, DesignFacts
<1>10. TypeOK'
  BY <1>1, <1>2, <1>3, <1>4, <1>5, <1>6, <1>9 DEF TypeOK, rates
<1>11. InOrder'
  <2>1. ASSUME NEW i \in 1 .. Len(decimated')
        PROVE  decimated'[i].from = IF i = 1 THEN passed' ELSE decimated'[i - 1].to
    <3>1. /\ n + i \in 1 .. Len(decimated) /\ n + i # 1
          /\ decimated'[i] = decimated[n + i]
      BY <1>1, <1>2, <1>4, <1>5
    <3>2. decimated'[i].from = decimated[(n + i) - 1].to
      <4>1. decimated[n + i].from = decimated[(n + i) - 1].to
        BY <3>1 DEF InOrder
      <4>2. decimated'[i].from = decimated[n + i].from
        BY <3>1
      <4> QED
        BY <4>1, <4>2
    <3>3. CASE i = 1
      <4>1. (n + i) - 1 = n
        BY <1>2, <3>3
      <4> QED
        BY <1>3, <1>4, <3>2, <3>3, <4>1
    <3>4. CASE i # 1
      <4>1. i - 1 \in 1 .. Len(decimated') /\ n + (i - 1) = (n + i) - 1
        BY <1>2, <2>1, <3>4
      <4> QED
        BY <1>5, <3>2, <3>4, <4>1
    <3> QED
      BY <3>3, <3>4
  <2> QED
    BY <1>3, <1>7, <2>1 DEF InOrder
<1>12. BlockInv'
  BY <1>1, <1>2, <1>3, <1>5 DEF BlockInv
<1>13. FilterFits'
  BY <1>3, <1>9 DEF FilterFits
<1>14. LockInv' /\ RatesInv'
  BY <1>1, <1>3 DEF LockInv, RatesInv, rates
<1> QED
  BY <1>10, <1>11, <1>12, <1>13, <1>14

-----------------------------------------------------------------------------
\* The setters change no samples.
LEMMA DecimationInv ==
    ASSUME IInv,
           \/ \E f \in 1 .. MaxFactor : SetDecimation(f)
           \/ ClearStages \/ AddStages \/ Unsupported \/ SetFactor
    PROVE  IInv'
<1> USE DEF IInv, rates, lowpass, buffers
<1>1. CASE \E f \in 1 .. MaxFactor : SetDecimation(f)
  <2> USE <1>1 DEF SetDecimation
  <2>1. TypeOK'
    BY DEF TypeOK
  <2>2. LockInv' /\ RatesInv' /\ BlockInv' /\ FilterFits'
    BY DEF LockInv, RatesInv, BlockInv, FilterFits
  <2> QED
    BY <2>1, <2>2, KeepsOrder
<1>2. CASE ClearStages
  <2> USE <1>2 DEF ClearStages, Unlocked
  <2>1. TypeOK'
    BY DEF TypeOK
  <2>2. LockInv' /\ RatesInv' /\ BlockInv' /\ FilterFits'
    BY DEF LockInv, RatesInv, BlockInv, FilterFits
  <2> QED
    BY <2>1, <2>2, KeepsOrder
<1>3. CASE AddStages
  <2> USE <1>3 DEF AddStages
  <2>1. TypeOK'
    BY DEF TypeOK
  <2>2. LockInv' /\ RatesInv' /\ BlockInv' /\ FilterFits'
    BY DEF LockInv, RatesInv, BlockInv, FilterFits
  <2> QED
    BY <2>1, <2>2, KeepsOrder
<1>4. CASE Unsupported
  <2> USE <1>4 DEF Unsupported
  <2>1. TypeOK'
    BY FactorsAssumption DEF TypeOK
  <2>2. LockInv' /\ RatesInv' /\ BlockInv' /\ FilterFits'
    BY DEF LockInv, RatesInv, BlockInv, FilterFits
  <2> QED
    BY <2>1, <2>2, KeepsOrder
<1>5. CASE SetFactor
  <2> USE <1>5 DEF SetFactor
  <2>1. TypeOK'
    <3>1. factor' = stages
      BY DEF RatesInv
    <3>2. 1 \in 1 .. MaxFactor
      BY FactorsAssumption
    <3> QED
      BY <3>1, <3>2 DEF TypeOK
  <2>2. LockInv' /\ RatesInv' /\ BlockInv' /\ FilterFits'
    BY DEF LockInv, RatesInv, BlockInv, FilterFits
  <2> QED
    BY <2>1, <2>2, KeepsOrder
<1> QED
  BY <1>1, <1>2, <1>3, <1>4, <1>5

LEMMA FilterSetInv ==
    ASSUME IInv, NEW f \in [bw : Bandwidths, length : Lengths], SetFilter(f)
    PROVE  IInv'
<1> USE DEF IInv, SetFilter, rates, threads, buffers
<1>1. /\ Design(f, fed) \in [length : Nat, bw : Bandwidths \cup {0}]
      /\ fed >= Block /\ Odd(f.length) > MinTaps => Design(f, fed).length \in 1 .. fed + 1
  <2>1. taps \in [length : Nat, bw : Bandwidths \cup {0}] /\ fed \in Nat
    BY DEF TypeOK
  <2> QED
    BY <2>1, DesignFacts
<1>2. TypeOK'
  BY <1>1 DEF TypeOK
<1>3. FilterFits'
  BY <1>1 DEF FilterFits, BlockInv
<1>4. LockInv' /\ RatesInv' /\ BlockInv'
  BY DEF LockInv, RatesInv, BlockInv
<1> QED
  BY <1>2, <1>3, <1>4, KeepsOrder

LEMMA StutterInv ==
    ASSUME IInv, UNCHANGED vars
    PROVE  IInv'
<1> USE DEF IInv, vars, rates, lowpass, threads, buffers
<1>1. TypeOK'
  BY DEF TypeOK
<1>2. LockInv' /\ RatesInv' /\ BlockInv' /\ FilterFits'
  BY DEF LockInv, RatesInv, BlockInv, FilterFits
<1> QED
  BY <1>1, <1>2, KeepsOrder

-----------------------------------------------------------------------------
(***************************************************************************)
(* The invariant from which all of the properties below follow.            *)
(***************************************************************************)
THEOREM Invariant == Spec => []IInv
<1>1. IInv /\ [Next]_vars => IInv'
  <2> SUFFICES ASSUME IInv, [Next]_vars PROVE IInv'
    OBVIOUS
  <2>1. ASSUME NEW n \in Batches, Push(n) PROVE IInv'
    BY <2>1, PushInv
  <2>2. CASE TakeNothing
    BY <2>2, TakeNothingInv
  <2>3. CASE Take
    BY <2>3, TakeInv
  <2>4. CASE AfcBegin \/ AfcEnd
    BY <2>4, AfcInv
  <2>5. CASE DropFast
    BY <2>5, DropFastInv
  <2>6. CASE Filter
    BY <2>6, FilterInv
  <2>7. CASE Symbols
    BY <2>7, SymbolsInv
  <2>8. CASE (\E f \in 1 .. MaxFactor : SetDecimation(f)) \/ Setter
    BY <2>8, DecimationInv DEF Setter
  <2>9. CASE SetLowpass \/ SetTransition
    <3>1. filter \in [bw : Bandwidths, length : Lengths]
      BY DEF IInv, TypeOK
    <3>2. ASSUME NEW b \in Bandwidths, SetFilter([filter EXCEPT !.bw = b]) PROVE IInv'
      <4>1. [filter EXCEPT !.bw = b] \in [bw : Bandwidths, length : Lengths]
        BY <3>1
      <4> QED
        BY <3>2, <4>1, FilterSetInv
    <3>3. ASSUME NEW n \in Lengths, SetFilter([filter EXCEPT !.length = n]) PROVE IInv'
      <4>1. [filter EXCEPT !.length = n] \in [bw : Bandwidths, length : Lengths]
        BY <3>1
      <4> QED
        BY <3>3, <4>1, FilterSetInv
    <3> QED
      BY <2>9, <3>2, <3>3 DEF SetLowpass, SetTransition
  <2>10. CASE CopyBegin \/ CopyEnd
    BY <2>10, SpectrumInv
  <2>11. CASE UNCHANGED vars
    BY <2>11, StutterInv
  <2> QED
    BY <2>1, <2>2, <2>3, <2>4, <2>5, <2>6, <2>7, <2>8, <2>9, <2>10, <2>11 DEF Next, Process
<1> QED
  BY <1>1, InitInv, PTL DEF Spec

(***************************************************************************)
(* Types, for any factors, filters and batches.                            *)
(***************************************************************************)
THEOREM TypeCorrect == Spec => []TypeOK
<1>1. IInv => TypeOK
  BY DEF IInv
<1> QED
  BY <1>1, Invariant, PTL

(***************************************************************************)
(* Decoder::process() neither loses nor repeats nor reorders samples,      *)
(* wherever set:decimation comes.                                          *)
(***************************************************************************)
THEOREM Ordered == Spec => []InOrder
<1>1. IInv => InOrder
  BY DEF IInv
<1> QED
  BY <1>1, Invariant, PTL

(***************************************************************************)
(* Less than a sample of the coarsest decimation and less than a block are *)
(* left between two calls of process().                                    *)
(***************************************************************************)
THEOREM LeavesLittle == Spec => []LittleLeft
<1>1. IInv => LittleLeft
  BY DEF IInv, BlockInv, LittleLeft
<1> QED
  BY <1>1, Invariant, PTL

(***************************************************************************)
(* The low-pass filter fits every input it is given, for any sequence of   *)
(* transition widths that make a filter.                                   *)
(***************************************************************************)
THEOREM Fits == Spec => []FilterFits
<1>1. IInv => FilterFits
  BY DEF IInv
<1> QED
  BY <1>1, Invariant, PTL
-----------------------------------------------------------------------------
(***************************************************************************)
(* The other thing the same two threads do to each other: the frequency,   *)
(* which the decoder thread corrects and the io thread sets.               *)
(***************************************************************************)
LEMMA TuningFacts ==
  /\ Frequencies \subseteq Int /\ Frequencies # {} /\ Corrections \subseteq Int
  /\ Threshold \in Nat /\ MaxCorrections \in Nat /\ None \notin Int
  BY FrequenciesAssumption, CorrectionsAssumption, ThresholdAssumption,
     MaxCorrectionsAssumption, NoneAssumption

(***************************************************************************)
(* What holds at each point of an undisturbed request, and of a correction *)
(* that runs between requests.                                             *)
(***************************************************************************)
OneAtATime == handling = "idle" \/ tuning = "process"

Commanded ==
    asked # None =>
        /\ handling = "par" => device = asked
        /\ handling \in {"echo", "compare", "echo_all", "remember"} =>
               device = asked /\ par.frequency = asked
        /\ handling \in {"compare", "echo_all", "remember"} => shown = asked

Tuned ==
    /\ handling \notin {"device", "par"} /\ tuning \in {"process", "load", "store"} =>
           par.frequency = device
    /\ tuning = "tune" => frequency = par.frequency

Told ==
    /\ handling = "idle" => shown \in {None, params.frequency}
    /\ handling = "compare" => shown \in {None, params.frequency, par.frequency}
    /\ handling = "remember" => shown = par.frequency

Agreed == TuningTypeOK /\ (~overlap => OneAtATime /\ Commanded /\ Tuned /\ Told)

-----------------------------------------------------------------------------
LEMMA InitAgreed == TuningInit => Agreed
<1> SUFFICES ASSUME TuningInit PROVE Agreed
  OBVIOUS
<1>1. par \in Parameters /\ params \in Parameters /\ 0 \in 0 .. MaxCorrections
  <2>1. par \in Parameters /\ params \in Parameters
    BY TuningFacts DEF TuningInit, Parameters
  <2> QED
    BY <2>1, TuningFacts
<1>2. TuningTypeOK
  <2>1. device \in Int /\ 0 \in Int
    BY <1>1 DEF TuningInit, Parameters
  <2> QED
    BY <1>1, <2>1, Zenon DEF TuningInit, TuningTypeOK
<1> QED
  BY <1>2 DEF TuningInit, Agreed, OneAtATime, Commanded, Tuned, Told

LEMMA TuningTypeStep ==
  ASSUME TuningTypeOK, [TuningNext]_tuningVars
  PROVE  TuningTypeOK'
<1> USE DEF TuningTypeOK, Parameters
<1>1. CASE SetFrequency \/ SetAfc \/ OtherRequest
  <2>1. corrections' \in 0 .. MaxCorrections
    BY <1>1, TuningFacts DEF SetFrequency, SetAfc, OtherRequest, Begin
  <2>2. CASE SetFrequency
    <3>1. asked' # None
      BY <2>2, TuningFacts DEF SetFrequency
    <3> QED
      BY <2>1, <2>2, <3>1 DEF SetFrequency, tuner
  <2>3. CASE SetAfc
    BY <2>1, <2>3 DEF SetAfc, tuner
  <2>4. CASE OtherRequest
    BY <2>1, <2>4 DEF OtherRequest, tuner
  <2> QED
    BY <1>1, <2>2, <2>3, <2>4
<1>2. CASE SetDevice \/ SetPar
  <2>1. asked \in Int
    BY <1>2, TuningFacts DEF SetDevice, SetPar
  <2> QED
    BY <1>2, <2>1 DEF SetDevice, SetPar, tuner
<1>3. CASE Echo \/ EchoAll
  BY <1>3 DEF Echo, EchoAll, EchoedFrequency, tuner
<1>4. CASE Compare \/ Remember
  BY <1>4 DEF Compare, Remember, tuner
<1>5. CASE ReadCorrection
  <2>1. corrections' \in 0 .. MaxCorrections /\ correction' \in Int
    BY <1>5, TuningFacts DEF ReadCorrection
  <2>2. correction' > Threshold \/ -correction' > Threshold
    BY <1>5 DEF ReadCorrection, Applies
  <2> QED
    BY <1>5, <2>1, <2>2 DEF ReadCorrection, handler
<1>6. CASE Load \/ Store \/ Reload \/ Tune
  BY <1>6 DEF Load, Store, Reload, Reloaded, Tune, handler
<1>7. CASE UNCHANGED tuningVars
  BY <1>7 DEF tuningVars
<1> QED
  BY <1>1, <1>2, <1>3, <1>4, <1>5, <1>6, <1>7 DEF TuningNext, Request, Afc

LEMMA AgreementStep ==
  ASSUME Agreed, [TuningNext]_tuningVars
  PROVE  ~overlap' => (OneAtATime /\ Commanded /\ Tuned /\ Told)'
<1> SUFFICES ASSUME ~overlap' PROVE (OneAtATime /\ Commanded /\ Tuned /\ Told)'
  OBVIOUS
<1> USE DEF Agreed, TuningTypeOK, Parameters, OneAtATime, Commanded, Tuned, Told
<1>1. CASE SetFrequency
  BY <1>1 DEF SetFrequency, Begin, tuner
<1>2. CASE SetAfc \/ OtherRequest
  BY <1>2 DEF SetAfc, OtherRequest, Begin, tuner
<1>3. CASE SetDevice \/ SetPar
  BY <1>3 DEF SetDevice, SetPar, tuner
<1>4. CASE Echo \/ EchoAll
  BY <1>4 DEF Echo, EchoAll, EchoedFrequency, tuner
<1>5. CASE Compare
  BY <1>5 DEF Compare, Changed, tuner
<1>6. CASE Remember
  BY <1>6 DEF Remember, tuner
<1>7. CASE ReadCorrection
  BY <1>7 DEF ReadCorrection, handler
<1>8. CASE Load \/ Store
  BY <1>8 DEF Load, Store, handler
<1>9. CASE Reload \/ Tune
  BY <1>9 DEF Reload, Reloaded, Tune, handler
<1>10. CASE UNCHANGED tuningVars
  BY <1>10 DEF tuningVars
<1> QED
  BY <1>1, <1>2, <1>3, <1>4, <1>5, <1>6, <1>7, <1>8, <1>9, <1>10
     DEF TuningNext, Request, Afc

LEMMA AgreedAlways == TuningSpec => []Agreed
<1>1. Agreed /\ [TuningNext]_tuningVars => Agreed'
  BY TuningTypeStep, AgreementStep DEF Agreed
<1> QED
  BY InitAgreed, <1>1, PTL DEF TuningSpec

(***************************************************************************)
(* Every variable keeps its type, and only corrections above the threshold *)
(* are applied (DECODER_THREAD).                                           *)
(***************************************************************************)
THEOREM TuningTypeCorrect == TuningSpec => []TuningTypeOK
<1>1. Agreed => TuningTypeOK
  BY DEF Agreed
<1> QED
  BY AgreedAlways, <1>1, PTL

(***************************************************************************)
(* DECODER_THREAD, HandleCommand and HandleRequest: parameter, device and  *)
(* clients agree at rest unless a correction has overlapped a request.     *)
(***************************************************************************)
THEOREM Agree == TuningSpec => []AgreeUnlessOverlapped
<1>1. Agreed => AgreeUnlessOverlapped
  BY DEF Agreed, TuningTypeOK, Tuned, Told, AgreeUnlessOverlapped,
     Quiet, Changed
<1> QED
  BY AgreedAlways, <1>1, PTL

(***************************************************************************)
(* HandleCommand: an undisturbed set:frequency is carried out and shown.   *)
(***************************************************************************)
THEOREM Prevails == TuningSpec => CommandPrevails
<1>1. Agreed /\ [TuningNext]_tuningVars =>
        [ handling # "idle" /\ handling' = "idle" /\ asked # None /\ ~overlap =>
            device = asked /\ par.frequency = asked /\ shown = asked ]_tuningVars
  <2> SUFFICES ASSUME Agreed, TuningNext,
                      handling # "idle", handling' = "idle", asked # None, ~overlap
               PROVE  device = asked /\ par.frequency = asked /\ shown = asked
    OBVIOUS
  <2>1. handling \in {"compare", "remember"}
    BY DEF TuningNext, Request, Afc, handler,
       SetFrequency, SetAfc, OtherRequest, SetDevice,
       SetPar, Echo, Compare, EchoAll, Remember,
       ReadCorrection, Load, Store, Reload, Tune
  <2> QED
    BY <2>1 DEF Agreed, Commanded
<1> QED
  BY AgreedAlways, <1>1, PTL DEF TuningSpec, CommandPrevails

-----------------------------------------------------------------------------
(***************************************************************************)
(* Induction over natural numbers, and from N down to 0.                   *)
(***************************************************************************)
LEMMA LeastIs ==
    ASSUME NEW S \in SUBSET Nat, S # {}
    PROVE  Least(S) \in S /\ \A j \in S : Least(S) <= j
<1> DEFINE Q == {ss \in Nat \X Nat : ss[1] < ss[2]}
<1>1. IsWellFoundedOn(Q, Nat)
  BY NatLessThanWellFounded DEF OpToRel
<1>2. PICK x \in S : \A y \in S : ~(<<y, x>> \in Q)
  <2> HIDE DEF Q
  <2> QED
    BY <1>1, WFMin, Zenon
<1>3. \A y \in S : x <= y
  <2> SUFFICES ASSUME NEW y \in S, ~(x <= y) PROVE FALSE
    OBVIOUS
  <2>1. x \in Nat /\ y \in Nat /\ y < x
    OBVIOUS
  <2>2. <<y, x>> \in Q
    BY <2>1
  <2> QED
    BY <1>2, <2>2
<1> QED
  BY <1>2, <1>3, Zenon DEF Least

LEMMA Upwards ==
    ASSUME NEW S, 0 \in S, \A n \in Nat : n \in S => n + 1 \in S
    PROVE  Nat \subseteq S
<1> SUFFICES ASSUME Nat \ S # {} PROVE FALSE
  OBVIOUS
<1> DEFINE T == Nat \ S
           x == Least(T)
<1>1. x \in T /\ \A y \in T : x <= y
  BY LeastIs
<1> HIDE DEF x
<1>2. x \in Nat /\ x # 0 /\ x \notin S
  BY <1>1
<1>3. x - 1 \in Nat /\ x - 1 < x /\ (x - 1) + 1 = x
  BY <1>2
<1>4. x - 1 \notin S
  BY <1>2, <1>3
<1> QED
  BY <1>1, <1>3, <1>4

LEMMA Downwards ==
    ASSUME NEW N \in Nat, NEW S,
           \A i \in 0 .. N : (\A j \in (i + 1) .. N : j \in S) => i \in S
    PROVE  0 .. N \subseteq S
<1> DEFINE T == {k \in Nat : \A j \in 0 .. N : j > N - k => j \in S}
<1>1. 0 \in T
  OBVIOUS
<1>2. ASSUME NEW k \in Nat, k \in T PROVE k + 1 \in T
  <2> SUFFICES ASSUME NEW j \in 0 .. N, j > N - (k + 1) PROVE j \in S
    OBVIOUS
  <2>1. CASE j > N - k
    BY <1>2, <2>1
  <2>2. CASE ~(j > N - k)
    <3>1. \A i \in (j + 1) .. N : i \in 0 .. N /\ i > N - k
      BY <2>2
    <3>2. \A i \in (j + 1) .. N : i \in S
      BY <1>2, <3>1
    <3> QED
      BY <3>2
  <2> QED
    BY <2>1, <2>2
<1>3. Nat \subseteq T
  <2> HIDE DEF T
  <2> QED
    BY <1>1, <1>2, Upwards
<1>4. N + 1 \in T
  BY <1>3
<1> QED
  BY <1>4

-----------------------------------------------------------------------------
(***************************************************************************)
(* A window on samples w: those behind the p-th up to the N-th.            *)
(***************************************************************************)
Side == {1, -1}

Window(w, p, N) == SubSeq(w, p + 1, N)

LEMMA WindowIs ==
    ASSUME NEW T, NEW w \in Seq(T), NEW N \in 0 .. Len(w), NEW p \in 0 .. N
    PROVE  /\ Window(w, p, N) \in Seq(T) /\ Len(Window(w, p, N)) = N - p
           /\ \A n \in 1 .. (N - p) : Window(w, p, N)[n] = w[p + n]
<1>1. Len(w) \in Nat /\ N \in Int /\ p + 1 \in Int /\ N - p \in Nat
  OBVIOUS
<1>2. \A n \in (p + 1) .. N : n \in 1 .. Len(w)
  BY <1>1
<1>3. \A n \in (p + 1) .. N : w[n] \in T
  BY <1>2, ElementOfSeq
<1> DEFINE m == p + 1
           s == SubSeq(w, m, N)
<1>4. m \in Int /\ \A n \in m .. N : w[n] \in T
  BY <1>1, <1>3
<1> HIDE DEF m
<1>5. /\ s \in Seq(T) /\ Len(s) = IF m <= N THEN N - m + 1 ELSE 0
      /\ \A n \in 1 .. N - m + 1 : s[n] = w[m + n - 1]
  BY <1>1, <1>4, SubSeqProperties
<1> HIDE DEF s
<1>6. Len(s) = N - p
  BY <1>1, <1>5 DEF m
<1>7. ASSUME NEW n \in 1 .. (N - p) PROVE s[n] = w[p + n]
  <2>1. n \in 1 .. N - m + 1 /\ m + n - 1 = p + n
    BY <1>1 DEF m
  <2> QED
    BY <1>5, <2>1
<1> QED
  BY <1>5, <1>6, <1>7 DEF s, m, Window

(***************************************************************************)
(* What is seen from a point only depends on the samples around it.        *)
(***************************************************************************)
On(b, c, d, v) == {i \in c .. d : b[i] = v}

LEMMA OnFinite ==
    ASSUME NEW b, NEW c \in Int, NEW d \in Int, NEW v
    PROVE  IsFiniteSet(On(b, c, d, v)) /\ Cardinality(On(b, c, d, v)) \in Nat
<1>1. IsFiniteSet(c .. d)
  BY FS_Interval
<1>2. On(b, c, d, v) \in SUBSET (c .. d)
  BY DEF On
<1>3. IsFiniteSet(On(b, c, d, v))
  BY <1>1, <1>2, FS_Subset
<1> QED
  BY <1>3, FS_CardinalityType

LEMMA AverageIs ==
    ASSUME NEW b, NEW c, NEW d
    PROVE  Average(b, c, d) = Cardinality(On(b, c, d, 1)) - Cardinality(On(b, c, d, -1))
  BY DEF Average, On

LEMMA AverageType ==
    ASSUME NEW b, NEW c \in Int, NEW d \in Int
    PROVE  Average(b, c, d) \in Int
<1>1. Cardinality(On(b, c, d, 1)) \in Nat /\ Cardinality(On(b, c, d, -1)) \in Nat
  BY OnFinite
<1> QED
  BY <1>1, AverageIs

\* Samples c to d of s are those of w that come p later.
Alike(s, w, p, c, d) == \A i \in c .. d : s[i] = w[p + i]

LEMMA SameCount ==
    ASSUME NEW s, NEW w, NEW p \in Int, NEW c \in Int, NEW d \in Int, NEW v, Alike(s, w, p, c, d)
    PROVE  Cardinality(On(s, c, d, v)) = Cardinality(On(w, p + c, p + d, v))
<1> DEFINE S == On(s, c, d, v)
           T == On(w, p + c, p + d, v)
           f == [i \in S |-> p + i]
<1>1. IsFiniteSet(S)
  BY OnFinite
<1>2. \A i \in S : p + i \in T
  BY DEF On, Alike
<1>3. ASSUME NEW j \in T PROVE \E i \in S : p + i = j
  <2>1. j - p \in c .. d /\ p + (j - p) = j
    BY DEF On
  <2>2. j - p \in S
    BY <2>1 DEF On, Alike
  <2> QED
    BY <2>1, <2>2
<1>4. \A i \in S, j \in S : p + i = p + j => i = j
  BY DEF On
<1> HIDE DEF S, T
<1>5. f \in Bijection(S, T)
  BY <1>2, <1>3, <1>4 DEF Bijection, Injection, Surjection, IsInjective
<1>6. ExistsBijection(S, T)
  BY <1>5 DEF ExistsBijection
<1>7. Cardinality(T) = Cardinality(S)
  BY <1>1, <1>6, FS_Bijection
<1> QED
  BY <1>7 DEF S, T

LEMMA SameAverage ==
    ASSUME NEW s, NEW w, NEW p \in Int, NEW c \in Int, NEW d \in Int, Alike(s, w, p, c, d)
    PROVE  Average(s, c, d) = Average(w, p + c, p + d)
<1>1. /\ Cardinality(On(s, c, d, 1)) = Cardinality(On(w, p + c, p + d, 1))
      /\ Cardinality(On(s, c, d, -1)) = Cardinality(On(w, p + c, p + d, -1))
  BY SameCount
<1> QED
  BY <1>1, AverageIs

\* The flip points are looked for within less than a bit.
LEMMA Reach == R \in Nat /\ 4 <= R /\ R < Spb /\ Spb \in Nat
<1>1. Spb \in Nat /\ Spb >= 8
  BY SpbAssumption
<1>2. Spb \div 4 \in Nat /\ Spb \div 4 < Spb
  BY <1>1
<1> QED
  BY <1>1, <1>2 DEF R

Same(s, i, w, j) == (Differ(s, i) <=> Differ(w, j)) /\ Weight(s, i) = Weight(w, j)

LEMMA SameView ==
    ASSUME NEW s, NEW w, NEW p \in Int, NEW i \in Int, Len(s) \in Int, Len(w) \in Int,
           i + R < Len(s), p + i + R < Len(w),
           Alike(s, w, p, i - R + 1, i + R)
    PROVE  Same(s, i, w, p + i)
<1>1. R \in Nat
  BY Reach
<1>2. LeftOf(s, i) = Average(s, i - R + 1, i)
  BY DEF LeftOf
<1>3. LeftOf(w, p + i) = Average(w, p + i - R + 1, p + i)
  BY <1>1 DEF LeftOf
<1>4. RightOf(s, i) = Average(s, i + 1, i + R)
  BY DEF RightOf
<1>5. RightOf(w, p + i) = Average(w, p + i + 1, p + i + R)
  BY DEF RightOf
<1>6. Average(s, i - R + 1, i) = Average(w, p + i - R + 1, p + i)
  <2>1. /\ i - R + 1 \in Int /\ p + (i - R + 1) = p + i - R + 1
        /\ \A k \in (i - R + 1) .. i : k \in (i - R + 1) .. (i + R)
    BY <1>1
  <2>2. Alike(s, w, p, i - R + 1, i)
    BY <2>1, Zenon DEF Alike
  <2>3. Average(s, i - R + 1, i) = Average(w, p + (i - R + 1), p + i)
    BY <2>1, <2>2, SameAverage
  <2> QED
    BY <2>1, <2>3
<1>7. Average(s, i + 1, i + R) = Average(w, p + i + 1, p + i + R)
  <2>1. /\ i + 1 \in Int /\ i + R \in Int /\ p + (i + 1) = p + i + 1 /\ p + (i + R) = p + i + R
        /\ \A k \in (i + 1) .. (i + R) : k \in (i - R + 1) .. (i + R)
    BY <1>1
  <2>2. Alike(s, w, p, i + 1, i + R)
    BY <2>1, Zenon DEF Alike
  <2>3. Average(s, i + 1, i + R) = Average(w, p + (i + 1), p + (i + R))
    BY <2>1, <2>2, SameAverage
  <2> QED
    BY <2>1, <2>3
<1> QED
  BY <1>2, <1>3, <1>4, <1>5, <1>6, <1>7 DEF Same, Differ, Weight

LEMMA WeightType ==
    ASSUME NEW b, Len(b) \in Int, NEW i \in Int
    PROVE  Weight(b, i) \in Nat
<1> DEFINE n == IF i + R < Len(b) THEN i + R ELSE Len(b)
           m == i - R + 1
<1>1. n \in Int /\ m \in Int /\ i + 1 \in Int
  BY Reach
<1>2. LeftOf(b, i) = Average(b, m, i) /\ RightOf(b, i) = Average(b, i + 1, n)
  BY DEF LeftOf, RightOf
<1> HIDE DEF m, n
<1>3. LeftOf(b, i) \in Int /\ RightOf(b, i) \in Int
  BY <1>1, <1>2, AverageType
<1> QED
  BY <1>3 DEF Weight, Abs

(***************************************************************************)
(* findFirstFlipPoint() in the first N samples of b, from a on: the sides  *)
(* differ from d on, no longer at e, and most at g.                        *)
(***************************************************************************)
Sharper(b, g, i) == Weight(b, i) < Weight(b, g) \/ (Weight(b, i) = Weight(b, g) /\ g <= i)

Sought(b, N, a, d, e, g) ==
    /\ d \in Int /\ e \in Int /\ g \in Int
    /\ a + R <= d /\ d <= g /\ g < e /\ e < N - Spb
    /\ \A i \in (a + R) .. (d - 1) : ~Differ(b, i)
    /\ \A i \in d .. (e - 1) : Differ(b, i)
    /\ ~Differ(b, e)
    /\ \A i \in d .. (e - 1) : Sharper(b, g, i)

\* Samples x from a on look as those of y that come q later.
Looks(x, N, a, y, q) == \A i \in Int : a + R <= i /\ i < N - Spb => Same(x, i, y, q + i)

LEMMA SoughtMoves ==
    ASSUME NEW x, NEW y, NEW q \in Int, NEW N \in Int, NEW M \in Int, NEW a \in Int,
           q + N <= M, Looks(x, N, a, y, q), NEW d, NEW e, NEW g, Sought(x, N, a, d, e, g)
    PROVE  Sought(y, M, q + a, q + d, q + e, q + g)
<1>1. R \in Nat /\ Spb \in Nat
  BY Reach
<1>2. /\ d \in Int /\ e \in Int /\ g \in Int
      /\ a + R <= d /\ d <= g /\ g < e /\ e < N - Spb
  BY DEF Sought
<1>3. \A i \in Int : a + R <= i /\ i < N - Spb => Same(x, i, y, q + i)
  BY DEF Looks
<1>4. ASSUME NEW j \in Int, (q + a) + R <= j, j < q + (N - Spb)
      PROVE  /\ j - q \in Int /\ a + R <= j - q /\ j - q < N - Spb /\ q + (j - q) = j
             /\ Same(x, j - q, y, j)
  <2>1. j - q \in Int /\ a + R <= j - q /\ j - q < N - Spb /\ q + (j - q) = j
    BY <1>1, <1>4
  <2>2. Same(x, j - q, y, q + (j - q))
    BY <1>3, <2>1
  <2> QED
    BY <2>1, <2>2
<1>5. ASSUME NEW j \in ((q + a) + R) .. ((q + d) - 1) PROVE ~Differ(y, j)
  <2>1. j \in Int /\ (q + a) + R <= j /\ j < q + (N - Spb) /\ j - q \in (a + R) .. (d - 1)
    BY <1>1, <1>2
  <2>2. Same(x, j - q, y, j)
    BY <1>4, <2>1
  <2>3. ~Differ(x, j - q)
    BY <2>1 DEF Sought
  <2> QED
    BY <2>2, <2>3 DEF Same
<1>6. ASSUME NEW j \in (q + d) .. ((q + e) - 1)
      PROVE  j - q \in d .. (e - 1) /\ Differ(y, j) /\ Weight(x, j - q) = Weight(y, j)
  <2>1. j \in Int /\ (q + a) + R <= j /\ j < q + (N - Spb) /\ j - q \in d .. (e - 1)
    BY <1>1, <1>2
  <2>2. Same(x, j - q, y, j)
    BY <1>4, <2>1
  <2>3. Differ(x, j - q)
    BY <2>1 DEF Sought
  <2> QED
    BY <2>1, <2>2, <2>3 DEF Same
<1>7. ~Differ(y, q + e)
  <2>1. Same(x, e, y, q + e)
    BY <1>1, <1>2, <1>3
  <2> QED
    BY <2>1 DEF Sought, Same
<1>8. Weight(x, g) = Weight(y, q + g)
  <2>1. Same(x, g, y, q + g)
    BY <1>1, <1>2, <1>3
  <2> QED
    BY <2>1 DEF Same
<1>9. ASSUME NEW j \in (q + d) .. ((q + e) - 1) PROVE Sharper(y, q + g, j)
  <2>1. j - q \in d .. (e - 1) /\ Weight(x, j - q) = Weight(y, j)
    BY <1>6
  <2>2. Sharper(x, g, j - q)
    BY <2>1 DEF Sought
  <2>3. g <= j - q => q + g <= j
    BY <1>2
  <2> QED
    BY <1>8, <2>1, <2>2, <2>3 DEF Sharper
<1>10. /\ q + d \in Int /\ q + e \in Int /\ q + g \in Int
       /\ (q + a) + R <= q + d /\ q + d <= q + g /\ q + g < q + e /\ q + e < M - Spb
  BY <1>1, <1>2
<1> QED
  BY <1>5, <1>6, <1>7, <1>9, <1>10 DEF Sought

\* There is only one, also when more samples come.
LEMMA SoughtOne ==
    ASSUME NEW b, Len(b) \in Int, NEW N \in Int, NEW M \in Int, NEW a \in Int, NEW d, NEW e, NEW g,
           NEW c, NEW f, NEW h, Sought(b, N, a, d, e, g), Sought(b, M, a, c, f, h)
    PROVE  d = c /\ e = f /\ g = h
<1>1. R \in Nat /\ Spb \in Nat
  BY Reach
<1>2. /\ d \in Int /\ e \in Int /\ g \in Int /\ a + R <= d /\ d <= g /\ g < e
      /\ \A i \in (a + R) .. (d - 1) : ~Differ(b, i)
      /\ \A i \in d .. (e - 1) : Differ(b, i)
      /\ ~Differ(b, e)
  BY DEF Sought
<1>3. /\ c \in Int /\ f \in Int /\ h \in Int /\ a + R <= c /\ c <= h /\ h < f
      /\ \A i \in (a + R) .. (c - 1) : ~Differ(b, i)
      /\ \A i \in c .. (f - 1) : Differ(b, i)
      /\ ~Differ(b, f)
  BY DEF Sought
<1>4. d = c
  <2>1. d \in d .. (e - 1) /\ c \in c .. (f - 1)
    BY <1>2, <1>3
  <2>2. Differ(b, d) /\ Differ(b, c)
    BY <1>2, <1>3, <2>1
  <2>3. ~(d < c)
    <3> SUFFICES ASSUME d < c PROVE FALSE
      OBVIOUS
    <3>1. d \in (a + R) .. (c - 1)
      BY <1>1, <1>2, <1>3
    <3> QED
      BY <1>3, <2>2, <3>1
  <2>4. ~(c < d)
    <3> SUFFICES ASSUME c < d PROVE FALSE
      OBVIOUS
    <3>1. c \in (a + R) .. (d - 1)
      BY <1>1, <1>2, <1>3
    <3> QED
      BY <1>2, <2>2, <3>1
  <2> QED
    BY <1>2, <1>3, <2>3, <2>4
<1>5. e = f
  <2>1. ~(e < f)
    <3> SUFFICES ASSUME e < f PROVE FALSE
      OBVIOUS
    <3>1. e \in c .. (f - 1)
      BY <1>2, <1>3, <1>4
    <3> QED
      BY <1>2, <1>3, <3>1
  <2>2. ~(f < e)
    <3> SUFFICES ASSUME f < e PROVE FALSE
      OBVIOUS
    <3>1. f \in d .. (e - 1)
      BY <1>2, <1>3, <1>4
    <3> QED
      BY <1>2, <1>3, <3>1
  <2> QED
    BY <1>2, <1>3, <2>1, <2>2
<1>6. g = h
  <2>1. h \in d .. (e - 1) /\ g \in c .. (f - 1)
    BY <1>2, <1>3, <1>4, <1>5
  <2>2. Sharper(b, g, h) /\ Sharper(b, h, g)
    BY <2>1 DEF Sought
  <2>3. Weight(b, g) \in Nat /\ Weight(b, h) \in Nat
    BY <1>2, <1>3, WeightType
  <2> QED
    BY <1>2, <1>3, <2>2, <2>3 DEF Sharper
<1> QED
  BY <1>4, <1>5, <1>6

LEMMA SharpestIs ==
    ASSUME NEW b, Len(b) \in Int, NEW l \in Int, NEW h \in Int, l <= h
    PROVE  Sharpest(b, l .. h) \in l .. h /\ \A i \in l .. h : Sharper(b, Sharpest(b, l .. h), i)
<1> DEFINE Top(f, k) == f \in l .. (l + k) /\ \A i \in l .. (l + k) : Sharper(b, f, i)
           S == {k \in Nat : \E f : Top(f, k)}
<1>0. \A i \in Int : Weight(b, i) \in Nat
  BY WeightType
<1>1. 0 \in S
  <2>1. \A i \in l .. (l + 0) : i = l
    OBVIOUS
  <2>2. Sharper(b, l, l)
    BY DEF Sharper
  <2>3. Top(l, 0)
    BY <2>1, <2>2
  <2> HIDE DEF Top
  <2> QED
    BY <2>3
<1>2. ASSUME NEW k \in Nat, k \in S PROVE k + 1 \in S
  <2>1. PICK f : Top(f, k)
    BY <1>2
  <2> DEFINE j == l + (k + 1)
  <2>2. f \in Int /\ j \in Int /\ f < j /\ f \in l .. j /\ j \in l .. j
    BY <2>1
  <2>3. \A i \in l .. j : i \in l .. (l + k) \/ i = j
    OBVIOUS
  <2>4. \A i \in l .. (l + k) : Sharper(b, f, i) /\ i \in Int /\ i < j
    BY <2>1
  <2>5. Weight(b, f) \in Nat /\ Weight(b, j) \in Nat
    BY <1>0, <2>2
  <2>6. CASE Weight(b, f) < Weight(b, j)
    <3>1. ASSUME NEW i \in l .. (l + k) PROVE Sharper(b, j, i)
      <4>1. i \in Int /\ Sharper(b, f, i)
        BY <2>4
      <4>2. Weight(b, i) \in Nat
        BY <1>0, <4>1
      <4> QED
        BY <2>5, <2>6, <4>1, <4>2 DEF Sharper
    <3>2. Sharper(b, j, j)
      BY <2>2 DEF Sharper
    <3>3. Top(j, k + 1)
      BY <2>2, <2>3, <3>1, <3>2
    <3> HIDE DEF Top
    <3> QED
      BY <3>3
  <2>7. CASE ~(Weight(b, f) < Weight(b, j))
    <3>1. Sharper(b, f, j)
      BY <2>2, <2>5, <2>7 DEF Sharper
    <3>2. Top(f, k + 1)
      BY <2>2, <2>3, <2>4, <3>1
    <3> HIDE DEF Top
    <3> QED
      BY <3>2
  <2> QED
    BY <2>6, <2>7
<1>3. h - l \in S
  <2>1. h - l \in Nat
    OBVIOUS
  <2> HIDE DEF S
  <2> QED
    BY <1>1, <1>2, <2>1, Upwards
<1>4. PICK f : Top(f, h - l)
  BY <1>3
<1>5. l + (h - l) = h
  OBVIOUS
<1>6. f \in l .. h /\ \A i \in l .. h : Sharper(b, f, i)
  BY <1>4, <1>5
<1>7. \E x \in l .. h : \A i \in l .. h :
          Weight(b, i) < Weight(b, x) \/ (Weight(b, i) = Weight(b, x) /\ x <= i)
  BY <1>6 DEF Sharper
<1> QED
  BY <1>7, Zenon DEF Sharpest, Sharper

\* There is no flip point.
NoFlip(b, N, a) == \A d, e, g : ~Sought(b, N, a, d, e, g)

LEMMA FirstIs ==
    ASSUME NEW T, NEW b \in Seq(T), NEW a \in 0 .. Len(b)
    PROVE  \/ FirstFlips(b, a) = {} /\ NoFlip(b, Len(b), a)
           \/ \E d, e, g : FirstFlips(b, a) = {g} /\ Sought(b, Len(b), a, d, e, g)
<1> DEFINE N == Len(b)
           within == (a + R) .. (N - Spb - 1)
           differ == {i \in within : Differ(b, i)}
           after == {j \in within \ differ : differ # {} /\ j > Least(differ)}
<1>0. N \in Nat /\ a \in Nat /\ a <= N /\ R \in Nat /\ 4 <= R /\ R < Spb /\ Spb \in Nat
  BY Reach
<1>1. CASE N - a < Spb
  <2>1. FirstFlips(b, a) = {}
    BY <1>1 DEF FirstFlips
  <2>2. ASSUME NEW d, NEW e, NEW g, Sought(b, N, a, d, e, g) PROVE FALSE
    <3>1. d \in Int /\ e \in Int /\ g \in Int /\ a + R <= d /\ d <= g /\ g < e /\ e < N - Spb
      BY <2>2 DEF Sought
    <3> QED
      BY <1>0, <1>1, <3>1
  <2>3. NoFlip(b, N, a)
    BY <2>2 DEF NoFlip
  <2> QED
    BY <2>1, <2>3
<1>2. CASE ~(N - a < Spb)
  <2>1. FirstFlips(b, a) = IF after = {} THEN {} ELSE {Sharpest(b, Least(differ) .. (Least(after) - 1))}
    BY <1>2 DEF FirstFlips, ScanLimit
  <2>2. differ \in SUBSET Nat /\ after \in SUBSET Nat /\ within \subseteq Nat
    BY <1>0
  <2>3. \A i \in Int : i \in within <=> a + R <= i /\ i < N - Spb
    BY <1>0
  <2>4. CASE after = {}
    <3>1. ASSUME NEW d, NEW e, NEW g, Sought(b, N, a, d, e, g) PROVE FALSE
      <4>1. /\ d \in Int /\ e \in Int /\ g \in Int /\ a + R <= d /\ d <= g /\ g < e /\ e < N - Spb
            /\ \A i \in d .. (e - 1) : Differ(b, i)
            /\ ~Differ(b, e)
        BY <3>1 DEF Sought
      <4>2. d \in within /\ e \in within /\ d \in d .. (e - 1)
        BY <1>0, <2>3, <4>1
      <4>3. d \in differ /\ e \notin differ
        BY <4>1, <4>2
      <4>4. differ \in SUBSET Nat
        BY <2>2
      <4> HIDE DEF differ
      <4> DEFINE l == Least(differ)
      <4>5. l \in Int /\ l <= d
        <5>1. differ # {}
          BY <4>3
        <5>2. l \in differ /\ \A j \in differ : l <= j
          BY <4>4, <5>1, LeastIs
        <5> HIDE DEF l
        <5>3. l \in Nat /\ l <= d
          BY <4>3, <4>4, <5>2
        <5> QED
          BY <5>3
      <4> HIDE DEF l
      <4>6. e > l
        BY <4>1, <4>5
      <4>7. e \in after
        BY <4>2, <4>3, <4>6 DEF l
      <4> QED
        BY <2>4, <4>7
    <3>2. NoFlip(b, N, a)
      BY <3>1 DEF NoFlip
    <3> QED
      BY <2>1, <2>4, <3>2
  <2>5. CASE after # {}
    <3> DEFINE d == Least(differ)
               e == Least(after)
               g == Sharpest(b, d .. (e - 1))
    <3>1. differ # {}
      BY <2>5
    <3>2. e \in after /\ \A j \in after : e <= j
      BY <2>2, <2>5, LeastIs
    <3>3. d \in differ /\ \A j \in differ : d <= j
      <4> HIDE DEF differ
      <4> QED
        BY <2>2, <3>1, LeastIs
    <3>4. FirstFlips(b, a) = {g}
      BY <2>1, <2>5
    <3>5. d \in Int /\ a + R <= d /\ d < N - Spb /\ Differ(b, d)
      <4> HIDE DEF d
      <4> QED
        BY <2>3, <3>3
    <3>6. e \in Int /\ a + R <= e /\ e < N - Spb /\ e > d /\ ~Differ(b, e)
      <4>1. e \in within /\ e \notin differ /\ e > d
        <5> HIDE DEF e
        <5> QED
          BY <3>2
      <4>2. ~Differ(b, e)
        <5> HIDE DEF e
        <5> QED
          BY <4>1
      <4> HIDE DEF e, d
      <4> QED
        BY <2>3, <4>1, <4>2
    <3> HIDE DEF d, e
    <3>7. g \in d .. (e - 1) /\ \A i \in d .. (e - 1) : Sharper(b, g, i)
      <4>1. e - 1 \in Int /\ d <= e - 1 /\ Len(b) \in Int
        BY <3>5, <3>6
      <4> QED
        BY <3>5, <4>1, SharpestIs
    <3> HIDE DEF g
    <3>8. ASSUME NEW i \in (a + R) .. (d - 1) PROVE ~Differ(b, i)
      <4>1. i \in within /\ ~(d <= i)
        BY <1>0, <2>3, <3>5
      <4> QED
        BY <3>3, <4>1
    <3>9. ASSUME NEW i \in d .. (e - 1) PROVE Differ(b, i)
      <4>1. i \in within /\ ~(e <= i) /\ i \in Int /\ d <= i
        BY <1>0, <2>3, <3>5, <3>6
      <4>2. i \notin after
        BY <3>2, <4>1
      <4>3. SUFFICES ASSUME ~Differ(b, i) PROVE FALSE
        OBVIOUS
      <4>4. i # d
        BY <3>5, <4>3
      <4>5. i > d
        BY <3>5, <4>1, <4>4
      <4>6. i \in within \ differ
        BY <4>1, <4>3
      <4>7. i \in after
        BY <3>1, <4>5, <4>6 DEF d
      <4> QED
        BY <4>2, <4>7
    <3>10. Sought(b, N, a, d, e, g)
      <4>1. g \in Int /\ d <= g /\ g < e
        BY <3>5, <3>6, <3>7
      <4> QED
        BY <3>5, <3>6, <3>7, <3>8, <3>9, <4>1 DEF Sought
    <3> QED
      BY <3>4, <3>10
  <2> QED
    BY <2>4, <2>5
<1> QED
  BY <1>1, <1>2

\* A flip point is behind where it is looked for.
LEMMA FlipBehind ==
    ASSUME NEW b, NEW N \in Int, NEW a \in Int, NEW d, NEW e, NEW g, Sought(b, N, a, d, e, g)
    PROVE  g \in Int /\ a < g /\ g <= N
<1>1. d \in Int /\ e \in Int /\ g \in Int /\ a + R <= d /\ d <= g /\ g < e /\ e < N - Spb
  BY DEF Sought
<1> QED
  BY <1>1, Reach

(***************************************************************************)
(* A window of the samples is searched as the samples are.                 *)
(***************************************************************************)
LEMMA WindowLooks ==
    ASSUME NEW T, NEW w \in Seq(T), NEW N \in 0 .. Len(w), NEW p \in 0 .. N, NEW a \in 0 .. (N - p)
    PROVE  /\ Looks(Window(w, p, N), N - p, a, w, p)
           /\ Looks(w, N, p + a, Window(w, p, N), -p)
<1> DEFINE s == Window(w, p, N)
<1>1. s \in Seq(T) /\ Len(s) = N - p /\ \A n \in 1 .. (N - p) : s[n] = w[p + n]
  BY WindowIs
<1>2. R \in Nat /\ R < Spb /\ Spb \in Nat
  BY Reach
<1>3. Len(w) \in Nat /\ N \in Nat /\ p \in Nat /\ a \in Nat /\ p + a <= N /\ N <= Len(w)
  OBVIOUS
<1> HIDE DEF s
<1>4. ASSUME NEW i \in Int, a + R <= i, i < (N - p) - Spb PROVE Same(s, i, w, p + i)
  <2>1. i + R < Len(s) /\ p + i + R < Len(w) /\ Len(s) \in Int
    BY <1>1, <1>2, <1>3, <1>4
  <2>2. \A j \in (i - R + 1) .. (i + R) : j \in 1 .. (N - p)
    BY <1>2, <1>3, <1>4
  <2>3. Alike(s, w, p, i - R + 1, i + R)
    BY <1>1, <2>2 DEF Alike
  <2> QED
    BY <1>3, <2>1, <2>3, SameView
<1>5. Looks(s, N - p, a, w, p)
  BY <1>4 DEF Looks
<1>6. ASSUME NEW i \in Int, (p + a) + R <= i, i < N - Spb PROVE Same(w, i, s, -p + i)
  <2>1. i - p \in Int /\ a + R <= i - p /\ i - p < (N - p) - Spb /\ p + (i - p) = i /\ -p + i = i - p
    BY <1>2, <1>3, <1>6
  <2>2. Same(s, i - p, w, p + (i - p))
    BY <1>4, <2>1
  <2> QED
    BY <2>1, <2>2 DEF Same
<1>7. Looks(w, N, p + a, s, -p)
  BY <1>6 DEF Looks
<1> QED
  BY <1>5, <1>7 DEF s

\* The flip point of the first N samples of w that follows the p-th.
Flip(w, N, p, g) == \E d, e : Sought(w, N, p, d, e, g)

LEMMA WindowFirst ==
    ASSUME NEW T, NEW w \in Seq(T), NEW N \in 0 .. Len(w), NEW p \in 0 .. N, NEW a \in 0 .. (N - p)
    PROVE  \/ FirstFlips(Window(w, p, N), a) = {} /\ NoFlip(w, N, p + a)
           \/ \E g \in (p + a + 1) .. N : FirstFlips(Window(w, p, N), a) = {g - p} /\ Flip(w, N, p + a, g)
<1> DEFINE s == Window(w, p, N)
           L == N - p
<1>1. s \in Seq(T) /\ Len(s) = L /\ Looks(s, L, a, w, p) /\ Looks(w, N, p + a, s, -p)
  BY WindowIs, WindowLooks
<1>2. /\ L \in Int /\ N \in Int /\ p \in Int /\ a \in Int /\ p + L <= N /\ -p + N <= L
      /\ -p \in Int /\ p + a \in Int /\ -p + (p + a) = a /\ a \in 0 .. L
  OBVIOUS
<1> HIDE DEF s, L
<1>3. CASE FirstFlips(s, a) = {} /\ NoFlip(s, L, a)
  <2>1. ASSUME NEW d, NEW e, NEW g, Sought(w, N, p + a, d, e, g) PROVE FALSE
    <3>1. Sought(s, L, -p + (p + a), -p + d, -p + e, -p + g)
      BY <1>1, <1>2, <2>1, SoughtMoves
    <3> QED
      BY <1>2, <1>3, <3>1 DEF NoFlip
  <2>2. NoFlip(w, N, p + a)
    BY <2>1 DEF NoFlip
  <2> QED
    BY <1>3, <2>2 DEF s
<1>4. ASSUME NEW d, NEW e, NEW f, FirstFlips(s, a) = {f}, Sought(s, L, a, d, e, f)
      PROVE  \E g \in (p + a + 1) .. N : FirstFlips(s, a) = {g - p} /\ Flip(w, N, p + a, g)
  <2>1. Sought(w, N, p + a, p + d, p + e, p + f)
    BY <1>1, <1>2, <1>4, SoughtMoves
  <2>2. f \in Int /\ (p + f) - p = f
    BY <1>2, <1>4, FlipBehind
  <2>3. p + f \in Int /\ p + a < p + f /\ p + f <= N
    BY <1>2, <2>1, FlipBehind
  <2>4. p + f \in (p + a + 1) .. N /\ FirstFlips(s, a) = {(p + f) - p}
    BY <1>2, <1>4, <2>2, <2>3
  <2>5. Flip(w, N, p + a, p + f)
    BY <2>1 DEF Flip
  <2> QED
    BY <2>4, <2>5
<1>5. \/ FirstFlips(s, a) = {} /\ NoFlip(s, L, a)
      \/ \E d, e, g : FirstFlips(s, a) = {g} /\ Sought(s, L, a, d, e, g)
  BY <1>1, <1>2, FirstIs
<1> QED
  BY <1>3, <1>4, <1>5 DEF s

\* It stays where it is when more samples come.
LEMMA FlipStays ==
    ASSUME NEW w, NEW M \in Int, NEW N \in Int, N <= M, NEW p \in Int, NEW g, Flip(w, N, p, g)
    PROVE  Flip(w, M, p, g)
<1>1. PICK d, e : Sought(w, N, p, d, e, g)
  BY DEF Flip
<1>2. Sought(w, M, p, d, e, g)
  BY <1>1, Reach DEF Sought
<1> QED
  BY <1>2 DEF Flip

LEMMA FlipOne ==
    ASSUME NEW w, Len(w) \in Int, NEW N \in Int, NEW p \in Int, NEW g, NEW h, Flip(w, N, p, g)
    PROVE  /\ Flip(w, N, p, h) => g = h
           /\ ~NoFlip(w, N, p)
<1>1. PICK d, e : Sought(w, N, p, d, e, g)
  BY DEF Flip
<1>2. ASSUME Flip(w, N, p, h) PROVE g = h
  <2>1. PICK c, f : Sought(w, N, p, c, f, h)
    BY <1>2 DEF Flip
  <2> QED
    BY <1>1, <2>1, SoughtOne
<1> QED
  BY <1>1, <1>2 DEF NoFlip

(***************************************************************************)
(* The runs of bits of samples b, from sample j on.                        *)
(***************************************************************************)
Continued(b, h, a) ==
    IF FirstFlips(b, a) = {} THEN [bits |-> <<>>, end |-> a]
    ELSE LET f == CHOOSE f \in FirstFlips(b, a) : TRUE
         IN  [bits |-> RunOfBits(b, a, f) \o h[f].bits, end |-> h[f].end]

Continuing(h, b, j) == h = [a \in j .. Len(b) |-> Continued(b, h, a)]

\* The flip point that is found is behind a.
LEMMA FoundBehind ==
    ASSUME NEW T, NEW b \in Seq(T), NEW a \in 0 .. Len(b), FirstFlips(b, a) # {}
    PROVE  (CHOOSE f \in FirstFlips(b, a) : TRUE) \in (a + 1) .. Len(b)
<1>1. PICK d, e, g : FirstFlips(b, a) = {g} /\ Sought(b, Len(b), a, d, e, g)
  BY FirstIs
<1>2. g \in Int /\ a < g /\ g <= Len(b) /\ Len(b) \in Int /\ a \in Int
  <2>1. Len(b) \in Int /\ a \in Int
    OBVIOUS
  <2> QED
    BY <1>1, <2>1, FlipBehind
<1> DEFINE f == CHOOSE f \in FirstFlips(b, a) : TRUE
<1>3. f = g
  BY <1>1
<1> HIDE DEF f
<1>4. f \in (a + 1) .. Len(b)
  BY <1>2, <1>3
<1> QED
  BY <1>4 DEF f

LEMMA RunsExist ==
    ASSUME NEW T, NEW b \in Seq(T)
    PROVE  \E h : Continuing(h, b, 0)
<1> DEFINE N == Len(b)
           S == {j \in 0 .. N : \E h : Continuing(h, b, j)}
<1>1. N \in Nat
  OBVIOUS
<1>2. ASSUME NEW j \in 0 .. N, \A k \in (j + 1) .. N : k \in S PROVE \E h : Continuing(h, b, j)
  <2>1. \E h : Continuing(h, b, j + 1)
    <3>1. CASE j = N
      <4> DEFINE h == [a \in (j + 1) .. N |-> Continued(b, <<>>, a)]
      <4>1. (j + 1) .. N = {}
        BY <3>1
      <4>2. h = [a \in (j + 1) .. N |-> Continued(b, h, a)]
        BY <4>1
      <4>3. Continuing(h, b, j + 1)
        BY <4>2 DEF Continuing
      <4> QED
        BY <4>3
    <3>2. CASE j # N
      <4>1. j + 1 \in S
        BY <1>2, <3>2
      <4> QED
        BY <4>1
    <3> QED
      BY <3>1, <3>2
  <2>2. PICK h : Continuing(h, b, j + 1)
    BY <2>1
  <2> DEFINE g == [a \in j .. N |-> IF a = j THEN Continued(b, h, j) ELSE h[a]]
  <2>3. \A a \in (j + 1) .. N : h[a] = Continued(b, h, a)
    BY <2>2, Zenon DEF Continuing
  <2>4. \A a \in (j + 1) .. N : g[a] = h[a]
    OBVIOUS
  <2>5. \A a \in j .. N : g[a] = Continued(b, h, a)
    BY <2>3
  <2> HIDE DEF g
  <2>6. ASSUME NEW a \in j .. N PROVE Continued(b, h, a) = Continued(b, g, a)
    <3>1. CASE FirstFlips(b, a) = {}
      BY <3>1 DEF Continued
    <3>2. CASE FirstFlips(b, a) # {}
      <4> DEFINE f == CHOOSE f \in FirstFlips(b, a) : TRUE
      <4>1. f \in (a + 1) .. N /\ a \in Int /\ a >= j
        BY <3>2, FoundBehind
      <4>2. Continued(b, h, a) = [bits |-> RunOfBits(b, a, f) \o h[f].bits, end |-> h[f].end]
        BY <3>2 DEF Continued
      <4>3. Continued(b, g, a) = [bits |-> RunOfBits(b, a, f) \o g[f].bits, end |-> g[f].end]
        BY <3>2 DEF Continued
      <4> HIDE DEF f
      <4>4. f \in (j + 1) .. N
        BY <1>1, <4>1
      <4>5. g[f] = h[f]
        BY <2>4, <4>4
      <4> QED
        BY <4>2, <4>3, <4>5
    <3> QED
      BY <3>1, <3>2
  <2>7. \A a \in j .. N : g[a] = Continued(b, g, a)
    BY <2>5, <2>6
  <2>8. g = [a \in j .. N |-> g[a]]
    BY DEF g
  <2>9. g = [a \in j .. N |-> Continued(b, g, a)]
    BY <2>7, <2>8
  <2> QED
    BY <2>9 DEF Continuing
<1>3. \A j \in 0 .. N : (\A k \in (j + 1) .. N : k \in S) => j \in S
  BY <1>2
<1> HIDE DEF S
<1>4. 0 .. N \subseteq S
  BY <1>1, <1>3, Downwards
<1>5. 0 \in S
  BY <1>1, <1>4
<1> QED
  BY <1>5 DEF S

LEMMA RunsIs ==
    ASSUME NEW T, NEW b \in Seq(T)
    PROVE  \E h : Continuing(h, b, 0) /\ Runs(b) = h[0]
<1> DEFINE V(h) == h = [start \in 0 .. Len(b) |->
                           LET S == FirstFlips(b, start)
                           IN  IF S = {} THEN [bits |-> <<>>, end |-> start]
                               ELSE LET f == CHOOSE f \in S : TRUE
                                        rest == h[f]
                                    IN  [bits |-> RunOfBits(b, start, f) \o rest.bits, end |-> rest.end]]
           from == CHOOSE h : V(h)
<1>1. ASSUME NEW h PROVE V(h) <=> Continuing(h, b, 0)
  BY Zenon DEF Continuing, Continued
<1>2. Runs(b) = from[0]
  BY DEF Runs
<1> HIDE DEF V
<1>3. \E h : V(h)
  BY <1>1, RunsExist
<1>4. V(from)
  BY <1>3, Zenon
<1> QED
  BY <1>1, <1>2, <1>4

\* The runs of the window behind the p-th of N samples, by their flip points.
ContinuedAt(h, w, p, N, a) ==
    \/ NoFlip(w, N, p + a) /\ h[a] = [bits |-> <<>>, end |-> a]
    \/ \E g \in (p + a + 1) .. N :
          /\ Flip(w, N, p + a, g)
          /\ h[a] = [bits |-> RunOfBits(w, p + a, g) \o h[g - p].bits, end |-> h[g - p].end]

Follows(h, w, p, N) == \A a \in 0 .. (N - p) : ContinuedAt(h, w, p, N, a)

LEMMA SameRun ==
    ASSUME NEW T, NEW w \in Seq(T), NEW N \in 0 .. Len(w), NEW p \in 0 .. N, NEW a \in 0 .. (N - p),
           NEW g \in (p + a + 1) .. N
    PROVE  RunOfBits(Window(w, p, N), a, g - p) = RunOfBits(w, p + a, g)
<1> DEFINE s == Window(w, p, N)
<1>1. s \in Seq(T) /\ Len(s) = N - p /\ \A n \in 1 .. (N - p) : s[n] = w[p + n]
  BY WindowIs
<1> HIDE DEF s
<1>2. /\ a + 1 \in Int /\ g - p \in Int /\ p \in Int /\ (g - p) - a = g - (p + a)
      /\ p + (a + 1) = p + a + 1 /\ p + (g - p) = g
      /\ \A i \in (a + 1) .. (g - p) : i \in 1 .. (N - p)
  OBVIOUS
<1>3. Alike(s, w, p, a + 1, g - p)
  BY <1>1, <1>2 DEF Alike
<1>4. Average(s, a + 1, g - p) = Average(w, p + (a + 1), p + (g - p))
  BY <1>2, <1>3, SameAverage
<1>5. Average(s, a + 1, g - p) = Average(w, (p + a) + 1, g)
  BY <1>2, <1>4
<1>6. RunOfBits(s, a, g - p) =
        [i \in 1 .. BitCount((g - p) - a) |-> IF Average(s, a + 1, g - p) > 0 THEN 1 ELSE 0]
  BY DEF RunOfBits
<1>7. RunOfBits(w, p + a, g) =
        [i \in 1 .. BitCount(g - (p + a)) |-> IF Average(w, (p + a) + 1, g) > 0 THEN 1 ELSE 0]
  BY DEF RunOfBits
<1> QED
  BY <1>2, <1>5, <1>6, <1>7 DEF s

LEMMA RunsAt ==
    ASSUME NEW T, NEW w \in Seq(T), NEW N \in 0 .. Len(w), NEW p \in 0 .. N
    PROVE  \E h : Follows(h, w, p, N) /\ Runs(Window(w, p, N)) = h[0]
<1> DEFINE s == Window(w, p, N)
<1>1. s \in Seq(T) /\ Len(s) = N - p
  BY WindowIs
<1>2. PICK h : Continuing(h, s, 0) /\ Runs(s) = h[0]
  BY <1>1, RunsIs
<1>3. \A a \in 0 .. (N - p) : h[a] = Continued(s, h, a)
  BY <1>1, <1>2, Zenon DEF Continuing
<1>4. ASSUME NEW a \in 0 .. (N - p) PROVE ContinuedAt(h, w, p, N, a)
  <2>1. CASE FirstFlips(s, a) = {} /\ NoFlip(w, N, p + a)
    <3>1. h[a] = [bits |-> <<>>, end |-> a]
      BY <1>3, <2>1 DEF Continued
    <3> QED
      BY <2>1, <3>1 DEF ContinuedAt
  <2>2. ASSUME NEW g \in (p + a + 1) .. N, FirstFlips(s, a) = {g - p}, Flip(w, N, p + a, g)
        PROVE  ContinuedAt(h, w, p, N, a)
    <3> DEFINE f == CHOOSE f \in FirstFlips(s, a) : TRUE
    <3>1. f = g - p
      BY <2>2
    <3>2. h[a] = [bits |-> RunOfBits(s, a, f) \o h[f].bits, end |-> h[f].end]
      BY <1>3, <2>2 DEF Continued
    <3> HIDE DEF f
    <3>3. RunOfBits(s, a, g - p) = RunOfBits(w, p + a, g)
      BY SameRun
    <3> QED
      BY <2>2, <3>1, <3>2, <3>3 DEF ContinuedAt
  <2> QED
    BY <2>1, <2>2, WindowFirst
<1> QED
  BY <1>2, <1>4 DEF Follows

\* What h has from m on is what k has.
Agrees(h, k, m, L) == \A a \in 0 .. L : h[m + a].bits = k[a].bits /\ h[m + a].end = m + k[a].end

\* A window that begins later has the same runs from there on.
LEMMA LaterRuns ==
    ASSUME NEW T, NEW w \in Seq(T), NEW N \in 0 .. Len(w), NEW p \in 0 .. N, NEW q \in p .. N,
           NEW h, NEW k, Follows(h, w, p, N), Follows(k, w, q, N)
    PROVE  Agrees(h, k, q - p, N - q)
<1> DEFINE m == q - p
           S == {a \in 0 .. (N - q) : h[m + a].bits = k[a].bits /\ h[m + a].end = m + k[a].end}
<1>1. /\ N - q \in Nat /\ m \in Nat /\ p + m = q /\ N \in Int /\ p \in Nat /\ q \in Nat
      /\ m + (N - q) = N - p /\ q <= N /\ Len(w) \in Int
  OBVIOUS
<1> HIDE DEF m
<1>2. ASSUME NEW a \in 0 .. (N - q), \A b \in (a + 1) .. (N - q) : b \in S
      PROVE  h[m + a].bits = k[a].bits /\ h[m + a].end = m + k[a].end
  <2>1. m + a \in 0 .. (N - p) /\ p + (m + a) = q + a /\ a \in Int /\ q + a \in Int
    BY <1>1
  <2>2. ContinuedAt(h, w, p, N, m + a) /\ ContinuedAt(k, w, q, N, a)
    BY <2>1 DEF Follows
  <2>3. CASE NoFlip(w, N, q + a)
    <3>1. \A g : ~Flip(w, N, q + a, g)
      BY <1>1, <2>1, <2>3, FlipOne
    <3>2. h[m + a] = [bits |-> <<>>, end |-> m + a] /\ k[a] = [bits |-> <<>>, end |-> a]
      BY <2>1, <2>2, <3>1 DEF ContinuedAt
    <3>3. h[m + a].bits = <<>> /\ k[a].bits = <<>>
      BY <3>2
    <3>4. h[m + a].end = m + a /\ k[a].end = a
      BY <3>2
    <3> QED
      BY <1>1, <2>1, <3>3, <3>4
  <2>4. CASE ~NoFlip(w, N, q + a)
    <3>1. PICK g \in (q + a + 1) .. N :
            /\ Flip(w, N, q + a, g)
            /\ h[m + a] = [bits |-> RunOfBits(w, q + a, g) \o h[g - p].bits, end |-> h[g - p].end]
      BY <2>1, <2>2, <2>4 DEF ContinuedAt
    <3>2. PICK f \in (q + a + 1) .. N :
            /\ Flip(w, N, q + a, f)
            /\ k[a] = [bits |-> RunOfBits(w, q + a, f) \o k[f - q].bits, end |-> k[f - q].end]
      BY <2>2, <2>4 DEF ContinuedAt
    <3>3. g = f
      BY <1>1, <2>1, <3>1, <3>2, FlipOne
    <3>4. g - q \in (a + 1) .. (N - q) /\ m + (g - q) = g - p
      BY <1>1
    <3>5. h[g - p].bits = k[g - q].bits /\ h[g - p].end = m + k[g - q].end
      BY <1>2, <3>4
    <3> DEFINE u == RunOfBits(w, q + a, g) \o h[g - p].bits
               v == RunOfBits(w, q + a, g) \o k[g - q].bits
    <3>6. h[m + a] = [bits |-> u, end |-> h[g - p].end]
      BY <3>1
    <3>7. k[a] = [bits |-> v, end |-> k[g - q].end]
      BY <3>2, <3>3
    <3>8. u = v
      BY <3>5
    <3> HIDE DEF u, v
    <3>9. h[m + a].bits = u /\ h[m + a].end = h[g - p].end
      BY <3>6
    <3>10. k[a].bits = v /\ k[a].end = k[g - q].end
      BY <3>7
    <3> QED
      BY <3>5, <3>8, <3>9, <3>10
  <2> QED
    BY <2>3, <2>4
<1>3. \A a \in 0 .. (N - q) : (\A b \in (a + 1) .. (N - q) : b \in S) => a \in S
  BY <1>2
<1>4. 0 .. (N - q) \subseteq S
  <2> HIDE DEF S
  <2> QED
    BY <1>1, <1>3, Downwards
<1> QED
  BY <1>4 DEF m, Agrees

(***************************************************************************)
(* The runs of the samples behind the p-th: none when there is no flip     *)
(* point, or the run up to it and those behind it.                         *)
(***************************************************************************)
Behind(w, p, N) == Runs(Window(w, p, N))

LEMMA BehindIs ==
    ASSUME NEW T, NEW w \in Seq(T), NEW N \in 0 .. Len(w), NEW p \in 0 .. N
    PROVE  \/ NoFlip(w, N, p) /\ Behind(w, p, N) = [bits |-> <<>>, end |-> 0]
           \/ \E g \in (p + 1) .. N :
                 /\ Flip(w, N, p, g)
                 /\ Behind(w, p, N) = [bits |-> RunOfBits(w, p, g) \o Behind(w, g, N).bits,
                                       end |-> (g - p) + Behind(w, g, N).end]
<1>1. PICK h : Follows(h, w, p, N) /\ Runs(Window(w, p, N)) = h[0]
  BY RunsAt
<1>2. 0 \in 0 .. (N - p) /\ p + 0 = p
  OBVIOUS
<1>3. ContinuedAt(h, w, p, N, 0)
  BY <1>1, <1>2 DEF Follows
<1>4. CASE NoFlip(w, N, p) /\ h[0] = [bits |-> <<>>, end |-> 0]
  BY <1>1, <1>4 DEF Behind
<1>5. ASSUME NEW g \in (p + 1) .. N, Flip(w, N, p, g),
             h[0] = [bits |-> RunOfBits(w, p, g) \o h[g - p].bits, end |-> h[g - p].end]
      PROVE  Behind(w, p, N) = [bits |-> RunOfBits(w, p, g) \o Behind(w, g, N).bits,
                                end |-> (g - p) + Behind(w, g, N).end]
  <2>1. g \in p .. N /\ g \in 0 .. N /\ 0 \in 0 .. (N - g) /\ (g - p) + 0 = g - p
    OBVIOUS
  <2>2. PICK k : Follows(k, w, g, N) /\ Runs(Window(w, g, N)) = k[0]
    BY <2>1, RunsAt
  <2>3. Agrees(h, k, g - p, N - g)
    BY <1>1, <2>1, <2>2, LaterRuns
  <2>4. h[g - p].bits = k[0].bits /\ h[g - p].end = (g - p) + k[0].end
    BY <2>1, <2>3 DEF Agrees
  <2> QED
    BY <1>1, <1>5, <2>2, <2>4 DEF Behind
<1> QED
  BY <1>2, <1>3, <1>4, <1>5 DEF ContinuedAt

\* The bits of samples behind the p-th of N, and what is erased for them.
Found(w, p, N) == Behind(w, p, N).bits
Cut(w, p, N) == Behind(w, p, N).end

\* A run is a sequence of bits.
LEMMA RunType ==
    ASSUME NEW w, NEW p \in Int, NEW g \in Int
    PROVE  RunOfBits(w, p, g) \in Seq({0, 1})
<1> DEFINE n == BitCount(g - p)
           x == [i \in 1 .. n |-> IF Average(w, p + 1, g) > 0 THEN 1 ELSE 0]
<1>1. RunOfBits(w, p, g) = x
  BY DEF RunOfBits
<1>2. n \in Int
  <2>1. Spb \in Nat /\ Spb >= 8
    BY SpbAssumption
  <2> DEFINE d == 2 * Spb
             e == 2 * (g - p) + Spb
  <2>2. d \in Nat /\ d > 0 /\ e \in Int
    BY <2>1
  <2>3. n = e \div d
    BY DEF BitCount
  <2> HIDE DEF n, d, e
  <2> QED
    BY <2>2, <2>3
<1> HIDE DEF n
<1>3. x \in [1 .. n -> {0, 1}]
  OBVIOUS
<1>4. CASE n \in Nat
  BY <1>1, <1>3, <1>4
<1>5. CASE n \notin Nat
  <2>1. 1 .. n = {} /\ 1 .. 0 = {}
    BY <1>2, <1>5
  <2>2. x \in [1 .. 0 -> {0, 1}]
    BY <1>3, <2>1
  <2> HIDE DEF x
  <2>3. 0 \in Nat /\ x \in Seq({0, 1})
    BY <2>2
  <2> QED
    BY <1>1, <2>3
<1> QED
  BY <1>4, <1>5

\* BehindIs, field by field.
LEMMA FoundIs ==
    ASSUME NEW T, NEW w \in Seq(T), NEW N \in 0 .. Len(w), NEW p \in 0 .. N
    PROVE  \/ NoFlip(w, N, p) /\ Found(w, p, N) = <<>> /\ Cut(w, p, N) = 0
           \/ \E g \in (p + 1) .. N :
                 /\ Flip(w, N, p, g)
                 /\ Found(w, p, N) = RunOfBits(w, p, g) \o Found(w, g, N)
                 /\ Cut(w, p, N) = (g - p) + Cut(w, g, N)
<1>1. CASE NoFlip(w, N, p) /\ Behind(w, p, N) = [bits |-> <<>>, end |-> 0]
  <2>1. Behind(w, p, N).bits = <<>> /\ Behind(w, p, N).end = 0
    BY <1>1
  <2> QED
    BY <1>1, <2>1 DEF Found, Cut
<1>2. ASSUME NEW g \in (p + 1) .. N, Flip(w, N, p, g),
             Behind(w, p, N) = [bits |-> RunOfBits(w, p, g) \o Behind(w, g, N).bits,
                                end |-> (g - p) + Behind(w, g, N).end]
      PROVE  /\ Found(w, p, N) = RunOfBits(w, p, g) \o Found(w, g, N)
             /\ Cut(w, p, N) = (g - p) + Cut(w, g, N)
  <2> DEFINE x == RunOfBits(w, p, g) \o Behind(w, g, N).bits
             y == (g - p) + Behind(w, g, N).end
  <2>1. Behind(w, p, N) = [bits |-> x, end |-> y]
    BY <1>2
  <2> HIDE DEF x, y
  <2>2. Behind(w, p, N).bits = x /\ Behind(w, p, N).end = y
    BY <2>1
  <2> QED
    BY <2>2 DEF x, y, Found, Cut
<1> QED
  BY <1>1, <1>2, BehindIs

LEMMA FoundType ==
    ASSUME NEW T, NEW w \in Seq(T), NEW N \in 0 .. Len(w), NEW p \in 0 .. N
    PROVE  Found(w, p, N) \in Seq({0, 1}) /\ Cut(w, p, N) \in 0 .. (N - p)
<1> DEFINE S == {q \in 0 .. N : Found(w, q, N) \in Seq({0, 1}) /\ Cut(w, q, N) \in 0 .. (N - q)}
<1>1. N \in Nat
  OBVIOUS
<1>2. ASSUME NEW q \in 0 .. N, \A g \in (q + 1) .. N : g \in S
      PROVE  Found(w, q, N) \in Seq({0, 1}) /\ Cut(w, q, N) \in 0 .. (N - q)
  <2>1. CASE Found(w, q, N) = <<>> /\ Cut(w, q, N) = 0
    BY <2>1
  <2>2. ASSUME NEW g \in (q + 1) .. N, Found(w, q, N) = RunOfBits(w, q, g) \o Found(w, g, N),
               Cut(w, q, N) = (g - q) + Cut(w, g, N)
        PROVE  Found(w, q, N) \in Seq({0, 1}) /\ Cut(w, q, N) \in 0 .. (N - q)
    <3>1. Found(w, g, N) \in Seq({0, 1}) /\ Cut(w, g, N) \in 0 .. (N - g)
      BY <1>2
    <3>2. RunOfBits(w, q, g) \in Seq({0, 1})
      BY RunType
    <3>3. Cut(w, q, N) \in 0 .. (N - q)
      BY <2>2, <3>1
    <3>4. RunOfBits(w, q, g) \o Found(w, g, N) \in Seq({0, 1})
      BY <3>1, <3>2, ConcatProperties
    <3> QED
      BY <2>2, <3>3, <3>4
  <2> QED
    BY <2>1, <2>2, FoundIs
<1>3. \A q \in 0 .. N : (\A g \in (q + 1) .. N : g \in S) => q \in S
  BY <1>2
<1>4. 0 .. N \subseteq S
  <2> HIDE DEF S
  <2> QED
    BY <1>1, <1>3, Downwards
<1> QED
  BY <1>4

LEMMA BitsAssociate ==
    \A x, y, z \in Seq({0, 1}) :
        (x \o y) \o z = x \o (y \o z) /\ <<>> \o x = x /\ x \o <<>> = x
  OBVIOUS

(***************************************************************************)
(* More samples add to the bits that fewer give: a flip found stays where  *)
(* it is, and what is found behind the last of them is found once the      *)
(* samples before it are erased.                                           *)
(***************************************************************************)
Extends(w, p, N, M) == Found(w, p, M) = Found(w, p, N) \o Found(w, p + Cut(w, p, N), M)

LEMMA MoreSamples ==
    ASSUME NEW T, NEW w \in Seq(T), NEW M \in 0 .. Len(w), NEW N \in 0 .. M, NEW p \in 0 .. N
    PROVE  Extends(w, p, N, M)
<1> DEFINE S == {q \in 0 .. N : Extends(w, q, N, M)}
<1>1. N \in Nat /\ M \in Nat /\ N <= M /\ N \in 0 .. Len(w) /\ Len(w) \in Int
  OBVIOUS
<1>2. ASSUME NEW q \in 0 .. N, \A g \in (q + 1) .. N : g \in S
      PROVE  Extends(w, q, N, M)
  <2>3. q \in 0 .. M /\ q \in Int
    BY <1>1
  <2>0. q \in 0 .. M /\ q \in Int /\ Found(w, q, M) \in Seq({0, 1})
    BY <2>3, FoundType
  <2>1. CASE Found(w, q, N) = <<>> /\ Cut(w, q, N) = 0
    <3>1. q + Cut(w, q, N) = q /\ <<>> \o Found(w, q, M) = Found(w, q, M)
      BY <2>0, <2>1, BitsAssociate
    <3> QED
      BY <2>1, <3>1 DEF Extends
  <2>2. ASSUME NEW g \in (q + 1) .. N, Flip(w, N, q, g),
               Found(w, q, N) = RunOfBits(w, q, g) \o Found(w, g, N),
               Cut(w, q, N) = (g - q) + Cut(w, g, N)
        PROVE  Extends(w, q, N, M)
    <3>1. g \in 0 .. N /\ g \in 0 .. M /\ g \in Int
      BY <1>1
    <3>2. Flip(w, M, q, g)
      BY <1>1, <2>0, <2>2, FlipStays
    <3>3. Found(w, q, M) = RunOfBits(w, q, g) \o Found(w, g, M)
      <4>1. ~NoFlip(w, M, q) /\ \A f : Flip(w, M, q, f) => g = f
        BY <1>1, <2>0, <3>2, FlipOne
      <4>2. PICK f \in (q + 1) .. M : Flip(w, M, q, f) /\ Found(w, q, M) = RunOfBits(w, q, f) \o Found(w, f, M)
        BY <2>0, <4>1, FoundIs
      <4> QED
        BY <4>1, <4>2
    <3>4. Extends(w, g, N, M)
      BY <1>2
    <3> DEFINE c == g + Cut(w, g, N)
    <3>5. Cut(w, g, N) \in 0 .. (N - g) /\ Found(w, g, N) \in Seq({0, 1})
      BY <1>1, <3>1, FoundType
    <3>6. c = q + Cut(w, q, N) /\ c \in 0 .. M
      BY <1>1, <2>0, <2>2, <3>1, <3>5
    <3>7. Found(w, g, M) = Found(w, g, N) \o Found(w, c, M)
      BY <3>4 DEF Extends
    <3> HIDE DEF c
    <3>8. Found(w, c, M) \in Seq({0, 1}) /\ RunOfBits(w, q, g) \in Seq({0, 1})
      BY <2>0, <3>1, <3>6, FoundType, RunType
    <3>9. RunOfBits(w, q, g) \o (Found(w, g, N) \o Found(w, c, M))
            = (RunOfBits(w, q, g) \o Found(w, g, N)) \o Found(w, c, M)
      <4> DEFINE x == RunOfBits(w, q, g)
                 y == Found(w, g, N)
                 z == Found(w, c, M)
      <4>1. x \in Seq({0, 1}) /\ y \in Seq({0, 1}) /\ z \in Seq({0, 1})
        BY <3>5, <3>8
      <4> HIDE DEF x, y, z
      <4>2. x \o (y \o z) = (x \o y) \o z
        BY <4>1, BitsAssociate, Zenon
      <4> QED
        BY <4>2 DEF x, y, z
    <3> QED
      BY <2>2, <3>3, <3>6, <3>7, <3>9 DEF Extends
  <2> QED
    BY <1>1, <2>1, <2>2, FoundIs
<1>3. \A q \in 0 .. N : (\A g \in (q + 1) .. N : g \in S) => q \in S
  BY <1>2
<1>4. 0 .. N \subseteq S
  <2> HIDE DEF S
  <2> QED
    BY <1>1, <1>3, Downwards
<1> QED
  BY <1>4

\* Behind the last flip point found there is none.
LEMMA NothingLeft ==
    ASSUME NEW T, NEW w \in Seq(T), NEW N \in 0 .. Len(w), NEW p \in 0 .. N
    PROVE  Found(w, p + Cut(w, p, N), N) = <<>>
<1> DEFINE q == p + Cut(w, p, N)
           x == Found(w, p, N)
           y == Found(w, q, N)
<1>1. x \in Seq({0, 1}) /\ Cut(w, p, N) \in 0 .. (N - p)
  BY FoundType
<1>2. q \in 0 .. N
  BY <1>1
<1> HIDE DEF q
<1>3. y \in Seq({0, 1})
  BY <1>2, FoundType
<1>4. N \in 0 .. N
  OBVIOUS
<1>5. x = x \o y
  BY <1>4, MoreSamples DEF Extends, q
<1> HIDE DEF x, y
<1>6. Len(x) = Len(x) + Len(y) /\ Len(x) \in Nat /\ Len(y) \in Nat
  BY <1>1, <1>3, <1>5
<1>7. Len(y) = 0
  BY <1>6
<1>8. y = <<>>
  BY <1>3, <1>7
<1> QED
  BY <1>8 DEF y, q

\* All of the samples are a window on them.
LEMMA WholeWindow ==
    ASSUME NEW T, NEW b \in Seq(T)
    PROVE  Window(b, 0, Len(b)) = b
  BY DEF Window

LEMMA RunsType ==
    ASSUME NEW T, NEW b \in Seq(T)
    PROVE  Runs(b).bits \in Seq({0, 1}) /\ Runs(b).end \in 0 .. Len(b)
<1>1. Len(b) \in 0 .. Len(b) /\ 0 \in 0 .. Len(b) /\ Len(b) - 0 = Len(b)
  OBVIOUS
<1>2. Found(b, 0, Len(b)) \in Seq({0, 1}) /\ Cut(b, 0, Len(b)) \in 0 .. Len(b)
  BY <1>1, FoundType
<1> QED
  BY <1>2, WholeWindow DEF Found, Cut, Behind

\* RTTY behind the extractor is the RTTY of RttyProofs; no format is set here.
Rx == INSTANCE RttyProofs WITH line <- <<>>, settings <- 0, MaxSettings <- 0, MaxChunk <- 0

LEMMA RttyAssumptions ==
    /\ BitCounts \subseteq Nat /\ StopCounts \subseteq Nat
    /\ Noise \subseteq Seq({0, 1}) /\ Gaps \subseteq Nat
    /\ Texts \subseteq Seq({c \in 0 .. 255 : \A n \in BitCounts : c < 2 ^ n})
    /\ 0 \in Nat /\ 0 \in Nat
  BY SignalAssumption

Format == nbits \in BitCounts /\ nstops \in StopCounts

LEMMA LineIsRtty ==
    ASSUME NEW b
    PROVE  Line!Decoded(b) = Rx!Decoded(b) /\ Line!Rest(b) = Rx!Rest(b)
<1>1. Line!FrameLen = Rx!FrameLen
  BY DEF Line!FrameLen, Rx!FrameLen
<1>2. ASSUME NEW i PROVE Line!IsCharSeq(b, i) <=> Rx!IsCharSeq(b, i)
  BY <1>1 DEF Line!IsCharSeq, Rx!IsCharSeq, Line!IsStart, Rx!IsStart
<1>3. ASSUME NEW i PROVE Line!Char(b, i) = Rx!Char(b, i)
  BY DEF Line!Char, Rx!Char, Line!CharAt, Rx!CharAt
<1>4. Line!Starts(b) = Rx!Starts(b)
  BY <1>1, <1>2 DEF Line!Starts, Rx!Starts
<1>5. Line!Tried(b) <=> Rx!Tried(b)
  BY <1>1 DEF Line!Tried, Rx!Tried
<1>6. Line!Decoded(b) = Rx!Decoded(b)
  BY <1>3, <1>4, <1>5 DEF Line!Decoded, Rx!Decoded
<1>7. Line!Rest(b) = Rx!Rest(b)
  <2>1. Line!Erased(b) = Rx!Erased(b)
    BY <1>1, <1>4 DEF Line!Erased, Rx!Erased, Line!UpToLastStop, Rx!UpToLastStop, Line!Last, Rx!Last
  <2> QED
    BY <1>5, <2>1 DEF Line!Rest, Rx!Rest
<1> QED
  BY <1>6, <1>7

LEMMA LineTypes ==
    ASSUME Format, NEW a \in Seq({0, 1})
    PROVE  Line!Decoded(a) \in Seq(0 .. 255) /\ Line!Rest(a) \in Seq({0, 1})
<1>1. Rx!Numbers
  BY RttyAssumptions DEF Format, Rx!Numbers
<1>2. a \in Seq(Rx!Bits)
  BY DEF Rx!Bits
<1>3. Rx!Decoded(a) \in Seq(0 .. 255)
  BY <1>1, <1>2, Rx!DecodedRange, RttyAssumptions, Zenon
<1>4. Rx!Rest(a) \in Seq({0, 1})
  BY <1>1, <1>2, Rx!RestRange, RttyAssumptions, Zenon DEF Rx!Bits
<1> QED
  BY <1>3, <1>4, LineIsRtty

LEMMA LineJoins ==
    ASSUME Format, NEW a \in Seq({0, 1}), NEW b \in Seq({0, 1})
    PROVE  /\ Line!Decoded(a \o b) = Line!Decoded(a) \o Line!Decoded(Line!Rest(a) \o b)
           /\ Line!Rest(a \o b) = Line!Rest(Line!Rest(a) \o b)
<1>1. Rx!Numbers
  BY RttyAssumptions DEF Format, Rx!Numbers
<1>2. a \in Seq(Rx!Bits) /\ b \in Seq(Rx!Bits)
  BY DEF Rx!Bits
<1>3. Rx!Decoded(a \o b) = Rx!Decoded(a) \o Rx!Decoded(Rx!Rest(a) \o b)
  BY <1>1, <1>2, Rx!DecodedSplit, RttyAssumptions, Zenon
<1>4. Rx!Rest(a \o b) = Rx!Rest(Rx!Rest(a) \o b)
  BY <1>1, <1>2, Rx!RestSplit, RttyAssumptions, Zenon
<1> QED
  BY <1>3, <1>4, LineIsRtty

LEMMA LineEmpty ==
    ASSUME Format
    PROVE  Line!Decoded(<<>>) = <<>> /\ Line!Rest(<<>>) = <<>>
<1>1. Rx!Numbers
  BY RttyAssumptions DEF Format, Rx!Numbers
<1>2. Rx!Decoded(<<>>) = <<>> /\ Rx!Rest(<<>>) = <<>>
  BY <1>1, Rx!NothingDecoded, RttyAssumptions, Zenon
<1> QED
  BY <1>2, LineIsRtty

\* The operators depend on nothing but the format.
LEMMA LineStays ==
    ASSUME nbits' = nbits, nstops' = nstops
    PROVE  Line!Decoded(heard)' = Line!Decoded(heard') /\ Line!Rest(heard)' = Line!Rest(heard')
  BY DEF Line!Decoded, Line!Rest, Line!Erased, Line!UpToLastStop, Line!Tried, Line!Char,
         Line!CharAt, Line!Starts, Line!IsCharSeq, Line!IsStart, Line!FrameLen

\* Windows that touch are one, and a window of a window is one.
LEMMA WindowJoin ==
    ASSUME NEW T, NEW w \in Seq(T), NEW M \in 0 .. Len(w), NEW N \in 0 .. M, NEW p \in 0 .. N
    PROVE  Window(w, p, N) \o Window(w, N, M) = Window(w, p, M)
<1> DEFINE x == Window(w, p, N)
           y == Window(w, N, M)
           z == Window(w, p, M)
<1>1. N \in 0 .. Len(w) /\ p \in 0 .. M /\ N \in Int /\ M \in Int /\ p \in Int /\ p <= N /\ N <= M
  OBVIOUS
<1>2. x \in Seq(T) /\ Len(x) = N - p /\ \A n \in 1 .. (N - p) : x[n] = w[p + n]
  BY <1>1, WindowIs
<1>3. y \in Seq(T) /\ Len(y) = M - N /\ \A n \in 1 .. (M - N) : y[n] = w[N + n]
  BY <1>1, WindowIs
<1>4. z \in Seq(T) /\ Len(z) = M - p /\ \A n \in 1 .. (M - p) : z[n] = w[p + n]
  BY <1>1, WindowIs
<1> HIDE DEF x, y, z
<1>5. /\ x \o y \in Seq(T) /\ Len(x \o y) = Len(x) + Len(y)
      /\ \A i \in 1 .. Len(x) + Len(y) : (x \o y)[i] = IF i <= Len(x) THEN x[i] ELSE y[i - Len(x)]
  BY <1>2, <1>3, ConcatProperties
<1>6. Len(x \o y) = M - p
  BY <1>1, <1>2, <1>3, <1>5
<1>7. ASSUME NEW i \in 1 .. (M - p) PROVE (x \o y)[i] = z[i]
  <2>1. (x \o y)[i] = IF i <= N - p THEN x[i] ELSE y[i - (N - p)]
    BY <1>1, <1>2, <1>3, <1>5
  <2>2. CASE i <= N - p
    <3>1. i \in 1 .. (N - p)
      BY <1>1, <2>2
    <3> QED
      BY <1>2, <1>4, <2>1, <2>2, <3>1
  <2>3. CASE ~(i <= N - p)
    <3>1. i - (N - p) \in 1 .. (M - N) /\ N + (i - (N - p)) = p + i
      BY <1>1, <2>3
    <3>2. y[i - (N - p)] = w[p + i]
      BY <1>3, <3>1
    <3> QED
      BY <1>4, <2>1, <2>3, <3>2
  <2> QED
    BY <2>2, <2>3
<1> DEFINE c == x \o y
<1>8. c \in Seq(T) /\ z \in Seq(T) /\ Len(c) = Len(z) /\ \A i \in 1 .. Len(c) : c[i] = z[i]
  BY <1>4, <1>5, <1>6, <1>7
<1> HIDE DEF c
<1>9. c = z
  BY <1>8, SeqEqual
<1> QED
  BY <1>9 DEF c, x, y, z

LEMMA WindowWithin ==
    ASSUME NEW T, NEW w \in Seq(T), NEW N \in 0 .. Len(w), NEW p \in 0 .. N, NEW c \in 0 .. (N - p)
    PROVE  Window(Window(w, p, N), c, N - p) = Window(w, p + c, N)
<1> DEFINE x == Window(w, p, N)
           y == Window(x, c, N - p)
           z == Window(w, p + c, N)
<1>1. p + c \in 0 .. N /\ N \in Int /\ p \in Int /\ c \in Int /\ N - p \in Nat
  OBVIOUS
<1>2. x \in Seq(T) /\ Len(x) = N - p /\ \A n \in 1 .. (N - p) : x[n] = w[p + n]
  BY WindowIs
<1>3. z \in Seq(T) /\ Len(z) = N - (p + c) /\ \A n \in 1 .. (N - (p + c)) : z[n] = w[(p + c) + n]
  BY <1>1, WindowIs
<1> HIDE DEF x
<1>4. y \in Seq(T) /\ Len(y) = (N - p) - c /\ \A n \in 1 .. ((N - p) - c) : y[n] = x[c + n]
  <2> DEFINE L == N - p
  <2>1. L \in 0 .. Len(x) /\ c \in 0 .. L /\ x \in Seq(T)
    BY <1>1, <1>2
  <2> HIDE DEF L
  <2>2. /\ Window(x, c, L) \in Seq(T) /\ Len(Window(x, c, L)) = L - c
        /\ \A n \in 1 .. (L - c) : Window(x, c, L)[n] = x[c + n]
    BY <2>1, WindowIs
  <2> QED
    BY <2>2 DEF L
<1> HIDE DEF y, z
<1>5. ASSUME NEW n \in 1 .. ((N - p) - c) PROVE y[n] = z[n]
  <2>1. c + n \in 1 .. (N - p) /\ p + (c + n) = (p + c) + n /\ n \in 1 .. (N - (p + c))
    BY <1>1
  <2> QED
    BY <1>2, <1>3, <1>4, <2>1
<1>6. Len(y) = Len(z) /\ \A n \in 1 .. Len(y) : y[n] = z[n]
  BY <1>1, <1>3, <1>4, <1>5
<1>7. y = z
  BY <1>3, <1>4, <1>6, SeqEqual
<1> QED
  BY <1>7 DEF y, z, x

(***************************************************************************)
(* Samples, if none were dropped, are those behind the p-th received; what *)
(* was heard is what was found up to there, and stays so when more come.   *)
(***************************************************************************)
HeardTo(p) == \A M \in pos .. Len(signal) : Found(signal, 0, M) = heard \o Found(signal, p, M)

Waiting(p) == samples = Window(signal, p, pos) /\ HeardTo(p)
                  /\ (Tried(samples) => Found(signal, p, pos) = <<>>)

Unbroken == vent = 0 => \E p \in 0 .. pos : Waiting(p)

AsLine == bits = Line!Rest(heard) /\ chars = Line!Decoded(heard) /\ seen = heard

FewSamples == \E n \in Portions \cup {0} : Len(samples) <= Vent + n

Ranges ==
    /\ Format
    /\ signal \in Seq(Side) /\ samples \in Seq(Side) /\ heard \in Seq({0, 1})
    /\ pos \in 0 .. Len(signal) /\ vent \in 0 .. pos

ReceptionInv == Ranges /\ FewSamples /\ AsLine /\ Unbroken

-----------------------------------------------------------------------------
LEMMA BitsIs ==
    ASSUME NEW T, NEW b \in Seq(T)
    PROVE  /\ Bits(b) \in Seq({0, 1}) /\ Erased(b) \in 0 .. Len(b)
           /\ Remaining(b) = Window(b, Erased(b), Len(b)) /\ Remaining(b) \in Seq(T)
           /\ Len(Remaining(b)) <= Len(b)
<1>1. Runs(b).bits \in Seq({0, 1}) /\ Runs(b).end \in 0 .. Len(b) /\ Len(b) \in Nat
  BY RunsType
<1>2. Bits(b) \in Seq({0, 1}) /\ Erased(b) \in 0 .. Len(b)
  BY <1>1 DEF Bits, Erased
<1>3. Remaining(b) = Window(b, Erased(b), Len(b))
  BY DEF Remaining, Window
<1>4. Len(b) \in 0 .. Len(b)
  BY <1>1
<1>5. Window(b, Erased(b), Len(b)) \in Seq(T) /\ Len(Window(b, Erased(b), Len(b))) = Len(b) - Erased(b)
  BY <1>2, <1>4, WindowIs
<1> QED
  BY <1>1, <1>2, <1>3, <1>5

\* A batch, and what it leaves.
Pos(n) == IF pos + n < Len(signal) THEN pos + n ELSE Len(signal)
Batch(n) == Window(signal, pos, Pos(n))

LEMMA ProcessIs ==
    ASSUME NEW n, ProcessSamples(n)
    PROVE  /\ pos < Len(signal) /\ pos' = Pos(n) /\ samples' = Remaining(Pushed(Batch(n)))
           /\ IF Bits(Pushed(Batch(n))) = <<>> THEN UNCHANGED rttyVars
              ELSE Line!Receive(Bits(Pushed(Batch(n))))
           /\ heard' = heard \o Bits(Pushed(Batch(n)))
           /\ vent' = IF Full THEN pos ELSE vent
           /\ signal' = signal
  BY DEF ProcessSamples, Extract, Pos, Batch, Window

LEMMA BatchIs ==
    ASSUME Ranges, NEW n \in Portions, pos < Len(signal)
    PROVE  /\ Pos(n) \in (pos + 1) .. Len(signal) /\ Pos(n) \in 0 .. Len(signal) /\ pos \in 0 .. Pos(n)
           /\ Batch(n) \in Seq(Side) /\ Len(Batch(n)) <= n
           /\ Pushed(Batch(n)) \in Seq(Side)
<1>1. pos \in Nat /\ n \in Nat /\ n # 0 /\ Len(signal) \in Nat /\ pos < Len(signal)
  BY SignalAssumption DEF Ranges
<1>2. Pos(n) \in (pos + 1) .. Len(signal) /\ Pos(n) - pos <= n
  BY <1>1 DEF Pos
<1>3. Pos(n) \in 0 .. Len(signal) /\ pos \in 0 .. Pos(n)
  BY <1>1, <1>2
<1>4. Batch(n) \in Seq(Side) /\ Len(Batch(n)) = Pos(n) - pos
  BY <1>3, WindowIs DEF Batch, Ranges
<1>5. samples \o Batch(n) \in Seq(Side)
  BY <1>4, ConcatProperties DEF Ranges
<1> QED
  BY <1>2, <1>3, <1>4, <1>5 DEF Pushed

LEMMA RangesStep ==
    ASSUME ReceptionInv, NEW n \in Portions, ProcessSamples(n)
    PROVE  Ranges' /\ FewSamples'
<1> DEFINE b == Pushed(Batch(n))
<1>1. Ranges /\ FewSamples
  BY DEF ReceptionInv
<1>2. /\ pos < Len(signal) /\ pos' = Pos(n) /\ samples' = Remaining(b)
      /\ heard' = heard \o Bits(b)
      /\ vent' = IF Full THEN pos ELSE vent
      /\ signal' = signal
  BY ProcessIs
<1>3. /\ Pos(n) \in 0 .. Len(signal) /\ pos \in 0 .. Pos(n) /\ Batch(n) \in Seq(Side)
      /\ Len(Batch(n)) <= n /\ b \in Seq(Side)
  BY <1>1, <1>2, BatchIs
<1>4. nbits' = nbits /\ nstops' = nstops
  BY ProcessIs DEF rttyVars, Line!Receive
<1>5. Len(b) <= Vent + n
  <2>1. n \in Nat /\ Vent \in Nat /\ Len(Batch(n)) \in Nat /\ samples \in Seq(Side)
    BY <1>1, <1>3, SignalAssumption, VentAssumption DEF Ranges
  <2>2. CASE Full
    BY <1>3, <2>1, <2>2 DEF Pushed
  <2>3. CASE ~Full
    <3>1. b = samples \o Batch(n) /\ Len(samples) <= Vent /\ Len(samples) \in Nat
      BY <2>1, <2>3 DEF Pushed, Full
    <3>2. Len(samples \o Batch(n)) = Len(samples) + Len(Batch(n))
      BY <1>3, <2>1, ConcatProperties
    <3> QED
      BY <1>3, <2>1, <3>1, <3>2
  <2> QED
    BY <2>2, <2>3
<1> HIDE DEF b
<1>6. Bits(b) \in Seq({0, 1}) /\ Remaining(b) \in Seq(Side) /\ Len(Remaining(b)) <= Len(b)
  BY <1>3, BitsIs
<1>7. heard' \in Seq({0, 1})
  BY <1>1, <1>2, <1>6, ConcatProperties DEF Ranges
<1>8. Format' /\ signal' \in Seq(Side) /\ samples' \in Seq(Side)
  BY <1>1, <1>2, <1>4, <1>6 DEF Ranges, Format
<1>9. pos' \in 0 .. Len(signal)' /\ vent' \in 0 .. pos'
  <2>1. vent \in 0 .. pos /\ pos \in Nat
    BY <1>1 DEF Ranges
  <2> QED
    BY <1>2, <1>3, <2>1
<1>10. FewSamples'
  <2>1. Len(samples') <= Vent + n
    <3>1. Len(Remaining(b)) \in Nat /\ Len(b) \in Nat /\ Vent \in Nat /\ n \in Nat
      BY <1>3, <1>6, SignalAssumption, VentAssumption
    <3> QED
      BY <1>2, <1>5, <1>6, <3>1
  <2> QED
    BY <2>1 DEF FewSamples
<1> QED
  BY <1>7, <1>8, <1>9, <1>10 DEF Ranges

LEMMA AsLineStep ==
    ASSUME ReceptionInv, NEW n \in Portions, ProcessSamples(n)
    PROVE  AsLine'
<1> DEFINE b == Pushed(Batch(n))
           x == Bits(b)
<1>1. Ranges /\ AsLine /\ Format /\ heard \in Seq({0, 1}) /\ signal \in Seq(Side)
  BY DEF ReceptionInv, Ranges
<1>2. /\ IF x = <<>> THEN UNCHANGED rttyVars ELSE Line!Receive(x)
      /\ heard' = heard \o x
  BY ProcessIs
<1>3. b \in Seq(Side)
  BY <1>1, BatchIs, ProcessIs
<1>4. x \in Seq({0, 1})
  BY <1>3, BitsIs
<1> HIDE DEF x
<1>5. bits' = Line!Rest(heard') /\ chars' = Line!Decoded(heard') /\ seen' = heard'
      /\ nbits' = nbits /\ nstops' = nstops
  <2>1. CASE x = <<>>
    <3>1. heard' = heard
      BY <1>1, <1>2, <2>1, BitsAssociate
    <3> QED
      BY <1>1, <1>2, <2>1, <3>1 DEF rttyVars, AsLine
  <2>2. CASE x # <<>>
    <3>1. /\ bits' = Line!Rest(bits \o x) /\ chars' = chars \o Line!Decoded(bits \o x)
          /\ seen' = seen \o x /\ nbits' = nbits /\ nstops' = nstops
      BY <1>2, <2>2 DEF Line!Receive
    <3>2. /\ Line!Decoded(heard \o x) = Line!Decoded(heard) \o Line!Decoded(Line!Rest(heard) \o x)
          /\ Line!Rest(heard \o x) = Line!Rest(Line!Rest(heard) \o x)
      BY <1>1, <1>4, LineJoins
    <3> QED
      BY <1>1, <1>2, <3>1, <3>2 DEF AsLine
  <2> QED
    BY <2>1, <2>2
<1>6. bits' = Line!Rest(heard)' /\ chars' = Line!Decoded(heard)'
  BY <1>5, LineStays
<1> QED
  BY <1>5, <1>6 DEF AsLine

LEMMA UnbrokenStep ==
    ASSUME ReceptionInv, NEW n \in Portions, ProcessSamples(n)
    PROVE  Unbroken'
<1> DEFINE b == Pushed(Batch(n))
           N == Pos(n)
<1>1. /\ Ranges /\ Unbroken /\ heard \in Seq({0, 1}) /\ signal \in Seq(Side) /\ samples \in Seq(Side)
      /\ pos \in Nat /\ vent \in 0 .. pos
  BY DEF ReceptionInv, Ranges
<1>2. /\ pos < Len(signal) /\ pos' = N /\ samples' = Remaining(b)
      /\ heard' = heard \o Bits(b)
      /\ vent' = IF Full THEN pos ELSE vent
      /\ signal' = signal
  BY ProcessIs
<1>3. /\ N \in 0 .. Len(signal) /\ pos \in 0 .. N /\ N >= pos /\ N \in Nat /\ Len(signal) \in Nat
      /\ b \in Seq(Side)
  BY <1>1, <1>2, BatchIs
<1>4. SUFFICES ASSUME vent' = 0 PROVE \E q \in 0 .. N : Waiting(q)'
  BY <1>2 DEF Unbroken
<1>5. vent = 0 /\ ~Full
  <2>1. vent = 0
    BY <1>1, <1>2, <1>4
  <2>2. PICK p \in 0 .. pos : samples = Window(signal, p, pos)
    BY <1>1, <2>1 DEF Unbroken, Waiting
  <2>3. CASE Full
    <3>1. pos = 0 /\ p = 0
      BY <1>2, <1>4, <2>2, <2>3
    <3>2. pos \in 0 .. Len(signal)
      BY <1>1, <1>2, <1>3
    <3>3. Len(samples) = pos - p
      BY <1>1, <2>2, <3>2, WindowIs
    <3>4. Len(samples) = 0 /\ Vent \in Nat
      BY <3>1, <3>3, VentAssumption
    <3> QED
      BY <2>3, <3>4 DEF Full
  <2> QED
    BY <2>1, <2>3
<1>6. PICK p \in 0 .. pos : Waiting(p)
  BY <1>1, <1>5 DEF Unbroken
<1>7. p \in 0 .. N /\ p \in Nat /\ N - p \in Nat /\ p <= N
  BY <1>3
<1> HIDE DEF N
<1>8. b = Window(signal, p, N)
  <2>1. b = Window(signal, p, pos) \o Window(signal, pos, N)
    BY <1>5, <1>6 DEF Pushed, Waiting, Batch, N
  <2> QED
    BY <1>1, <1>3, <2>1, WindowJoin
<1> HIDE DEF b
<1>9. Len(b) = N - p
  BY <1>1, <1>3, <1>7, <1>8, WindowIs
<1>10. \A M \in N .. Len(signal) : Found(signal, 0, M) = heard \o Found(signal, p, M)
  BY <1>1, <1>3, <1>6 DEF Waiting, HeardTo
<1> DEFINE c == IF Tried(b) THEN Cut(signal, p, N) ELSE 0
           q == p + c
           x == IF Tried(b) THEN Found(signal, p, N) ELSE <<>>
<1>11. Bits(b) = x /\ Erased(b) = c
  BY <1>8 DEF Bits, Erased, Found, Cut, Behind
<1>12. Found(signal, p, N) \in Seq({0, 1}) /\ Cut(signal, p, N) \in 0 .. (N - p)
  BY <1>1, <1>3, <1>7, FoundType
<1>13. c \in 0 .. (N - p) /\ x \in Seq({0, 1})
  BY <1>7, <1>12
<1>14. q \in 0 .. N
  BY <1>3, <1>7, <1>13
<1>15. samples' = Window(signal, q, N)
  <2>1. samples' = Window(b, c, N - p)
    BY <1>2, <1>3, <1>9, <1>11, BitsIs
  <2> HIDE DEF c
  <2>2. Window(Window(signal, p, N), c, N - p) = Window(signal, p + c, N)
    BY <1>1, <1>3, <1>7, <1>13, WindowWithin
  <2> QED
    BY <1>8, <2>1, <2>2
<1>16. ASSUME NEW M \in N .. Len(signal) PROVE Found(signal, 0, M) = heard' \o Found(signal, q, M)
  <2>1. /\ M \in 0 .. Len(signal) /\ N \in 0 .. M /\ p \in 0 .. M /\ q \in 0 .. M /\ 0 \in 0 .. M
        /\ p + 0 = p
    BY <1>3, <1>7, <1>14
  <2>2. Found(signal, q, M) \in Seq({0, 1}) /\ Found(signal, p, M) \in Seq({0, 1})
    <3> HIDE DEF q
    <3> QED
      BY <1>1, <2>1, FoundType
  <2>3. Found(signal, p, M) = x \o Found(signal, q, M)
    <3>1. CASE Tried(b)
      <4>1. Extends(signal, p, N, M)
        BY <1>1, <1>7, <2>1, MoreSamples
      <4> QED
        BY <3>1, <4>1 DEF Extends
    <3>2. CASE ~Tried(b)
      <4>1. q = p /\ x = <<>>
        BY <1>7, <3>2
      <4> QED
        BY <2>2, <4>1, BitsAssociate
    <3> QED
      BY <3>1, <3>2
  <2>4. Found(signal, 0, M) = heard \o Found(signal, p, M) /\ heard' = heard \o x
    BY <1>2, <1>10, <1>11
  <2> DEFINE y == Found(signal, q, M)
  <2> HIDE DEF x, q
  <2>5. y \in Seq({0, 1}) /\ Found(signal, 0, M) = heard \o (x \o y)
    BY <2>2, <2>3, <2>4
  <2> HIDE DEF y
  <2>6. (heard \o x) \o y = heard \o (x \o y)
    BY <1>1, <1>13, <2>5, BitsAssociate, Zenon
  <2> QED
    BY <2>4, <2>5, <2>6 DEF y
<1>17. Tried(samples') => Found(signal, q, N) = <<>>
  <2>1. CASE Tried(b)
    BY <1>1, <1>3, <1>7, <2>1, NothingLeft
  <2>2. CASE ~Tried(b)
    <3>1. q = p
      BY <1>7, <2>2
    <3> QED
      BY <1>8, <1>15, <2>2, <3>1
  <2> QED
    BY <2>1, <2>2
<1> HIDE DEF q, x
<1>18. PICK k \in 0 .. N : k = q
  BY <1>14
<1>19. /\ samples' = Window(signal, k, N) /\ (Tried(samples') => Found(signal, k, N) = <<>>)
       /\ \A M \in N .. Len(signal) : Found(signal, 0, M) = heard' \o Found(signal, k, M)
  BY <1>15, <1>16, <1>17, <1>18
<1>20. HeardTo(k)'
  BY <1>2, <1>19 DEF HeardTo
<1>21. Tried(samples)' <=> Tried(samples')
  BY DEF Tried
<1>22. Waiting(k)'
  BY <1>2, <1>19, <1>20, <1>21 DEF Waiting
<1> QED
  BY <1>22

LEMMA ReceptionStays ==
    ASSUME ReceptionInv, UNCHANGED receptionVars
    PROVE  ReceptionInv'
<1>1. /\ samples' = samples /\ signal' = signal /\ pos' = pos /\ heard' = heard /\ vent' = vent
      /\ nbits' = nbits /\ nstops' = nstops /\ bits' = bits /\ chars' = chars /\ seen' = seen
  BY DEF receptionVars, rttyVars
<1>2. Line!Decoded(heard)' = Line!Decoded(heard) /\ Line!Rest(heard)' = Line!Rest(heard)
  BY <1>1, LineStays
<1> QED
  BY <1>1, <1>2 DEF ReceptionInv, Ranges, Format, FewSamples, AsLine, Unbroken, Waiting, HeardTo, Tried

-----------------------------------------------------------------------------
\* A bit as samples: each belongs to the first bit that ends at it or behind it.
LEMMA BitOf ==
    ASSUME NEW shape \in Seq(Int), shape # <<>>, NEW L \in Nat,
           NEW i \in 1 .. EndOf(shape, L)
    PROVE  \E m \in 1 .. L : EndOf(shape, m - 1) < i /\ i <= EndOf(shape, m)
<1> DEFINE S == {m \in Nat : i <= EndOf(shape, m)}
           m == Least(S)
<1>0. Spb \in Nat /\ Len(shape) \in Nat /\ Len(shape) > 0
  BY SpbAssumption
<1>1. \A k \in Nat : EndOf(shape, k) \in Int
  <2> SUFFICES ASSUME NEW k \in Nat PROVE EndOf(shape, k) \in Int
    OBVIOUS
  <2>1. 1 + (k % Len(shape)) \in 1 .. Len(shape)
    BY <1>0
  <2>2. shape[1 + (k % Len(shape))] \in Int
    BY <2>1, ElementOfSeq
  <2>3. k * Spb \in Int
    BY <1>0
  <2> QED
    BY <2>2, <2>3 DEF EndOf
<1>2. i \in Int /\ i >= 1 /\ i <= EndOf(shape, L)
  BY <1>1
<1>3. L \in S /\ S \in SUBSET Nat
  BY <1>2
<1>4. m \in S /\ \A j \in S : m <= j
  <2> HIDE DEF S
  <2> QED
    BY <1>3, LeastIs
<1> HIDE DEF m
<1>5. m \in Nat /\ i <= EndOf(shape, m) /\ m <= L
  BY <1>3, <1>4
<1>6. m # 0
  BY <1>2, <1>5 DEF EndOf
<1>7. m - 1 \in Nat /\ m - 1 < m /\ m \in 1 .. L
  BY <1>5, <1>6
<1>8. m - 1 \notin S
  BY <1>4, <1>5, <1>7
<1>9. EndOf(shape, m - 1) < i
  BY <1>1, <1>2, <1>7, <1>8
<1> QED
  BY <1>5, <1>7, <1>9

LEMMA ModulatedIs ==
    ASSUME NEW b \in Seq({0, 1}), NEW shape \in Seq(Int), shape # <<>>
    PROVE  Modulated(b, shape) \in Seq(Side)
<1> DEFINE E == EndOf(shape, Len(b))
           M(i) == CHOOSE m \in DOMAIN b : EndOf(shape, m - 1) < i /\ i <= EndOf(shape, m)
           x == [i \in 1 .. E |-> IF Wrong(i) THEN 1 - 2 * b[M(i)] ELSE 2 * b[M(i)] - 1]
<1>1. Modulated(b, shape) = x
  BY DEF Modulated
<1>2. ASSUME NEW i \in 1 .. E PROVE x[i] \in Side
  <2>1. Len(b) \in Nat /\ DOMAIN b = 1 .. Len(b)
    OBVIOUS
  <2>2. \E m \in 1 .. Len(b) : EndOf(shape, m - 1) < i /\ i <= EndOf(shape, m)
    BY <2>1, BitOf
  <2>3. M(i) \in DOMAIN b
    BY <2>1, <2>2
  <2> HIDE DEF M
  <2>4. b[M(i)] \in {0, 1}
    BY <2>1, <2>3
  <2>5. x[i] = IF Wrong(i) THEN 1 - 2 * b[M(i)] ELSE 2 * b[M(i)] - 1
    OBVIOUS
  <2> HIDE DEF x
  <2> QED
    BY <2>4, <2>5 DEF Side
<1>3. E \in Int
  <2>1. Spb \in Nat /\ Len(shape) \in Nat /\ Len(shape) > 0 /\ Len(b) \in Nat
    BY SpbAssumption
  <2>2. 1 + (Len(b) % Len(shape)) \in 1 .. Len(shape)
    BY <2>1
  <2>3. shape[1 + (Len(b) % Len(shape))] \in Int
    BY <2>2, ElementOfSeq
  <2>4. Len(b) * Spb \in Int
    BY <2>1
  <2> QED
    BY <2>3, <2>4 DEF EndOf
<1>4. DOMAIN x = 1 .. E
  OBVIOUS
<1>5. x = [i \in 1 .. E |-> x[i]]
  OBVIOUS
<1> HIDE DEF E, x
<1>6. x \in [1 .. E -> Side]
  BY <1>2, <1>5
<1>7. CASE E \in Nat
  BY <1>1, <1>6, <1>7
<1>8. CASE E \notin Nat
  <2>1. 1 .. E = {} /\ 1 .. 0 = {}
    BY <1>3, <1>8
  <2>2. x \in [1 .. 0 -> Side] /\ 0 \in Nat
    BY <1>6, <2>1
  <2>3. x \in Seq(Side)
    BY <2>2
  <2> QED
    BY <1>1, <2>3
<1> QED
  BY <1>7, <1>8

LEMMA LineSends ==
    ASSUME NEW noise \in Seq({0, 1}), NEW t \in Seq(Nat), NEW c \in Nat, NEW idle \in Nat,
           NEW n \in Nat, NEW s \in Nat
    PROVE  /\ Line!Transmission(noise, t, idle, n, s) \in Seq({0, 1})
           /\ Line!Framed(c, n, s) \in Seq({0, 1})
<1>1. noise \in Seq(Rx!Bits)
  BY DEF Rx!Bits
<1>2. Rx!Transmission(noise, t, idle, n, s) \in Seq({0, 1})
  BY <1>1, Rx!TransmissionIs, RttyAssumptions, Zenon DEF Rx!Bits
<1>3. Rx!Framed(c, n, s) \in Seq({0, 1})
  BY Rx!FramedFacts, RttyAssumptions, Zenon DEF Rx!Bits
<1>4. ASSUME NEW d PROVE Line!Framed(d, n, s) = Rx!Framed(d, n, s)
  BY DEF Line!Framed, Rx!Framed, Line!Idle, Rx!Idle
<1>5. Line!Idle(n + s) = Rx!Idle(n + s) /\ Line!Idle(idle) = Rx!Idle(idle)
  BY DEF Line!Idle, Rx!Idle
<1>6. Line!Transmission(noise, t, idle, n, s) = Rx!Transmission(noise, t, idle, n, s)
  <2> DEFINE x == [m \in DOMAIN t |-> Line!Framed(t[m], n, s) \o Line!Idle(idle)]
             y == [m \in DOMAIN t |-> Rx!Framed(t[m], n, s) \o Rx!Idle(idle)]
  <2>1. x = y
    BY <1>4, <1>5
  <2>2. Line!Transmission(noise, t, idle, n, s) = noise \o Line!Idle(n + s) \o Line!FlattenSeq(x)
    BY DEF Line!Transmission
  <2>3. Rx!Transmission(noise, t, idle, n, s) = noise \o Rx!Idle(n + s) \o Rx!FlattenSeq(y)
    BY DEF Rx!Transmission
  <2> HIDE DEF x, y
  <2>4. Line!FlattenSeq(x) = Rx!FlattenSeq(x)
    BY DEF Line!FlattenSeq, Rx!FlattenSeq
  <2> QED
    BY <1>5, <2>1, <2>2, <2>3, <2>4
<1> QED
  BY <1>2, <1>3, <1>4, <1>6

LEMMA SentIs ==
    ASSUME Format, text \in Texts, gap \in Gaps, NEW noise \in Noise
    PROVE  Sent(noise, nbits, nstops) \in Seq({0, 1})
<1>1. text \in Seq(Nat) /\ text # <<>>
  <2> DEFINE C == {c \in 0 .. 255 : \A n \in BitCounts : c < 2 ^ n}
  <2>1. text \in Seq(C) /\ text # <<>>
    BY SignalAssumption
  <2>2. C \subseteq Nat
    OBVIOUS
  <2> HIDE DEF C
  <2>3. text \in Seq(Nat)
    BY <2>1, <2>2, SeqMonotonic
  <2> QED
    BY <2>1, <2>3
<1>2. Front(text) \in Seq(Nat) /\ Last(text) \in Nat
  BY <1>1 DEF Front, Last
<1>3. nbits \in Nat /\ nstops \in Nat /\ noise \in Seq({0, 1}) /\ gap \in Nat
  BY SignalAssumption DEF Format
<1> DEFINE x == Line!Transmission(noise, Front(text), gap, nbits, nstops)
           y == Line!Framed(Last(text), nbits, nstops)
           z == <<0, 0, 0>>
<1>4. x \in Seq({0, 1}) /\ y \in Seq({0, 1})
  BY <1>2, <1>3, LineSends
<1>5. z \in Seq({0, 1})
  OBVIOUS
<1>6. Sent(noise, nbits, nstops) = x \o y \o z
  BY DEF Sent
<1> HIDE DEF x, y, z
<1>7. x \o y \in Seq({0, 1})
  BY <1>4, ConcatProperties
<1>8. (x \o y) \o z \in Seq({0, 1})
  BY <1>5, <1>7, ConcatProperties
<1> QED
  BY <1>6, <1>8

LEMMA InitReceptionInv == ReceptionInit => ReceptionInv
<1> SUFFICES ASSUME ReceptionInit PROVE ReceptionInv
  OBVIOUS
<1>1. /\ samples = <<>> /\ nbits \in BitCounts /\ nstops \in StopCounts
      /\ text \in Texts /\ gap \in Gaps
      /\ bits = <<>> /\ seen = <<>> /\ chars = <<>> /\ pos = 0 /\ heard = <<>> /\ vent = 0
  BY DEF ReceptionInit, ExtractorInit
<1>2. PICK noise \in Noise : \E shape \in Shapes :
          signal = Modulated(Sent(noise, nbits, nstops), shape)
  BY DEF ReceptionInit
<1>3. PICK shape \in Shapes : signal = Modulated(Sent(noise, nbits, nstops), shape)
  BY <1>2
<1>4. Format
  BY <1>1 DEF Format
<1>5. signal \in Seq(Side)
  <2>1. shape \in Seq(Int) /\ shape # <<>>
    BY SignalAssumption
  <2>2. Sent(noise, nbits, nstops) \in Seq({0, 1})
    BY <1>1, <1>4, SentIs
  <2> QED
    BY <1>3, <2>1, <2>2, ModulatedIs
<1>6. Len(signal) \in Nat /\ 0 \in 0 .. Len(signal) /\ 0 \in 0 .. 0
  BY <1>5
<1>7. Ranges
  <2>1. \A V : <<>> \in Seq(V)
    OBVIOUS
  <2> QED
    BY <1>1, <1>4, <1>5, <1>6, <2>1 DEF Ranges
<1>8. FewSamples
  <2>1. Len(samples) <= Vent + 0 /\ 0 \in Portions \cup {0}
    BY <1>1, VentAssumption
  <2> QED
    BY <2>1, Zenon DEF FewSamples
<1>9. AsLine
  BY <1>1, <1>4, LineEmpty DEF AsLine
<1>10. HeardTo(0)
  <2> SUFFICES ASSUME NEW M \in 0 .. Len(signal)
               PROVE  Found(signal, 0, M) = <<>> \o Found(signal, 0, M)
    BY <1>1 DEF HeardTo
  <2>1. 0 \in 0 .. M
    BY <1>6
  <2>2. Found(signal, 0, M) \in Seq({0, 1})
    BY <1>5, <2>1, FoundType
  <2> QED
    BY <2>2, BitsAssociate
<1>11. samples = Window(signal, 0, 0)
  BY <1>1, <1>5 DEF Window
<1>12. ~Tried(samples)
  <2>1. Len(samples) = 0 /\ Spb \in Nat /\ Spb >= 8
    BY <1>1, SpbAssumption
  <2> QED
    BY <2>1 DEF Tried
<1>13. Waiting(0)
  BY <1>1, <1>10, <1>11, <1>12 DEF Waiting
<1>14. Unbroken
  BY <1>1, <1>6, <1>13 DEF Unbroken
<1> QED
  BY <1>7, <1>8, <1>9, <1>14 DEF ReceptionInv

(***************************************************************************)
(* Unless samples were dropped, those that wait are a window on the        *)
(* signal, what was heard is what all before it gives, for any number of   *)
(* samples to come, and nothing is left to find in it.                     *)
(***************************************************************************)
THEOREM ReceptionInductive == ReceptionSpec => []ReceptionInv
<1>1. ASSUME ReceptionInv, [ReceptionNext]_receptionVars PROVE ReceptionInv'
  <2>1. ASSUME NEW n \in Portions, ProcessSamples(n) PROVE ReceptionInv'
    BY <1>1, <2>1, RangesStep, AsLineStep, UnbrokenStep DEF ReceptionInv
  <2>2. CASE UNCHANGED receptionVars
    BY <1>1, <2>2, ReceptionStays
  <2> QED
    BY <1>1, <2>1, <2>2 DEF ReceptionNext
<1> QED
  BY <1>1, InitReceptionInv, PTL DEF ReceptionSpec

\* Everything keeps its range, and no more samples wait than the vent allows and one
\* batch, however they come and whether or not they ever flip.
THEOREM ReceptionTypeCorrect == ReceptionSpec => []ReceptionTypeOK
<1>1. ASSUME ReceptionInv PROVE ReceptionTypeOK
  <2>1. bits \in Seq({0, 1}) /\ chars \in Seq(0 .. 255)
    BY <1>1, LineTypes DEF ReceptionInv, Ranges, AsLine
  <2> QED
    BY <1>1, <2>1 DEF ReceptionInv, Ranges, FewSamples, ReceptionTypeOK, Side
<1> QED
  BY <1>1, ReceptionInductive, PTL

\* Unless samples were dropped, the batches they came in make no difference to the bits
\* found in them; and never do the bits' portions to the characters.
THEOREM AnyBatches == ReceptionSpec => []BatchIndependent
<1>1. ASSUME ReceptionInv PROVE BatchIndependent
  <2>1. /\ Ranges /\ AsLine /\ Unbroken
    BY <1>1 DEF ReceptionInv
  <2>2. ASSUME vent = 0
        PROVE  LET all == Runs(SubSeq(signal, 1, pos)).bits
               IN  /\ all = heard \o Runs(samples).bits
                   /\ Tried(samples) => all = heard
    <3>1. PICK p \in 0 .. pos : Waiting(p)
      BY <2>1, <2>2 DEF Unbroken
    <3> DEFINE all == Runs(SubSeq(signal, 1, pos)).bits
    <3>2. all = Found(signal, 0, pos)
      BY DEF Found, Behind, Window
    <3>3. Runs(samples).bits = Found(signal, p, pos)
      BY <3>1 DEF Waiting, Found, Behind
    <3>4. pos \in pos .. Len(signal) /\ heard \in Seq({0, 1})
      BY <2>1 DEF Ranges
    <3>5. all = heard \o Found(signal, p, pos)
      BY <3>1, <3>2, <3>4 DEF Waiting, HeardTo
    <3>6. ASSUME Tried(samples) PROVE all = heard
      <4>1. Found(signal, p, pos) = <<>>
        BY <3>1, <3>6 DEF Waiting
      <4> HIDE DEF all
      <4> QED
        BY <3>4, <3>5, <4>1, BitsAssociate
    <3> QED
      BY <3>3, <3>5, <3>6
  <2> QED
    BY <2>1, <2>2 DEF BatchIndependent, AsLine
<1> QED
  BY <1>1, ReceptionInductive, PTL
=============================================================================
