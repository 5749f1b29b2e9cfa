------------------------------ MODULE Pipeline ------------------------------
(***************************************************************************)
(* Samples on their way through Decoder::process(), and the io thread that *)
(* changes the decoder's settings and reads its spectrum meanwhile.        *)
(*   decoder  pushes what the receiver has given, then decimates it, feeds *)
(*            the spectrum, measures the AFC, filters and demodulates.     *)
(*   io       set:decimation, set:lowpass_bw, set:lowpass_trans, cmd::power*)
(* process_mutex_ covers all of process() and set:decimation.  A part of   *)
(* process() that holds another mutex from beginning to end is one step;   *)
(* the AFC is not, because it lets go of its mutexes before it begins.     *)
(*   A sample is its number.  What its values become is left out, with the *)
(* values of the spectrum and what the AFC finds in it (Tuning takes that  *)
(* as an input); what follows the demodulation is in Rtty and              *)
(* SentenceStream.                                                         *)
(***************************************************************************)
EXTENDS Integers, Sequences, FiniteSetsExt

CONSTANTS Factors,     \* decimation factors that there are filters for
          MaxFactor,   \* clients may ask for 1 .. MaxFactor
          Fastest,     \* smallest factor that is decoded at
          Bandwidths,  \* what clients set lowpass_bw to
          Lengths,     \* taps for the transition widths that clients set
          MinTaps,     \* filters with as many taps or fewer are not made
          Block,       \* batch_size
          Bins,        \* fft_bins_cnt_
          Batches,     \* how many samples the receiver gives at a time
          MaxSamples   \* bound: samples in a behaviour

ASSUME FactorsAssumption == MaxFactor \in Nat \ {0} /\ Factors \subseteq 1 .. MaxFactor
ASSUME FilterAssumption ==
    /\ MinTaps \in Nat /\ Block \in Nat \ {0} /\ Block > MinTaps
    /\ Lengths \subseteq Nat
ASSUME BoundAssumption ==
    /\ Bins \in Nat \ {0} /\ Fastest \in Nat
    /\ Batches \subseteq Nat /\ MaxSamples \in Nat

VARIABLES
    next,       \* number of the next sample from the receiver
    input,      \* iq_in_buffer_
    factor,     \* decimation_factor_
    stages,     \* what decimation_stages_ divide by
    collected,  \* samples in freq_in_
    decimated,  \* iq_samples_decimated_, as intervals of samples
    filter,     \* lowpass_bw_Hz_ and the taps of lowpass_trans_
    taps,       \* lowpass_fir_: its taps and what they were made for
    fed,        \* p_input_size_ of lowpass_fir_
    passed,     \* history: number of the next sample to be demodulated
    process,    \* process_mutex_
    dec,        \* where the decoder thread is
    io,         \* where the io thread is
    request     \* the factor it sets, 1 if none

buffers == <<next, input, decimated, passed>>
rates   == <<factor, stages>>
lowpass == <<filter, taps, fed>>
threads == <<process, dec, io, request>>

vars == <<buffers, rates, collected, lowpass, threads>>

\* main() has set the decoder up.
Init ==
    /\ next = 0 /\ passed = 0 /\ input = <<>> /\ decimated = <<>>
    /\ factor \in Factors \cup {1} /\ stages = factor
    /\ collected = 0
    /\ filter \in [bw : Bandwidths, length : Lengths]
    /\ taps = [length |-> 0, bw |-> 0] /\ fed = 0
    /\ process = "free" /\ dec = "push" /\ io = "idle" /\ request = 1

-----------------------------------------------------------------------------
\* pushSamples.
Push(n) ==
    /\ dec = "push" /\ next + n <= MaxSamples
    /\ input' = input \o [i \in 1 .. n |-> next + i - 1]
    /\ next' = next + n
    /\ dec' = "take"
    /\ UNCHANGED <<decimated, passed, rates, collected, lowpass, process, io, request>>

\* Each stage makes one sample of as many as its factor.
Decimate(s) ==
    [i \in 1 .. Len(s) \div stages |->
        [from |-> s[(i - 1) * stages + 1], to |-> s[i * stages] + 1]]

\* The end of process(): its mutex is released.
LeaveLocked == dec' = "push" /\ UNCHANGED process
Leave == dec' = "push" /\ process' = "free"

\* The samples that are decimated in this call.
AllOfThem(n) == n
Whole(n) == n - (n % factor)

\* What is left in freq_in_ of n samples: as many as the FFT takes are cleared.
Uncleared(n) == IF n = Bins THEN 0 ELSE n

TakeNothing ==
    /\ dec = "take" /\ process = "free"
    /\ Len(input) < factor
    /\ Leave
    /\ UNCHANGED <<buffers, rates, collected, lowpass, io, request>>

\* Copy the samples and decimate them; collect for the spectrum and compute it
\* if there are enough.
Take ==
    /\ dec = "take" /\ process = "free"
    /\ Len(input) >= factor
    /\ LET n  == Whole(Len(input))
           ds == Decimate(SubSeq(input, 1, n))
           c  == Min({Bins, collected + Len(ds)})
       IN /\ input' = SubSeq(input, n + 1, Len(input))
          /\ decimated' = decimated \o ds
          /\ collected' = Uncleared(c)
    /\ IF Len(decimated') < Block THEN Leave
                                  ELSE process' = "decoder" /\ dec' = "afc"
    /\ UNCHANGED <<next, passed, rates, lowpass, io, request>>

\* Both mutexes of the AFC are tried, and released before it begins.  It is
\* skipped while the io thread copies the spectrum.
AfcBegin ==
    /\ dec = "afc"
    /\ dec' = IF io = "copy" THEN "filter" ELSE "measure"
    /\ UNCHANGED <<buffers, rates, collected, lowpass, process, io, request>>

AfcEnd ==
    /\ dec = "measure"
    /\ dec' = "filter"
    /\ UNCHANGED <<buffers, rates, collected, lowpass, process, io, request>>

-----------------------------------------------------------------------------
TooFast == factor < Fastest

End(ds) == ds[Len(ds)].to

\* Not decoding above a certain rate.
DropFast ==
    /\ dec = "filter" /\ TooFast
    /\ decimated' = <<>>
    /\ passed' = End(decimated)
    /\ Leave
    /\ UNCHANGED <<next, input, rates, collected, lowpass, io, request>>

\* LP_BlackmanHarris, for the bandwidth and the length of filter f and an input
\* of n samples: an odd number of taps, and new ones only if their number
\* changes.
Odd(n) == n + 1 - (n % 2)
UpToInput(length, n) == Odd(Min({length, n}))
AnyLength(length, n) == Odd(length)
TapCount(length, n) == UpToInput(length, n)

Design(f, n) ==
    LET count == TapCount(f.length, n)
    IN IF n = 0 \/ count <= MinTaps \/ count = taps.length THEN taps
       ELSE [length |-> count, bw |-> f.bw]

\* Filter and demodulate whole blocks.
OneBlock(n) == Block
Blocks(n) == n - (n % Block)

Filter ==
    /\ dec = "filter" /\ ~TooFast
    /\ LET n == Blocks(Len(decimated))
       IN /\ fed' = n
          /\ taps' = Design(filter, n)
          /\ passed' = End(SubSeq(decimated, 1, n))
          /\ decimated' = SubSeq(decimated, n + 1, Len(decimated))
    /\ dec' = "symbols"
    /\ UNCHANGED <<next, input, rates, collected, filter, process, io, request>>

\* Symbols, characters, sentences, callbacks.
Symbols ==
    /\ dec = "symbols"
    /\ Leave
    /\ UNCHANGED <<buffers, rates, collected, lowpass, io, request>>

-----------------------------------------------------------------------------
\* setupDecimationStagesFactor.  What is out of range is refused before the
\* mutex is taken; a factor without filters leaves the decoder without stages.
SetDecimation(f) ==
    /\ io = "idle"
    /\ request' = f
    /\ io' = "lock"
    /\ UNCHANGED <<buffers, rates, collected, lowpass, process, dec>>

Unguarded == TRUE
Unlocked == process = "free"

ClearStages ==
    /\ io = "lock" /\ Unlocked
    /\ process' = "io"
    /\ factor' = 1 /\ stages' = 1
    /\ io' = "stages"
    /\ UNCHANGED <<buffers, collected, lowpass, dec, request>>

\* The stages are there before the factor is.
AddStages ==
    /\ io = "stages" /\ request \in Factors
    /\ stages' = request
    /\ io' = "factor"
    /\ UNCHANGED <<buffers, factor, collected, lowpass, process, dec, request>>

Unsupported ==
    /\ io = "stages" /\ request \notin Factors
    /\ process' = "free"
    /\ io' = "idle" /\ request' = 1
    /\ UNCHANGED <<buffers, rates, collected, lowpass, dec>>

SetFactor ==
    /\ io = "factor"
    /\ factor' = request
    /\ process' = "free"
    /\ io' = "idle" /\ request' = 1
    /\ UNCHANGED <<buffers, stages, collected, lowpass, dec>>

\* lowpass_bw, lowpass_trans.
SetFilter(f) ==
    /\ io = "idle"
    /\ filter' = f
    /\ taps' = Design(f, fed)
    /\ UNCHANGED <<buffers, rates, collected, fed, threads>>

SetLowpass == \E b \in Bandwidths : SetFilter([filter EXCEPT !.bw = b])
SetTransition == \E n \in Lengths : SetFilter([filter EXCEPT !.length = n])

\* getPowerSpectrum copies under afc_mtx_.
CopyBegin ==
    /\ io = "idle"
    /\ io' = "copy"
    /\ UNCHANGED <<buffers, rates, collected, lowpass, process, dec, request>>

CopyEnd ==
    /\ io = "copy"
    /\ io' = "idle"
    /\ UNCHANGED <<buffers, rates, collected, lowpass, process, dec, request>>

Process == TakeNothing \/ Take \/ AfcBegin \/ AfcEnd \/ DropFast \/ Filter \/ Symbols

Setter == ClearStages \/ AddStages \/ Unsupported \/ SetFactor

Next ==
    \/ \E n \in Batches : Push(n)
    \/ Process
    \/ \E f \in 1 .. MaxFactor : SetDecimation(f)
    \/ Setter
    \/ SetLowpass \/ SetTransition
    \/ CopyBegin \/ CopyEnd

Spec == Init /\ [][Next]_vars

\* Both threads run, and a thread that waits for process_mutex_ gets it if it is
\* free again and again.
FairSpec == Spec /\ SF_vars(Process) /\ SF_vars(Setter) /\ WF_vars(CopyEnd)

-----------------------------------------------------------------------------
Intervals == [from : Nat, to : Nat]

TypeOK ==
    /\ next \in Nat /\ passed \in Nat
    /\ input \in Seq(Nat) /\ decimated \in Seq(Intervals)
    /\ {factor, stages} \subseteq Factors \cup {1} /\ request \in 1 .. MaxFactor
    /\ collected \in 0 .. Bins - 1
    /\ filter \in [bw : Bandwidths, length : Lengths]
    /\ taps \in [length : Nat, bw : Bandwidths \cup {0}] /\ fed \in Nat
    /\ process \in {"free", "decoder", "io"}
    /\ dec \in {"push", "take", "afc", "measure", "filter", "symbols"}
    /\ io \in {"idle", "lock", "stages", "factor", "copy"}

\* Where the samples that are not decimated yet begin.
Edge == IF decimated = <<>> THEN passed ELSE End(decimated)

(***************************************************************************)
(* No sample is lost, repeated or overtaken between the receiver and the   *)
(* demodulator, however they are split into calls and wherever the factor  *)
(* changes: what waits in the two buffers is everything since the last     *)
(* sample that was demodulated, or dropped because the rate is too high.   *)
(***************************************************************************)
InOrder ==
    /\ \A i \in 1 .. Len(decimated) :
          decimated[i].from = IF i = 1 THEN passed ELSE decimated[i - 1].to
    /\ \A i \in 1 .. Len(input) : input[i] = Edge + i - 1
    /\ next = Edge + Len(input)

(***************************************************************************)
(* Between two calls of process() less than a sample of the coarsest       *)
(* decimation and less than a block are left over.                         *)
(***************************************************************************)
LittleLeft ==
    dec = "push" => Len(decimated) < Block /\ Len(input) < MaxFactor

(***************************************************************************)
(* The filter never has more taps than its input can give it a history     *)
(* for: dotProduct would skip the block.  Unless the transition width is   *)
(* so large that no filter is made for it: then the last one stays.        *)
(***************************************************************************)
FilterFits ==
    dec = "symbols" /\ Odd(filter.length) > MinTaps => taps.length \in 1 .. fed + 1

(***************************************************************************)
(* process() ends, although clients set the decimation and read the        *)
(* spectrum again and again, and they get their turn.                      *)
(***************************************************************************)
ProcessEnds == dec # "push" ~> dec = "push"
SetterEnds == io = "lock" ~> io = "idle"
=============================================================================
