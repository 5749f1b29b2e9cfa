------------------------------ MODULE Settings ------------------------------
(***************************************************************************)
(* The settings of the receiver and the decoder, from one run of the       *)
(* program to the next.  run_loop.sh starts it again and again with the    *)
(* options file that the program itself writes: once prog_opts has read    *)
(* it, and with every sentence.  SetupDevice waits for the receiver,       *)
(* main() hands the parameters to receiver and decoder, and clients change *)
(* them and are told.  The program may be killed at any time.              *)
(*   A line of the file is written and flushed by itself.  Every kill      *)
(* leaves whole lines from the beginning of the file.  Settings that are   *)
(* read and written like lowpass and nobody checks (ppm, afc...) are left  *)
(* out, and so is alt, which is written like lat and lon.  par_ against    *)
(* the AFC is in Tuning: a command is one step here.                       *)
(***************************************************************************)
EXTENDS Integers, Sequences, SequencesExt

CONSTANTS Values,       \* Values[k]: what clients set k to
          Default,      \* PARAMS as it is constructed
          Saved,        \* options files to begin with
          Precision,    \* of a frequency that is read as a float
          None,         \* clients have not been told
          MaxCommands,  \* bound: commands of clients
          MaxKills      \* bound: how often the program is killed

\* What DumpToFile writes, in its order; latlon and rtty have a line for each
\* of their numbers.  Gains are halves, baud rates tenths, dec is a logarithm,
\* coordinates millionths of a degree.
Lines == <<"lat", "lon", "freq", "dec", "gain", "baud", "bits", "stops", "lowpass", "no_exit">>
Line(k) == CHOOSE n \in DOMAIN Lines : Lines[n] = k

Keys     == Range(Lines) \cup {"datasize"}
\* ... what is handed to receiver and decoder, and told to clients.
Applied  == {"freq", "dec", "gain", "baud", "bits", "stops", "lowpass"}
Commands == Applied \cup {"datasize"}

ASSUME DefaultAssumption == Default \in [Keys -> Int] /\ Default["datasize"] \in {1, 2, 4}
ASSUME ValuesAssumption == \A k \in Commands : Values[k] \subseteq Int
ASSUME SavedAssumption == \A f \in Saved : f \in Seq(Int) /\ Len(f) <= Len(Lines)
ASSUME PrecisionAssumption == Precision \in Nat \ {0}
ASSUME BoundAssumption == MaxCommands \in Nat /\ MaxKills \in Nat

VARIABLES
    file,      \* the lines of the options file
    phase,     \* where main() is
    line,      \* the line DumpToFile writes next, 0 when it is not running
    par,       \* par_
    actual,    \* what receiver and decoder are set to
    decoding,  \* the decoder thread has started the receiver
    params,    \* params: the parameters clients have been told
    shown,     \* what the clients show
    plugged,   \* the receiver can be opened
    commands,  \* commands so far
    kills,     \* kills so far
    dumped     \* history: values par has had since the last dump began, until
               \* it ended

vars == <<file, phase, line, par, actual, decoding, params, shown, plugged,
          commands, kills, dumped>>

process == <<actual, decoding, params, shown>>
bounds  == <<plugged, commands, kills>>

Told == [k \in Commands |-> None]

Init ==
    /\ file \in Saved
    /\ phase = "down" /\ line = 0
    /\ par = Default /\ params = Default
    /\ actual = [k \in Applied |-> 0] /\ decoding = FALSE /\ shown = Told
    /\ plugged \in BOOLEAN
    /\ commands = 0 /\ kills = 0
    /\ dumped = [k \in Keys |-> {}]

-----------------------------------------------------------------------------
\* prog_opts: a gain that is not a whole number is a parse error, after which
\* all options are ignored.
Has(f, k) == Line(k) <= Len(f)
Value(f, k) == f[Line(k)]

Parses(f) == Has(f, "gain") => Value(f, "gain") % 2 = 0

\* Options that come with too few numbers, and formats it does not accept, end
\* the program before the file is written.
Accepted(bits, stops) == bits \in {7, 8} /\ stops \in {1, 2}
Incomplete(f) ==
    \/ Has(f, "lat") /\ ~Has(f, "lon")
    \/ Has(f, "baud") /\ ~Has(f, "stops")
Unaccepted(f) == Has(f, "stops") /\ ~Accepted(Value(f, "bits"), Value(f, "stops"))

ExitsOnError(f) == ~Parses(f) \/ Incomplete(f) \/ Unaccepted(f)
Rejects(f) ==
    /\ Parses(f)
    /\ Incomplete(f) \/ Unaccepted(f)

AsRead(k, v) == IF k = "freq" THEN v - (v % Precision) ELSE v

In(f, k) == k \in Range(Lines) /\ Has(f, k)

ForgetsLowpass(f) ==
    [k \in Keys |-> IF In(f, k) /\ k # "lowpass" THEN AsRead(k, Value(f, k)) ELSE Default[k]]
FromFile(f) ==
    [k \in Keys |-> IF In(f, k) THEN AsRead(k, Value(f, k)) ELSE Default[k]]

Options(f) == IF Parses(f) THEN FromFile(f) ELSE Default

\* The file is truncated when it is opened.
BeginDump(p) ==
    /\ line' = 1
    /\ file' = <<>>
    /\ dumped' = [k \in Keys |-> {p[k]}]

Start ==
    /\ phase = "down" /\ ~Rejects(file)
    /\ par' = Options(file)
    /\ BeginDump(par')
    /\ phase' = "options"
    /\ params' = Default
    /\ actual' = [k \in Applied |-> 0] /\ decoding' = FALSE /\ shown' = Told
    /\ UNCHANGED bounds

\* exit(1); run_loop.sh starts the program again.
StartRejected == phase = "down" /\ Rejects(file) /\ UNCHANGED vars

\* An ostream writes six digits unless told otherwise, and DumpToFile calls
\* setprecision only at the frequency, which comes after the coordinates.  The
\* last digit of a coordinate below 1, 10, 100 and 180 degrees then stands for
\* this many millionths.
Significant == 1000000
Fits(v, unit) == -(Significant * unit) < v /\ v < Significant * unit
Unit(v) ==
    IF Fits(v, 1) THEN 1
    ELSE IF Fits(v, 10) THEN 10
    ELSE IF Fits(v, 100) THEN 100
    ELSE 1000

\* The number is rounded to the nearest.  What is rounded is a float: within a
\* twentieth of the unit of a tie it may go either way.
Written(k, v) ==
    LET unit == Unit(v)
        below == v - (v % unit)
    IN  IF k \in {"lat", "lon"}
        THEN {w \in {below, below + unit} : 20 * (w - v) <= 11 * unit /\ 20 * (v - w) <= 11 * unit}
        ELSE {v}

\* DumpToFile writes the next line.
DumpLine ==
    /\ line > 0
    /\ \E w \in Written(Lines[line], par[Lines[line]]) : file' = Append(file, w)
    /\ line' = IF line = Len(Lines) THEN 0 ELSE line + 1
    /\ UNCHANGED <<phase, par, process, bounds, dumped>>

-----------------------------------------------------------------------------
\* The decoder's factor is 1 until a supported one is set.
Supported(dec) == dec <= 8

LeavesFrequency(k) ==
    IF k = "freq" \/ (k = "dec" /\ ~Supported(par[k])) THEN actual[k] ELSE par[k]
Initially(k) == IF k = "dec" /\ ~Supported(par[k]) THEN actual[k] ELSE par[k]

\* SetupDevice succeeds and main() hands over the parameters.  The receiver may
\* fail to start: the decoder thread ends, the program stays up.
SetupDevice ==
    /\ phase = "options" /\ line = 0 /\ plugged
    /\ actual' = [k \in Applied |-> Initially(k)]
    /\ decoding' \in BOOLEAN
    /\ phase' = "up"
    /\ UNCHANGED <<file, line, par, params, shown, bounds, dumped>>

\* No receiver: try again in 3 s, or exit.
NoDevice ==
    /\ phase = "options" /\ line = 0 /\ ~plugged
    /\ phase' = IF par["no_exit"] = 0 THEN "down" ELSE phase
    /\ UNCHANGED <<file, line, par, process, bounds, dumped>>

Plug ==
    /\ plugged' = ~plugged
    /\ UNCHANGED <<file, phase, line, par, process, commands, kills, dumped>>

-----------------------------------------------------------------------------
\* SentenceCallback, "save opts".
SentenceDecoded ==
    /\ phase = "up" /\ decoding /\ line = 0
    /\ BeginDump(par)
    /\ UNCHANGED <<phase, par, process, bounds>>

\* set:datasize=v: 3 goes on from 2 to 4, or from 4 to 2.
DataSize(v) ==
    IF v = 3 THEN IF par["datasize"] = 2 THEN 4 ELSE 2
    ELSE IF v \in {1, 2, 4} THEN v ELSE 1

Set(k, v) ==
    /\ par' = [par EXCEPT ![k] = IF k = "datasize" THEN DataSize(v) ELSE v]
    /\ actual' = IF k = "datasize" \/ (k = "dec" /\ ~Supported(v)) THEN actual
                 ELSE [actual EXCEPT ![k] = v]

\* EchoParameter asks receiver and decoder; the baud rate loses its fraction.
Echoed(k, v) == IF k = "baud" THEN v - (v % 10) ELSE v
EchoesPar(k) == Echoed(k, par'[k])
EchoesActual(k) == Echoed(k, IF k = "datasize" THEN par'[k] ELSE actual'[k])
EchoParameter(k) == EchoesActual(k)

Command(k, v) ==
    /\ phase = "up" /\ commands < MaxCommands
    /\ commands' = commands + 1
    /\ Set(k, v)
    /\ shown' = [j \in Commands |->
                    IF j = k \/ params # par' THEN EchoParameter(j) ELSE shown[j]]
    /\ params' = par'
    /\ dumped' = IF line = 0 THEN dumped
                 ELSE [j \in Keys |-> dumped[j] \cup {par'[j]}]
    /\ UNCHANGED <<file, phase, line, decoding, plugged, kills>>

\* A crash, a signal, a power failure.
Kill ==
    /\ phase # "down" /\ kills < MaxKills
    /\ kills' = kills + 1
    /\ phase' = "down" /\ line' = 0
    /\ UNCHANGED <<file, par, process, plugged, commands, dumped>>

Next ==
    \/ Start \/ StartRejected \/ DumpLine
    \/ SetupDevice \/ NoDevice \/ Plug
    \/ SentenceDecoded
    \/ \E k \in Commands : \E v \in Values[k] : Command(k, v)
    \/ Kill

Spec == Init /\ [][Next]_vars

\* run_loop.sh, and main() until the program is up.
FairSpec == Spec /\ WF_vars(Start) /\ WF_vars(DumpLine) /\ WF_vars(SetupDevice) /\ WF_vars(NoDevice)

-----------------------------------------------------------------------------
TypeOK ==
    /\ file \in Seq(Int) /\ Len(file) <= Len(Lines)
    /\ phase \in {"down", "options", "up"}
    /\ line \in 0 .. Len(Lines)
    /\ par \in [Keys -> Int] /\ params \in [Keys -> Int]
    /\ par["datasize"] \in {1, 2, 4}
    /\ actual \in [Applied -> Int] /\ Supported(actual["dec"])
    /\ decoding \in BOOLEAN /\ plugged \in BOOLEAN
    /\ shown \in [Commands -> Int \cup {None}]
    /\ commands \in 0 .. MaxCommands /\ kills \in 0 .. MaxKills
    /\ dumped \in [Keys -> SUBSET Int]

(***************************************************************************)
(* "server echoes back a value that was actually set" (habdecClient.py):   *)
(* what clients have been told is what receiver and decoder are set to,    *)
(* not what was asked for, up to the fraction of the baud rate.            *)
(***************************************************************************)
ShownIsActual ==
    phase = "up" => \A k \in Applied : shown[k] # None => shown[k] = Echoed(k, actual[k])

(***************************************************************************)
(* Receiver and decoder follow the parameters, in the first run and after  *)
(* each restart, except for a decimation the decoder does not support.     *)
(***************************************************************************)
ParametersApply ==
    phase = "up" => \A k \in Applied : actual[k] = par[k] \/ (k = "dec" /\ ~Supported(par[k]))

(***************************************************************************)
(* "Last run config file" (--config): a file that was written to its end,  *)
(* whatever clients changed meanwhile, starts the next run with values     *)
(* that were all in force during that dump, if the parser takes them.  The *)
(* frequency may be off by the precision of a float.  The position of the  *)
(* station may be off by less than its sixth digit (52.22967 comes back as *)
(* 52.2297), but only once: a position of six digits comes back as it was, *)
(* so it does not drift from restart to restart.                           *)
(***************************************************************************)
SixDigits(v) == v % Unit(v) = 0

Restored(k, old, new) ==
    CASE k = "freq" -> new \in old - Precision + 1 .. old
      [] k \in {"lat", "lon"} ->
           /\ new \in old - Unit(old) + 1 .. old + Unit(old) - 1
           /\ SixDigits(new)
           /\ SixDigits(old) => new = old
      [] OTHER -> new = old

Acceptable ==
    /\ \A g \in dumped["gain"] : g % 2 = 0
    /\ \A b \in dumped["bits"], s \in dumped["stops"] : Accepted(b, s)

Dumped == dumped["freq"] # {}

Restart == phase = "down" /\ phase' = "options"

RestoresLastRun ==
    [][ Restart /\ Len(file) = Len(Lines) /\ Dumped /\ Acceptable =>
          \A k \in Range(Lines) : \E v \in dumped[k] : Restored(k, v, par'[k]) ]_vars

(***************************************************************************)
(* The loop keeps trying: the program comes up unless the receiver cannot  *)
(* be opened or the file is one that prog_opts rejects, and that takes a   *)
(* kill in the middle of a dump or a format that a client has set.         *)
(***************************************************************************)
Spoiled ==
    \/ kills > 0 /\ Incomplete(file)
    \/ \E b \in dumped["bits"], s \in dumped["stops"] : ~Accepted(b, s)

KeepsTrying == []<>(phase = "up" \/ ~plugged \/ Spoiled)
=============================================================================
