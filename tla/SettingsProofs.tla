--------------------------- MODULE SettingsProofs ---------------------------
(***************************************************************************)
(* Theorems about Settings for any values that clients set, any options    *)
(* files of numbers to begin with, and any number of commands and kills:   *)
(* receiver and decoder follow the parameters, clients are told what they  *)
(* are set to, and the options file restores the last run.                 *)
(***************************************************************************)
EXTENDS Settings, TLAPS

\* Clients are told nothing before the parameters have been handed over.
NothingTold == phase = "options" => shown = Told

\* The decoder starts each run with its default factor.
FreshDecoder == phase = "options" => actual = [k \in Applied |-> 0]

\* The dump is at the end of the file.
AtEnd == line > 0 => line = Len(file) + 1

IInv == TypeOK /\ AtEnd /\ NothingTold /\ FreshDecoder /\ ShownIsActual /\ ParametersApply

-----------------------------------------------------------------------------
LEMMA LinesFacts ==
    /\ Len(Lines) = 10
    /\ DOMAIN Lines = 1 .. 10
    /\ \A n \in 1 .. 10 : Lines[n] \in Keys
    /\ \A k \in Range(Lines) : Line(k) \in 1 .. 10 /\ Lines[Line(k)] = k
<1>1. Len(Lines) = 10 /\ DOMAIN Lines = 1 .. 10
  BY DEF Lines
<1>2. \A n \in 1 .. 10 : Lines[n] \in Range(Lines)
  BY <1>1 DEF Range
<1>3. ASSUME NEW k \in Range(Lines) PROVE Line(k) \in 1 .. 10 /\ Lines[Line(k)] = k
  <2>1. \E n \in DOMAIN Lines : Lines[n] = k
    BY DEF Range
  <2> QED
    BY <1>1, <2>1, Zenon DEF Line
<1> QED
  BY <1>1, <1>2, <1>3 DEF Keys

LEMMA KeysFacts ==
    /\ Applied \subseteq Keys
    /\ Commands = Applied \cup {"datasize"}
    /\ "datasize" \in Keys /\ "datasize" \notin Range(Lines) /\ "datasize" \notin Applied
    /\ Commands \subseteq Keys
    /\ "dec" \in Applied /\ "no_exit" \in Keys
<1> DEFINE names == {"lat", "lon", "freq", "dec", "gain", "baud", "bits", "stops", "lowpass", "no_exit"}
<1>1. DOMAIN Lines = 1 .. 10
  BY LinesFacts
<1>2. /\ Lines[1] = "lat" /\ Lines[2] = "lon" /\ Lines[3] = "freq" /\ Lines[4] = "dec"
      /\ Lines[5] = "gain" /\ Lines[6] = "baud" /\ Lines[7] = "bits" /\ Lines[8] = "stops"
      /\ Lines[9] = "lowpass" /\ Lines[10] = "no_exit"
  BY DEF Lines
<1>3. Range(Lines) = names
  <2>1. ASSUME NEW n \in 1 .. 10 PROVE Lines[n] \in names
    <3>1. \/ n = 1 \/ n = 2 \/ n = 3 \/ n = 4 \/ n = 5 \/ n = 6 \/ n = 7 \/ n = 8 \/ n = 9 \/ n = 10
      OBVIOUS
    <3> QED
      BY <1>2, <3>1
  <2>2. ASSUME NEW k \in names PROVE \E n \in 1 .. 10 : Lines[n] = k
    BY <1>2
  <2> QED
    BY <1>1, <2>1, <2>2 DEF Range
<1> QED
  BY <1>3 DEF Keys, Applied, Commands

\* What the parser makes of a file of numbers are parameters.
LEMMA OptionsAreParameters ==
  ASSUME NEW f \in Seq(Int)
  PROVE  Options(f) \in [Keys -> Int] /\ Options(f)["datasize"] \in {1, 2, 4}
<1>1. ASSUME NEW k \in Range(Lines), Has(f, k) PROVE AsRead(k, Value(f, k)) \in Int
  <2>1. Line(k) \in 1 .. 10
    BY LinesFacts, <1>1
  <2>2. Line(k) <= Len(f)
    BY <1>1 DEF Has
  <2>3. Value(f, k) \in Int
    BY <2>1, <2>2 DEF Value
  <2> QED
    BY <2>3, PrecisionAssumption DEF AsRead
<1>2. FromFile(f) \in [Keys -> Int]
  BY <1>1, DefaultAssumption DEF FromFile, In
<1>3. FromFile(f)["datasize"] = Default["datasize"]
  BY KeysFacts DEF FromFile, In
<1> QED
  BY <1>2, <1>3, DefaultAssumption DEF Options

\* What is written of a value is the value, or its first six digits.
LEMMA WrittenIsNear ==
  ASSUME NEW k, NEW v \in Int, NEW w \in Written(k, v)
  PROVE  /\ w \in Int
         /\ k \notin {"lat", "lon"} => w = v
         /\ k \in {"lat", "lon"} =>
               /\ w \in v - Unit(v) + 1 .. v + Unit(v) - 1
               /\ SixDigits(w)
               /\ SixDigits(v) => w = v
<1>1. CASE k \notin {"lat", "lon"}
  BY <1>1 DEF Written
<1>2. CASE k \in {"lat", "lon"}
  <2>1. PICK u : u = Unit(v)
    OBVIOUS
  <2>2. u \in {1, 10, 100, 1000}
    BY <2>1 DEF Unit
  <2>3. v - (v % u) \in Int /\ u \in Nat /\ v % u \in 0 .. u - 1
    BY <2>2
  <2>4. /\ w = v - (v % u) \/ w = v - (v % u) + u
        /\ 20 * (w - v) <= 11 * u /\ 20 * (v - w) <= 11 * u
    BY <1>2, <2>1 DEF Written
  <2>5. w \in Int /\ w \in v - u + 1 .. v + u - 1
    BY <2>2, <2>3, <2>4
  <2>6. v % u = 0 => w = v
    BY <2>2, <2>3, <2>4
  <2>7. w % u = 0
    BY <2>2, <2>3, <2>4, SMTT(60)
  <2>8. SixDigits(w)
    <3>1. CASE u = 1
      BY <3>1, <2>1, <2>3, <2>4, <2>7, SMTT(60) DEF SixDigits, Unit, Fits, Significant
    <3>2. CASE u = 10
      BY <3>2, <2>1, <2>3, <2>4, <2>7, SMTT(60) DEF SixDigits, Unit, Fits, Significant
    <3>3. CASE u = 100
      BY <3>3, <2>1, <2>3, <2>4, <2>7, SMTT(60) DEF SixDigits, Unit, Fits, Significant
    <3>4. CASE u = 1000
      BY <3>4, <2>1, <2>3, <2>4, <2>7, SMTT(60) DEF SixDigits, Unit, Fits, Significant
    <3> QED
      BY <2>2, <3>1, <3>2, <3>3, <3>4
  <2> QED
    BY <1>2, <2>1, <2>5, <2>6, <2>8 DEF SixDigits
<1> QED
  BY <1>1, <1>2

\* The size in use is one of the three, whatever is asked for.
LEMMA SetKeepsTypes ==
  ASSUME TypeOK, NEW k \in Commands, NEW v \in Int, Set(k, v)
  PROVE  /\ par' \in [Keys -> Int] /\ par'["datasize"] \in {1, 2, 4}
         /\ actual' \in [Applied -> Int] /\ Supported(actual'["dec"])
<1>1. DataSize(v) \in {1, 2, 4}
  BY DEF DataSize
<1>2. DataSize(v) \in Int
  BY <1>1
<1>3. par' \in [Keys -> Int] /\ par'["datasize"] \in {1, 2, 4}
  BY <1>1, <1>2, KeysFacts DEF Set, TypeOK
<1>4. actual' \in [Applied -> Int]
  BY DEF Set, TypeOK
<1>5. Supported(actual'["dec"])
  BY KeysFacts DEF Set, TypeOK
<1> QED
  BY <1>3, <1>4, <1>5

\* A command hands on what it stores, but for a factor that is not supported.
LEMMA SetApplies ==
  ASSUME TypeOK, ParametersApply, phase = "up",
         NEW k \in Commands, NEW v \in Int, Set(k, v), NEW j \in Applied
  PROVE  /\ actual'[j] = par'[j] \/ (j = "dec" /\ ~Supported(par'[j]))
         /\ j # k => actual'[j] = actual[j]
<1>1. j \in Keys /\ j # "datasize"
  BY KeysFacts
<1>2. actual[j] = par[j] \/ (j = "dec" /\ ~Supported(par[j]))
  BY DEF ParametersApply
<1>3. CASE j = k
  BY <1>1, <1>3 DEF Set, TypeOK
<1>4. CASE j # k
  BY <1>1, <1>2, <1>4 DEF Set, TypeOK
<1> QED
  BY <1>3, <1>4

-----------------------------------------------------------------------------
LEMMA InitIInv == Init => IInv
<1> SUFFICES ASSUME Init PROVE IInv
  OBVIOUS
<1>1. file \in Seq(Int) /\ Len(file) <= Len(Lines)
  BY SavedAssumption DEF Init
<1>2. par \in [Keys -> Int] /\ params \in [Keys -> Int] /\ par["datasize"] \in {1, 2, 4}
  BY DefaultAssumption DEF Init
<1>3. actual \in [Applied -> Int] /\ Supported(actual["dec"])
  BY KeysFacts DEF Init, Supported
<1>4. shown \in [Commands -> Int \cup {None}]
  BY DEF Init, Told
<1>5. line \in 0 .. Len(Lines) /\ commands \in 0 .. MaxCommands /\ kills \in 0 .. MaxKills
  BY LinesFacts, BoundAssumption DEF Init
<1>6. dumped \in [Keys -> SUBSET Int]
  BY DEF Init
<1>7. phase = "down" /\ line = 0 /\ decoding \in BOOLEAN /\ plugged \in BOOLEAN
  BY DEF Init
<1>8. TypeOK
  BY <1>1, <1>2, <1>3, <1>4, <1>5, <1>6, <1>7 DEF TypeOK
<1> QED
  BY <1>7, <1>8 DEF IInv, AtEnd, NothingTold, FreshDecoder, ShownIsActual, ParametersApply

\* What a step that only concerns the dump of the file has to preserve.
LEMMA OutOfDump ==
  ASSUME NothingTold, FreshDecoder, ShownIsActual, ParametersApply,
         UNCHANGED <<phase, par, actual, shown>>
  PROVE  NothingTold' /\ FreshDecoder' /\ ShownIsActual' /\ ParametersApply'
BY DEF NothingTold, FreshDecoder, ShownIsActual, ParametersApply

LEMMA StartIInv == IInv /\ Start => IInv'
<1> SUFFICES ASSUME IInv, Start PROVE IInv'
  OBVIOUS
<1>1. TypeOK
  BY DEF IInv
<1>2. par' = Options(file) /\ file \in Seq(Int)
  BY <1>1 DEF Start, TypeOK
<1>3. par' \in [Keys -> Int] /\ par'["datasize"] \in {1, 2, 4}
  BY <1>2, OptionsAreParameters
<1>4. dumped' \in [Keys -> SUBSET Int]
  BY <1>3 DEF Start, BeginDump
<1>5. file' = <<>> /\ line' = 1 /\ phase' = "options"
  BY DEF Start, BeginDump
<1>6. file' \in Seq(Int) /\ Len(file') = 0 /\ Len(file') <= Len(Lines) /\ line' \in 0 .. Len(Lines)
  BY <1>5, LinesFacts
<1>7. actual' = [k \in Applied |-> 0] /\ shown' = Told /\ decoding' = FALSE /\ params' = Default
  BY DEF Start
<1>8. actual' \in [Applied -> Int] /\ Supported(actual'["dec"])
  BY <1>7, KeysFacts DEF Supported
<1>9. shown' \in [Commands -> Int \cup {None}] /\ params' \in [Keys -> Int]
  BY <1>7, DefaultAssumption DEF Told
<1>10. plugged' \in BOOLEAN /\ commands' \in 0 .. MaxCommands /\ kills' \in 0 .. MaxKills
  BY <1>1 DEF Start, bounds, TypeOK
<1>11. TypeOK'
  <2>1. phase' \in {"down", "options", "up"} /\ decoding' \in BOOLEAN
    BY <1>5, <1>7
  <2> QED
    BY <1>3, <1>4, <1>6, <1>8, <1>9, <1>10, <2>1, Zenon DEF TypeOK
<1> QED
  BY <1>5, <1>6, <1>7, <1>11
     DEF IInv, AtEnd, NothingTold, FreshDecoder, ShownIsActual, ParametersApply

LEMMA DumpLineIInv == IInv /\ DumpLine => IInv'
<1> SUFFICES ASSUME IInv, DumpLine PROVE IInv'
  OBVIOUS
<1>1. TypeOK /\ AtEnd /\ line > 0
  BY DEF IInv, DumpLine
<1>2. line \in 1 .. 10 /\ Len(file) = line - 1
  <2>1. line \in 0 .. 10 /\ Len(file) \in Nat
    BY <1>1, LinesFacts DEF TypeOK
  <2> QED
    BY <1>1, <2>1 DEF AtEnd
<1>3. PICK w \in Written(Lines[line], par[Lines[line]]) : file' = Append(file, w)
  BY DEF DumpLine
<1>4. file' \in Seq(Int) /\ Len(file') = line
  <2>1. Lines[line] \in Keys
    BY <1>2, LinesFacts
  <2>2. par[Lines[line]] \in Int
    BY <1>1, <2>1 DEF TypeOK
  <2>3. w \in Int
    BY <2>2, WrittenIsNear
  <2> QED
    BY <1>1, <1>2, <1>3, <2>3 DEF TypeOK
<1>5. line' = IF line = 10 THEN 0 ELSE line + 1
  BY LinesFacts DEF DumpLine
<1>6. TypeOK'
  <2>1. Len(file') <= Len(Lines) /\ line' \in 0 .. Len(Lines)
    BY <1>2, <1>4, <1>5, LinesFacts
  <2>2. /\ phase' = phase /\ par' = par /\ actual' = actual /\ decoding' = decoding
        /\ params' = params /\ shown' = shown /\ plugged' = plugged
        /\ commands' = commands /\ kills' = kills /\ dumped' = dumped
    BY DEF DumpLine, process, bounds
  <2> QED
    BY <1>1, <1>4, <2>1, <2>2, Zenon DEF TypeOK
<1>7. AtEnd'
  BY <1>2, <1>4, <1>5 DEF AtEnd
<1>8. UNCHANGED <<phase, par, actual, shown>>
  BY DEF DumpLine, process
<1> QED
  BY <1>6, <1>7, <1>8, OutOfDump DEF IInv

LEMMA SetupDeviceIInv == IInv /\ SetupDevice => IInv'
<1> SUFFICES ASSUME IInv, SetupDevice PROVE IInv'
  OBVIOUS
<1>1. TypeOK /\ shown = Told /\ actual = [k \in Applied |-> 0]
  BY DEF IInv, NothingTold, FreshDecoder, SetupDevice
<1>2. actual' = [k \in Applied |-> Initially(k)] /\ phase' = "up" /\ line' = 0
  BY DEF SetupDevice
<1>3. ASSUME NEW k \in Applied
      PROVE  /\ Initially(k) \in Int
             /\ k = "dec" => Supported(Initially(k))
             /\ Initially(k) = par[k] \/ (k = "dec" /\ ~Supported(par[k]))
  <2>1. par[k] \in Int /\ actual[k] = 0
    BY <1>1, KeysFacts DEF TypeOK
  <2>2. Supported(0)
    BY DEF Supported
  <2> QED
    BY <2>1, <2>2 DEF Initially
<1>4. actual' \in [Applied -> Int] /\ Supported(actual'["dec"])
  BY <1>2, <1>3, KeysFacts
<1>5. TypeOK'
  BY <1>1, <1>2, <1>4 DEF SetupDevice, TypeOK, bounds
<1>6. ShownIsActual'
  <2>1. \A k \in Applied : shown'[k] = None
    BY <1>1, KeysFacts DEF SetupDevice, Told
  <2> QED
    BY <2>1 DEF ShownIsActual
<1>7. ParametersApply'
  BY <1>2, <1>3 DEF ParametersApply, SetupDevice
<1> QED
  BY <1>2, <1>5, <1>6, <1>7 DEF IInv, AtEnd, NothingTold, FreshDecoder

LEMMA CommandIInv ==
  ASSUME IInv, NEW k \in Commands, NEW v \in Values[k], Command(k, v)
  PROVE  IInv'
<1>1. TypeOK /\ AtEnd /\ ParametersApply /\ ShownIsActual /\ phase = "up" /\ Set(k, v) /\ v \in Int
  BY ValuesAssumption DEF IInv, Command
<1>2. /\ par' \in [Keys -> Int] /\ par'["datasize"] \in {1, 2, 4}
      /\ actual' \in [Applied -> Int] /\ Supported(actual'["dec"])
  BY <1>1, SetKeepsTypes
<1>3. ASSUME NEW j \in Commands PROVE EchoParameter(j) \in Int
  <2>1. (IF j = "datasize" THEN par'[j] ELSE actual'[j]) \in Int
    BY <1>2, KeysFacts
  <2> QED
    BY <2>1 DEF EchoParameter, EchoesActual, Echoed
<1>4. shown' \in [Commands -> Int \cup {None}]
  BY <1>1, <1>3 DEF Command, TypeOK
<1>5. dumped' \in [Keys -> SUBSET Int]
  BY <1>1, <1>2 DEF Command, TypeOK
<1>6. commands' \in 0 .. MaxCommands
  BY <1>1, BoundAssumption DEF Command, TypeOK
<1>7. params' \in [Keys -> Int]
  BY <1>2 DEF Command
<1>8. UNCHANGED <<file, phase, line, decoding, plugged, kills>>
  BY DEF Command
<1>9. TypeOK'
  BY <1>1, <1>2, <1>4, <1>5, <1>6, <1>7, <1>8 DEF TypeOK
<1>10. ParametersApply'
  <2>1. \A j \in Applied : actual'[j] = par'[j] \/ (j = "dec" /\ ~Supported(par'[j]))
    BY <1>1, SetApplies
  <2> QED
    BY <2>1 DEF ParametersApply
<1>11. ShownIsActual'
  <2>1. ASSUME NEW j \in Applied, shown'[j] # None PROVE shown'[j] = Echoed(j, actual'[j])
    <3>1. j \in Commands /\ j # "datasize"
      BY KeysFacts
    <3>2. EchoParameter(j) = Echoed(j, actual'[j])
      BY <3>1 DEF EchoParameter, EchoesActual
    <3>3. shown'[j] = IF j = k \/ params # par' THEN EchoParameter(j) ELSE shown[j]
      BY <3>1 DEF Command
    <3>4. CASE j = k \/ params # par'
      BY <3>2, <3>3, <3>4
    <3>5. CASE ~(j = k \/ params # par')
      <4>1. shown'[j] = shown[j]
        BY <3>3, <3>5
      <4>2. actual'[j] = actual[j]
        BY <1>1, <3>5, SetApplies
      <4> QED
        BY <1>1, <2>1, <4>1, <4>2 DEF ShownIsActual
    <3> QED
      BY <3>4, <3>5
  <2> QED
    BY <2>1 DEF ShownIsActual
<1> QED
  BY <1>1, <1>8, <1>9, <1>10, <1>11 DEF IInv, AtEnd, NothingTold, FreshDecoder

LEMMA NextIInv == IInv /\ [Next]_vars => IInv'
<1> SUFFICES ASSUME IInv, [Next]_vars PROVE IInv'
  OBVIOUS
<1>1. CASE Start
  BY <1>1, StartIInv
<1>2. CASE DumpLine
  BY <1>2, DumpLineIInv
<1>3. CASE SetupDevice
  BY <1>3, SetupDeviceIInv
<1>4. CASE NoDevice
  BY <1>4 DEF IInv, NoDevice, process, bounds, TypeOK, AtEnd, NothingTold, FreshDecoder,
              ShownIsActual, ParametersApply
<1>5. CASE Plug
  BY <1>5, OutOfDump DEF IInv, Plug, process, TypeOK, AtEnd
<1>6. CASE SentenceDecoded
  <2>1. TypeOK /\ line' = 1 /\ file' = <<>>
    BY <1>6 DEF IInv, SentenceDecoded, BeginDump
  <2>2. dumped' \in [Keys -> SUBSET Int]
    BY <1>6, <2>1 DEF SentenceDecoded, BeginDump, TypeOK
  <2>3. file' \in Seq(Int) /\ Len(file') = 0 /\ 1 \in 0 .. Len(Lines) /\ 0 <= Len(Lines)
    BY <2>1, LinesFacts
  <2>4. TypeOK'
    BY <1>6, <2>1, <2>2, <2>3 DEF SentenceDecoded, TypeOK, process, bounds
  <2>5. UNCHANGED <<phase, par, actual, shown>>
    BY <1>6 DEF SentenceDecoded, process
  <2> QED
    BY <2>1, <2>3, <2>4, <2>5, OutOfDump DEF IInv, AtEnd
<1>7. CASE \E k \in Commands : \E v \in Values[k] : Command(k, v)
  BY <1>7, CommandIInv
<1>8. CASE Kill
  <2>1. kills' \in 0 .. MaxKills /\ 0 \in 0 .. Len(Lines)
    BY <1>8, BoundAssumption, LinesFacts DEF IInv, Kill, TypeOK
  <2> QED
    BY <1>8, <2>1 DEF IInv, Kill, process, TypeOK, AtEnd, NothingTold, FreshDecoder,
                      ShownIsActual, ParametersApply
<1>9. CASE StartRejected \/ UNCHANGED vars
  BY <1>9, OutOfDump DEF StartRejected, IInv, vars, TypeOK, AtEnd
<1> QED
  BY <1>1, <1>2, <1>3, <1>4, <1>5, <1>6, <1>7, <1>8, <1>9 DEF Next

LEMMA Invariance == Spec => []IInv
BY InitIInv, NextIInv, PTL DEF Spec

(***************************************************************************)
(* Files, parameters and the decoder's factor are what they should be,     *)
(* whatever clients set and wherever the program is killed: the decoder    *)
(* never runs with a factor it has no filters for.                         *)
(***************************************************************************)
THEOREM TypeCorrect == Spec => []TypeOK
<1>1. IInv => TypeOK
  BY DEF IInv
<1> QED
  BY <1>1, Invariance, PTL

(***************************************************************************)
(* Clients are told what receiver and decoder are really set to, after any *)
(* number of commands and restarts.                                        *)
(***************************************************************************)
THEOREM ShownActual == Spec => []ShownIsActual
<1>1. IInv => ShownIsActual
  BY DEF IInv
<1> QED
  BY <1>1, Invariance, PTL

(***************************************************************************)
(* Receiver and decoder follow par_, which is what the options file saves, *)
(* except for a factor that the decoder refuses.                           *)
(***************************************************************************)
THEOREM Apply == Spec => []ParametersApply
<1>1. IInv => ParametersApply
  BY DEF IInv
<1> QED
  BY <1>1, Invariance, PTL

-----------------------------------------------------------------------------
\* What is being dumped is in the history, and so is what has been written.
InHistory ==
    /\ line > 0 => \A k \in Keys : par[k] \in dumped[k]
    /\ Dumped => \A n \in 1 .. Len(file) :
           \E v \in dumped[Lines[n]] : file[n] \in Written(Lines[n], v)

LEMMA BeginDumpInHistory ==
  ASSUME BeginDump(par'), par' \in [Keys -> Int]
  PROVE  InHistory'
<1>1. file' = <<>> /\ line' = 1 /\ dumped' = [k \in Keys |-> {par'[k]}]
  BY DEF BeginDump
<1>2. 1 .. Len(file') = {}
  BY <1>1
<1> QED
  BY <1>1, <1>2 DEF InHistory

LEMMA DumpLineInHistory == IInv /\ InHistory /\ DumpLine => InHistory'
<1> SUFFICES ASSUME IInv, InHistory, DumpLine PROVE InHistory'
  OBVIOUS
<1>1. /\ file \in Seq(Int) /\ line \in 1 .. 10 /\ line = Len(file) + 1
      /\ par' = par /\ dumped' = dumped
  BY LinesFacts DEF IInv, TypeOK, AtEnd, DumpLine
<1>2. \A k \in Keys : par[k] \in dumped[k]
  BY <1>1 DEF InHistory
<1>3. PICK w \in Written(Lines[line], par[Lines[line]]) : file' = Append(file, w)
  BY DEF DumpLine
<1>4. Lines[line] \in Keys /\ w \in Int
  <2>1. Lines[line] \in Keys
    BY <1>1, LinesFacts
  <2>2. par[Lines[line]] \in Int
    BY <2>1 DEF IInv, TypeOK
  <2> QED
    BY <2>1, <2>2, WrittenIsNear
<1>5. ASSUME Dumped, NEW n \in 1 .. Len(file')
      PROVE  \E v \in dumped[Lines[n]] : file'[n] \in Written(Lines[n], v)
  <2>1. CASE n = line
    <3>1. file'[n] = w
      BY <1>1, <1>3, <1>4, <2>1
    <3> QED
      BY <1>2, <1>3, <1>4, <2>1, <3>1
  <2>2. CASE n # line
    <3>1. n \in 1 .. Len(file)
      BY <1>1, <1>3, <1>4, <2>2
    <3>2. file'[n] = file[n]
      BY <1>1, <1>3, <1>4, <3>1
    <3> QED
      BY <1>5, <3>1, <3>2 DEF InHistory
  <2> QED
    BY <2>1, <2>2
<1>6. Dumped' => Dumped
  BY <1>1 DEF Dumped
<1> QED
  BY <1>1, <1>2, <1>5, <1>6 DEF InHistory

LEMMA CommandInHistory ==
  ASSUME IInv, InHistory, NEW k \in Commands, NEW v \in Values[k], Command(k, v)
  PROVE  InHistory'
<1>1. UNCHANGED <<file, line>> /\ line \in Nat /\ dumped \in [Keys -> SUBSET Int]
  <2>1. TypeOK
    BY DEF IInv
  <2>2. line \in 0 .. 10
    BY <2>1, LinesFacts DEF TypeOK
  <2> QED
    BY <2>1, <2>2 DEF Command, TypeOK
<1>2. file \in Seq(Int) /\ Len(file) <= 10
  BY LinesFacts DEF IInv, TypeOK
<1>3. CASE line = 0
  <2>1. dumped' = dumped
    BY <1>3 DEF Command
  <2> QED
    BY <1>1, <1>3, <2>1 DEF InHistory, Dumped
<1>4. CASE line # 0
  <2>1. dumped' = [j \in Keys |-> dumped[j] \cup {par'[j]}]
    BY <1>4 DEF Command
  <2>2. \A j \in Keys : par[j] \in dumped[j]
    BY <1>1, <1>4 DEF InHistory
  <2>3. Dumped
    BY <2>2, KeysFacts DEF Dumped, Applied
  <2>4. ASSUME NEW n \in 1 .. Len(file)
        PROVE  \E x \in dumped'[Lines[n]] : file[n] \in Written(Lines[n], x)
    <3>1. Lines[n] \in Keys
      BY <1>2, LinesFacts
    <3>2. PICK x \in dumped[Lines[n]] : file[n] \in Written(Lines[n], x)
      BY <2>3 DEF InHistory
    <3>3. x \in dumped'[Lines[n]]
      BY <2>1, <3>1
    <3> QED
      BY <3>2, <3>3
  <2>5. \A j \in Keys : par'[j] \in dumped'[j]
    BY <2>1
  <2> QED
    BY <1>1, <2>4, <2>5 DEF InHistory
<1> QED
  BY <1>3, <1>4

LEMMA NextInHistory == IInv /\ InHistory /\ [Next]_vars => InHistory'
<1> SUFFICES ASSUME IInv, InHistory, [Next]_vars PROVE InHistory'
  OBVIOUS
<1>1. CASE Start
  <2>1. par' \in [Keys -> Int]
    BY <1>1, OptionsAreParameters DEF Start, IInv, TypeOK
  <2> QED
    BY <1>1, <2>1, BeginDumpInHistory DEF Start
<1>2. CASE DumpLine
  BY <1>2, DumpLineInHistory
<1>3. CASE SentenceDecoded
  <2>1. BeginDump(par') /\ par' \in [Keys -> Int]
    BY <1>3 DEF SentenceDecoded, IInv, TypeOK
  <2> QED
    BY <2>1, BeginDumpInHistory
<1>4. CASE \E k \in Commands : \E v \in Values[k] : Command(k, v)
  BY <1>4, CommandInHistory
<1>5. CASE Kill
  BY <1>5 DEF Kill, InHistory, Dumped
<1>6. CASE SetupDevice \/ NoDevice \/ Plug \/ StartRejected \/ UNCHANGED vars
  <2>1. UNCHANGED <<file, line, par, dumped>>
    BY <1>6 DEF SetupDevice, NoDevice, Plug, StartRejected, vars
  <2> QED
    BY <2>1 DEF InHistory, Dumped
<1> QED
  BY <1>1, <1>2, <1>3, <1>4, <1>5, <1>6 DEF Next

LEMMA InitInHistory == Init => InHistory
<1> SUFFICES ASSUME Init PROVE InHistory
  OBVIOUS
<1>1. "freq" \in Keys
  BY KeysFacts DEF Applied
<1>2. line = 0 /\ dumped["freq"] = {}
  BY <1>1 DEF Init
<1> QED
  BY <1>2 DEF InHistory, Dumped

\* What is read of what was written of a value restores it.
LEMMA ReadRestores ==
  ASSUME NEW k, NEW v \in Int, NEW w \in Written(k, v)
  PROVE  Restored(k, v, AsRead(k, w))
<1>1. CASE k = "freq"
  <2>1. w = v
    BY <1>1, WrittenIsNear
  <2>2. v % Precision \in 0 .. Precision - 1
    BY PrecisionAssumption
  <2>3. v - (v % Precision) \in v - Precision + 1 .. v
    BY <2>2, PrecisionAssumption
  <2> QED
    BY <1>1, <2>1, <2>3 DEF AsRead, Restored
<1>2. CASE k # "freq"
  <2>1. AsRead(k, w) = w
    BY <1>2 DEF AsRead
  <2> QED
    BY <1>2, <2>1, WrittenIsNear DEF Restored
<1> QED
  BY <1>1, <1>2

LEMMA StepRestores ==
  ASSUME IInv, InHistory, [Next]_vars,
         Restart, Len(file) = Len(Lines), Dumped, Acceptable, NEW k \in Range(Lines)
  PROVE  \E v \in dumped[k] : Restored(k, v, par'[k])
<1>1. Start
  BY DEF Next, vars, process, bounds, Restart, Start, StartRejected, DumpLine, SetupDevice,
         NoDevice, Plug, SentenceDecoded, Command, Kill
<1>2. par' = Options(file) /\ Len(file) = 10
  BY <1>1, LinesFacts DEF Start
<1>3. ASSUME NEW j \in Range(Lines)
      PROVE  Has(file, j) /\ \E v \in dumped[j] : Value(file, j) \in Written(j, v)
  <2>1. Line(j) \in 1 .. Len(file) /\ Lines[Line(j)] = j
    BY <1>2, LinesFacts
  <2>2. \E v \in dumped[j] : file[Line(j)] \in Written(j, v)
    BY <2>1 DEF InHistory
  <2> QED
    BY <2>1, <2>2 DEF Has, Value
<1>4. \A j \in Range(Lines) : \A v \in dumped[j] : v \in Int
  BY DEF IInv, TypeOK, Keys
<1>5. Parses(file)
  <2>1. "gain" \in Range(Lines)
    BY KeysFacts DEF Keys, Applied
  <2>2. PICK v \in dumped["gain"] : Value(file, "gain") \in Written("gain", v)
    BY <1>3, <2>1
  <2>3. Value(file, "gain") = v
    BY <1>4, <2>1, <2>2, WrittenIsNear
  <2> QED
    BY <2>2, <2>3 DEF Parses, Acceptable
<1>6. par'[k] = AsRead(k, Value(file, k))
  BY <1>2, <1>3, <1>5 DEF Options, FromFile, In, Keys
<1>7. PICK v \in dumped[k] : Value(file, k) \in Written(k, v)
  BY <1>3
<1>8. Restored(k, v, AsRead(k, Value(file, k)))
  BY <1>4, <1>7, ReadRestores
<1> QED
  BY <1>6, <1>7, <1>8

(***************************************************************************)
(* The last run's file restores its parameters: whatever clients changed   *)
(* while the file was written, and wherever the program was killed after,  *)
(* each of them comes back with a value it had during that dump, and the   *)
(* station's position with six digits of it, which it then keeps           *)
(* (DumpToFile and prog_opts).                                             *)
(***************************************************************************)
THEOREM Restores == Spec => RestoresLastRun
<1>1. IInv /\ InHistory /\ [Next]_vars =>
        [Restart /\ Len(file) = Len(Lines) /\ Dumped /\ Acceptable =>
           \A k \in Range(Lines) : \E v \in dumped[k] : Restored(k, v, par'[k])]_vars
  BY StepRestores
<1> QED
  BY <1>1, Invariance, InitInHistory, NextInHistory, PTL DEF Spec, RestoresLastRun
=============================================================================
