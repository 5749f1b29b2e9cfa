------------------------------- MODULE Tuning -------------------------------
(***************************************************************************)
(* The frequency of the receiver, which two threads change without a lock. *)
(*   io       handles the clients' requests: set:frequency, set:afc, get:, *)
(*            and at the end of every request sends all parameters to all  *)
(*            clients "if they changed".                                   *)
(*   decoder  calls process() and then, every 5 s or later, applies the    *)
(*            frequency correction that the AFC has found.                 *)
(* par_.frequency_ += freq_corr is a load and a store, and the device is   *)
(* set from a second load.  What the AFC measures is an input here: any    *)
(* member of Corrections.  A load or a store of a double is one step on    *)
(* the platforms habdec is built for.                                      *)
(*   The names are none of Pipeline's, what the same two threads do to the *)
(* samples.                                                                *)
(***************************************************************************)
EXTENDS Integers

CONSTANTS Frequencies,    \* the frequencies clients ask for
          Corrections,    \* what the AFC may measure
          Threshold,      \* corrections up to this one are not applied
          MaxCorrections, \* bound: corrections applied in a behaviour
          None            \* no frequency has been sent to the clients

ASSUME FrequenciesAssumption == Frequencies \subseteq Int /\ Frequencies # {}
ASSUME CorrectionsAssumption == Corrections \subseteq Int
ASSUME ThresholdAssumption == Threshold \in Nat
ASSUME MaxCorrectionsAssumption == MaxCorrections \in Nat
ASSUME NoneAssumption == None \notin Int

Parameters == [frequency : Int, afc : BOOLEAN]

VARIABLES
    device,      \* the frequency the receiver is tuned to
    par,         \* par_: frequency_ and afc_
    params,      \* params: the parameters the clients have been sent
    shown,       \* the frequency the clients show
    handling,    \* where HandleRequest is
    asked,       \* the frequency it sets, None in other requests
    tuning,      \* where the decoder thread is
    correction,  \* freq_corr
    frequency,   \* the value the decoder thread has loaded
    corrections, \* corrections applied so far
    overlap      \* history: a request and a correction have overlapped since
                 \* the last set:frequency that no correction overlapped

tuningVars == <<device, par, params, shown, handling, asked, tuning, correction,
                frequency, corrections, overlap>>

tuner   == <<tuning, correction, frequency>>
handler == <<handling, asked>>

\* main() sets the device to the option before any thread runs.  The io
\* thread starts with a default-constructed copy of the parameters.
TuningInit ==
    /\ par \in [frequency : Frequencies, afc : BOOLEAN]
    /\ device = par.frequency
    /\ params \in [frequency : Frequencies, afc : {FALSE}]
    /\ shown = None
    /\ handling = "idle" /\ asked = None
    /\ tuning = "process" /\ correction = 0 /\ frequency = 0
    /\ corrections = 0
    /\ overlap = FALSE

-----------------------------------------------------------------------------
\* A request arrives.
Begin == handling = "idle" /\ UNCHANGED corrections

\* Only a set:frequency with the decoder thread outside of its AFC makes a
\* fresh start.
SetFrequency ==
    /\ Begin
    /\ asked' \in Frequencies
    /\ handling' = "device"
    /\ overlap' = (tuning # "process")
    /\ UNCHANGED <<device, par, params, shown, tuner>>

SetAfc ==
    /\ Begin
    /\ \E on \in BOOLEAN : par' = [par EXCEPT !.afc = on]
    /\ asked' = None
    /\ handling' = "compare"
    /\ overlap' = (overlap \/ tuning # "process")
    /\ UNCHANGED <<device, params, shown, tuner>>

\* get:frequency, or any request that is not about the frequency.
OtherRequest ==
    /\ Begin
    /\ asked' = None
    /\ handling' \in {"echo", "compare"}
    /\ overlap' = (overlap \/ tuning # "process")
    /\ UNCHANGED <<device, par, params, shown, tuner>>

\* set:frequency sets the device, then the parameter, then echoes.
SetDevice ==
    /\ handling = "device"
    /\ device' = asked
    /\ handling' = "par"
    /\ UNCHANGED <<par, params, shown, asked, tuner, corrections, overlap>>

SetPar ==
    /\ handling = "par"
    /\ par' = [par EXCEPT !.frequency = asked]
    /\ handling' = "echo"
    /\ UNCHANGED <<device, params, shown, asked, tuner, corrections, overlap>>

\* EchoParameter asks the device.
EchoesParams == params.frequency
EchoedFrequency == device

Echo ==
    /\ handling = "echo"
    /\ shown' = EchoedFrequency
    /\ handling' = "compare"
    /\ UNCHANGED <<device, par, params, asked, tuner, corrections, overlap>>

\* Do the parameters differ from those that were sent?
ChangedAfc == params.afc # par.afc
Changed == params # par

Compare ==
    /\ handling = "compare"
    /\ handling' = IF Changed THEN "echo_all" ELSE "idle"
    /\ UNCHANGED <<device, par, params, shown, asked, tuner, corrections, overlap>>

EchoAll ==
    /\ handling = "echo_all"
    /\ shown' = EchoedFrequency
    /\ handling' = "remember"
    /\ UNCHANGED <<device, par, params, asked, tuner, corrections, overlap>>

Remember ==
    /\ handling = "remember"
    /\ params' = par
    /\ handling' = "idle"
    /\ UNCHANGED <<device, par, shown, asked, tuner, corrections, overlap>>

-----------------------------------------------------------------------------
\* A correction is applied when the AFC is on and it is large enough.
Applies(c) == par.afc /\ (c > Threshold \/ -c > Threshold)

\* process() has run and the 5 s are over: the correction is looked at.
ReadCorrection ==
    /\ tuning = "process" /\ corrections < MaxCorrections
    /\ correction' \in Corrections
    /\ Applies(correction')
    /\ corrections' = corrections + 1
    /\ tuning' = "load"
    /\ overlap' = (overlap \/ handling # "idle")
    /\ UNCHANGED <<device, par, params, shown, handler, frequency>>

Load ==
    /\ tuning = "load"
    /\ frequency' = par.frequency
    /\ tuning' = "store"
    /\ UNCHANGED <<device, par, params, shown, handler, correction, corrections, overlap>>

Store ==
    /\ tuning = "store"
    /\ par' = [par EXCEPT !.frequency = frequency + correction]
    /\ tuning' = "reload"
    /\ UNCHANGED <<device, params, shown, handler, correction, frequency, corrections, overlap>>

TunesUncorrected == frequency
Reloaded == par.frequency

Reload ==
    /\ tuning = "reload"
    /\ frequency' = Reloaded
    /\ tuning' = "tune"
    /\ UNCHANGED <<device, par, params, shown, handler, correction, corrections, overlap>>

Tune ==
    /\ tuning = "tune"
    /\ device' = frequency
    /\ correction' = 0
    /\ tuning' = "process"
    /\ UNCHANGED <<par, params, shown, handler, frequency, corrections, overlap>>

Request ==
    \/ SetFrequency \/ SetAfc \/ OtherRequest
    \/ SetDevice \/ SetPar \/ Echo \/ Compare \/ EchoAll \/ Remember

Afc == ReadCorrection \/ Load \/ Store \/ Reload \/ Tune

TuningNext == Request \/ Afc

TuningSpec == TuningInit /\ [][TuningNext]_tuningVars

-----------------------------------------------------------------------------
TuningTypeOK ==
    /\ device \in Int
    /\ par \in Parameters /\ params \in Parameters
    /\ shown \in Int \cup {None}
    /\ handling \in {"idle", "device", "par", "echo", "compare", "echo_all", "remember"}
    /\ asked \in Frequencies \cup {None}
    /\ handling \in {"device", "par"} => asked # None
    /\ tuning \in {"process", "load", "store", "reload", "tune"}
    /\ correction \in Int /\ frequency \in Int
    /\ tuning # "process" => correction > Threshold \/ -correction > Threshold
    /\ corrections \in 0 .. MaxCorrections
    /\ overlap \in BOOLEAN

Quiet == handling = "idle" /\ tuning = "process"

(***************************************************************************)
(* Between requests and corrections the parameter is the frequency of the  *)
(* device and, unless the next request is going to send the parameters,    *)
(* the clients show it, provided that no correction has overlapped a       *)
(* request since the last undisturbed set:frequency: the missing lock is   *)
(* the only thing that can take the four apart, and one undisturbed        *)
(* command brings them together again.                                     *)
(***************************************************************************)
AgreeUnlessOverlapped ==
    Quiet /\ ~overlap =>
        /\ par.frequency = device
        /\ Changed \/ shown = None \/ shown = device

(***************************************************************************)
(* A set:frequency that no correction overlaps ends with the device tuned, *)
(* the parameter set and the clients shown what was asked for.             *)
(***************************************************************************)
CommandPrevails ==
    [][ handling # "idle" /\ handling' = "idle" /\ asked # None /\ ~overlap =>
          device = asked /\ par.frequency = asked /\ shown = asked ]_tuningVars
=============================================================================
