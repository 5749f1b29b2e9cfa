----------------------------- MODULE WebClient -----------------------------
(***************************************************************************)
(* The web page's connection to the server and its refresh loops.  A page  *)
(* runs one handler at a time.  The handlers belong to all sockets alike:  *)
(* they look at G_HD_CONNECTED and G_HD_WEBSOCKET, whichever socket they   *)
(* were called for.  Nothing ever cancels a timer.                         *)
(*                                                                         *)
(* Time goes in ticks of a second; a timer whose time has come fires       *)
(* before the next tick.                                                   *)
(***************************************************************************)
EXTENDS Integers, FiniteSets

CONSTANTS
    Sockets,        \* WebSocket objects, used again when nothing refers to them
    None,
    Loops,          \* RefreshPowerSpectrum, RefreshDemod, RefreshStats
    Period,         \* how long each loop waits
    Waiting,        \* the loops that wait for an answer to the last request
    Delay,          \* how long a reconnect waits
    MaxClicks,      \* bound: how often the user presses "Connect"
    MaxFaults,      \* bound: connections refused or lost
    MaxLoops        \* bound: loops of a kind due at one time, more are one

ASSUME SocketsAssumption == IsFiniteSet(Sockets) /\ None \notin Sockets
ASSUME TimeAssumption ==
    /\ Delay \in Nat \ {0} /\ Period \in [Loops -> Nat \ {0}]
    /\ \A k \in Loops : Period[k] < Delay
ASSUME BoundsAssumption ==
    MaxClicks \in Nat /\ MaxFaults \in Nat /\ MaxLoops \in Nat \ {0} /\ Waiting \subseteq Loops

VARIABLES
    connected,      \* G_HD_CONNECTED
    current,        \* G_HD_WEBSOCKET
    sock,           \* readyState of each socket
    reconnects,     \* how many timers call OpenConnection in so many ticks
    loops,          \* how many timers call each loop in so many ticks
    clicks, faults

vars == <<connected, current, sock, reconnects, loops, clicks, faults>>

Ticks == 0 .. Delay

\* habdec_init() sets the first timer.
Init ==
    /\ connected = FALSE /\ current = None
    /\ sock = [s \in Sockets |-> "closed"]
    /\ reconnects = [d \in Ticks |-> IF d = 0 THEN 1 ELSE 0]
    /\ loops = [k \in Loops |-> [d \in Ticks |-> 0]]
    /\ clicks = 0 /\ faults = 0

-----------------------------------------------------------------------------
Is(s, state) == s \in Sockets /\ sock[s] = state

\* One more and one less timer due in d ticks.
More(timers, d) == [timers EXCEPT ![d] = @ + 1]
Less(timers, d) == [timers EXCEPT ![d] = @ - 1]
MoreLoops(timers, d) == [timers EXCEPT ![d] = IF @ < MaxLoops THEN @ + 1 ELSE @]

\* Not: reconnect at once.
AtOnce == 1

ReconnectIn == Delay

Free == {s \in Sockets : sock[s] = "closed" /\ s # current}

OpenConnection ==
    \E s \in Free :
        /\ sock' = [t \in Sockets |->
                       IF t = s THEN "connecting"
                       ELSE IF t = current /\ connected /\ sock[t] # "closed" THEN "closing"
                       ELSE sock[t]]
        /\ current' = s
        /\ UNCHANGED connected

Reconnect ==
    /\ reconnects[0] > 0
    /\ reconnects' = Less(reconnects, 0)
    /\ OpenConnection
    /\ UNCHANGED <<loops, clicks, faults>>

Click ==
    /\ clicks < MaxClicks /\ clicks' = clicks + 1
    /\ OpenConnection
    /\ UNCHANGED <<reconnects, loops, faults>>

\* ws_onOpen: to send through a socket that is not open yet throws, and the
\* loops do not begin.
CanSend(s) == ~Is(s, "connecting")

\* Not: the loops are begun with the first connection only.
BegunOnce(timers, k) == IF clicks + faults = 0 THEN MoreLoops(timers, Period[k]) ELSE timers

Begun(timers, k) == MoreLoops(timers, Period[k])

OnOpen(s) ==
    /\ sock[s] = "connecting"
    /\ sock' = [sock EXCEPT ![s] = "open"]
    /\ connected' = TRUE
    /\ loops' = IF current = s \/ CanSend(current)
                THEN [k \in Loops |-> Begun(loops[k], k)] ELSE loops
    /\ UNCHANGED <<current, reconnects, clicks, faults>>

\* ws_onClose, for whatever reason.
\* Not: the error event sets a timer too; or only a lost connection is tried again.
AlsoOnError(s) == [reconnects EXCEPT ![Delay] = @ + IF sock[s] = "connecting" THEN 2 ELSE 1]
OnlyIfConnected(s) == IF connected THEN More(reconnects, ReconnectIn) ELSE reconnects

ReconnectAfter(s) == More(reconnects, ReconnectIn)

OnClose(s) ==
    /\ sock' = [sock EXCEPT ![s] = "closed"]
    /\ connected' = FALSE
    /\ reconnects' = ReconnectAfter(s)
    /\ UNCHANGED <<current, loops, clicks>>

Closed(s) ==
    /\ sock[s] = "closing"
    /\ OnClose(s)
    /\ UNCHANGED faults

\* Refused, or closed by the server or the network.
Lost(s) ==
    /\ sock[s] \in {"connecting", "open"}
    /\ faults < MaxFaults /\ faults' = faults + 1
    /\ OnClose(s)

\* A loop's timer: RefreshPowerSpectrum, RefreshDemod, RefreshStats.
Stops(k) == loops' = [loops EXCEPT ![k] = Less(@, 0)]
GoesOn(k) == loops' = [loops EXCEPT ![k] = MoreLoops(Less(@, 0), Period[k])]

Refresh(k) ==
    /\ loops[k][0] > 0
    /\ \/ ~connected /\ Stops(k)
       \/ connected /\ k \in Waiting /\ GoesOn(k)
       \/ connected /\ CanSend(current) /\ GoesOn(k)
       \/ connected /\ ~CanSend(current) /\ Stops(k)
    /\ UNCHANGED <<connected, current, sock, reconnects, clicks, faults>>

Later(timers) == [d \in Ticks |-> IF d = Delay THEN 0 ELSE timers[d + 1]]

Tick ==
    /\ reconnects[0] = 0 /\ \A k \in Loops : loops[k][0] = 0
    /\ reconnects' = Later(reconnects)
    /\ loops' = [k \in Loops |-> Later(loops[k])]
    /\ UNCHANGED <<connected, current, sock, clicks, faults>>

Next ==
    \/ Reconnect \/ Click \/ Tick
    \/ \E s \in Sockets : OnOpen(s) \/ Closed(s) \/ Lost(s)
    \/ \E k \in Loops : Refresh(k)

\* Timers fire, and the server answers or the browser gives up.
Fairness ==
    /\ WF_vars(Reconnect) /\ WF_vars(Tick)
    /\ \A s \in Sockets : WF_vars(OnOpen(s)) /\ WF_vars(Closed(s))
    /\ \A k \in Loops : WF_vars(Refresh(k))

Spec == Init /\ [][Next]_vars /\ Fairness

-----------------------------------------------------------------------------
TypeOK ==
    /\ connected \in BOOLEAN
    /\ current \in Sockets \union {None}
    /\ sock \in [Sockets -> {"closed", "connecting", "open", "closing"}]
    /\ reconnects \in [Ticks -> Nat]
    /\ loops \in [Loops -> [Ticks -> 0 .. MaxLoops]]
    /\ clicks \in 0 .. MaxClicks /\ faults \in 0 .. MaxFaults

Alive == {s \in Sockets : sock[s] # "closed"}
Total[d \in Ticks] == reconnects[d] + IF d = 0 THEN 0 ELSE Total[d - 1]

(***************************************************************************)
(* Every socket that is not closed and every armed timer comes from the    *)
(* first connection or from a click of its own: the page never gives up    *)
(* reconnecting, and never begins more than it was told to.  (So a click   *)
(* on a connected page leaves it with a second connection for good, or     *)
(* with a timer that closes the first one again and again.)                *)
(***************************************************************************)
OneForEachClick == Cardinality(Alive) + Total[Delay] = 1 + clicks

Live == connected /\ Is(current, "open")

Running(k) == {d \in Ticks : loops[k][d] > 0}

(***************************************************************************)
(* A page that is connected refreshes its displays: whatever connections   *)
(* came and went, in whatever order their events arrived, each loop has a  *)
(* timer.                                                                  *)
(***************************************************************************)
RefreshRuns == Live => \A k \in Loops : Running(k) # {}

(***************************************************************************)
(* Who never presses "Connect" has one loop of each kind, also after many  *)
(* reconnects, and the flag says whether the socket is open.               *)
(***************************************************************************)
Undisturbed == clicks = 0 =>
    /\ connected <=> Is(current, "open")
    /\ \A k \in Loops : \A d \in Running(k) : Running(k) = {d} /\ loops[k][d] = 1

(***************************************************************************)
(* The page is connected again and again, however often the connection is  *)
(* lost and whatever the user clicks, once the server can be reached.      *)
(***************************************************************************)
AlwaysBack == []<>Live
=============================================================================
