--------------------------- MODULE WebClientProofs ---------------------------
(***************************************************************************)
(* Theorems about WebClient for any sockets, refresh loops and times, and  *)
(* any number of clicks and lost connections: types, that a connected page *)
(* refreshes, and that a page nobody clicks on is in order.                *)
(***************************************************************************)
EXTENDS WebClient, FiniteSetTheorems, WellFoundedInduction, TLAPS

-----------------------------------------------------------------------------
\* No timer, and one timer due in x ticks.
Zero == [d \in Ticks |-> 0]
One(x) == [d \in Ticks |-> IF d = x THEN 1 ELSE 0]

LEMMA TickFacts ==
    /\ Delay \in Nat /\ Delay >= 1 /\ 0 \in Ticks /\ Delay \in Ticks
    /\ MaxLoops \in Nat /\ MaxLoops >= 1
    /\ \A k \in Loops : Period[k] \in Ticks /\ Period[k] >= 1 /\ Period[k] < Delay
    /\ None \notin Sockets
<1>1. \A k \in Loops : Period[k] \in Nat \ {0} /\ Period[k] < Delay
  BY TimeAssumption
<1> QED
  BY <1>1, TimeAssumption, BoundsAssumption, SocketsAssumption DEF Ticks

LEMMA ReconnectTimers ==
    ASSUME NEW t \in [Ticks -> Nat], NEW d \in Ticks
    PROVE  /\ More(t, d) \in [Ticks -> Nat]
           /\ t[d] > 0 => Less(t, d) \in [Ticks -> Nat]
           /\ Later(t) \in [Ticks -> Nat]
<1>1. More(t, d) \in [Ticks -> Nat]
  BY DEF More
<1>2. t[d] > 0 => Less(t, d) \in [Ticks -> Nat]
  BY DEF Less
<1>3. \A e \in Ticks : e # Delay => e + 1 \in Ticks
  BY TickFacts DEF Ticks
<1>4. Later(t) \in [Ticks -> Nat]
  BY <1>3 DEF Later
<1> QED
  BY <1>1, <1>2, <1>4

LEMMA LoopTimers ==
    ASSUME NEW t \in [Ticks -> 0 .. MaxLoops], NEW d \in Ticks
    PROVE  /\ MoreLoops(t, d) \in [Ticks -> 0 .. MaxLoops] /\ MoreLoops(t, d)[d] > 0
           /\ t[d] > 0 => Less(t, d) \in [Ticks -> 0 .. MaxLoops]
           /\ Later(t) \in [Ticks -> 0 .. MaxLoops]
<1>1. t[d] \in 0 .. MaxLoops /\ MaxLoops \in Nat /\ MaxLoops >= 1
  BY TickFacts
<1>2. MoreLoops(t, d) \in [Ticks -> 0 .. MaxLoops] /\ MoreLoops(t, d)[d] > 0
  BY <1>1 DEF MoreLoops
<1>3. t[d] > 0 => Less(t, d) \in [Ticks -> 0 .. MaxLoops]
  BY <1>1 DEF Less
<1>4. \A e \in Ticks : e # Delay => e + 1 \in Ticks
  BY TickFacts DEF Ticks
<1>5. Later(t) \in [Ticks -> 0 .. MaxLoops]
  BY <1>1, <1>4 DEF Later
<1> QED
  BY <1>2, <1>3, <1>5

-----------------------------------------------------------------------------
(***************************************************************************)
(* Types.                                                                  *)
(***************************************************************************)
LEMMA TypeInit == Init => TypeOK
<1> SUFFICES ASSUME Init PROVE TypeOK
  OBVIOUS
<1>1. reconnects \in [Ticks -> Nat] /\ loops \in [Loops -> [Ticks -> 0 .. MaxLoops]]
  BY TickFacts DEF Init
<1>2. clicks \in 0 .. MaxClicks /\ faults \in 0 .. MaxFaults
  BY BoundsAssumption DEF Init
<1>3. sock \in [Sockets -> {"closed", "connecting", "open", "closing"}]
  BY DEF Init
<1>4. connected \in BOOLEAN /\ current \in Sockets \union {None}
  BY DEF Init
<1> QED
  BY <1>1, <1>2, <1>3, <1>4 DEF TypeOK

LEMMA OpenTypes ==
    ASSUME TypeOK, OpenConnection
    PROVE  /\ sock' \in [Sockets -> {"closed", "connecting", "open", "closing"}]
           /\ current' \in Sockets /\ connected' = connected
           /\ sock'[current'] = "connecting"
<1>1. PICK s \in Sockets :
          /\ sock' = [t \in Sockets |->
                         IF t = s THEN "connecting"
                         ELSE IF t = current /\ connected /\ sock[t] # "closed" THEN "closing"
                         ELSE sock[t]]
          /\ current' = s
          /\ UNCHANGED connected
  BY DEF OpenConnection, Free
<1> QED
  BY <1>1 DEF TypeOK

\* Where a loop's timer leaves it.
LEMMA RefreshTypes ==
    ASSUME TypeOK, NEW k \in Loops, Refresh(k)
    PROVE  loops' \in [Loops -> [Ticks -> 0 .. MaxLoops]]
<1>1. loops[k] \in [Ticks -> 0 .. MaxLoops] /\ 0 \in Ticks /\ loops[k][0] > 0
  BY TickFacts DEF TypeOK, Refresh
<1>2. Less(loops[k], 0) \in [Ticks -> 0 .. MaxLoops]
  BY <1>1, LoopTimers
<1>3. MoreLoops(Less(loops[k], 0), Period[k]) \in [Ticks -> 0 .. MaxLoops]
  BY <1>2, LoopTimers, TickFacts
<1>4. \/ loops' = [loops EXCEPT ![k] = Less(loops[k], 0)]
      \/ loops' = [loops EXCEPT ![k] = MoreLoops(Less(loops[k], 0), Period[k])]
  BY DEF Refresh, Stops, GoesOn
<1> QED
  BY <1>2, <1>3, <1>4 DEF TypeOK

LEMMA TypeStep ==
    ASSUME TypeOK, [Next]_vars
    PROVE  TypeOK'
<1>1. CASE Reconnect
  <2>1. reconnects' \in [Ticks -> Nat]
    BY <1>1, TickFacts, ReconnectTimers DEF Reconnect, TypeOK
  <2> QED
    BY <1>1, <2>1, OpenTypes DEF Reconnect, TypeOK
<1>2. CASE Click
  <2>1. clicks' \in 0 .. MaxClicks
    BY <1>2, BoundsAssumption DEF Click, TypeOK
  <2> QED
    BY <1>2, <2>1, OpenTypes DEF Click, TypeOK
<1>3. CASE Tick
  <2>1. reconnects' \in [Ticks -> Nat]
    BY <1>3, TickFacts, ReconnectTimers DEF Tick, TypeOK
  <2>2. \A k \in Loops : Later(loops[k]) \in [Ticks -> 0 .. MaxLoops]
    BY TickFacts, LoopTimers DEF TypeOK
  <2>3. loops' \in [Loops -> [Ticks -> 0 .. MaxLoops]]
    BY <1>3, <2>2 DEF Tick
  <2> QED
    BY <1>3, <2>1, <2>3 DEF Tick, TypeOK
<1>4. ASSUME NEW s \in Sockets, OnOpen(s) PROVE TypeOK'
  <2>1. \A k \in Loops : Begun(loops[k], k) \in [Ticks -> 0 .. MaxLoops]
    BY TickFacts, LoopTimers DEF TypeOK, Begun
  <2>2. loops' \in [Loops -> [Ticks -> 0 .. MaxLoops]]
    BY <1>4, <2>1 DEF OnOpen, TypeOK
  <2> QED
    BY <1>4, <2>2 DEF OnOpen, TypeOK
<1>5. ASSUME NEW s \in Sockets, OnClose(s), faults' \in 0 .. MaxFaults PROVE TypeOK'
  <2>1. reconnects' \in [Ticks -> Nat]
    BY <1>5, TickFacts, ReconnectTimers DEF OnClose, ReconnectAfter, ReconnectIn, TypeOK
  <2> QED
    BY <1>5, <2>1 DEF OnClose, TypeOK
<1>6. ASSUME NEW s \in Sockets, Closed(s) PROVE TypeOK'
  BY <1>5, <1>6 DEF Closed, TypeOK
<1>7. ASSUME NEW s \in Sockets, Lost(s) PROVE TypeOK'
  <2>1. faults' \in 0 .. MaxFaults
    BY <1>7, BoundsAssumption DEF Lost, TypeOK
  <2> QED
    BY <1>5, <1>7, <2>1 DEF Lost
<1>8. ASSUME NEW k \in Loops, Refresh(k) PROVE TypeOK'
  BY <1>8, RefreshTypes DEF Refresh, TypeOK
<1>9. CASE UNCHANGED vars
  BY <1>9 DEF vars, TypeOK
<1> QED
  BY <1>1, <1>2, <1>3, <1>4, <1>6, <1>7, <1>8, <1>9 DEF Next

\* Every variable keeps its type: no timer fires that was not set, and no timer
\* is set for later than a reconnect.
THEOREM TypeCorrect == Spec => []TypeOK
<1> QED
  BY TypeInit, TypeStep, PTL DEF Spec

-----------------------------------------------------------------------------
(***************************************************************************)
(* A connected page refreshes.                                             *)
(***************************************************************************)
LEMMA RefreshStep ==
    ASSUME TypeOK, RefreshRuns, [Next]_vars
    PROVE  RefreshRuns'
<1> SUFFICES ASSUME Live' PROVE \A k \in Loops : (Running(k) # {})'
  BY DEF RefreshRuns
<1>1. ASSUME OpenConnection PROVE FALSE
  BY <1>1, OpenTypes DEF Live, Is
<1>2. CASE Tick
  <2> SUFFICES ASSUME NEW k \in Loops PROVE (Running(k) # {})'
    OBVIOUS
  <2>1. Live
    BY <1>2 DEF Tick, Live, Is
  <2>2. PICK d \in Ticks : loops[k][d] > 0
    BY <2>1 DEF RefreshRuns, Running
  <2>3. d # 0 /\ d - 1 \in Ticks /\ d - 1 # Delay /\ (d - 1) + 1 = d
    BY <1>2, <2>2, TickFacts DEF Tick, Ticks
  <2>4. loops'[k][d - 1] = loops[k][d]
    BY <1>2, <2>3 DEF Tick, Later
  <2> QED
    BY <2>2, <2>3, <2>4 DEF Running
<1>3. ASSUME NEW s \in Sockets, OnOpen(s) PROVE \A k \in Loops : (Running(k) # {})'
  <2>1. current = s \/ CanSend(current)
    BY <1>3 DEF OnOpen, Live, Is, CanSend, TypeOK
  <2>2. loops' = [k \in Loops |-> Begun(loops[k], k)]
    BY <1>3, <2>1 DEF OnOpen
  <2>3. \A k \in Loops : Period[k] \in Ticks /\ Begun(loops[k], k)[Period[k]] > 0
    BY TickFacts, LoopTimers DEF TypeOK, Begun
  <2> QED
    BY <2>2, <2>3 DEF Running
<1>4. ASSUME NEW s \in Sockets, OnClose(s) PROVE FALSE
  BY <1>4 DEF OnClose, Live
<1>5. ASSUME NEW k \in Loops, Refresh(k) PROVE \A j \in Loops : (Running(j) # {})'
  <2>1. Live
    BY <1>5 DEF Refresh, Live, Is
  <2>2. GoesOn(k)
    BY <1>5, <2>1 DEF Refresh, Live, Is, CanSend
  <2>3. loops' = [loops EXCEPT ![k] = MoreLoops(Less(loops[k], 0), Period[k])]
    BY <2>2 DEF GoesOn
  <2>4. Less(loops[k], 0) \in [Ticks -> 0 .. MaxLoops]
    BY <1>5, TickFacts, LoopTimers DEF TypeOK, Refresh
  <2>5. Period[k] \in Ticks /\ MoreLoops(Less(loops[k], 0), Period[k])[Period[k]] > 0
    BY <2>4, TickFacts, LoopTimers
  <2>6. (Running(k) # {})'
    BY <2>3, <2>5 DEF Running, TypeOK
  <2>7. ASSUME NEW j \in Loops, j # k PROVE (Running(j) # {})'
    <3>1. loops'[j] = loops[j]
      BY <2>3, <2>7 DEF TypeOK
    <3> QED
      BY <2>1, <3>1 DEF RefreshRuns, Running
  <2> QED
    BY <2>6, <2>7
<1>6. CASE UNCHANGED vars
  BY <1>6 DEF vars, RefreshRuns, Live, Is, Running
<1> QED
  BY <1>1, <1>2, <1>3, <1>4, <1>5, <1>6 DEF Next, Reconnect, Click, Closed, Lost

\* Whatever connections come and go and in whatever order their events arrive, a
\* page whose socket is open has a timer for each of its refresh loops.
THEOREM Refreshes == Spec => []RefreshRuns
<1>1. Init => RefreshRuns
  BY DEF Init, RefreshRuns, Live
<1> QED
  BY <1>1, RefreshStep, TypeCorrect, PTL DEF Spec

-----------------------------------------------------------------------------
(***************************************************************************)
(* A page nobody clicks on.                                                *)
(***************************************************************************)
LEMMA FirstTimer ==
    ASSUME NEW x \in Ticks
    PROVE  More(Zero, x) = One(x) /\ MoreLoops(Zero, x) = One(x)
<1>1. Zero[x] = 0 /\ Zero \in [Ticks -> Nat] /\ 0 < MaxLoops
  BY BoundsAssumption DEF Zero
<1>2. [Zero EXCEPT ![x] = 1] = One(x)
  BY DEF Zero, One
<1>3. More(Zero, x) = [Zero EXCEPT ![x] = 1]
  BY <1>1 DEF More
<1>4. MoreLoops(Zero, x) = [Zero EXCEPT ![x] = 1]
  BY <1>1 DEF MoreLoops
<1> QED
  BY <1>2, <1>3, <1>4

LEMMA TimerFacts ==
    /\ Zero \in [Ticks -> Nat] /\ Later(Zero) = Zero
    /\ \A x \in Ticks : /\ One(x) \in [Ticks -> Nat]
                      /\ One(x)[0] > 0 <=> x = 0
                      /\ x # 0 => x - 1 \in Ticks /\ Later(One(x)) = One(x - 1)
                      /\ More(Zero, x) = One(x) /\ MoreLoops(Zero, x) = One(x)
    /\ Less(One(0), 0) = Zero
<1>1. Zero \in [Ticks -> Nat]
  BY DEF Zero
<1>2. \A d \in Ticks : d \in Nat /\ (d # Delay => d + 1 \in Ticks)
  BY TickFacts DEF Ticks
<1>3. Later(Zero) = Zero
  BY <1>2 DEF Later, Zero
<1>4. ASSUME NEW x \in Ticks
      PROVE  One(x) \in [Ticks -> Nat] /\ (One(x)[0] > 0 <=> x = 0)
  BY TickFacts DEF One
<1>5. ASSUME NEW x \in Ticks, x # 0
      PROVE  x - 1 \in Ticks /\ Later(One(x)) = One(x - 1)
  <2>1. x - 1 \in Ticks /\ x \in Nat /\ x <= Delay
    BY <1>5, TickFacts DEF Ticks
  <2>2. ASSUME NEW d \in Ticks
        PROVE  (IF d = Delay THEN 0 ELSE One(x)[d + 1]) = IF d = x - 1 THEN 1 ELSE 0
    <3>1. CASE d = Delay
      BY <2>1, <3>1, TickFacts
    <3>2. CASE d # Delay
      <4>1. One(x)[d + 1] = IF d + 1 = x THEN 1 ELSE 0
        BY <1>2, <3>2 DEF One
      <4>2. d + 1 = x <=> d = x - 1
        BY <1>2, <2>1
      <4> QED
        BY <3>2, <4>1, <4>2
    <3> QED
      BY <3>1, <3>2
  <2> QED
    BY <2>1, <2>2 DEF Later, One
<1>6. \A x \in Ticks : More(Zero, x) = One(x) /\ MoreLoops(Zero, x) = One(x)
  BY FirstTimer
<1>7. Less(One(0), 0) = Zero
  <2>1. One(0)[0] = 1 /\ 0 \in Ticks
    BY TickFacts DEF One
  <2>2. Less(One(0), 0) = [One(0) EXCEPT ![0] = 0]
    BY <2>1 DEF Less
  <2>3. [One(0) EXCEPT ![0] = 0] = Zero
    BY DEF Zero, One
  <2> QED
    BY <2>2, <2>3
<1> QED
  BY <1>1, <1>3, <1>4, <1>5, <1>6, <1>7

\* The same of timers known to be these.
LEMMA OneTimer ==
    ASSUME NEW timers, NEW x \in Ticks, timers = One(x)
    PROVE  /\ timers[0] > 0 => x = 0
           /\ timers[0] = 0 => x # 0
           /\ x = 0 => Less(timers, 0) = Zero
<1>1. One(x)[0] = IF x = 0 THEN 1 ELSE 0
  BY TickFacts DEF One
<1>2. timers[0] = IF x = 0 THEN 1 ELSE 0
  BY <1>1
<1>3. ASSUME x = 0 PROVE Less(timers, 0) = Zero
  <2>1. timers = One(0)
    BY <1>3
  <2>2. Less(One(0), 0) = Zero
    BY TimerFacts
  <2> QED
    BY <2>1, <2>2
<1> QED
  BY <1>2, <1>3

LEMMA NoTimer ==
    ASSUME NEW timers, NEW x \in Ticks, timers = Zero
    PROVE  /\ timers[0] = 0
           /\ More(timers, x) = One(x) /\ MoreLoops(timers, x) = One(x)
<1>1. Zero[0] = 0
  BY TickFacts DEF Zero
<1>2. More(Zero, x) = One(x) /\ MoreLoops(Zero, x) = One(x)
  BY FirstTimer
<1> QED
  BY <1>1, <1>2

\* Either nothing is connected and one timer will reconnect, which is due after
\* all the loops' timers...
Waits ==
    /\ ~connected /\ \A s \in Sockets : sock[s] = "closed"
    /\ \E x \in Ticks :
           /\ reconnects = One(x)
           /\ \A k \in Loops : loops[k] = Zero \/ \E y \in Ticks : y < x /\ loops[k] = One(y)

\* ... or there is no such timer and the one socket is connecting...
Connects ==
    /\ ~connected /\ reconnects = Zero
    /\ Is(current, "connecting") /\ \A s \in Sockets : s # current => sock[s] = "closed"
    /\ \A k \in Loops : loops[k] = Zero

\* ... or open, and each loop has a timer.
Works ==
    /\ connected /\ reconnects = Zero
    /\ Is(current, "open") /\ \A s \in Sockets : s # current => sock[s] = "closed"
    /\ \A k \in Loops : \E y \in Ticks : y <= Period[k] /\ loops[k] = One(y)

AloneInv == clicks = 0 => Waits \/ Connects \/ Works

LEMMA AloneInit == Init => AloneInv
<1> SUFFICES ASSUME Init PROVE Waits
  BY DEF AloneInv
<1>1. 0 \in Ticks /\ reconnects = One(0) /\ \A k \in Loops : loops[k] = Zero
  BY TickFacts DEF Init, One, Zero
<1>2. ~connected /\ \A s \in Sockets : sock[s] = "closed"
  BY DEF Init
<1> QED
  BY <1>1, <1>2 DEF Waits

LEMMA AloneStep ==
    ASSUME TypeOK, AloneInv, [Next]_vars
    PROVE  AloneInv'
<1> SUFFICES ASSUME clicks' = 0 PROVE (Waits \/ Connects \/ Works)'
  BY DEF AloneInv
<1>1. CASE Click
  BY <1>1 DEF Click, TypeOK
<1>2. ASSUME ~Click PROVE clicks = 0
  BY <1>2 DEF Next, Reconnect, Tick, OnOpen, Closed, Lost, OnClose, Refresh, vars
<1>3. ASSUME ~Click PROVE Waits \/ Connects \/ Works
  BY <1>2, <1>3 DEF AloneInv
<1>4. CASE Reconnect
  <2>1. Waits
    <3>1. ~(Zero[0] > 0)
      BY TickFacts DEF Zero
    <3>2. ~Click
      <4>1. reconnects' # reconnects
        BY <1>4, TickFacts DEF Reconnect, Less, TypeOK
      <4> QED
        BY <4>1 DEF Click
    <3> QED
      BY <1>3, <1>4, <3>1, <3>2 DEF Reconnect, Connects, Works
  <2>2. PICK x \in Ticks :
            /\ reconnects = One(x)
            /\ \A k \in Loops : loops[k] = Zero \/ \E y \in Ticks : y < x /\ loops[k] = One(y)
    BY <2>1 DEF Waits
  <2>3. x = 0
    BY <1>4, <2>2, OneTimer DEF Reconnect
  <2>4. reconnects' = Zero
    BY <1>4, <2>2, <2>3, OneTimer DEF Reconnect
  <2>5. \A y \in Ticks : ~(y < 0)
    BY DEF Ticks
  <2>6. \A k \in Loops : loops'[k] = Zero
    BY <1>4, <2>2, <2>3, <2>5 DEF Reconnect
  <2>7. PICK s \in Sockets :
            /\ sock' = [t \in Sockets |->
                           IF t = s THEN "connecting"
                           ELSE IF t = current /\ connected /\ sock[t] # "closed" THEN "closing"
                           ELSE sock[t]]
            /\ current' = s
            /\ UNCHANGED connected
    BY <1>4 DEF Reconnect, OpenConnection, Free
  <2>8. Connects'
    BY <2>1, <2>4, <2>6, <2>7 DEF Waits, Connects, Is
  <2> QED
    BY <2>8
<1>5. CASE Tick
  <2>1. ~Click
    BY <1>5 DEF Tick, Click, TypeOK
  <2>2. ASSUME NEW k \in Loops, loops[k] = Zero PROVE loops'[k] = Zero
    BY <1>5, <2>2, TimerFacts DEF Tick
  <2>3. ASSUME NEW k \in Loops, NEW y \in Ticks, loops[k] = One(y)
        PROVE  y - 1 \in Ticks /\ loops'[k] = One(y - 1)
    <3>1. loops[k][0] = 0
      BY <1>5 DEF Tick
    <3>2. y # 0
      BY <2>3, <3>1, OneTimer
    <3> QED
      BY <1>5, <2>3, <3>2, TimerFacts DEF Tick
  <2>4. CASE Waits
    <3>1. PICK x \in Ticks :
              /\ reconnects = One(x)
              /\ \A k \in Loops : loops[k] = Zero \/ \E y \in Ticks : y < x /\ loops[k] = One(y)
      BY <2>4 DEF Waits
    <3>2. x # 0
      <4>1. reconnects[0] = 0
        BY <1>5 DEF Tick
      <4> QED
        BY <3>1, <4>1, OneTimer
    <3>3. x - 1 \in Ticks /\ reconnects' = One(x - 1)
      BY <1>5, <3>1, <3>2, TimerFacts DEF Tick
    <3>4. ASSUME NEW k \in Loops
          PROVE  loops'[k] = Zero \/ \E y \in Ticks : y < x - 1 /\ loops'[k] = One(y)
      <4>1. CASE loops[k] = Zero
        BY <2>2, <4>1
      <4>2. ASSUME NEW y \in Ticks, y < x, loops[k] = One(y)
            PROVE  \E z \in Ticks : z < x - 1 /\ loops'[k] = One(z)
        <5>1. y - 1 \in Ticks /\ loops'[k] = One(y - 1)
          BY <2>3, <4>2
        <5>2. y - 1 < x - 1
          BY <4>2 DEF Ticks
        <5> QED
          BY <5>1, <5>2
      <4> QED
        BY <3>1, <4>1, <4>2
    <3>5. ~connected' /\ \A s \in Sockets : sock'[s] = "closed"
      BY <1>5, <2>4 DEF Tick, Waits
    <3> QED
      BY <3>3, <3>4, <3>5 DEF Waits
  <2>5. CASE Connects
    <3>1. reconnects' = Zero
      BY <1>5, <2>5, TimerFacts DEF Tick, Connects
    <3>2. \A k \in Loops : loops'[k] = Zero
      BY <2>2, <2>5 DEF Connects
    <3> QED
      BY <1>5, <2>5, <3>1, <3>2 DEF Tick, Connects, Is
  <2>6. CASE Works
    <3>1. reconnects' = Zero
      BY <1>5, <2>6, TimerFacts DEF Tick, Works
    <3>2. ASSUME NEW k \in Loops PROVE \E y \in Ticks : y <= Period[k] /\ loops'[k] = One(y)
      <4>1. PICK y \in Ticks : y <= Period[k] /\ loops[k] = One(y)
        BY <2>6 DEF Works
      <4>2. y - 1 \in Ticks /\ loops'[k] = One(y - 1)
        BY <2>3, <4>1
      <4>3. y - 1 <= Period[k]
        BY <4>1, TickFacts DEF Ticks
      <4> QED
        BY <4>2, <4>3
    <3> QED
      BY <1>5, <2>6, <3>1, <3>2 DEF Tick, Works, Is
  <2> QED
    BY <1>3, <2>1, <2>4, <2>5, <2>6
<1>6. ASSUME NEW s \in Sockets, OnOpen(s) PROVE Works'
  <2>1. ~Click
    BY <1>6 DEF OnOpen, Click, TypeOK
  <2>2. Connects /\ current = s
    BY <1>3, <1>6, <2>1 DEF OnOpen, Waits, Connects, Works, Is
  <2>3. loops' = [k \in Loops |-> Begun(loops[k], k)]
    BY <1>6, <2>2 DEF OnOpen
  <2>4. ASSUME NEW k \in Loops PROVE \E y \in Ticks : y <= Period[k] /\ loops'[k] = One(y)
    <3>1. Period[k] \in Ticks /\ Period[k] <= Period[k]
      BY TickFacts DEF Ticks
    <3>2. loops'[k] = One(Period[k])
      BY <2>2, <2>3, <3>1, NoTimer DEF Connects, Begun
    <3> QED
      BY <3>1, <3>2
  <2> QED
    BY <1>6, <2>2, <2>4 DEF OnOpen, Connects, Works, Is, TypeOK
<1>7. ASSUME NEW s \in Sockets, OnClose(s), sock[s] # "closed", ~Click PROVE Waits'
  <2>1. (Connects \/ Works) /\ current = s
    BY <1>3, <1>7 DEF Waits, Connects, Works
  <2>2. reconnects' = One(Delay)
    <3>1. reconnects = Zero /\ reconnects' = More(reconnects, Delay)
      BY <1>7, <2>1 DEF OnClose, ReconnectAfter, ReconnectIn, Connects, Works
    <3> QED
      BY <3>1, NoTimer, TickFacts
  <2>3. ~connected' /\ \A t \in Sockets : sock'[t] = "closed"
    BY <1>7, <2>1 DEF OnClose, Connects, Works, TypeOK
  <2>4. ASSUME NEW k \in Loops
        PROVE  loops'[k] = Zero \/ \E y \in Ticks : y < Delay /\ loops'[k] = One(y)
    <3>1. loops' = loops
      BY <1>7 DEF OnClose
    <3>2. CASE Connects
      BY <3>1, <3>2 DEF Connects
    <3>3. CASE Works
      <4>1. PICK y \in Ticks : y <= Period[k] /\ loops[k] = One(y)
        BY <3>3 DEF Works
      <4>2. y < Delay
        BY <4>1, TickFacts DEF Ticks
      <4> QED
        BY <3>1, <4>1, <4>2
    <3> QED
      BY <2>1, <3>2, <3>3
  <2> QED
    BY <2>2, <2>3, <2>4, TickFacts DEF Waits
<1>8. ASSUME NEW s \in Sockets, Closed(s) \/ Lost(s) PROVE Waits'
  <2>1. OnClose(s) /\ sock[s] # "closed"
    BY <1>8 DEF Closed, Lost
  <2>2. ~Click
    BY <1>8 DEF Closed, Lost, OnClose, Click, TypeOK
  <2> QED
    BY <1>7, <2>1, <2>2
<1>9. ASSUME NEW k \in Loops, Refresh(k) PROVE (Waits \/ Works)'
  <2>1. ~Click
    BY <1>9 DEF Refresh, Click, TypeOK
  <2>2. loops[k] # Zero /\ loops[k][0] > 0
    <3>1. ~(Zero[0] > 0)
      BY TickFacts DEF Zero
    <3> QED
      BY <1>9, <3>1 DEF Refresh
  <2>3. UNCHANGED <<connected, current, sock, reconnects>>
    BY <1>9 DEF Refresh
  <2>4. CASE Waits
    <3>1. Stops(k)
      BY <1>9, <2>4 DEF Refresh, Waits
    <3>2. PICK x \in Ticks :
              /\ reconnects = One(x)
              /\ \A j \in Loops : loops[j] = Zero \/ \E y \in Ticks : y < x /\ loops[j] = One(y)
      BY <2>4 DEF Waits
    <3>3. loops[k] = One(0)
      BY <2>2, <3>2, OneTimer
    <3>4. loops' = [loops EXCEPT ![k] = Zero]
      BY <3>1, <3>3, TimerFacts DEF Stops
    <3>5. \A j \in Loops : loops'[j] = Zero \/ \E y \in Ticks : y < x /\ loops'[j] = One(y)
      BY <3>2, <3>4 DEF TypeOK
    <3>6. reconnects' = One(x) /\ ~connected' /\ \A s \in Sockets : sock'[s] = "closed"
      BY <2>3, <2>4, <3>2 DEF Waits
    <3> QED
      BY <3>5, <3>6 DEF Waits
  <2>5. CASE Works
    <3>1. GoesOn(k)
      BY <1>9, <2>5 DEF Refresh, Works, CanSend, Is
    <3>2. PICK y \in Ticks : y <= Period[k] /\ loops[k] = One(y)
      BY <2>5 DEF Works
    <3>3. loops[k] = One(0)
      BY <2>2, <3>2, OneTimer
    <3>4. loops' = [loops EXCEPT ![k] = One(Period[k])]
      <4>1. Less(loops[k], 0) = Zero /\ Period[k] \in Ticks
        BY <3>3, OneTimer, TickFacts
      <4>2. MoreLoops(Less(loops[k], 0), Period[k]) = One(Period[k])
        BY <4>1, NoTimer
      <4> QED
        BY <3>1, <4>2 DEF GoesOn
    <3>5. ASSUME NEW j \in Loops PROVE \E z \in Ticks : z <= Period[j] /\ loops'[j] = One(z)
      <4>1. CASE j = k
        <5>1. Period[k] \in Ticks /\ Period[k] <= Period[k] /\ loops'[k] = One(Period[k])
          BY <3>4, TickFacts DEF TypeOK, Ticks
        <5> QED
          BY <4>1, <5>1
      <4>2. CASE j # k
        BY <2>5, <3>4, <4>2 DEF Works, TypeOK
      <4> QED
        BY <4>1, <4>2
    <3> QED
      BY <2>3, <2>5, <3>5 DEF Works, Is
  <2>6. ~Connects
    BY <2>2 DEF Connects
  <2> QED
    BY <1>3, <2>1, <2>4, <2>5, <2>6
<1>10. CASE UNCHANGED vars
  <2>1. ~Click
    BY <1>10 DEF vars, Click, TypeOK
  <2> QED
    BY <1>3, <1>10, <2>1 DEF vars, Waits, Connects, Works, Is
<1> QED
  BY <1>1, <1>4, <1>5, <1>6, <1>8, <1>9, <1>10 DEF Next

\* A page on which nobody presses "Connect" never has two loops of a kind or a
\* second connection, however often it loses the one it has: all its loops have
\* ended when it connects again.
THEOREM InOrder == Spec => []Undisturbed
<1>1. ASSUME AloneInv PROVE Undisturbed
  <2> SUFFICES ASSUME Waits \/ Connects \/ Works
               PROVE  /\ connected <=> Is(current, "open")
                      /\ \A k \in Loops : \A d \in Running(k) : Running(k) = {d} /\ loops[k][d] = 1
    BY <1>1 DEF AloneInv, Undisturbed
  <2>1. connected <=> Is(current, "open")
    BY DEF Waits, Connects, Works, Is
  <2>2. ASSUME NEW k \in Loops, NEW d \in Running(k)
        PROVE  Running(k) = {d} /\ loops[k][d] = 1
    <3>1. loops[k] = Zero \/ \E y \in Ticks : loops[k] = One(y)
      BY DEF Waits, Connects, Works
    <3>2. CASE loops[k] = Zero
      BY <3>2 DEF Running, Zero
    <3>3. ASSUME NEW y \in Ticks, loops[k] = One(y) PROVE Running(k) = {d} /\ loops[k][d] = 1
      <4>1. \A e \in Ticks : loops[k][e] = IF e = y THEN 1 ELSE 0
        BY <3>3 DEF One
      <4>2. d = y
        BY <4>1 DEF Running
      <4> QED
        BY <4>1, <4>2 DEF Running
    <3> QED
      BY <3>1, <3>2, <3>3
  <2> QED
    BY <2>1, <2>2
<1> QED
  BY <1>1, AloneInit, AloneStep, TypeCorrect, PTL DEF Spec

-----------------------------------------------------------------------------
(***************************************************************************)
(* One connection or armed timer for each click.                           *)
(***************************************************************************)
LEMMA Induction ==
    ASSUME NEW S, 0 \in S, \A n \in Nat : n \in S => n + 1 \in S
    PROVE  Nat \subseteq S
<1> SUFFICES ASSUME Nat \ S # {} PROVE FALSE
  OBVIOUS
<1> DEFINE R == {ss \in Nat \X Nat : ss[1] < ss[2]}
<1>1. IsWellFoundedOn(R, Nat)
  BY NatLessThanWellFounded DEF OpToRel
<1>2. PICK x \in Nat \ S : \A y \in Nat \ S : ~(<<y, x>> \in R)
  <2> HIDE DEF R
  <2> QED
    BY <1>1, WFMin, Zenon
<1>3. x \in Nat /\ x # 0 /\ x \notin S
  OBVIOUS
<1>4. x - 1 \in Nat /\ x - 1 < x /\ (x - 1) + 1 = x
  BY <1>3
<1>5. x - 1 \notin S
  BY <1>3, <1>4
<1>6. <<x - 1, x>> \in R
  BY <1>3, <1>4
<1> QED
  BY <1>2, <1>4, <1>5, <1>6

\* S[d] is the number of timers due in at most d ticks.
Sums(t, S) ==
    /\ S \in [Ticks -> Int]
    /\ \A d \in Ticks : S[d] = t[d] + IF d = 0 THEN 0 ELSE S[d - 1]

LEMMA SumsUnique ==
    ASSUME NEW t \in [Ticks -> Nat], NEW S, NEW R,
           S = [d \in Ticks |-> t[d] + IF d = 0 THEN 0 ELSE S[d - 1]], Sums(t, R)
    PROVE  S = R
<1> DEFINE E == {n \in Nat : n \in Ticks => S[n] = R[n]}
<1>1. 0 \in E
  BY TickFacts DEF Sums
<1>2. ASSUME NEW n \in Nat, n \in E, n + 1 \in Ticks PROVE S[n + 1] = R[n + 1]
  <2>1. n \in Ticks /\ n + 1 # 0 /\ (n + 1) - 1 = n
    BY <1>2, TickFacts DEF Ticks
  <2>2. S[n] = R[n]
    BY <1>2, <2>1
  <2>3. R[n + 1] = t[n + 1] + R[n]
    BY <1>2, <2>1 DEF Sums
  <2>4. S[n + 1] = t[n + 1] + S[n]
    BY <1>2, <2>1
  <2> QED
    BY <2>2, <2>3, <2>4
<1>3. \A n \in Nat : n \in E => n + 1 \in E
  BY <1>2
<1>4. Nat \subseteq E
  <2> HIDE DEF E
  <2> QED
    BY <1>1, <1>3, Induction
<1>5. ASSUME NEW d \in Ticks PROVE S[d] = R[d]
  <2>1. d \in Nat
    BY TickFacts DEF Ticks
  <2> QED
    BY <1>4, <2>1
<1>6. R = [d \in Ticks |-> R[d]] /\ S = [d \in Ticks |-> S[d]]
  BY DEF Sums
<1> QED
  BY <1>5, <1>6

\* Total is the function that its recursive definition describes.
LEMMA TotalIs ==
    ASSUME NEW t \in [Ticks -> Nat], NEW R, Sums(t, R)
    PROVE  R = CHOOSE S : S = [d \in Ticks |-> t[d] + IF d = 0 THEN 0 ELSE S[d - 1]]
<1>1. R = [d \in Ticks |-> t[d] + IF d = 0 THEN 0 ELSE R[d - 1]]
  BY DEF Sums
<1>2. \A S : S = [d \in Ticks |-> t[d] + IF d = 0 THEN 0 ELSE S[d - 1]] => S = R
  BY SumsUnique
<1> QED
  BY <1>1, <1>2

\* What the steps do to the numbers of timers.
LEMMA SumsMore ==
    ASSUME NEW t \in [Ticks -> Nat], NEW S, Sums(t, S), NEW x \in Ticks
    PROVE  Sums(More(t, x), [d \in Ticks |-> S[d] + IF d < x THEN 0 ELSE 1])
<1> DEFINE R == [d \in Ticks |-> S[d] + IF d < x THEN 0 ELSE 1]
<1>1. x \in Int /\ \A d \in Ticks : d \in Int /\ 0 <= d /\ (d # 0 => d - 1 \in Ticks)
  BY TickFacts DEF Ticks
<1>2. R \in [Ticks -> Int]
  BY <1>1 DEF Sums
<1>3. ASSUME NEW d \in Ticks PROVE R[d] = More(t, x)[d] + IF d = 0 THEN 0 ELSE R[d - 1]
  <2>1. d \in Int /\ 0 <= d /\ S[d] \in Int /\ t[d] \in Int
    BY <1>1 DEF Sums
  <2>2. More(t, x)[d] = IF d = x THEN t[d] + 1 ELSE t[d]
    BY DEF More
  <2>3. CASE d = 0
    BY <1>1, <2>1, <2>2, <2>3 DEF Sums
  <2>4. CASE d # 0
    <3>1. d - 1 \in Ticks /\ S[d - 1] \in Int /\ S[d] = t[d] + S[d - 1]
      BY <1>1, <2>4 DEF Sums
    <3>2. R[d] = S[d] + (IF d < x THEN 0 ELSE 1)
      OBVIOUS
    <3>3. R[d - 1] = S[d - 1] + (IF d - 1 < x THEN 0 ELSE 1)
      BY <3>1
    <3> HIDE DEF R
    <3> QED
      BY <1>1, <2>1, <2>2, <2>4, <3>1, <3>2, <3>3
  <2> QED
    BY <2>3, <2>4
<1> QED
  BY <1>2, <1>3 DEF Sums

LEMMA SumsLess ==
    ASSUME NEW t \in [Ticks -> Nat], NEW S, Sums(t, S)
    PROVE  Sums(Less(t, 0), [d \in Ticks |-> S[d] - 1])
<1> DEFINE R == [d \in Ticks |-> S[d] - 1]
<1>1. R \in [Ticks -> Int]
  BY DEF Sums
<1>2. ASSUME NEW d \in Ticks PROVE R[d] = Less(t, 0)[d] + IF d = 0 THEN 0 ELSE R[d - 1]
  <2>1. d \in Int /\ (d # 0 => d - 1 \in Ticks)
    BY TickFacts DEF Ticks
  <2>2. Less(t, 0)[d] = IF d = 0 THEN t[d] - 1 ELSE t[d]
    BY DEF Less
  <2>3. R[d] = S[d] - 1 /\ (d # 0 => R[d - 1] = S[d - 1] - 1)
    BY <2>1
  <2>4. S[d] \in Int /\ t[d] \in Int /\ (d # 0 => S[d - 1] \in Int)
    BY <2>1 DEF Sums
  <2>5. S[d] = t[d] + IF d = 0 THEN 0 ELSE S[d - 1]
    BY DEF Sums
  <2> HIDE DEF R
  <2> QED
    BY <2>2, <2>3, <2>4, <2>5
<1> QED
  BY <1>1, <1>2 DEF Sums

LEMMA SumsLater ==
    ASSUME NEW t \in [Ticks -> Nat], NEW S, Sums(t, S), t[0] = 0
    PROVE  Sums(Later(t), [d \in Ticks |-> IF d = Delay THEN S[Delay] ELSE S[d + 1]])
<1> DEFINE R == [d \in Ticks |-> IF d = Delay THEN S[Delay] ELSE S[d + 1]]
<1>1. \A d \in Ticks : d \in Int /\ (d # Delay => d + 1 \in Ticks /\ (d + 1) - 1 = d /\ d + 1 # 0)
                        /\ (d # 0 => d - 1 \in Ticks /\ d - 1 # Delay /\ (d - 1) + 1 = d)
  BY TickFacts DEF Ticks
<1>2. R \in [Ticks -> Int]
  BY <1>1, TickFacts DEF Sums
<1>3. ASSUME NEW d \in Ticks PROVE R[d] = Later(t)[d] + IF d = 0 THEN 0 ELSE R[d - 1]
  <2>1. Later(t)[d] = IF d = Delay THEN 0 ELSE t[d + 1]
    BY DEF Later
  <2>2. R[d] = IF d = Delay THEN S[Delay] ELSE S[d + 1]
    OBVIOUS
  <2>3. d # 0 => R[d - 1] = S[d]
    BY <1>1
  <2>4. d # Delay => S[d + 1] = t[d + 1] + S[d]
    BY <1>1 DEF Sums
  <2>5. S[0] = 0
    BY TickFacts DEF Sums
  <2>6. S[d] \in Int /\ Delay # 0 /\ (d # Delay => t[d + 1] \in Int)
    BY <1>1, TickFacts DEF Sums
  <2> HIDE DEF R
  <2> QED
    BY <2>1, <2>2, <2>3, <2>4, <2>5, <2>6
<1> QED
  BY <1>2, <1>3 DEF Sums

\* The connections and the timers, S those due in so many ticks.
Counted(S) ==
    /\ Sums(reconnects, S)
    /\ Cardinality(Alive) + S[Delay] = 1 + clicks

LEMMA CountedInit ==
    ASSUME Init
    PROVE  \E S : Counted(S)
<1> DEFINE S == [d \in Ticks |-> 1]
<1>1. \A d \in Ticks : d # 0 => d - 1 \in Ticks
  BY TickFacts DEF Ticks
<1>2. Sums(reconnects, S)
  BY <1>1, TickFacts DEF Init, Sums
<1>3. Alive = {} /\ Cardinality(Alive) = 0
  BY FS_EmptySet DEF Alive, Init
<1>4. S[Delay] = 1 /\ clicks = 0
  BY TickFacts DEF Init
<1> QED
  BY <1>2, <1>3, <1>4 DEF Counted

\* OpenConnection: one connection more.
LEMMA OpenedOne ==
    ASSUME TypeOK, OpenConnection
    PROVE  Cardinality(Alive') = Cardinality(Alive) + 1
<1>1. PICK s \in Sockets :
          /\ sock[s] = "closed"
          /\ sock' = [t \in Sockets |->
                         IF t = s THEN "connecting"
                         ELSE IF t = current /\ connected /\ sock[t] # "closed" THEN "closing"
                         ELSE sock[t]]
  BY DEF OpenConnection, Free
<1>2. Alive' = Alive \cup {s} /\ s \notin Alive
  BY <1>1 DEF Alive
<1>3. IsFiniteSet(Alive)
  BY FS_Subset, SocketsAssumption DEF Alive
<1> QED
  BY <1>2, <1>3, FS_AddElement

LEMMA ClosedOne ==
    ASSUME TypeOK, NEW s \in Sockets, sock[s] # "closed", OnClose(s)
    PROVE  Cardinality(Alive') = Cardinality(Alive) - 1
<1>1. Alive' = Alive \ {s} /\ s \in Alive
  BY DEF Alive, OnClose, TypeOK
<1>2. IsFiniteSet(Alive)
  BY FS_Subset, SocketsAssumption DEF Alive
<1> QED
  BY <1>1, <1>2, FS_RemoveElement

LEMMA CountedStep ==
    ASSUME TypeOK, NEW S, Counted(S), [Next]_vars
    PROVE  \E R : Counted(R)'
<1> USE DEF Counted
<1>1. /\ Sums(reconnects, S) /\ reconnects \in [Ticks -> Nat] /\ Delay \in Ticks /\ 0 \in Ticks
      /\ S[Delay] \in Int /\ clicks \in Int /\ Delay \in Int /\ ~(Delay < Delay)
  BY TickFacts, BoundsAssumption DEF TypeOK, Sums
<1>2. Cardinality(Alive) \in Int
  <2>1. IsFiniteSet(Alive)
    BY FS_Subset, SocketsAssumption DEF Alive
  <2> QED
    BY <2>1, FS_CardinalityType
<1>3. CASE Reconnect
  <2> DEFINE R == [d \in Ticks |-> S[d] - 1]
  <2>1. Sums(reconnects', R) /\ R[Delay] = S[Delay] - 1
    BY <1>1, <1>3, SumsLess DEF Reconnect
  <2>2. Cardinality(Alive') = Cardinality(Alive) + 1 /\ clicks' = clicks
    BY <1>3, OpenedOne DEF Reconnect
  <2> HIDE DEF R
  <2> QED
    BY <1>1, <1>2, <2>1, <2>2
<1>4. CASE Click
  <2>1. Cardinality(Alive') = Cardinality(Alive) + 1 /\ clicks' = clicks + 1 /\ reconnects' = reconnects
    BY <1>4, OpenedOne DEF Click
  <2> QED
    BY <1>1, <1>2, <2>1
<1>5. CASE Tick
  <2> DEFINE R == [d \in Ticks |-> IF d = Delay THEN S[Delay] ELSE S[d + 1]]
  <2>1. Sums(reconnects', R) /\ R[Delay] = S[Delay]
    BY <1>1, <1>5, SumsLater DEF Tick
  <2>2. Alive' = Alive /\ clicks' = clicks
    BY <1>5 DEF Tick, Alive
  <2> HIDE DEF R
  <2> QED
    BY <1>1, <1>2, <2>1, <2>2
<1>6. ASSUME NEW s \in Sockets, OnOpen(s) PROVE \E R : Counted(R)'
  <2>1. Alive' = Alive /\ clicks' = clicks /\ reconnects' = reconnects
    BY <1>6 DEF OnOpen, Alive, TypeOK
  <2> QED
    BY <1>1, <2>1
<1>7. ASSUME NEW s \in Sockets, sock[s] # "closed", OnClose(s) PROVE \E R : Counted(R)'
  <2> DEFINE R == [d \in Ticks |-> S[d] + IF d < Delay THEN 0 ELSE 1]
  <2>1. Sums(reconnects', R) /\ R[Delay] = S[Delay] + 1
    BY <1>1, <1>7, SumsMore DEF OnClose, ReconnectAfter, ReconnectIn
  <2>2. Cardinality(Alive') = Cardinality(Alive) - 1 /\ clicks' = clicks
    BY <1>7, ClosedOne DEF OnClose
  <2> HIDE DEF R
  <2> QED
    BY <1>1, <1>2, <2>1, <2>2
<1>8. ASSUME NEW s \in Sockets, Closed(s) \/ Lost(s) PROVE \E R : Counted(R)'
  BY <1>7, <1>8 DEF Closed, Lost
<1>9. ASSUME NEW k \in Loops, Refresh(k) PROVE \E R : Counted(R)'
  <2>1. Alive' = Alive /\ clicks' = clicks /\ reconnects' = reconnects
    BY <1>9 DEF Refresh, Alive
  <2> QED
    BY <1>1, <2>1
<1>10. CASE UNCHANGED vars
  <2>1. Alive' = Alive /\ clicks' = clicks /\ reconnects' = reconnects
    BY <1>10 DEF vars, Alive
  <2> QED
    BY <1>1, <2>1
<1> QED
  BY <1>3, <1>4, <1>5, <1>6, <1>8, <1>9, <1>10 DEF Next

\* Every socket that is not closed and every armed reconnect timer comes from the
\* page's start or from a click: no sequence of refusals, losses and late close
\* events makes ws_onClose lose the reconnect or set one too many.
THEOREM OnePerClick == Spec => []OneForEachClick
<1> DEFINE Inv == TypeOK /\ \E S : Counted(S)
<1>1. Init => Inv
  BY TypeInit, CountedInit
<1>2. Inv /\ [Next]_vars => Inv'
  BY TypeStep, CountedStep
<1>3. Inv => OneForEachClick
  <2> SUFFICES ASSUME TypeOK, NEW S, Counted(S) PROVE OneForEachClick
    OBVIOUS
  <2>1. S = Total
    BY TotalIs DEF Counted, TypeOK, Total
  <2> QED
    BY <2>1 DEF Counted, OneForEachClick
<1> QED
  BY <1>1, <1>2, <1>3, PTL DEF Spec
=============================================================================
