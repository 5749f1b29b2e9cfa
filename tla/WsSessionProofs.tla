-------------------------- MODULE WsSessionProofs --------------------------
(***************************************************************************)
(* Theorems about WsSession for any set of sessions and any number of      *)
(* messages: type correctness, one write at a time, the queue is the       *)
(* backlog of what was accepted, every session implements an Outbox, and   *)
(* broadcasts reach the sessions they owe and keep their order.            *)
(***************************************************************************)
EXTENDS WsSession, SequenceTheorems, TLAPS

-----------------------------------------------------------------------------
(***************************************************************************)
(* Sequences.                                                              *)
(***************************************************************************)
LEMMA FrameType == \A m \in MessageIds : Frame(m) \in Frames
  BY DEF Frame, Frames

LEMMA BacklogType ==
  ASSUME NEW q \in Seq(MessageIds)
  PROVE  /\ Backlog(q) \in Seq(Frames)
         /\ Len(Backlog(q)) = Len(q)
         /\ \A i \in 1 .. Len(q) : Backlog(q)[i] = Frame(q[i])
<1>1. Len(q) \in Nat /\ \A i \in 1 .. Len(q) : q[i] \in MessageIds
  BY LenProperties, ElementOfSeq
<1>2. \A i \in 1 .. Len(q) : Frame(q[i]) \in Frames
  BY <1>1, FrameType
<1>3. Backlog(q) \in Seq(Frames)
  BY <1>1, <1>2, IsASeq DEF Backlog
<1>4. Len(Backlog(q)) = Len(q)
  BY <1>1, <1>3, LenProperties DEF Backlog
<1> QED
  BY <1>3, <1>4 DEF Backlog

LEMMA BacklogAppend ==
  ASSUME NEW q \in Seq(MessageIds), NEW m \in MessageIds
  PROVE  Backlog(Append(q, m)) = Append(Backlog(q), Frame(m))
<1> DEFINE b == Backlog(q)
           c == Backlog(Append(q, m))
<1>1. /\ Append(q, m) \in Seq(MessageIds)
      /\ Len(Append(q, m)) = Len(q) + 1
      /\ \A i \in 1 .. Len(q) : Append(q, m)[i] = q[i]
      /\ Append(q, m)[Len(q) + 1] = m
  BY AppendProperties
<1>2. b \in Seq(Frames) /\ Len(b) = Len(q) /\ \A i \in 1 .. Len(q) : b[i] = Frame(q[i])
  BY BacklogType
<1>3. /\ c \in Seq(Frames) /\ Len(c) = Len(q) + 1
      /\ \A i \in 1 .. Len(q) + 1 : c[i] = Frame(Append(q, m)[i])
  BY <1>1, BacklogType
<1>4. /\ Append(b, Frame(m)) \in Seq(Frames)
      /\ Len(Append(b, Frame(m))) = Len(b) + 1
      /\ \A i \in 1 .. Len(b) : Append(b, Frame(m))[i] = b[i]
      /\ Append(b, Frame(m))[Len(b) + 1] = Frame(m)
  BY <1>2, FrameType, AppendProperties
<1>5. Len(q) \in Nat
  BY LenProperties
<1>6. \A i \in 1 .. Len(q) + 1 : c[i] = Append(b, Frame(m))[i]
  <2> TAKE i \in 1 .. Len(q) + 1
  <2>1. CASE i \in 1 .. Len(q)
    BY <2>1, <1>1, <1>2, <1>3, <1>4
  <2>2. CASE i = Len(q) + 1
    BY <2>2, <1>1, <1>2, <1>3, <1>4
  <2>3. i \in 1 .. Len(q) \/ i = Len(q) + 1
    BY <1>5
  <2> QED
    BY <2>1, <2>2, <2>3
<1> QED
  BY <1>2, <1>3, <1>4, <1>6, SeqEqual

LEMMA ConsProperties ==
  ASSUME NEW S, NEW f \in S, NEW b \in Seq(S)
  PROVE  /\ <<f>> \o b \in Seq(S)
         /\ Len(<<f>> \o b) = Len(b) + 1
         /\ \A i \in 1 .. Len(b) + 1 : (<<f>> \o b)[i] = IF i = 1 THEN f ELSE b[i - 1]
  BY LenProperties

LEMMA BacklogHeadTail ==
  ASSUME NEW q \in Seq(MessageIds), q # <<>>
  PROVE  Backlog(q) = <<Frame(Head(q))>> \o Backlog(Tail(q))
<1> DEFINE r == <<Frame(Head(q))>> \o Backlog(Tail(q))
<1>1. /\ Head(q) \in MessageIds /\ Tail(q) \in Seq(MessageIds)
      /\ Len(q) \in Nat \ {0} /\ Len(Tail(q)) = Len(q) - 1 /\ Head(q) = q[1]
      /\ \A i \in 1 .. Len(Tail(q)) : Tail(q)[i] = q[i + 1]
  BY HeadTailProperties, EmptySeq, LenProperties
<1>2. /\ Backlog(q) \in Seq(Frames) /\ Len(Backlog(q)) = Len(q)
      /\ \A i \in 1 .. Len(q) : Backlog(q)[i] = Frame(q[i])
  BY BacklogType
<1>3. /\ Backlog(Tail(q)) \in Seq(Frames) /\ Len(Backlog(Tail(q))) = Len(q) - 1
      /\ \A i \in 1 .. Len(q) - 1 : Backlog(Tail(q))[i] = Frame(Tail(q)[i])
  BY <1>1, BacklogType
<1>4. Frame(Head(q)) \in Frames
  BY <1>1, FrameType
<1>5. /\ r \in Seq(Frames) /\ Len(r) = Len(q)
      /\ \A i \in 1 .. Len(q) : r[i] = IF i = 1 THEN Frame(Head(q))
                                       ELSE Backlog(Tail(q))[i - 1]
  <2>1. Len(q) \in Nat \ {0} /\ Len(Backlog(Tail(q))) = Len(q) - 1
    BY <1>1, <1>3
  <2>2. \A n, k : n \in Nat \ {0} /\ k = n - 1 => k + 1 = n
    OBVIOUS
  <2>3. Len(Backlog(Tail(q))) + 1 = Len(q)
    BY <2>1, <2>2, Zenon
  <2> QED
    BY <1>3, <1>4, <2>3, ConsProperties, SMTT(40)
<1>6. \A i \in 1 .. Len(q) : Backlog(q)[i] = r[i]
  <2> TAKE i \in 1 .. Len(q)
  <2>1. CASE i = 1
    BY <2>1, <1>1, <1>2, <1>5
  <2>2. CASE i # 1
    <3>1. i - 1 \in 1 .. Len(q) - 1 /\ (i - 1) + 1 = i
      BY <2>2, <1>1
    <3>2. Tail(q)[i - 1] = q[i]
      BY <3>1, <1>1
    <3>3. Backlog(Tail(q))[i - 1] = Frame(q[i])
      BY <3>1, <3>2, <1>3
    <3> HIDE DEF r
    <3> QED
      BY <2>2, <3>3, <1>2, <1>5
  <2> QED
    BY <2>1, <2>2
<1> QED
  BY <1>2, <1>5, <1>6, SeqEqual, SMTT(40)

\* Handing over a frame, and writing one, keep the split of what was accepted.
LEMMA AcceptKeepsSplit ==
  ASSUME NEW r \in Seq(Frames), NEW q \in Seq(MessageIds), NEW m \in MessageIds
  PROVE  Append(r \o Backlog(q), Frame(m)) = r \o Backlog(Append(q, m))
<1>1. Backlog(q) \in Seq(Frames) /\ Frame(m) \in Frames
  BY BacklogType, FrameType
<1>2. <<Frame(m)>> \in Seq(Frames)
  BY <1>1
<1>3. Append(r \o Backlog(q), Frame(m)) = (r \o Backlog(q)) \o <<Frame(m)>>
  BY <1>1, ConcatProperties, AppendIsConcat
<1>4. @ = r \o (Backlog(q) \o <<Frame(m)>>)
  BY <1>1, <1>2, ConcatAssociative
<1>5. @ = r \o Backlog(Append(q, m))
  BY <1>1, AppendIsConcat, BacklogAppend
<1> QED
  BY <1>3, <1>4, <1>5

LEMMA WriteKeepsSplit ==
  ASSUME NEW r \in Seq(Frames), NEW q \in Seq(MessageIds), q # <<>>
  PROVE  r \o Backlog(q) = Append(r, Frame(Head(q))) \o Backlog(Tail(q))
<1>1. Frame(Head(q)) \in Frames /\ Tail(q) \in Seq(MessageIds)
  BY HeadTailProperties, FrameType
<1>2. Backlog(Tail(q)) \in Seq(Frames)
  BY <1>1, BacklogType
<1>6. \A f \in Frames : <<f>> \in Seq(Frames)
  OBVIOUS
<1>3. r \o Backlog(q) = r \o (<<Frame(Head(q))>> \o Backlog(Tail(q)))
  BY BacklogHeadTail
<1>4. @ = (r \o <<Frame(Head(q))>>) \o Backlog(Tail(q))
  BY <1>1, <1>2, <1>6, ConcatAssociative
<1>5. @ = Append(r, Frame(Head(q))) \o Backlog(Tail(q))
  BY <1>1, AppendIsConcat
<1> QED
  BY <1>3, <1>4, <1>5

-----------------------------------------------------------------------------
(***************************************************************************)
(* Where the threads can be, and what that says of the session they are    *)
(* dealing with.                                                           *)
(***************************************************************************)
Positions ==
    /\ pc["io"] # "process"
    /\ pc["dec"] \notin {"blocked", "handling", "destroy"}
    /\ pc["io"] # "idle" => current \in Sessions
    /\ pc["io"] \notin {"idle", "destroy"} => life[current] = "open"
    /\ pc["io"] = "destroy" => life[current] = "closing"
    /\ \A t \in Threads :
          /\ pc[t] \in {"each", "binary", "write"} => msg[t] \in MessageIds
          /\ pc[t] \in {"binary", "write"} => on[t] \in Sessions
    /\ \A s \in Sessions : reading[s] \/ flight[s] # {} => life[s] = "open"

\* The thread that owns the stream of a session is writing the head of its
\* queue, and has set the opcode of that message before it starts the write.
Ownership ==
    \A s \in Sessions : \A t \in Threads : Writing(t, s) =>
        /\ queue[s] # <<>> /\ Head(queue[s]) = msg[t]
        /\ pc[t] = "write" => binary[s] = (msg[t] \in BinaryMessages)

\* The thread that holds sessions_mtx_ is in the midst of its broadcast, and
\* nobody else iterates.
Holding ==
    \A t \in Threads :
        /\ pc[t] = "each" \/ ahead[t] # {} => sessions_mtx = t
        /\ sessions_mtx = t => pc[t] \in {"each", "binary", "write"} /\ msg[t] \in MessageIds

IInv ==
    /\ TypeOK
    /\ Positions
    /\ Holding
    /\ OneWriteAtATime
    /\ QueueIsBacklog
    /\ Ownership

USE SessionsAssumption, MaxMessagesAssumption

LEMMA InitIInv == Init => IInv
<1> SUFFICES ASSUME Init PROVE IInv
  OBVIOUS
<1>1. TypeOK
  BY DEF Init, TypeOK, Threads, Steps, Stages
<1>2. Positions /\ Holding
  BY DEF Init, Positions, Holding, Threads
<1>3. OneWriteAtATime /\ Ownership
  BY DEF Init, OneWriteAtATime, Ownership, Writing, Threads
<1>4. ASSUME NEW s \in Sessions PROVE accepted[s] = received[s] \o Backlog(queue[s])
  <2>1. Backlog(<<>>) = <<>>
    BY DEF Backlog
  <2>2. <<>> \o <<>> = <<>>
    OBVIOUS
  <2> QED
    BY <2>1, <2>2 DEF Init
<1>5. QueueIsBacklog
  BY <1>4 DEF QueueIsBacklog, Init
<1> QED
  BY <1>1, <1>2, <1>3, <1>5 DEF IInv

\* The types of what the steps of a write change.
LEMMA PushTypes ==
  ASSUME TypeOK, NEW t \in Threads, NEW s \in Sessions \cup {None},
         NEW m \in MessageIds, Push(t, s, m)
  PROVE  /\ queue' \in [Sessions -> Seq(MessageIds)]
         /\ accepted' \in [Sessions -> Seq(Frames)]
         /\ pc' \in [Threads -> Steps]
         /\ on' \in [Threads -> Sessions \cup {None}]
         /\ msg' \in [Threads -> 0 .. MaxMessages]
<1>1. \A q \in Seq(MessageIds) : Append(q, m) \in Seq(MessageIds)
  BY AppendProperties
<1>2. \A q \in Seq(Frames) : Append(q, Frame(m)) \in Seq(Frames)
  BY FrameType, AppendProperties
<1>3. queue' \in [Sessions -> Seq(MessageIds)] /\ accepted' \in [Sessions -> Seq(Frames)]
  BY <1>1, <1>2 DEF Push, TypeOK
<1>4. pc' \in [Threads -> Steps] /\ on' \in [Threads -> Sessions \cup {None}]
  BY DEF Push, TypeOK, Steps
<1>5. msg' \in [Threads -> 0 .. MaxMessages]
  <2>1. m \in 0 .. MaxMessages /\ msg \in [Threads -> 0 .. MaxMessages]
    BY DEF TypeOK, MessageIds
  <2>2. msg' = [msg EXCEPT ![t] = m] \/ msg' = msg
    BY DEF Push
  <2> QED
    BY <2>1, <2>2
<1> QED
  BY <1>3, <1>4, <1>5

LEMMA ReleaseTypes ==
  ASSUME TypeOK, NEW s \in Sessions, Release(s)
  PROVE  /\ life' \in [Sessions -> Stages]
         /\ pc' \in [Threads -> Steps]
         /\ current' \in Sessions \cup {None}
<1>1. CASE reading'[s] \/ flight'[s] # {}
  BY <1>1 DEF Release, TypeOK
<1>2. CASE ~(reading'[s] \/ flight'[s] # {})
  BY <1>2 DEF Release, TypeOK, Stages, Steps
<1> QED
  BY <1>1, <1>2

LEMMA WriteTypes ==
  ASSUME IInv, NEW s \in Sessions, OnWrite(s)
  PROVE  TypeOK'
<1> USE DEF IInv, TypeOK
<1> PICK w \in flight[s] :
        /\ received' = [received EXCEPT ![s] =
               Append(@, [msg |-> w.msg, binary |-> w.binary])]
        /\ mangled' \in {mangled} \cup IF w.owned THEN {} ELSE {mangled \cup {s}}
        /\ queue' = [queue EXCEPT ![s] = Tail(@)]
        /\ IF MoreQueued(s)
           THEN /\ binary' = [binary EXCEPT ![s] = NextQueued(s).binary]
                /\ flight' = [flight EXCEPT ![s] = (@ \ {w}) \cup
                       {[msg |-> NextQueued(s).msg, binary |-> NextQueued(s).binary,
                         owned |-> FALSE]}]
           ELSE /\ flight' = [flight EXCEPT ![s] = @ \ {w}]
                /\ UNCHANGED binary
  BY DEF OnWrite
<1>1. w \in Writes
  OBVIOUS
<1>2. received' \in [Sessions -> Seq(Frames)]
  <2>1. [msg |-> w.msg, binary |-> w.binary] \in Frames
    BY <1>1 DEF Writes, Frames
  <2>2. \A q \in Seq(Frames) : Append(q, [msg |-> w.msg, binary |-> w.binary]) \in Seq(Frames)
    BY <2>1, AppendProperties
  <2> QED
    BY <2>2
<1>3. queue[s] # <<>> /\ queue[s] \in Seq(MessageIds)
  BY DEF QueueIsBacklog
<1>4. queue' \in [Sessions -> Seq(MessageIds)]
  <2>1. Tail(queue[s]) \in Seq(MessageIds)
    BY <1>3, HeadTailProperties
  <2> QED
    BY <2>1
<1>5. MoreQueued(s) => NextQueued(s) \in Frames
  <2>1. MoreQueued(s) => queue[s][2] \in MessageIds
    BY <1>3, LenProperties, ElementOfSeq DEF MoreQueued
  <2> QED
    BY <2>1, FrameType DEF NextQueued
<1>6. binary' \in [Sessions -> BOOLEAN] /\ flight' \in [Sessions -> SUBSET Writes]
  <2>1. CASE MoreQueued(s)
    <3> DEFINE x == [msg |-> NextQueued(s).msg, binary |-> NextQueued(s).binary, owned |-> FALSE]
    <3>1. NextQueued(s).binary \in BOOLEAN /\ x \in Writes
      BY <1>5, <2>1 DEF Frames, Writes
    <3> HIDE DEF x
    <3>2. flight' = [flight EXCEPT ![s] = (@ \ {w}) \cup {x}]
      BY <2>1 DEF x
    <3>3. binary' = [binary EXCEPT ![s] = NextQueued(s).binary]
      BY <2>1
    <3>4. flight' \in [Sessions -> SUBSET Writes]
      BY <3>1, <3>2
    <3>5. binary' \in [Sessions -> BOOLEAN]
      BY <3>1, <3>3, Zenon
    <3> QED
      BY <3>4, <3>5
  <2>2. CASE ~MoreQueued(s)
    <3>1. flight' = [flight EXCEPT ![s] = @ \ {w}] /\ binary' = binary
      BY <2>2, Zenon
    <3>2. flight' \in [Sessions -> SUBSET Writes]
      BY <3>1
    <3> QED
      BY <3>1, <3>2, Zenon
  <2> QED
    BY <2>1, <2>2
<1>7. life' \in [Sessions -> Stages] /\ pc' \in [Threads -> Steps] /\ current' \in Sessions \cup {None}
  BY ReleaseTypes DEF OnWrite
<1>8. mangled' \subseteq Sessions
  OBVIOUS
<1> QED
  BY <1>2, <1>4, <1>6, <1>7, <1>8 DEF OnWrite, sending, loop

LEMMA TypeStep ==
  ASSUME IInv, [Next]_vars
  PROVE  TypeOK'
<1> USE DEF IInv, TypeOK, Threads, Stages, Steps
<1>1. ASSUME ListenerError PROVE TypeOK'
  BY <1>1 DEF ListenerError, outbox, history, sending, loop, OwnerCount, Faults
<1>2. ASSUME NEW s \in Sessions, Connection(s) PROVE TypeOK'
  <2>1. ASSUME ListenerAccept(s) \/ HttpUpgrade(s) PROVE TypeOK'
    <3>1. life' \in [Sessions -> Stages]
      BY <2>1 DEF ListenerAccept, HttpUpgrade
    <3> QED
      BY <2>1, <3>1 DEF ListenerAccept, HttpUpgrade, outbox, history, sending, loop
  <2>2. ASSUME HttpReject(s) PROVE TypeOK'
    BY <2>2 DEF HttpReject, outbox, history, sending, loop, OwnerCount, Faults
  <2>3. ASSUME OnAccept(s) PROVE TypeOK'
    <3>1. /\ ahead' \in [Threads -> SUBSET Sessions] /\ owed' \in [Threads -> SUBSET Sessions]
          /\ fault' \subseteq Faults
      <4>1. /\ ahead' = ahead \/ \E a \in SUBSET Sessions : ahead' = [ahead EXCEPT !["dec"] = a]
            /\ owed' = owed \/ owed' = [owed EXCEPT !["dec"] = {}]
            /\ fault' \subseteq fault \cup {"iterator"}
        <5>1. CASE InsertInPlace(s)
          <6>1. ahead["dec"] \cup {s} \in SUBSET Sessions
            OBVIOUS
          <6> QED
            BY <5>1, <6>1 DEF InsertInPlace
        <5>2. CASE InsertAndRehash(s)
          BY <5>2 DEF InsertAndRehash
        <5>3. CASE GoAstray \/ UNCHANGED <<loop, fault>>
          BY <5>3 DEF GoAstray, loop
        <5> QED
          BY <2>3, <5>1, <5>2, <5>3 DEF OnAccept, SessionAdd
      <4> QED
        BY <4>1 DEF Faults
    <3>2. /\ life' \in [Sessions -> Stages] /\ reading' \in [Sessions -> BOOLEAN]
          /\ registry' \subseteq Sessions
      BY <2>3 DEF OnAccept, SessionAdd
    <3> QED
      BY <2>3, <3>1, <3>2 DEF OnAccept, outbox, history
  <2>4. ASSUME OnAcceptError(s) PROVE TypeOK'
    BY <2>4 DEF OnAcceptError, outbox, history, sending, loop
  <2> QED
    BY <1>2, <2>1, <2>2, <2>3, <2>4 DEF Connection
<1>3. ASSUME NEW s \in Sessions, Handler(s) PROVE TypeOK'
  <2>1. ASSUME OnReadError(s) PROVE TypeOK'
    BY <2>1, ReleaseTypes DEF OnReadError, history, sending, loop
  <2>2. ASSUME OnRead(s) PROVE TypeOK'
    BY <2>2, SMTT(40) DEF OnRead, conn, outbox, history, sending, loop
  <2>3. ASSUME OnWrite(s) PROVE TypeOK'
    BY <2>3, WriteTypes
  <2>4. ASSUME OnWriteError(s) PROVE TypeOK'
    <3>1. flight' \in [Sessions -> SUBSET Writes]
      BY <2>4 DEF OnWriteError
    <3> QED
      BY <2>4, <3>1, ReleaseTypes DEF OnWriteError, sending, loop, FailedKept
  <2> QED
    BY <1>3, <2>1, <2>2, <2>3, <2>4 DEF Handler
<1>4. ASSUME Respond PROVE TypeOK'
  <2>1. made + 1 \in MessageIds
    BY <1>4 DEF Respond, MessageIds
  <2>2. made' \in 0 .. MaxMessages
    BY <1>4 DEF Respond
  <2>3. /\ queue' \in [Sessions -> Seq(MessageIds)]
        /\ accepted' \in [Sessions -> Seq(Frames)]
        /\ pc' \in [Threads -> Steps] /\ on' \in [Threads -> Sessions \cup {None}]
        /\ msg' \in [Threads -> 0 .. MaxMessages]
    BY <1>4, <2>1, PushTypes DEF Respond, Response
  <2> QED
    BY <1>4, <2>2, <2>3 DEF Respond, conn, loop
<1>5. ASSUME OnReadDone \/ ProcessBegin \/ ProcessEnd PROVE TypeOK'
  BY <1>5 DEF OnReadDone, ProcessBegin, ProcessEnd, conn, outbox, history, sending, loop
<1>6. ASSUME NEW t \in Threads, Broadcast(t) PROVE TypeOK'
  <2>1. ASSUME SessionsSend(t) PROVE TypeOK'
    <3>1. /\ ahead' \in [Threads -> SUBSET Sessions] /\ owed' \in [Threads -> SUBSET Sessions]
          /\ msg' \in [Threads -> 0 .. MaxMessages] /\ made' \in 0 .. MaxMessages
          /\ sessions_mtx' \in Threads \cup {None} /\ pc' \in [Threads -> Steps]
      BY <2>1 DEF SessionsSend
    <3> QED
      BY <2>1, <3>1 DEF SessionsSend, conn, outbox, history
  <2>2. ASSUME SessionsSent(t) PROVE TypeOK'
    BY <2>2 DEF SessionsSent, conn, outbox, history, Home
  <2>3. ASSUME SetBinary(t) PROVE TypeOK'
    <3>1. CASE life[on[t]] = "open"
      <4> DEFINE opcode == msg[t] \in BinaryMessages
      <4>1. opcode \in BOOLEAN
        OBVIOUS
      <4>2. binary' = [binary EXCEPT ![on[t]] = opcode]
        BY <2>3, <3>1 DEF SetBinary
      <4> HIDE DEF opcode
      <4>3. binary' \in [Sessions -> BOOLEAN]
        BY <4>1, <4>2, Zenon
      <4>4. pc' \in [Threads -> Steps] /\ UNCHANGED fault
        BY <2>3, <3>1 DEF SetBinary
      <4> QED
        BY <2>3, <4>3, <4>4 DEF SetBinary, conn, history, sending, loop
    <3>2. CASE life[on[t]] # "open"
      BY <2>3, <3>2 DEF SetBinary, conn, history, sending, loop, Faults
    <3> QED
      BY <3>1, <3>2
  <2>4. ASSUME StartWrite(t) PROVE TypeOK'
    <3>1. on[t] \in Sessions /\ msg[t] \in MessageIds
      BY <2>4 DEF StartWrite, Positions
    <3>2. [msg |-> msg[t], binary |-> binary[on[t]], owned |-> TRUE] \in Writes
      BY <3>1 DEF Writes
    <3>3. flight' \in [Sessions -> SUBSET Writes]
      <4> DEFINE x == [msg |-> msg[t], binary |-> binary[on[t]], owned |-> TRUE]
      <4>1. flight' = [flight EXCEPT ![on[t]] = @ \cup {x}] \/ flight' = flight
        BY <2>4 DEF StartWrite
      <4> HIDE DEF x
      <4>2. x \in Writes
        BY <3>2 DEF x
      <4>3. flight \in [Sessions -> SUBSET Writes]
        OBVIOUS
      <4> HIDE DEF IInv, TypeOK
      <4> QED
        BY <4>1, <4>2, <4>3
    <3>4. pc' \in [Threads -> Steps] /\ on' \in [Threads -> Sessions \cup {None}]
      BY <2>4 DEF StartWrite, Home
    <3>5. fault' \subseteq Faults /\ msg' \in [Threads -> 0 .. MaxMessages]
      <4> DEFINE x == IF sessions_mtx = t THEN msg[t] ELSE 0
      <4>1. msg' = msg \/ msg' = [msg EXCEPT ![t] = x]
        BY <2>4 DEF StartWrite
      <4>3. x \in 0 .. MaxMessages
        OBVIOUS
      <4> HIDE DEF x
      <4>2. msg' \in [Threads -> 0 .. MaxMessages]
        BY <4>1, <4>3
      <4> QED
        BY <2>4, <4>2 DEF StartWrite, Faults
    <3> QED
      BY <2>4, <3>3, <3>4, <3>5 DEF StartWrite, conn, history, loop
  <2>5. ASSUME NEW s \in Sessions, Visit(t, s) PROVE TypeOK'
    <3>1. CASE life[s] = "open"
      <4>1. msg[t] \in MessageIds
        BY <2>5 DEF Visit, Positions
      <4>2. /\ queue' \in [Sessions -> Seq(MessageIds)]
            /\ accepted' \in [Sessions -> Seq(Frames)]
            /\ pc' \in [Threads -> Steps] /\ on' \in [Threads -> Sessions \cup {None}]
            /\ msg' \in [Threads -> 0 .. MaxMessages]
        BY <2>5, <3>1, <4>1, PushTypes DEF Visit
      <4> QED
        BY <2>5, <3>1, <4>2 DEF Visit, conn
    <3>2. CASE life[s] # "open"
      BY <2>5, <3>2 DEF Visit, conn, Faults
    <3> QED
      BY <3>1, <3>2
  <2>6. ASSUME SetDecoder PROVE TypeOK'
    BY <2>6 DEF SetDecoder, conn, outbox, history, sending, loop
  <2>7. ASSUME SessionDelete PROVE TypeOK'
    <3>1. /\ ahead' \in [Threads -> SUBSET Sessions] /\ owed' \in [Threads -> SUBSET Sessions]
          /\ fault' \subseteq Faults
      <4>1. /\ ahead' = ahead \/ ahead' = [ahead EXCEPT !["dec"] = @ \ {current}]
            /\ owed' = owed \/ owed' = [owed EXCEPT !["dec"] = @ \ {current}]
            /\ fault' \subseteq fault \cup {"iterator", "server"}
        BY <2>7 DEF SessionDelete, EraseInPlace, EraseAstray, OwnerCount, loop
      <4> QED
        BY <4>1 DEF Faults
    <3>2. /\ life' \in [Sessions -> Stages] /\ registry' \subseteq Sessions
          /\ pc' \in [Threads -> Steps]
      BY <2>7 DEF SessionDelete, Without
    <3> QED
      BY <2>7, <3>1, <3>2 DEF SessionDelete, outbox, history
  <2> QED
    BY <1>6, <2>1, <2>2, <2>3, <2>4, <2>5, <2>6, <2>7 DEF Broadcast, ThreadStep
<1>7. CASE UNCHANGED vars
  BY <1>7 DEF vars
<1> QED
  BY <1>1, <1>2, <1>3, <1>4, <1>5, <1>6, <1>7 DEF Next, Halt

LEMMA PositionsStep ==
  ASSUME IInv, [Next]_vars
  PROVE  Positions'
<1> USE DEF IInv, TypeOK, Positions, Threads
<1>1. ASSUME ListenerError PROVE Positions'
  BY <1>1 DEF ListenerError, outbox, history, sending, loop
<1>2. ASSUME NEW s \in Sessions, Connection(s) PROVE Positions'
  <2>1. ASSUME ListenerAccept(s) \/ HttpUpgrade(s) PROVE Positions'
    BY <2>1, ZenonT(60) DEF ListenerAccept, HttpUpgrade, outbox, history, sending, loop
  <2>2. ASSUME HttpReject(s) PROVE Positions'
    BY <2>2 DEF HttpReject, outbox, history, sending, loop
  <2>3. ASSUME OnAccept(s) PROVE Positions'
    BY <2>3 DEF OnAccept, outbox, history, sending, loop
  <2>4. ASSUME OnAcceptError(s) PROVE Positions'
    BY <2>4 DEF OnAcceptError, outbox, history, sending, loop
  <2> QED
    BY <1>2, <2>1, <2>2, <2>3, <2>4 DEF Connection
<1>3. ASSUME NEW s \in Sessions, Handler(s) PROVE Positions'
  <2>1. ASSUME OnReadError(s) PROVE Positions'
    BY <2>1, SMTT(40) DEF OnReadError, history, sending, loop, Release
  <2>2. ASSUME OnRead(s) PROVE Positions'
    BY <2>2 DEF OnRead, conn, outbox, history, sending, loop
  <2>3. ASSUME OnWrite(s) PROVE Positions'
    <3>1. life[s] = "open" /\ pc["io"] = "idle"
      BY <2>3 DEF OnWrite
    <3>2. \A r \in Sessions : r # s => flight'[r] = flight[r]
      BY <2>3 DEF OnWrite
    <3>3. flight'[s] # {} \/ reading'[s] =>
              life'[s] = "open" /\ UNCHANGED <<life, pc, current>>
      BY <2>3, <3>1 DEF OnWrite, Release
    <3>4. UNCHANGED <<reading, msg, on>>
      BY <2>3 DEF OnWrite, sending, loop
    <3>5. Release(s)
      BY <2>3 DEF OnWrite
    <3>6. CASE reading'[s] \/ flight'[s] # {}
      BY <3>1, <3>2, <3>3, <3>4, <3>6
    <3>7. CASE ~(reading'[s] \/ flight'[s] # {})
      BY <3>1, <3>2, <3>4, <3>5, <3>7, SMTT(40) DEF Release
    <3> QED
      BY <3>6, <3>7
  <2>4. ASSUME OnWriteError(s) PROVE Positions'
    BY <2>4, SMTT(40) DEF OnWriteError, sending, loop, Release
  <2> QED
    BY <1>3, <2>1, <2>2, <2>3, <2>4 DEF Handler
<1>4. ASSUME Respond PROVE Positions'
  BY <1>4 DEF Respond, Response, Push, conn, MessageIds
<1>5. ASSUME OnReadDone \/ ProcessBegin \/ ProcessEnd PROVE Positions'
  BY <1>5, SMTT(40) DEF OnReadDone, ProcessBegin, ProcessEnd, conn, outbox, history, sending, loop
<1>6. ASSUME NEW t \in Threads, Broadcast(t) PROVE Positions'
  <2>1. ASSUME SessionsSend(t) PROVE Positions'
    BY <2>1 DEF SessionsSend, conn, outbox, history, Home, MessageIds
  <2>2. ASSUME SessionsSent(t) PROVE Positions'
    BY <2>2 DEF SessionsSent, conn, outbox, history, Home
  <2>3. ASSUME SetBinary(t) PROVE Positions'
    BY <2>3 DEF SetBinary, conn, history, sending, loop
  <2>4. ASSUME StartWrite(t) PROVE Positions'
    <3>1. CASE life[on[t]] = "open"
      <4>1. \A s \in Sessions : s # on[t] => flight'[s] = flight[s]
        BY <2>4, <3>1 DEF StartWrite
      <4>2. pc' = [pc EXCEPT ![t] = IF sessions_mtx = t THEN "each" ELSE Home(t)]
        BY <2>4, <3>1 DEF StartWrite
      <4>3. pc[t] = "write" /\ UNCHANGED <<life, reading, current>>
        BY <2>4 DEF StartWrite, conn
      <4>4. /\ sessions_mtx = t => msg'[t] = msg[t]
            /\ \A r \in Threads : r # t => on'[r] = on[r] /\ msg'[r] = msg[r]
        BY <2>4, <3>1 DEF StartWrite
      <4> QED
        BY <3>1, <4>1, <4>2, <4>3, <4>4 DEF Home
    <3>2. CASE life[on[t]] # "open"
      BY <2>4, <3>2 DEF StartWrite, conn, history
    <3> QED
      BY <3>1, <3>2
  <2>5. ASSUME NEW s \in Sessions, Visit(t, s) PROVE Positions'
    BY <2>5, ZenonT(60) DEF Visit, Push, conn
  <2>6. ASSUME SetDecoder PROVE Positions'
    BY <2>6 DEF SetDecoder, conn, outbox, history, sending, loop
  <2>7. ASSUME SessionDelete PROVE Positions'
    BY <2>7 DEF SessionDelete, outbox, history, sending, loop
  <2> QED
    BY <1>6, <2>1, <2>2, <2>3, <2>4, <2>5, <2>6, <2>7 DEF Broadcast, ThreadStep
<1>7. CASE UNCHANGED vars
  BY <1>7 DEF vars
<1> QED
  BY <1>1, <1>2, <1>3, <1>4, <1>5, <1>6, <1>7 DEF Next, Halt

LEMMA HoldingStep ==
  ASSUME IInv, [Next]_vars
  PROVE  Holding'
<1> USE DEF IInv, TypeOK, Positions, Holding, Threads
<1>1. ASSUME ListenerError PROVE Holding'
  BY <1>1 DEF ListenerError, sending, loop
<1>2. ASSUME NEW s \in Sessions, Connection(s) PROVE Holding'
  <2>1. ASSUME ListenerAccept(s) \/ HttpUpgrade(s) \/ HttpReject(s) PROVE Holding'
    BY <2>1 DEF ListenerAccept, HttpUpgrade, HttpReject, sending, loop
  <2>2. ASSUME OnAccept(s) PROVE Holding'
    <3>1. UNCHANGED <<pc, msg, sessions_mtx>>
      BY <2>2 DEF OnAccept
    <3>2. ahead'["io"] = ahead["io"] /\ (ahead' = ahead \/ sessions_mtx = "dec")
      BY <2>2 DEF OnAccept, SessionAdd, InsertInPlace, InsertAndRehash, GoAstray, loop, Iterating
    <3> QED
      BY <3>1, <3>2
  <2>3. ASSUME OnAcceptError(s) PROVE Holding'
    BY <2>3 DEF OnAcceptError, sending, loop
  <2> QED
    BY <1>2, <2>1, <2>2, <2>3 DEF Connection
<1>3. ASSUME NEW s \in Sessions, Handler(s) PROVE Holding'
  <2>1. UNCHANGED <<ahead, sessions_mtx, msg>> /\ pc["io"] = "idle"
    BY <1>3 DEF Handler, OnReadError, OnRead, OnWrite, OnWriteError, sending, loop
  <2>2. pc' = pc \/ \E x \in {"destroy", "handling", "blocked"} : pc' = [pc EXCEPT !["io"] = x]
    BY <1>3 DEF Handler, OnReadError, OnRead, OnWrite, OnWriteError, Release
  <2> QED
    BY <2>1, <2>2
<1>4. ASSUME Respond PROVE Holding'
  <2>1. /\ UNCHANGED <<ahead, sessions_mtx>> /\ pc["io"] = "handling"
        /\ pc' = pc \/ pc' = [pc EXCEPT !["io"] = "binary"]
        /\ msg'["dec"] = msg["dec"]
    BY <1>4 DEF Respond, Push, loop
  <2> QED
    BY <2>1
<1>5. ASSUME OnReadDone \/ ProcessBegin \/ ProcessEnd \/ SetDecoder PROVE Holding'
  BY <1>5 DEF OnReadDone, ProcessBegin, ProcessEnd, SetDecoder, sending, loop
<1>6. ASSUME SessionDelete PROVE Holding'
  <2>1. UNCHANGED <<msg, sessions_mtx>> /\ pc' = [pc EXCEPT !["io"] = "idle"] /\ pc["io"] = "destroy"
    BY <1>6 DEF SessionDelete
  <2>2. ahead'["io"] = ahead["io"] /\ (ahead' = ahead \/ sessions_mtx = "dec")
    BY <1>6 DEF SessionDelete, EraseInPlace, EraseAstray, loop, Iterating
  <2> QED
    BY <2>1, <2>2
<1>7. ASSUME NEW t \in Threads, Broadcast(t) PROVE Holding'
  <2>1. ASSUME SessionsSend(t) PROVE Holding'
    BY <2>1 DEF SessionsSend, MutexFree, MessageIds
  <2>2. ASSUME SessionsSent(t) PROVE Holding'
    BY <2>2 DEF SessionsSent, Home
  <2>3. ASSUME NEW s \in Sessions, Visit(t, s) PROVE Holding'
    <3>1. /\ sessions_mtx = t /\ sessions_mtx' = t /\ ahead' = [ahead EXCEPT ![t] = @ \ {s}]
          /\ pc' = pc \/ pc' = [pc EXCEPT ![t] = "binary"]
      BY <2>3 DEF Visit, Push
    <3>2. msg' = msg
      <4>1. msg' = msg \/ msg' = [msg EXCEPT ![t] = msg[t]]
        BY <2>3 DEF Visit, Push
      <4> QED
        BY <4>1
    <3> QED
      BY <3>1, <3>2
  <2>4. ASSUME SetBinary(t) PROVE Holding'
    BY <2>4 DEF SetBinary, sending, loop
  <2>5. ASSUME StartWrite(t) PROVE Holding'
    <3>1. /\ UNCHANGED <<ahead, sessions_mtx>> /\ pc[t] = "write"
          /\ sessions_mtx = t => msg'[t] = msg[t]
          /\ \A u \in Threads : u # t => msg'[u] = msg[u]
          /\ pc' = pc \/ pc' = [pc EXCEPT ![t] = IF sessions_mtx = t THEN "each" ELSE Home(t)]
      BY <2>5 DEF StartWrite, loop
    <3> QED
      BY <3>1 DEF Home
  <2> QED
    BY <1>5, <1>6, <1>7, <2>1, <2>2, <2>3, <2>4, <2>5 DEF Broadcast, ThreadStep
<1>8. CASE UNCHANGED vars
  BY <1>8 DEF vars
<1> QED
  BY <1>1, <1>2, <1>3, <1>4, <1>5, <1>7, <1>8 DEF Next, Halt

-----------------------------------------------------------------------------
(***************************************************************************)
(* The write queues.                                                       *)
(***************************************************************************)
Safe == OneWriteAtATime /\ QueueIsBacklog /\ Ownership

\* Steps that touch no queue and no stream, and start no send.
LEMMA QuietStep ==
  ASSUME IInv, UNCHANGED <<queue, binary, flight, accepted, received>>,
         \A t \in Threads : pc'[t] \in {"binary", "write"} =>
             pc'[t] = pc[t] /\ on'[t] = on[t] /\ msg'[t] = msg[t]
  PROVE  Safe'
<1>1. \A t \in Threads, s \in Sessions : Writing(t, s)' => Writing(t, s) /\ msg'[t] = msg[t] /\ pc'[t] = pc[t]
  BY DEF Writing
<1>2. OneWriteAtATime'
  BY <1>1 DEF IInv, OneWriteAtATime, Threads
<1>3. QueueIsBacklog'
  BY DEF IInv, QueueIsBacklog
<1>4. Ownership'
  <2> SUFFICES ASSUME NEW s \in Sessions, NEW t \in Threads, Writing(t, s)'
               PROVE  /\ queue'[s] # <<>> /\ Head(queue'[s]) = msg'[t]
                      /\ pc'[t] = "write" => binary'[s] = (msg'[t] \in BinaryMessages)
    BY DEF Ownership
  <2>1. Writing(t, s) /\ msg'[t] = msg[t] /\ pc'[t] = pc[t]
    BY <1>1
  <2>2. /\ queue[s] # <<>> /\ Head(queue[s]) = msg[t]
        /\ pc[t] = "write" => binary[s] = (msg[t] \in BinaryMessages)
    BY <2>1, Zenon DEF IInv, Ownership
  <2> QED
    BY <2>1, <2>2, Zenon
<1> QED
  BY <1>2, <1>3, <1>4 DEF Safe

LEMMA PushStep ==
  ASSUME IInv, NEW t \in Threads, NEW s \in Sessions, NEW m \in MessageIds,
         Push(t, s, m), pc[t] \notin {"binary", "write"},
         UNCHANGED <<binary, flight, received>>
  PROVE  Safe'
<1>1. /\ queue \in [Sessions -> Seq(MessageIds)] /\ accepted \in [Sessions -> Seq(Frames)]
      /\ received[s] \in Seq(Frames) /\ queue[s] \in Seq(MessageIds)
      /\ pc \in [Threads -> Steps] /\ on \in [Threads -> Sessions \cup {None}]
      /\ msg \in [Threads -> 0 .. MaxMessages]
  BY DEF IInv, TypeOK
<1>2. /\ queue'[s] = Append(queue[s], m) /\ accepted'[s] = Append(accepted[s], Frame(m))
      /\ \A r \in Sessions : r # s => queue'[r] = queue[r] /\ accepted'[r] = accepted[r]
  BY <1>1 DEF Push
<1>3. /\ Append(queue[s], m) # <<>>
      /\ queue[s] # <<>> => Head(Append(queue[s], m)) = Head(queue[s])
      /\ queue[s] = <<>> => Head(Append(queue[s], m)) = m
  <2>1. Append(queue[s], m) # <<>>
    BY <1>1, AppendProperties, SMTT(40)
  <2>2. CASE queue[s] # <<>>
    BY <2>1, <2>2, <1>1, HeadTailAppend
  <2>3. CASE queue[s] = <<>>
    <3>1. Append(<<>>, m) = <<m>> /\ Head(<<m>>) = m
      OBVIOUS
    <3> QED
      BY <2>1, <2>3, <3>1, Zenon
  <2> QED
    BY <2>1, <2>2, <2>3
<1>4. \A r \in Sessions : accepted'[r] = received'[r] \o Backlog(queue'[r])
  <2> TAKE r \in Sessions
  <2>1. accepted[r] = received[r] \o Backlog(queue[r])
    BY DEF IInv, QueueIsBacklog
  <2>2. CASE r = s
    <3>1. Append(received[s] \o Backlog(queue[s]), Frame(m)) = received[s] \o Backlog(Append(queue[s], m))
      BY <1>1, AcceptKeepsSplit
    <3> QED
      BY <2>1, <2>2, <3>1, <1>2, Zenon
  <2>3. CASE r # s
    BY <2>1, <2>3, <1>2
  <2> QED
    BY <2>2, <2>3
<1>5. \A r \in Sessions : \A w \in flight'[r] :
          queue'[r] # <<>> /\ Frame(Head(queue'[r])) = [msg |-> w.msg, binary |-> w.binary]
  <2> TAKE r \in Sessions
  <2> TAKE w \in flight'[r]
  <2>1. queue[r] # <<>> /\ Frame(Head(queue[r])) = [msg |-> w.msg, binary |-> w.binary]
    BY DEF IInv, QueueIsBacklog
  <2>2. queue'[r] # <<>> /\ Head(queue'[r]) = Head(queue[r])
    <3>1. CASE r = s
      BY <3>1, <2>1, <1>2, <1>3, Zenon
    <3>2. CASE r # s
      BY <3>2, <2>1, <1>2, Zenon
    <3> QED
      BY <3>1, <3>2
  <2> QED
    BY <2>1, <2>2, Zenon
<1>6. \A u \in Threads, r \in Sessions :
          Writing(u, r)' =>
              \/ Writing(u, r) /\ u # t /\ pc'[u] = pc[u]
              \/ u = t /\ r = s /\ queue[s] = <<>> /\ pc'[u] = "binary" /\ msg'[u] = m
  <2>1. CASE queue[s] = <<>>
    <3>1. /\ pc' = [pc EXCEPT ![t] = "binary"] /\ on' = [on EXCEPT ![t] = s]
          /\ msg' = [msg EXCEPT ![t] = m]
      BY <2>1 DEF Push, NobodyWrites
    <3>2. /\ pc'[t] = "binary" /\ on'[t] = s /\ msg'[t] = m
          /\ \A u \in Threads : u # t => pc'[u] = pc[u] /\ on'[u] = on[u]
      BY <3>1, <1>1
    <3> QED
      BY <2>1, <3>2 DEF Writing
  <2>2. CASE queue[s] # <<>>
    <3>1. pc' = pc /\ on' = on
      BY <2>2 DEF Push, NobodyWrites
    <3> QED
      BY <3>1 DEF Writing
  <2> QED
    BY <2>1, <2>2
<1>7. queue[s] = <<>> => flight[s] = {} /\ \A u \in Threads : ~Writing(u, s)
  BY DEF IInv, QueueIsBacklog, Ownership
<1>8. OneWriteAtATime'
  BY <1>6, <1>7 DEF IInv, OneWriteAtATime, Threads
<1>9. Ownership'
  <2> SUFFICES ASSUME NEW r \in Sessions, NEW u \in Threads, Writing(u, r)'
               PROVE  /\ queue'[r] # <<>> /\ Head(queue'[r]) = msg'[u]
                      /\ pc'[u] = "write" => binary'[r] = (msg'[u] \in BinaryMessages)
    BY DEF Ownership
  <2>1. CASE Writing(u, r) /\ u # t /\ pc'[u] = pc[u]
    <3>1. /\ queue[r] # <<>> /\ Head(queue[r]) = msg[u]
          /\ pc[u] = "write" => binary[r] = (msg[u] \in BinaryMessages)
      BY <2>1 DEF IInv, Ownership
    <3>2. queue'[r] # <<>> /\ Head(queue'[r]) = Head(queue[r])
      BY <3>1, <1>2, <1>3
    <3>3. msg'[u] = msg[u]
      BY <1>1, <2>1 DEF Push
    <3> QED
      BY <2>1, <3>1, <3>2, <3>3
  <2>2. CASE u = t /\ r = s /\ queue[s] = <<>> /\ pc'[u] = "binary" /\ msg'[u] = m
    BY <2>2, <1>2, <1>3
  <2> QED
    BY <2>1, <2>2, <1>6
<1>10. QueueIsBacklog'
  BY <1>4, <1>5 DEF QueueIsBacklog
<1> QED
  BY <1>8, <1>9, <1>10 DEF Safe

LEMMA SetBinaryStep ==
  ASSUME IInv, NEW t \in Threads, SetBinary(t)
  PROVE  Safe'
<1>1. CASE life[on[t]] # "open"
  BY <1>1, QuietStep DEF SetBinary, history, sending, loop
<1>2. CASE life[on[t]] = "open"
  <2> DEFINE s == on[t]
             opcode == msg[t] \in BinaryMessages
  <2>1. /\ s \in Sessions /\ pc[t] = "binary"
        /\ binary' = [binary EXCEPT ![s] = opcode] /\ pc' = [pc EXCEPT ![t] = "write"]
        /\ UNCHANGED <<queue, flight, accepted, received, msg, on>>
    BY <1>2 DEF SetBinary, history, sending, loop, IInv, Positions
  <2>2. /\ binary'[s] = opcode /\ \A r \in Sessions : r # s => binary'[r] = binary[r]
    BY <2>1, Zenon DEF IInv, TypeOK
  <2>3. pc'[t] = "write" /\ \A u \in Threads : u # t => pc'[u] = pc[u]
    BY <2>1 DEF IInv, TypeOK
  <2>4. \A u \in Threads, r \in Sessions : Writing(u, r)' <=> Writing(u, r)
    BY <2>1, <2>3 DEF Writing
  <2>5. OneWriteAtATime'
    BY <2>1, <2>4, Zenon DEF IInv, OneWriteAtATime, Threads
  <2>6. QueueIsBacklog'
    BY <2>1 DEF IInv, QueueIsBacklog
  <2>7. ASSUME NEW r \in Sessions, NEW u \in Threads, Writing(u, r)
        PROVE  pc'[u] = "write" => binary'[r] = (msg[u] \in BinaryMessages)
    <3>1. CASE u = t
      BY <3>1, <2>7, <2>2, Zenon DEF Writing
    <3>2. CASE u # t
      <4>1. ~Writing(t, r)
        BY <2>7, <3>2 DEF IInv, OneWriteAtATime, Threads
      <4>2. r # s
        BY <4>1, <2>1 DEF Writing
      <4>3. pc[u] = "write" => binary[r] = (msg[u] \in BinaryMessages)
        BY <2>7, Zenon DEF IInv, Ownership
      <4> QED
        BY <3>2, <4>2, <4>3, <2>2, <2>3, Zenon
    <3> QED
      BY <3>1, <3>2
  <2>8. Ownership'
    <3>1. \A r \in Sessions, u \in Threads :
              Writing(u, r) => queue[r] # <<>> /\ Head(queue[r]) = msg[u]
      BY DEF IInv, Ownership
    <3> SUFFICES ASSUME NEW r \in Sessions, NEW u \in Threads, Writing(u, r)'
                 PROVE  /\ queue'[r] # <<>> /\ Head(queue'[r]) = msg'[u]
                        /\ pc'[u] = "write" => binary'[r] = (msg'[u] \in BinaryMessages)
      BY DEF Ownership
    <3>2. Writing(u, r)
      BY <2>4
    <3>3. queue' = queue /\ msg' = msg
      BY <2>1
    <3> QED
      BY <3>1, <3>2, <3>3, <2>7, Zenon
  <2> QED
    BY <2>5, <2>6, <2>8 DEF Safe
<1> QED
  BY <1>1, <1>2

LEMMA StartWriteStep ==
  ASSUME IInv, NEW t \in Threads, StartWrite(t)
  PROVE  Safe'
<1>1. CASE life[on[t]] # "open"
  BY <1>1, QuietStep DEF StartWrite, history
<1>2. CASE life[on[t]] = "open"
  <2> DEFINE s == on[t]
             x == [msg |-> msg[t], binary |-> binary[s], owned |-> TRUE]
  <2>1. /\ s \in Sessions /\ pc[t] = "write" /\ Writing(t, s)
        /\ flight' = [flight EXCEPT ![s] = @ \cup {x}]
        /\ pc' = [pc EXCEPT ![t] = IF sessions_mtx = t THEN "each" ELSE Home(t)]
        /\ on' = [on EXCEPT ![t] = None]
        /\ UNCHANGED <<queue, binary, accepted, received>>
    BY <1>2 DEF StartWrite, history, IInv, Positions, Writing
  <2>2. flight[s] = {} /\ \A u \in Threads : u # t => ~Writing(u, s)
    BY <2>1 DEF IInv, OneWriteAtATime, Threads
  <2>3. flight'[s] = {x} /\ \A r \in Sessions : r # s => flight'[r] = flight[r]
    BY <2>1, <2>2 DEF IInv, TypeOK
  <2>4. /\ pc'[t] \notin {"binary", "write"}
        /\ \A u \in Threads : u # t => pc'[u] = pc[u] /\ on'[u] = on[u] /\ msg'[u] = msg[u]
    BY <1>2, <2>1 DEF IInv, TypeOK, Home, StartWrite
  <2>5. \A u \in Threads, r \in Sessions :
            Writing(u, r)' => /\ Writing(u, r) /\ u # t /\ r # s
                              /\ pc'[u] = pc[u] /\ msg'[u] = msg[u]
    <3>1. \A u \in Threads, r \in Sessions :
              Writing(u, r)' => Writing(u, r) /\ u # t /\ pc'[u] = pc[u] /\ msg'[u] = msg[u]
      BY <2>4 DEF Writing
    <3> HIDE DEF s
    <3> QED
      BY <2>2, <3>1
  <2>6. OneWriteAtATime'
    <3> HIDE DEF s, x
    <3> QED
      BY <2>3, <2>5 DEF IInv, OneWriteAtATime, Threads
  <2>7. x.msg = msg[t] /\ x.binary = binary[s]
    OBVIOUS
  <2>8. /\ queue[s] # <<>> /\ Head(queue[s]) = msg[t]
        /\ binary[s] = (msg[t] \in BinaryMessages)
    BY <2>1, Zenon DEF IInv, Ownership
  <2>9. QueueIsBacklog'
    <3>1. \A r \in Sessions : accepted'[r] = received'[r] \o Backlog(queue'[r])
      BY <2>1, Zenon DEF IInv, QueueIsBacklog
    <3>2. Frame(Head(queue[s])) = [msg |-> x.msg, binary |-> x.binary]
      BY <2>7, <2>8, Zenon DEF Frame
    <3>3. \A r \in Sessions : \A w \in flight'[r] :
              queue'[r] # <<>> /\ Frame(Head(queue'[r])) = [msg |-> w.msg, binary |-> w.binary]
      <4> TAKE r \in Sessions
      <4> TAKE w \in flight'[r]
      <4>1. CASE r = s
        <5>1. w = x
          BY <4>1, <2>3, Zenon
        <5> HIDE DEF s, x
        <5> QED
          BY <4>1, <5>1, <3>2, <2>1, <2>8, Zenon
      <4>2. CASE r # s
        <5>1. w \in flight[r]
          BY <4>2, <2>3, Zenon
        <5>2. queue[r] # <<>> /\ Frame(Head(queue[r])) = [msg |-> w.msg, binary |-> w.binary]
          BY <5>1, Zenon DEF IInv, QueueIsBacklog
        <5> QED
          BY <5>2, <2>1, Zenon
      <4> QED
        BY <4>1, <4>2
    <3> QED
      BY <3>1, <3>3 DEF QueueIsBacklog
  <2>10. Ownership'
    <3> SUFFICES ASSUME NEW r \in Sessions, NEW u \in Threads, Writing(u, r)'
                 PROVE  /\ queue'[r] # <<>> /\ Head(queue'[r]) = msg'[u]
                        /\ pc'[u] = "write" => binary'[r] = (msg'[u] \in BinaryMessages)
      BY DEF Ownership
    <3>1. Writing(u, r) /\ pc'[u] = pc[u] /\ msg'[u] = msg[u]
      BY <2>5
    <3>2. /\ queue[r] # <<>> /\ Head(queue[r]) = msg[u]
          /\ pc[u] = "write" => binary[r] = (msg[u] \in BinaryMessages)
      BY <3>1, Zenon DEF IInv, Ownership
    <3>3. queue' = queue /\ binary' = binary
      BY <2>1
    <3> QED
      BY <3>1, <3>2, <3>3, Zenon
  <2> QED
    BY <2>6, <2>9, <2>10 DEF Safe
<1> QED
  BY <1>1, <1>2

\* What the queues and the writes look like to a completion handler: the write
\* that completes is the only one, of the head of the queue.
LEMMA FlightFacts ==
  ASSUME IInv, NEW s \in Sessions, NEW w \in flight[s]
  PROVE  /\ flight[s] = {w} /\ \A t \in Threads : ~Writing(t, s)
         /\ queue[s] \in Seq(MessageIds) /\ queue[s] # <<>>
         /\ Frame(Head(queue[s])) = [msg |-> w.msg, binary |-> w.binary]
<1>1. flight[s] = {w} /\ \A t \in Threads : ~Writing(t, s)
  BY DEF IInv, OneWriteAtATime
<1>2. queue[s] \in Seq(MessageIds)
  BY DEF IInv, TypeOK
<1>3. queue[s] # <<>> /\ Frame(Head(queue[s])) = [msg |-> w.msg, binary |-> w.binary]
  BY DEF IInv, QueueIsBacklog
<1> QED
  BY <1>1, <1>2, <1>3

\* The completion handlers leave the threads' sends alone.
LEMMA ReleaseQuiet ==
  ASSUME IInv, NEW s \in Sessions, pc["io"] = "idle", Release(s), UNCHANGED on
  PROVE  \A t \in Threads, r \in Sessions : Writing(t, r)' => Writing(t, r) /\ pc'[t] = pc[t]
<1>1. pc' = pc \/ pc' = [pc EXCEPT !["io"] = "destroy"]
  BY DEF Release
<1>2. \A t \in Threads : pc'[t] = pc[t] \/ pc'[t] = "destroy"
  BY <1>1 DEF IInv, TypeOK
<1> QED
  BY <1>2 DEF Writing

LEMMA OnWriteErrorStep ==
  ASSUME IInv, NEW s \in Sessions, OnWriteError(s)
  PROVE  Safe'
<1> PICK w \in flight[s] : flight' = [flight EXCEPT ![s] = @ \ {w}]
  BY DEF OnWriteError
<1>1. UNCHANGED <<queue, binary, accepted, received, msg, on>> /\ pc["io"] = "idle" /\ Release(s)
  BY DEF OnWriteError, FailedKept, sending, loop
<1>2. \A r \in Sessions : flight'[r] \subseteq flight[r]
  BY DEF IInv, TypeOK
<1>3. \A t \in Threads, r \in Sessions : Writing(t, r)' => Writing(t, r) /\ pc'[t] = pc[t]
  BY <1>1, ReleaseQuiet
<1>4. OneWriteAtATime'
  BY <1>2, <1>3 DEF IInv, OneWriteAtATime, Threads
<1>5. QueueIsBacklog'
  BY <1>1, <1>2 DEF IInv, QueueIsBacklog
<1>6. Ownership'
  <2> SUFFICES ASSUME NEW r \in Sessions, NEW u \in Threads, Writing(u, r)'
               PROVE  /\ queue'[r] # <<>> /\ Head(queue'[r]) = msg'[u]
                      /\ pc'[u] = "write" => binary'[r] = (msg'[u] \in BinaryMessages)
    BY DEF Ownership
  <2>1. Writing(u, r) /\ pc'[u] = pc[u]
    BY <1>3
  <2>2. /\ queue[r] # <<>> /\ Head(queue[r]) = msg[u]
        /\ pc[u] = "write" => binary[r] = (msg[u] \in BinaryMessages)
    BY <2>1, Zenon DEF IInv, Ownership
  <2> QED
    BY <1>1, <2>1, <2>2, Zenon
<1> QED
  BY <1>4, <1>5, <1>6 DEF Safe

\* The effect of on_write on its session: the head of the queue moves to what
\* was received, and the write of the new head, if any, starts.
LEMMA OnWriteEffect ==
  ASSUME IInv, NEW s \in Sessions, OnWrite(s)
  PROVE  /\ queue[s] # <<>> /\ flight[s] # {} /\ \A t \in Threads : ~Writing(t, s)
         /\ received' = [received EXCEPT ![s] = Append(@, Frame(Head(queue[s])))]
         /\ queue' = [queue EXCEPT ![s] = Tail(@)]
         /\ \A x, y \in flight'[s] : x = y
         /\ \A x \in flight'[s] : /\ Tail(queue[s]) # <<>>
                                  /\ Frame(Head(Tail(queue[s]))) = [msg |-> x.msg, binary |-> x.binary]
         /\ \A r \in Sessions : r # s => flight'[r] = flight[r] /\ binary'[r] = binary[r]
<1> PICK w \in flight[s] :
        /\ received' = [received EXCEPT ![s] =
               Append(@, [msg |-> w.msg, binary |-> w.binary])]
        /\ queue' = [queue EXCEPT ![s] = Tail(@)]
        /\ IF MoreQueued(s)
           THEN /\ binary' = [binary EXCEPT ![s] = NextQueued(s).binary]
                /\ flight' = [flight EXCEPT ![s] = (@ \ {w}) \cup
                       {[msg |-> NextQueued(s).msg, binary |-> NextQueued(s).binary,
                         owned |-> FALSE]}]
           ELSE /\ flight' = [flight EXCEPT ![s] = @ \ {w}]
                /\ UNCHANGED binary
  BY DEF OnWrite
<1>1. /\ flight[s] = {w} /\ \A t \in Threads : ~Writing(t, s)
      /\ queue[s] \in Seq(MessageIds) /\ queue[s] # <<>>
      /\ Frame(Head(queue[s])) = [msg |-> w.msg, binary |-> w.binary]
  BY FlightFacts
<1>2. /\ flight \in [Sessions -> SUBSET Writes] /\ binary \in [Sessions -> BOOLEAN]
  BY DEF IInv, TypeOK
<1>3. received' = [received EXCEPT ![s] = Append(@, Frame(Head(queue[s])))]
  BY <1>1, Zenon
<1>4. CASE MoreQueued(s)
  <2> DEFINE x == [msg |-> NextQueued(s).msg, binary |-> NextQueued(s).binary, owned |-> FALSE]
  <2>1. flight' = [flight EXCEPT ![s] = (@ \ {w}) \cup {x}]
    BY <1>4
  <2>2. binary' = [binary EXCEPT ![s] = NextQueued(s).binary]
    BY <1>4
  <2>3. Tail(queue[s]) # <<>> /\ Head(Tail(queue[s])) = queue[s][2]
    <3>1. /\ Len(queue[s]) \in Nat /\ Len(queue[s]) > 1 /\ Tail(queue[s]) \in Seq(MessageIds)
          /\ Len(Tail(queue[s])) = Len(queue[s]) - 1
          /\ \A i \in 1 .. Len(Tail(queue[s])) : Tail(queue[s])[i] = queue[s][i + 1]
      BY <1>1, <1>4, HeadTailProperties, LenProperties DEF MoreQueued
    <3>6. \A n, k : n \in Nat /\ n > 1 /\ k = n - 1 => k # 0
      OBVIOUS
    <3>2. Len(Tail(queue[s])) # 0
      BY <3>1, <3>6, Zenon
    <3>3. Tail(queue[s]) # <<>>
      BY <3>2, EmptySeq
    <3>4. Head(Tail(queue[s])) = Tail(queue[s])[1]
      BY <3>1, <3>3, HeadTailProperties
    <3>5. 1 \in 1 .. Len(Tail(queue[s])) /\ 1 + 1 = 2
      BY <3>1
    <3> QED
      BY <3>1, <3>3, <3>4, <3>5
  <2>4. NextQueued(s) = Frame(Head(Tail(queue[s])))
    BY <2>3, Zenon DEF NextQueued
  <2>5. [msg |-> x.msg, binary |-> x.binary] = NextQueued(s)
    <3>1. x.msg = NextQueued(s).msg /\ x.binary = NextQueued(s).binary
      OBVIOUS
    <3>2. \A m : [msg |-> Frame(m).msg, binary |-> Frame(m).binary] = Frame(m)
      BY DEF Frame
    <3> QED
      BY <3>1, <3>2, <2>4, Zenon
  <2> HIDE DEF x
  <2>6. flight'[s] = {x} /\ \A r \in Sessions : r # s => flight'[r] = flight[r]
    BY <2>1, <1>1, <1>2
  <2>7. \A r \in Sessions : r # s => binary'[r] = binary[r]
    BY <2>2, <1>2, Zenon
  <2>8. ASSUME NEW y \in flight'[s] PROVE y = x
    BY <2>6, Zenon
  <2>9. \A y \in flight'[s] : Frame(Head(Tail(queue[s]))) = [msg |-> y.msg, binary |-> y.binary]
    BY <2>4, <2>5, <2>8, Zenon
  <2> QED
    BY <1>1, <1>3, <2>3, <2>6, <2>7, <2>8, <2>9, Zenon
<1>5. CASE ~MoreQueued(s)
  <2>1. flight' = [flight EXCEPT ![s] = @ \ {w}] /\ binary' = binary
    BY <1>5, Zenon
  <2>2. flight'[s] = {} /\ \A r \in Sessions : r # s => flight'[r] = flight[r]
    BY <2>1, <1>1, <1>2
  <2> QED
    BY <1>1, <1>3, <2>1, <2>2, Zenon
<1> QED
  BY <1>4, <1>5

LEMMA OnWriteStep ==
  ASSUME IInv, NEW s \in Sessions, OnWrite(s)
  PROVE  Safe'
<1>1. /\ queue[s] # <<>> /\ flight[s] # {} /\ \A t \in Threads : ~Writing(t, s)
      /\ received' = [received EXCEPT ![s] = Append(@, Frame(Head(queue[s])))]
      /\ queue' = [queue EXCEPT ![s] = Tail(@)]
      /\ \A x, y \in flight'[s] : x = y
      /\ \A x \in flight'[s] : /\ Tail(queue[s]) # <<>>
                               /\ Frame(Head(Tail(queue[s]))) = [msg |-> x.msg, binary |-> x.binary]
      /\ \A r \in Sessions : r # s => flight'[r] = flight[r] /\ binary'[r] = binary[r]
  BY OnWriteEffect
<1>2. /\ queue \in [Sessions -> Seq(MessageIds)] /\ received \in [Sessions -> Seq(Frames)]
      /\ queue[s] \in Seq(MessageIds) /\ received[s] \in Seq(Frames)
  BY DEF IInv, TypeOK
<1>3. /\ queue'[s] = Tail(queue[s]) /\ received'[s] = Append(received[s], Frame(Head(queue[s])))
      /\ \A r \in Sessions : r # s => queue'[r] = queue[r] /\ received'[r] = received[r]
  BY <1>1, <1>2
<1>4. UNCHANGED <<accepted, msg, on>> /\ pc["io"] = "idle" /\ Release(s)
  BY DEF OnWrite, sending, loop
<1>5. \A t \in Threads, r \in Sessions :
          Writing(t, r)' => Writing(t, r) /\ r # s /\ pc'[t] = pc[t]
  BY <1>1, <1>4, ReleaseQuiet
<1>6. OneWriteAtATime'
  BY <1>1, <1>5 DEF IInv, OneWriteAtATime, Threads
<1>7. \A r \in Sessions : accepted'[r] = received'[r] \o Backlog(queue'[r])
  <2> TAKE r \in Sessions
  <2>1. accepted[r] = received[r] \o Backlog(queue[r])
    BY DEF IInv, QueueIsBacklog
  <2>2. CASE r = s
    <3>1. received[s] \o Backlog(queue[s]) =
              Append(received[s], Frame(Head(queue[s]))) \o Backlog(Tail(queue[s]))
      BY <1>1, <1>2, WriteKeepsSplit
    <3> QED
      BY <2>1, <2>2, <3>1, <1>3, <1>4, Zenon
  <2>3. CASE r # s
    BY <2>1, <2>3, <1>3, <1>4, Zenon
  <2> QED
    BY <2>2, <2>3
<1>8. \A r \in Sessions : \A w \in flight'[r] :
          queue'[r] # <<>> /\ Frame(Head(queue'[r])) = [msg |-> w.msg, binary |-> w.binary]
  <2> TAKE r \in Sessions
  <2> TAKE w \in flight'[r]
  <2>1. CASE r = s
    BY <2>1, <1>1, <1>3, Zenon
  <2>2. CASE r # s
    <3>1. w \in flight[r]
      BY <2>2, <1>1, Zenon
    <3>2. queue[r] # <<>> /\ Frame(Head(queue[r])) = [msg |-> w.msg, binary |-> w.binary]
      BY <3>1, Zenon DEF IInv, QueueIsBacklog
    <3> QED
      BY <3>2, <2>2, <1>3, Zenon
  <2> QED
    BY <2>1, <2>2
<1>9. QueueIsBacklog'
  BY <1>7, <1>8 DEF QueueIsBacklog
<1>10. Ownership'
  <2> SUFFICES ASSUME NEW r \in Sessions, NEW u \in Threads, Writing(u, r)'
               PROVE  /\ queue'[r] # <<>> /\ Head(queue'[r]) = msg'[u]
                      /\ pc'[u] = "write" => binary'[r] = (msg'[u] \in BinaryMessages)
    BY DEF Ownership
  <2>1. Writing(u, r) /\ r # s /\ pc'[u] = pc[u]
    BY <1>5
  <2>2. /\ queue[r] # <<>> /\ Head(queue[r]) = msg[u]
        /\ pc[u] = "write" => binary[r] = (msg[u] \in BinaryMessages)
    BY <2>1, Zenon DEF IInv, Ownership
  <2> QED
    BY <1>1, <1>3, <1>4, <2>1, <2>2, Zenon
<1> QED
  BY <1>6, <1>9, <1>10 DEF Safe

LEMMA SafeStep ==
  ASSUME IInv, [Next]_vars
  PROVE  Safe'
<1>1. ASSUME ListenerError PROVE Safe'
  BY <1>1, QuietStep DEF ListenerError, outbox, history, sending, loop
<1>2. ASSUME NEW s \in Sessions, Connection(s) PROVE Safe'
  <2>1. UNCHANGED <<queue, binary, flight, accepted, received, msg, on>>
    BY <1>2 DEF Connection, ListenerAccept, HttpUpgrade, HttpReject, OnAccept,
                OnAcceptError, outbox, history, sending, loop
  <2>2. \A t \in Threads : pc'[t] = pc[t] \/ pc'[t] = "destroy"
    BY <1>2 DEF Connection, ListenerAccept, HttpUpgrade, HttpReject, OnAccept,
                OnAcceptError, IInv, TypeOK
  <2> QED
    BY <2>1, <2>2, QuietStep
<1>3. ASSUME NEW s \in Sessions, Handler(s) PROVE Safe'
  <2>1. ASSUME OnReadError(s) PROVE Safe'
    <3>1. UNCHANGED <<queue, binary, flight, accepted, received, msg, on>>
      BY <2>1 DEF OnReadError, history, sending, loop
    <3>2. \A t \in Threads : pc'[t] = pc[t] \/ pc'[t] = "destroy"
      BY <2>1 DEF OnReadError, Release, IInv, TypeOK
    <3> QED
      BY <3>1, <3>2, QuietStep
  <2>2. ASSUME OnRead(s) PROVE Safe'
    <3>1. UNCHANGED <<queue, binary, flight, accepted, received, msg, on>>
      BY <2>2 DEF OnRead, outbox, history, sending, loop
    <3>2. \A t \in Threads : pc'[t] = pc[t] \/ pc'[t] \in {"handling", "blocked"}
      BY <2>2 DEF OnRead, IInv, TypeOK
    <3> QED
      BY <3>1, <3>2, QuietStep
  <2> QED
    BY <1>3, <2>1, <2>2, OnWriteStep, OnWriteErrorStep DEF Handler
<1>4. ASSUME Respond PROVE Safe'
  <2>1. /\ current \in Sessions /\ made + 1 \in MessageIds /\ Push("io", current, made + 1)
        /\ pc["io"] = "handling" /\ UNCHANGED <<binary, flight, received>>
    BY <1>4 DEF Respond, Response, IInv, Positions, TypeOK, MessageIds, Threads
  <2> QED
    BY <2>1, PushStep DEF Threads
<1>5. ASSUME OnReadDone \/ ProcessBegin \/ ProcessEnd PROVE Safe'
  <2>1. UNCHANGED <<queue, binary, flight, accepted, received, msg, on>>
    BY <1>5 DEF OnReadDone, ProcessBegin, ProcessEnd, outbox, history, sending, loop
  <2>2. \A t \in Threads : pc'[t] = pc[t] \/ pc'[t] \in {"idle", "process"}
    BY <1>5 DEF OnReadDone, ProcessBegin, ProcessEnd, IInv, TypeOK
  <2> QED
    BY <2>1, <2>2, QuietStep
<1>6. ASSUME NEW t \in Threads, Broadcast(t) PROVE Safe'
  <2>1. ASSUME SessionsSend(t) PROVE Safe'
    <3>1. UNCHANGED <<queue, binary, flight, accepted, received, on>>
      BY <2>1 DEF SessionsSend, outbox, history
    <3>2. \A u \in Threads : pc'[u] = "each" \/ (pc'[u] = pc[u] /\ msg'[u] = msg[u])
      BY <2>1 DEF SessionsSend, IInv, TypeOK
    <3> QED
      BY <3>1, <3>2, QuietStep
  <2>2. ASSUME SessionsSent(t) PROVE Safe'
    <3>1. UNCHANGED <<queue, binary, flight, accepted, received, on>>
      BY <2>2 DEF SessionsSent, outbox, history
    <3>2. \A u \in Threads : \/ pc'[u] = pc[u] /\ msg'[u] = msg[u]
                             \/ pc'[u] \in {"handling", "process"}
      BY <2>2 DEF SessionsSent, IInv, TypeOK, Home
    <3> QED
      BY <3>1, <3>2, QuietStep
  <2>3. ASSUME NEW s \in Sessions, Visit(t, s) PROVE Safe'
    <3>1. CASE life[s] = "open"
      <4>1. /\ msg[t] \in MessageIds /\ pc[t] = "each" /\ Push(t, s, msg[t])
            /\ UNCHANGED <<binary, flight, received>>
        BY <2>3, <3>1 DEF Visit, IInv, Positions
      <4> QED
        BY <4>1, PushStep
    <3>2. CASE life[s] # "open"
      BY <2>3, <3>2, QuietStep DEF Visit
    <3> QED
      BY <3>1, <3>2
  <2>4. ASSUME SetDecoder \/ SessionDelete PROVE Safe'
    <3>1. UNCHANGED <<queue, binary, flight, accepted, received, msg, on>>
      BY <2>4 DEF SetDecoder, SessionDelete, outbox, history, sending, loop
    <3>2. \A u \in Threads : pc'[u] = pc[u] \/ pc'[u] \in {"handling", "idle"}
      BY <2>4 DEF SetDecoder, SessionDelete, IInv, TypeOK
    <3> QED
      BY <3>1, <3>2, QuietStep
  <2> QED
    BY <1>6, <2>1, <2>2, <2>3, <2>4, SetBinaryStep, StartWriteStep DEF Broadcast, ThreadStep
<1>7. CASE UNCHANGED vars
  BY <1>7, QuietStep DEF vars
<1> QED
  BY <1>1, <1>2, <1>3, <1>4, <1>5, <1>6, <1>7 DEF Next, Halt

-----------------------------------------------------------------------------
LEMMA Invariance == Spec => []IInv
<1>1. IInv /\ [Next]_vars => IInv'
  BY TypeStep, PositionsStep, HoldingStep, SafeStep DEF IInv, Safe
<1> QED
  BY <1>1, InitIInv, PTL DEF Spec

(***************************************************************************)
(* Type correctness, for any sessions and any number of messages.          *)
(***************************************************************************)
THEOREM TypeCorrect == Spec => []TypeOK
  BY Invariance, PTL DEF IInv

(***************************************************************************)
(* The queue serialises the writes of both threads: at most one async_write *)
(* per session is pending or about to start (websocket_session::send).     *)
(***************************************************************************)
THEOREM OneWrite == Spec => []OneWriteAtATime
  BY Invariance, PTL DEF IInv

(***************************************************************************)
(* No message handed to a session is lost, repeated or overtaken, and each *)
(* is written with its own opcode (send and on_write).                     *)
(***************************************************************************)
THEOREM Backlogged == Spec => []QueueIsBacklog
  BY Invariance, PTL DEF IInv

-----------------------------------------------------------------------------
(***************************************************************************)
(* The registry.                                                           *)
(***************************************************************************)
LiveRegistry ==
    /\ IoSendsToLiveSessions
    /\ ahead["io"] \subseteq registry
    /\ pc["io"] \in {"binary", "write"} => life[on["io"]] = "open"

LEMMA LiveRegistryStep ==
  ASSUME IInv, LiveRegistry, [Next]_vars
  PROVE  LiveRegistry'
<1> USE DEF IInv, TypeOK, Positions, Threads, LiveRegistry, IoSendsToLiveSessions, Decoding
<1>1. ASSUME ListenerError PROVE LiveRegistry'
  BY <1>1 DEF ListenerError, sending, loop, OwnerCount
<1>2. ASSUME NEW s \in Sessions, Connection(s) PROVE LiveRegistry'
  <2>1. ASSUME ListenerAccept(s) \/ HttpUpgrade(s) PROVE LiveRegistry'
    BY <2>1 DEF ListenerAccept, HttpUpgrade, sending, loop
  <2>2. ASSUME HttpReject(s) PROVE LiveRegistry'
    BY <2>2 DEF HttpReject, sending, loop, OwnerCount
  <2>3. ASSUME OnAccept(s) PROVE LiveRegistry'
    BY <2>3, SMTT(40) DEF OnAccept, SessionAdd, InsertInPlace, InsertAndRehash, GoAstray, loop
  <2>4. ASSUME OnAcceptError(s) PROVE LiveRegistry'
    BY <2>4 DEF OnAcceptError, sending, loop
  <2> QED
    BY <1>2, <2>1, <2>2, <2>3, <2>4 DEF Connection
<1>3. ASSUME NEW s \in Sessions, Handler(s) PROVE LiveRegistry'
  <2>1. ASSUME OnReadError(s) \/ OnWrite(s) \/ OnWriteError(s) PROVE LiveRegistry'
    <3>1. pc["io"] = "idle" /\ Release(s) /\ UNCHANGED <<registry, fault, on, ahead>>
      BY <2>1 DEF OnReadError, OnWrite, OnWriteError, sending, loop
    <3>2. CASE reading'[s] \/ flight'[s] # {}
      BY <3>1, <3>2 DEF Release
    <3>3. CASE ~(reading'[s] \/ flight'[s] # {})
      BY <3>1, <3>3 DEF Release
    <3> QED
      BY <3>2, <3>3
  <2>2. ASSUME OnRead(s) PROVE LiveRegistry'
    BY <2>2 DEF OnRead, conn, sending, loop
  <2> QED
    BY <1>3, <2>1, <2>2 DEF Handler
<1>4. ASSUME Respond PROVE LiveRegistry'
  BY <1>4 DEF Respond, Push, conn, loop
<1>5. ASSUME OnReadDone \/ ProcessBegin PROVE LiveRegistry'
  BY <1>5 DEF OnReadDone, ProcessBegin, conn, sending, loop
<1>6. ASSUME ~Crashed, ProcessEnd PROVE LiveRegistry'
  <2>1. "session" \notin fault
    BY <1>6 DEF Crashed
  <2> QED
    BY <1>6, <2>1 DEF ProcessEnd, conn, sending, loop
<1>7. ASSUME NEW t \in Threads, Broadcast(t) PROVE LiveRegistry'
  <2>1. ASSUME SessionsSend(t) \/ SessionsSent(t) PROVE LiveRegistry'
    BY <2>1 DEF SessionsSend, SessionsSent, Home, conn
  <2>2. ASSUME NEW s \in Sessions, Visit(t, s) PROVE LiveRegistry'
    <3>1. t = "io" => life[s] = "open"
      BY <2>2 DEF Visit
    <3>2. CASE life[s] = "open"
      BY <2>2, <3>2, SMTT(40) DEF Visit, Push, conn
    <3>3. CASE life[s] # "open"
      BY <2>2, <3>1, <3>3 DEF Visit, conn
    <3> QED
      BY <3>2, <3>3
  <2>3. ASSUME SetBinary(t) PROVE LiveRegistry'
    <3>1. CASE life[on[t]] = "open"
      BY <2>3, <3>1 DEF SetBinary, conn, sending, loop
    <3>2. CASE life[on[t]] # "open"
      BY <2>3, <3>2 DEF SetBinary, conn, sending, loop
    <3> QED
      BY <3>1, <3>2
  <2>4. ASSUME StartWrite(t) PROVE LiveRegistry'
    <3>1. CASE life[on[t]] = "open"
      BY <2>4, <3>1 DEF StartWrite, conn, Home, loop
    <3>2. CASE life[on[t]] # "open"
      BY <2>4, <3>2 DEF StartWrite, conn, loop
    <3> QED
      BY <3>1, <3>2
  <2>5. ASSUME SetDecoder PROVE LiveRegistry'
    BY <2>5 DEF SetDecoder, conn, sending, loop
  <2>6. ASSUME SessionDelete PROVE LiveRegistry'
    BY <2>6 DEF SessionDelete, Without, EraseInPlace, EraseAstray, OwnerCount, Holding, loop
  <2> QED
    BY <1>7, <2>1, <2>2, <2>3, <2>4, <2>5, <2>6 DEF Broadcast, ThreadStep
<1>8. CASE UNCHANGED vars
  BY <1>8 DEF vars
<1> QED
  BY <1>1, <1>2, <1>3, <1>4, <1>5, <1>6, <1>7, <1>8 DEF Next, Halt

(***************************************************************************)
(* Outside its destructor every registered session is live, and a session  *)
(* without references is only ever called by the decoder thread            *)
(* (sessions_send against session_delete).                                 *)
(***************************************************************************)
THEOREM IoSafe == Spec => []IoSendsToLiveSessions
<1>1. Init => LiveRegistry
  BY DEF Init, LiveRegistry, IoSendsToLiveSessions, Threads
<1>2. IInv /\ LiveRegistry /\ [Next]_vars => LiveRegistry'
  BY LiveRegistryStep
<1>3. LiveRegistry => IoSendsToLiveSessions
  BY DEF LiveRegistry
<1> QED
  BY <1>1, <1>2, <1>3, Invariance, PTL DEF Spec

-----------------------------------------------------------------------------
(***************************************************************************)
(* The refinement of Outbox.                                               *)
(***************************************************************************)
Gone == {s \in Sessions : life[s] \in {"closing", "gone"}}

LEMMA NextIsFirstOfBacklog ==
  ASSUME NEW r \in Seq(Frames), NEW q \in Seq(MessageIds), q # <<>>
  PROVE  /\ Len(r) < Len(r \o Backlog(q))
         /\ (r \o Backlog(q))[Len(r) + 1] = Frame(Head(q))
<1> DEFINE b == Backlog(q)
<1>1. /\ b \in Seq(Frames) /\ Len(b) = Len(q)
      /\ \A i \in 1 .. Len(q) : b[i] = Frame(q[i])
  BY BacklogType
<1>2. Len(q) \in Nat \ {0} /\ Head(q) = q[1] /\ Len(r) \in Nat
  BY EmptySeq, LenProperties
<1> HIDE DEF b
<1>3. b[1] = Frame(Head(q))
  BY <1>1, <1>2
<1>4. /\ Len(r \o b) = Len(r) + Len(b)
      /\ \A i \in 1 .. Len(r) + Len(b) : (r \o b)[i] = IF i <= Len(r) THEN r[i] ELSE b[i - Len(r)]
  BY <1>1, ConcatProperties, ZenonT(60)
<1>5. \A l, n : l \in Nat /\ n \in Nat \ {0} =>
          l < l + n /\ l + 1 \in 1 .. l + n /\ ~(l + 1 <= l) /\ (l + 1) - l = 1
  OBVIOUS
<1>6. Len(b) \in Nat \ {0}
  BY <1>1, <1>2
<1>7. Len(r) < Len(r \o b)
  BY <1>2, <1>4, <1>5, <1>6, Zenon
<1>8. (r \o b)[Len(r) + 1] = b[1]
  BY <1>2, <1>4, <1>5, <1>6, Zenon
<1> QED
  BY <1>3, <1>7, <1>8 DEF b

\* A step that hands nothing over and writes nothing, and releases at most one
\* session.
LEMMA QuietPromise ==
  ASSUME UNCHANGED <<accepted, received>>, NEW s \in Sessions,
         Gone' = Gone \/ (s \notin Gone /\ Gone' = Gone \cup {s})
  PROVE  [Promise!Next]_(Promise!vars)
  BY DEF Gone, Promise!Next, Promise!vars, Promise!Release

LEMMA PushPromise ==
  ASSUME IInv, NEW t \in Threads, NEW s \in Sessions, NEW m \in MessageIds,
         Push(t, s, m), life[s] = "open", UNCHANGED <<life, received>>
  PROVE  Promise!Next
<1>1. Frame(m) \in Frames
  BY FrameType
<1>2. Promise!Send(s, Frame(m))
  BY DEF Push, Promise!Send
<1> QED
  BY <1>1, <1>2 DEF Promise!Next

LEMMA WritePromise ==
  ASSUME IInv, NEW s \in Sessions, OnWrite(s)
  PROVE  Promise!Next
<1>1. /\ queue[s] # <<>> /\ received' = [received EXCEPT ![s] = Append(@, Frame(Head(queue[s])))]
      /\ flight[s] # {}
  BY OnWriteEffect
<1>2. /\ queue[s] \in Seq(MessageIds) /\ received[s] \in Seq(Frames)
      /\ accepted[s] = received[s] \o Backlog(queue[s])
  BY DEF IInv, TypeOK, QueueIsBacklog
<1>3. Len(received[s]) < Len(accepted[s]) /\ accepted[s][Len(received[s]) + 1] = Frame(Head(queue[s]))
  BY <1>1, <1>2, NextIsFirstOfBacklog
<1>4. received' = [received EXCEPT ![s] = Append(@, accepted[s][Len(@) + 1])]
  BY <1>1, <1>3
<1>5. life[s] = "open" /\ life \in [Sessions -> Stages]
  BY <1>1 DEF IInv, Positions, TypeOK
<1>6. Release(s) /\ UNCHANGED accepted
  BY DEF OnWrite
<1>7. CASE life' = life
  BY <1>3, <1>4, <1>5, <1>6, <1>7 DEF Promise!Next, Promise!Deliver
<1>8. CASE life' = [life EXCEPT ![s] = "closing"]
  <2>1. Gone' = Gone \cup {s}
    BY <1>5, <1>8 DEF Gone
  <2> QED
    BY <2>1, <1>3, <1>4, <1>5, <1>6 DEF Gone, Promise!Next, Promise!LastDeliver
<1> QED
  BY <1>6, <1>7, <1>8 DEF Release

LEMMA PromiseStep ==
  ASSUME IInv, [Next]_vars
  PROVE  [Promise!Next]_(Promise!vars)
<1> USE DEF IInv, TypeOK, Positions, Threads
<1>1. ASSUME UNCHANGED <<life, accepted, received>> PROVE [Promise!Next]_(Promise!vars)
  BY <1>1 DEF Promise!vars
<1>2. ASSUME ListenerError PROVE UNCHANGED <<life, accepted, received>>
  BY <1>2 DEF ListenerError, history
<1>3. ASSUME NEW s \in Sessions, Connection(s) PROVE [Promise!Next]_(Promise!vars)
  <2>1. UNCHANGED <<accepted, received>>
    BY <1>3 DEF Connection, ListenerAccept, HttpUpgrade, HttpReject, OnAccept, OnAcceptError, history
  <2>2. /\ life[s] \notin {"closing", "gone"}
        /\ \E stage \in Stages : life' = [life EXCEPT ![s] = stage]
    BY <1>3 DEF Connection, ListenerAccept, HttpUpgrade, HttpReject, OnAccept, OnAcceptError, Stages
  <2>3. Gone' = Gone \/ (s \notin Gone /\ Gone' = Gone \cup {s})
    BY <2>2 DEF Gone
  <2> QED
    BY <2>1, <2>3, QuietPromise
<1>4. ASSUME NEW s \in Sessions, Handler(s) PROVE [Promise!Next]_(Promise!vars)
  <2>1. ASSUME OnReadError(s) \/ OnWriteError(s) PROVE [Promise!Next]_(Promise!vars)
    <3>1. UNCHANGED <<accepted, received>> /\ Release(s) /\ life[s] = "open"
      BY <2>1 DEF OnReadError, OnWriteError, history
    <3>2. life' = life \/ life' = [life EXCEPT ![s] = "closing"]
      BY <3>1 DEF Release
    <3>3. Gone' = Gone \/ (s \notin Gone /\ Gone' = Gone \cup {s})
      BY <3>1, <3>2 DEF Gone
    <3> QED
      BY <3>1, <3>3, QuietPromise
  <2>2. ASSUME OnRead(s) PROVE UNCHANGED <<life, accepted, received>>
    BY <2>2 DEF OnRead, conn, history
  <2> QED
    BY <1>1, <1>4, <2>1, <2>2, WritePromise DEF Handler
<1>5. ASSUME Respond PROVE [Promise!Next]_(Promise!vars)
  <2>1. /\ current \in Sessions /\ made + 1 \in MessageIds /\ Push("io", current, made + 1)
        /\ life[current] = "open" /\ UNCHANGED <<life, received>>
    BY <1>5 DEF Respond, Response, conn, MessageIds
  <2> QED
    BY <2>1, PushPromise
<1>6. ASSUME OnReadDone \/ ProcessBegin \/ ProcessEnd PROVE UNCHANGED <<life, accepted, received>>
  BY <1>6 DEF OnReadDone, ProcessBegin, ProcessEnd, conn, history
<1>7. ASSUME NEW t \in Threads, Broadcast(t) PROVE [Promise!Next]_(Promise!vars)
  <2>1. ASSUME SessionsSend(t) \/ SessionsSent(t) \/ SetBinary(t) \/ StartWrite(t) \/ SetDecoder
        PROVE UNCHANGED <<life, accepted, received>>
    BY <2>1 DEF SessionsSend, SessionsSent, SetBinary, StartWrite, SetDecoder, conn, history
  <2>2. ASSUME NEW s \in Sessions, Visit(t, s) PROVE [Promise!Next]_(Promise!vars)
    <3>1. CASE life[s] = "open"
      <4>1. /\ msg[t] \in MessageIds /\ Push(t, s, msg[t]) /\ UNCHANGED <<life, received>>
        BY <2>2, <3>1 DEF Visit, conn
      <4> QED
        BY <3>1, <4>1, PushPromise
    <3>2. CASE life[s] # "open"
      BY <1>1, <2>2, <3>2 DEF Visit, conn
    <3> QED
      BY <3>1, <3>2
  <2>3. ASSUME SessionDelete PROVE [Promise!Next]_(Promise!vars)
    <3>1. current \in Sessions /\ UNCHANGED <<accepted, received>> /\ Gone' = Gone
      BY <2>3 DEF SessionDelete, history, Gone
    <3> QED
      BY <3>1, QuietPromise
  <2> QED
    BY <1>1, <1>7, <2>1, <2>2, <2>3 DEF Broadcast, ThreadStep
<1>8. CASE UNCHANGED vars
  BY <1>1, <1>8 DEF vars
<1> QED
  BY <1>1, <1>2, <1>3, <1>4, <1>5, <1>6, <1>7, <1>8 DEF Next, Halt

(***************************************************************************)
(* Every session of the server keeps the promise of Outbox.                *)
(***************************************************************************)
THEOREM Implements == Spec => KeepsPromise
<1>1. Init => Promise!Init
  BY DEF Init, Promise!Init
<1>2. IInv /\ [Next]_vars => [Promise!Next]_(Promise!vars)
  BY PromiseStep
<1> QED
  BY <1>1, <1>2, Invariance, PTL DEF Spec, KeepsPromise, Promise!Spec

-----------------------------------------------------------------------------
(***************************************************************************)
(* The order of broadcasts.                                                *)
(***************************************************************************)

\* No other session has been handed n.
Only(s, n) == \A u \in Sessions \ {s} : Places(u, n) = {}

\* Messages are numbered as they are made.
Numbered ==
    /\ \A t \in Threads : msg[t] <= made
    /\ \A s \in Sessions : \A i \in 1 .. Len(accepted[s]) : accepted[s][i].msg <= made

\* What is newer than the message of the broadcast in progress is a response,
\* and was handed to one session.
NewerIsResponse ==
    \A t \in Threads : sessions_mtx = t =>
        \A s \in Sessions : \A n \in MessageIds :
            n > msg[t] /\ Places(s, n) # {} => Only(s, n)

\* What a session was handed before something older is a response as well.
EarlierIsResponse ==
    \A s \in Sessions : \A n \in MessageIds : \A i, j \in 1 .. Len(accepted[s]) :
        i < j /\ accepted[s][i].msg = n /\ n > accepted[s][j].msg =>
            /\ Only(s, n)
            /\ \A t \in Threads : sessions_mtx = t => n # msg[t]

InOrder == Numbered /\ NewerIsResponse /\ EarlierIsResponse

\* A frame more, at the end.
LEMMA OneMore ==
  ASSUME NEW q \in Seq(Frames), NEW f \in Frames
  PROVE  /\ Append(q, f) \in Seq(Frames) /\ Len(q) \in Nat
         /\ Len(Append(q, f)) = Len(q) + 1
         /\ Append(q, f)[Len(q) + 1] = f
         /\ \A i \in 1 .. Len(q) : Append(q, f)[i] = q[i]
  BY AppendProperties, LenProperties

\* Push hands one session one more frame.
HandsOver(s, m) ==
    /\ accepted'[s] = Append(accepted[s], Frame(m))
    /\ \A u \in Sessions \ {s} : accepted'[u] = accepted[u]

LEMMA PushHandsOver ==
  ASSUME TypeOK, NEW t \in Threads, NEW s \in Sessions, NEW m \in MessageIds, Push(t, s, m)
  PROVE  HandsOver(s, m)
  BY DEF HandsOver, Push, TypeOK

\* Where messages are then.
LEMMA HandedPlaces ==
  ASSUME TypeOK, NEW s \in Sessions, NEW m \in MessageIds, HandsOver(s, m), NEW n, NEW u \in Sessions
  PROVE  /\ Places(u, n) \subseteq 1 .. Len(accepted[u])
         /\ u # s \/ n # m => Places(u, n)' = Places(u, n)
         /\ Places(s, m)' = Places(s, m) \cup {Len(accepted[s]) + 1}
<1>1. /\ Len(accepted'[s]) = Len(accepted[s]) + 1 /\ Len(accepted[s]) \in Nat
      /\ accepted'[s][Len(accepted[s]) + 1].msg = m
      /\ \A i \in 1 .. Len(accepted[s]) : accepted'[s][i] = accepted[s][i]
  <2>1. accepted[s] \in Seq(Frames) /\ Frame(m) \in Frames /\ Frame(m).msg = m
    BY FrameType DEF TypeOK, Frame
  <2> QED
    BY <2>1, OneMore DEF HandsOver
<1>2. Places(u, n) \subseteq 1 .. Len(accepted[u])
  BY DEF Places
<1>3. u # s => Places(u, n)' = Places(u, n)
  BY DEF HandsOver, Places
<1>4. \A i : i \in 1 .. Len(accepted'[s]) <=> i \in 1 .. Len(accepted[s]) \/ i = Len(accepted[s]) + 1
  BY <1>1
<1>5. n # m => Places(s, n)' = Places(s, n)
  BY <1>1, <1>4 DEF Places
<1>6. Places(s, m)' = Places(s, m) \cup {Len(accepted[s]) + 1}
  BY <1>1, <1>4 DEF Places
<1> QED
  BY <1>2, <1>3, <1>5, <1>6

\* A step that hands nothing over.
LEMMA OrderQuiet ==
  ASSUME IInv, InOrder, accepted' = accepted, made' \in Nat, made <= made',
         \A t \in Threads : msg'[t] \in Nat /\ msg'[t] <= made',
         \A t \in Threads : sessions_mtx' = t =>
             \/ sessions_mtx = t /\ msg'[t] = msg[t]
             \/ msg'[t] = made + 1
  PROVE  InOrder'
<1>1. made \in Nat /\ \A s \in Sessions : \A i \in 1 .. Len(accepted[s]) : accepted[s][i].msg \in Nat
  <2>1. \A s \in Sessions : accepted[s] \in Seq(Frames)
    BY DEF IInv, TypeOK
  <2>2. \A s \in Sessions : \A i \in 1 .. Len(accepted[s]) : accepted[s][i] \in Frames
    BY <2>1, ElementOfSeq
  <2> QED
    BY <2>2 DEF IInv, TypeOK, Frames, MessageIds
<1>2. \A s \in Sessions : \A n : Places(s, n)' = Places(s, n)
  BY DEF Places
<1>3. \A s \in Sessions : \A n : Only(s, n)' = Only(s, n)
  BY <1>2 DEF Only
<1>4. Numbered'
  BY <1>1 DEF InOrder, Numbered
<1>5. \A s \in Sessions : \A n \in MessageIds : Places(s, n) # {} => n <= made
  BY DEF Places, InOrder, Numbered
<1>6. NewerIsResponse'
  <2> SUFFICES ASSUME NEW t \in Threads, sessions_mtx' = t, NEW s \in Sessions, NEW n \in MessageIds,
                      n > msg'[t], Places(s, n) # {}
               PROVE  Only(s, n)
    BY <1>2, <1>3 DEF NewerIsResponse
  <2>1. n <= made
    BY <1>5
  <2>2. sessions_mtx = t /\ msg'[t] = msg[t]
    BY <1>1, <2>1 DEF MessageIds
  <2> QED
    BY <2>2 DEF InOrder, NewerIsResponse
<1>7. EarlierIsResponse'
  <2> SUFFICES ASSUME NEW s \in Sessions, NEW n \in MessageIds,
                      NEW i \in 1 .. Len(accepted[s]), NEW j \in 1 .. Len(accepted[s]),
                      i < j, accepted[s][i].msg = n, n > accepted[s][j].msg
               PROVE  /\ Only(s, n)
                      /\ \A t \in Threads : sessions_mtx' = t => n # msg'[t]
    BY <1>3 DEF EarlierIsResponse
  <2>1. /\ Only(s, n)
        /\ \A t \in Threads : sessions_mtx = t => n # msg[t]
    BY DEF InOrder, EarlierIsResponse
  <2>2. accepted[s][i].msg <= made
    BY DEF InOrder, Numbered
  <2> QED
    BY <1>1, <2>1, <2>2
<1> QED
  BY <1>4, <1>6, <1>7 DEF InOrder

\* A step that hands over the message of the broadcast in progress, or a new one.
LEMMA OrderPush ==
  ASSUME IInv, InOrder, NEW s \in Sessions, NEW m \in MessageIds, HandsOver(s, m),
         made' \in Nat, made <= made', m <= made', sessions_mtx' = sessions_mtx,
         \A t \in Threads : msg'[t] \in Nat /\ msg'[t] <= made',
         \A t \in Threads : sessions_mtx = t => msg'[t] = msg[t],
         m = made + 1 \/ \E t \in Threads : sessions_mtx = t /\ m = msg[t]
  PROVE  InOrder'
<1> DEFINE L == Len(accepted[s])
<1>1. /\ L \in Nat /\ Len(accepted'[s]) = L + 1 /\ accepted'[s][L + 1].msg = m
      /\ \A i \in 1 .. L : accepted'[s][i] = accepted[s][i]
      /\ \A u \in Sessions \ {s} : accepted'[u] = accepted[u]
  <2>1. accepted[s] \in Seq(Frames) /\ Frame(m) \in Frames /\ Frame(m).msg = m
    BY FrameType DEF IInv, TypeOK, Frame
  <2> QED
    BY <2>1, OneMore DEF HandsOver
<1>2. made \in Nat /\ \A u \in Sessions : \A i \in 1 .. Len(accepted[u]) : accepted[u][i].msg \in MessageIds
  <2>1. \A u \in Sessions : accepted[u] \in Seq(Frames)
    BY DEF IInv, TypeOK
  <2>2. \A u \in Sessions : \A i \in 1 .. Len(accepted[u]) : accepted[u][i] \in Frames
    BY <2>1, ElementOfSeq
  <2> QED
    BY <2>2 DEF IInv, TypeOK, Frames
<1> HIDE DEF L
<1>3. \A u \in Sessions : \A n : u # s \/ n # m => Places(u, n)' = Places(u, n)
  BY HandedPlaces DEF IInv
<1>4. \A u \in Sessions : \A n : n # m => Only(u, n)' = Only(u, n)
  BY <1>3 DEF Only
<1>5. \A u \in Sessions : \A i \in 1 .. Len(accepted[u]) : accepted[u][i].msg <= made
  BY DEF InOrder, Numbered
<1>6. \A u \in Sessions : \A n \in MessageIds : Places(u, n) # {} => n <= made
  BY <1>5 DEF Places
<1>7. \A t \in Threads : sessions_mtx = t => msg[t] \in Nat
  BY DEF IInv, Holding, MessageIds
<1>8. Numbered'
  <2>1. \A u \in Sessions : \A i \in 1 .. Len(accepted'[u]) : accepted'[u][i].msg <= made'
    <3> TAKE u \in Sessions
    <3> TAKE i \in 1 .. Len(accepted'[u])
    <3>1. CASE u # s
      <4>1. accepted'[u] = accepted[u]
        BY <3>1, <1>1
      <4>2. accepted[u][i].msg <= made /\ accepted[u][i].msg \in Nat
        BY <4>1, <1>2, <1>5 DEF MessageIds
      <4> QED
        BY <4>1, <4>2, <1>2
    <3>2. CASE u = s /\ i = L + 1
      BY <3>2, <1>1
    <3>3. CASE u = s /\ i # L + 1
      <4>1. i \in 1 .. L
        BY <3>3, <1>1
      <4>2. accepted[s][i].msg <= made /\ accepted[s][i].msg \in Nat
        BY <4>1, <1>2, <1>5 DEF MessageIds, L
      <4> QED
        BY <3>3, <4>1, <4>2, <1>1, <1>2
    <3> QED
      BY <3>1, <3>2, <3>3
  <2> QED
    BY <2>1 DEF Numbered
<1>9. NewerIsResponse'
  <2> SUFFICES ASSUME NEW t \in Threads, sessions_mtx = t, NEW u \in Sessions, NEW n \in MessageIds,
                      n > msg[t], Places(u, n)' # {}
               PROVE  Only(u, n)'
    BY DEF NewerIsResponse
  <2>1. CASE n # m
    <3>1. Places(u, n) # {}
      BY <2>1, <1>3
    <3>2. Only(u, n)
      BY <3>1 DEF InOrder, NewerIsResponse
    <3> QED
      BY <2>1, <3>2, <1>4
  <2>2. CASE n = m
    <3>1. m = made + 1
      <4>1. \A r \in Threads : sessions_mtx = r => r = t
        OBVIOUS
      <4>2. msg[t] \in Nat /\ m \in Nat
        BY <1>7 DEF MessageIds
      <4> QED
        BY <2>2, <4>1, <4>2
    <3>2. \A r \in Sessions : Places(r, m) = {}
      BY <3>1, <1>2, <1>6 DEF MessageIds
    <3>3. u = s
      BY <2>2, <3>2, <1>3
    <3> QED
      BY <2>2, <3>2, <3>3, <1>3 DEF Only
  <2> QED
    BY <2>1, <2>2
<1>10. EarlierIsResponse'
  <2> SUFFICES ASSUME NEW u \in Sessions, NEW n \in MessageIds,
                      NEW i \in 1 .. Len(accepted'[u]), NEW j \in 1 .. Len(accepted'[u]),
                      i < j, accepted'[u][i].msg = n, n > accepted'[u][j].msg
               PROVE  /\ Only(u, n)'
                      /\ \A t \in Threads : sessions_mtx = t => n # msg[t]
    BY DEF EarlierIsResponse
  <2>1. n # m /\ Only(u, n) => Only(u, n)'
    BY <1>4
  <2>2. ASSUME i \in 1 .. Len(accepted[u]), j \in 1 .. Len(accepted[u]),
               accepted'[u][i] = accepted[u][i], accepted'[u][j] = accepted[u][j]
        PROVE  n # m /\ Only(u, n) /\ \A t \in Threads : sessions_mtx = t => n # msg[t]
    <3>1. Only(u, n) /\ (\A t \in Threads : sessions_mtx = t => n # msg[t])
      BY <2>2 DEF InOrder, EarlierIsResponse
    <3>2. n # made + 1
      <4>1. n <= made /\ n \in Nat
        BY <2>2, <1>2, <1>5 DEF MessageIds
      <4> QED
        BY <4>1, <1>2
    <3> QED
      BY <3>1, <3>2
  <2>3. CASE u # s
    BY <2>1, <2>2, <2>3, <1>1
  <2>4. CASE u = s /\ j # L + 1
    <3>1. i \in 1 .. L /\ j \in 1 .. L
      BY <2>4, <1>1
    <3> QED
      BY <2>1, <2>2, <2>4, <3>1, <1>1 DEF L
  <2>5. CASE u = s /\ j = L + 1
    <3>1. i \in 1 .. L /\ n = accepted[s][i].msg /\ n > m
      BY <2>5, <1>1
    <3>2. n <= made /\ n \in Nat
      BY <3>1, <1>2, <1>5 DEF MessageIds, L
    <3>3. m # made + 1 /\ n # m
      BY <3>1, <3>2, <1>2
    <3>4. PICK t \in Threads : sessions_mtx = t /\ m = msg[t]
      BY <3>3
    <3>5. Places(s, n) # {}
      BY <3>1 DEF Places, L
    <3>6. Only(s, n)
      BY <3>1, <3>4, <3>5 DEF InOrder, NewerIsResponse
    <3>7. \A r \in Threads : sessions_mtx = r => n # msg[r]
      BY <3>3, <3>4
    <3> QED
      BY <2>1, <2>5, <3>3, <3>6, <3>7
  <2> QED
    BY <2>3, <2>4, <2>5
<1> QED
  BY <1>8, <1>9, <1>10 DEF InOrder

\* Every step.
LEMMA OrderStep ==
  ASSUME IInv, InOrder, [Next]_vars
  PROVE  InOrder'
<1>1. made \in Nat /\ made' \in Nat /\ msg \in [Threads -> 0 .. MaxMessages]
      /\ \A t \in Threads : msg'[t] \in Nat /\ msg[t] \in Nat /\ msg[t] <= made
  BY TypeStep DEF IInv, TypeOK, InOrder, Numbered
<1> DEFINE Quiet == UNCHANGED <<accepted, made, msg, sessions_mtx>>
<1>2. ASSUME Quiet PROVE InOrder'
  BY <1>1, <1>2, OrderQuiet
<1>3. ListenerError => Quiet
  BY DEF ListenerError, history, sending
<1>4. ASSUME NEW s \in Sessions, Connection(s) PROVE Quiet
  BY <1>4 DEF Connection, ListenerAccept, HttpUpgrade, HttpReject, OnAccept, OnAcceptError,
              history, sending
<1>5. ASSUME NEW s \in Sessions, Handler(s) PROVE Quiet
  BY <1>5 DEF Handler, OnReadError, OnRead, OnWrite, OnWriteError, history, sending
<1>6. OnReadDone \/ ProcessBegin \/ ProcessEnd \/ SetDecoder \/ SessionDelete => Quiet
  BY DEF OnReadDone, ProcessBegin, ProcessEnd, SetDecoder, SessionDelete, history, sending
<1>7. ASSUME Respond PROVE InOrder'
  <2>1. /\ current \in Sessions /\ Response \in MessageIds /\ Response = made + 1
        /\ made' = made + 1 /\ sessions_mtx' = sessions_mtx /\ Push("io", current, Response)
    BY <1>7 DEF Respond, Response, IInv, Positions, TypeOK, MessageIds, Threads
  <2>2. HandsOver(current, Response)
    BY <2>1, PushHandsOver DEF IInv, Threads
  <2>3. \A t \in Threads : msg'[t] <= made' /\ (sessions_mtx = t => msg'[t] = msg[t])
    <3>1. msg' = msg \/ msg' = [msg EXCEPT !["io"] = Response]
      BY <2>1 DEF Push
    <3>2. sessions_mtx # "io"
      BY <1>7 DEF Respond, IInv, Holding, Threads
    <3> QED
      BY <1>1, <2>1, <3>1, <3>2
  <2> QED
    BY <1>1, <2>1, <2>2, <2>3, OrderPush
<1>8. ASSUME NEW t \in Threads, SessionsSend(t) PROVE InOrder'
  <2>1. /\ accepted' = accepted /\ made' = made + 1 /\ sessions_mtx' = t
        /\ msg' = [msg EXCEPT ![t] = made + 1]
    BY <1>8 DEF SessionsSend, history
  <2>2. \A r \in Threads : msg'[r] <= made' /\ (sessions_mtx' = r => msg'[r] = made + 1)
    BY <1>1, <2>1
  <2> QED
    BY <1>1, <2>1, <2>2, OrderQuiet
<1>9. ASSUME NEW t \in Threads, SessionsSent(t) PROVE InOrder'
  <2>1. accepted' = accepted /\ made' = made /\ sessions_mtx' = None /\ msg' = [msg EXCEPT ![t] = 0]
    BY <1>9 DEF SessionsSent, history
  <2>2. \A r \in Threads : msg'[r] <= made' /\ sessions_mtx' # r
    BY <1>1, <2>1 DEF Threads
  <2> QED
    BY <1>1, <2>1, <2>2, OrderQuiet
<1>10. ASSUME NEW t \in Threads, NEW s \in Sessions, Visit(t, s) PROVE InOrder'
  <2>1. made' = made /\ sessions_mtx' = sessions_mtx
    BY <1>10 DEF Visit
  <2>2. sessions_mtx = t /\ msg[t] \in MessageIds
    BY <1>10 DEF Visit, IInv, Holding
  <2>3. CASE life[s] = "open"
    <3>1. Push(t, s, msg[t])
      BY <1>10, <2>3 DEF Visit
    <3>2. HandsOver(s, msg[t])
      BY <2>2, <3>1, PushHandsOver DEF IInv
    <3>3. msg' = msg
      BY <1>1, <3>1 DEF Push
    <3> QED
      BY <1>1, <2>1, <2>2, <3>2, <3>3, OrderPush
  <2>4. CASE life[s] # "open"
    BY <1>2, <1>10, <2>1, <2>4 DEF Visit
  <2> QED
    BY <2>3, <2>4
<1>11. ASSUME NEW t \in Threads, SetBinary(t) PROVE Quiet
  BY <1>11 DEF SetBinary, history, sending
<1>12. ASSUME NEW t \in Threads, StartWrite(t) PROVE InOrder'
  <2>1. /\ accepted' = accepted /\ made' = made /\ sessions_mtx' = sessions_mtx
        /\ \/ msg' = msg
           \/ sessions_mtx # t /\ msg' = [msg EXCEPT ![t] = 0]
    BY <1>1, <1>12 DEF StartWrite, history
  <2>2. \A r \in Threads : msg'[r] <= made' /\ (sessions_mtx = r => msg'[r] = msg[r])
    BY <1>1, <2>1
  <2> QED
    BY <1>1, <2>1, <2>2, OrderQuiet
<1>13. CASE UNCHANGED vars
  BY <1>2, <1>13 DEF vars
<1> QED
  BY <1>2, <1>3, <1>4, <1>5, <1>6, <1>7, <1>8, <1>9, <1>10, <1>11, <1>12, <1>13
     DEF Next, Halt, Broadcast, ThreadStep

-----------------------------------------------------------------------------
(***************************************************************************)
(* The delivery of a broadcast.                                            *)
(***************************************************************************)
Once(s, n) == \E i \in Places(s, n) : Places(s, n) = {i}

\* What the thread that holds sessions_mtx_ owes its message to is registered,
\* and has been handed the message if the iteration has passed it.
Carried ==
    ~Crashed =>
        \A t \in Threads : sessions_mtx = t =>
            /\ owed[t] \subseteq registry
            /\ \A s \in owed[t] : IF s \in ahead[t] THEN Places(s, msg[t]) = {}
                                  ELSE Once(s, msg[t])

\* A step that neither iterates nor hands over what is being broadcast.
LEMMA CarriedQuiet ==
  ASSUME IInv, Carried, ~Crashed, registry \subseteq registry', loop' = loop,
         sessions_mtx' = sessions_mtx,
         \A t \in Threads : sessions_mtx = t =>
             msg'[t] = msg[t] /\ \A s \in Sessions : Places(s, msg[t])' = Places(s, msg[t])
  PROVE  Carried'
<1> SUFFICES ASSUME NEW t \in Threads, sessions_mtx = t
             PROVE  /\ owed[t] \subseteq registry'
                    /\ \A s \in owed[t] : IF s \in ahead[t] THEN Places(s, msg[t])' = {}
                                          ELSE Once(s, msg[t])'
  BY DEF Carried, loop
<1>1. /\ owed[t] \subseteq registry
      /\ \A s \in owed[t] : IF s \in ahead[t] THEN Places(s, msg[t]) = {} ELSE Once(s, msg[t])
  BY DEF Carried
<1>2. \A s \in owed[t] : s \in Sessions
  BY <1>1 DEF IInv, TypeOK
<1> QED
  BY <1>1, <1>2 DEF Once

LEMMA CarriedStep ==
  ASSUME IInv, LiveRegistry, InOrder, Carried, [Next]_vars
  PROVE  Carried'
<1> DEFINE Quiet == UNCHANGED <<accepted, registry, msg, loop, sessions_mtx>>
<1>1. ASSUME ~Crashed, Quiet PROVE Carried'
  BY <1>1, CarriedQuiet DEF Places
<1>2. ListenerError => Quiet
  BY DEF ListenerError, history, sending
<1>3. ASSUME NEW s \in Sessions, Handler(s) PROVE Quiet
  BY <1>3 DEF Handler, OnReadError, OnRead, OnWrite, OnWriteError, conn, history, sending
<1>4. OnReadDone \/ ProcessBegin \/ ProcessEnd \/ SetDecoder => Quiet
  BY DEF OnReadDone, ProcessBegin, ProcessEnd, SetDecoder, conn, history, sending
<1>5. ASSUME NEW s \in Sessions, Connection(s), ~OnAccept(s) PROVE Quiet
  BY <1>5 DEF Connection, ListenerAccept, HttpUpgrade, HttpReject, OnAcceptError, history, sending
<1>6. ASSUME ~Crashed, NEW s \in Sessions, OnAccept(s) PROVE Carried'
  <2>1. /\ life[s] = "accepting" /\ registry' = registry \cup {s}
        /\ UNCHANGED <<accepted, msg, sessions_mtx>>
    BY <1>6 DEF OnAccept, SessionAdd, history
  <2>2. s \notin registry
    BY <2>1 DEF LiveRegistry, IoSendsToLiveSessions, IInv, Positions
  <2>3. CASE loop' = loop
    BY <1>6, <2>1, <2>3, CarriedQuiet DEF Places
  <2>4. CASE Iterating /\ InsertAndRehash(s)
    BY <2>1, <2>4 DEF Carried, Iterating, InsertAndRehash, IInv, TypeOK, Threads
  <2>5. CASE Iterating /\ InsertInPlace(s)
    <3> SUFFICES ASSUME NEW t \in Threads, sessions_mtx = t
                 PROVE  /\ owed'[t] \subseteq registry'
                        /\ \A r \in owed'[t] : IF r \in ahead'[t] THEN Places(r, msg[t])' = {}
                                               ELSE Once(r, msg[t])'
      BY <2>1 DEF Carried
    <3>1. /\ owed[t] \subseteq registry
          /\ \A r \in owed[t] : IF r \in ahead[t] THEN Places(r, msg[t]) = {} ELSE Once(r, msg[t])
      BY <1>6 DEF Carried
    <3>2. owed' = owed
      BY <2>5 DEF InsertInPlace
    <3>3. \A r : r # s => (r \in ahead'[t] <=> r \in ahead[t])
      <4>1. ahead' = ahead \/ ahead' = [ahead EXCEPT !["dec"] = @ \cup {s}]
        BY <2>5 DEF InsertInPlace
      <4>2. ahead \in [Threads -> SUBSET Sessions]
        BY DEF IInv, TypeOK
      <4> QED
        BY <4>1, <4>2
    <3>4. \A r : Places(r, msg[t])' = Places(r, msg[t])
      BY <2>1 DEF Places
    <3> QED
      BY <2>1, <2>2, <3>1, <3>2, <3>3, <3>4 DEF Once
  <2>6. CASE GoAstray
    BY <2>6 DEF GoAstray, Carried, Crashed
  <2> QED
    BY <1>6, <2>3, <2>4, <2>5, <2>6 DEF OnAccept, SessionAdd, loop
<1>7. ASSUME ~Crashed, SessionDelete PROVE Carried'
  <2>1. /\ registry' = registry \ {current} /\ UNCHANGED <<accepted, msg, sessions_mtx>>
        /\ pc["io"] = "destroy"
    BY <1>7 DEF SessionDelete, Without, history
  <2>2. CASE loop' = loop /\ current \notin registry
    BY <1>7, <2>1, <2>2, CarriedQuiet DEF Places
  <2>3. CASE EraseAstray
    BY <2>3 DEF EraseAstray, Carried, Crashed
  <2>4. CASE EraseInPlace(current)
    <3> SUFFICES ASSUME NEW t \in Threads, sessions_mtx = t
                 PROVE  /\ owed'[t] \subseteq registry'
                        /\ \A r \in owed'[t] : IF r \in ahead'[t] THEN Places(r, msg[t])' = {}
                                               ELSE Once(r, msg[t])'
      BY <2>1 DEF Carried
    <3>1. /\ owed[t] \subseteq registry
          /\ \A r \in owed[t] : IF r \in ahead[t] THEN Places(r, msg[t]) = {} ELSE Once(r, msg[t])
      BY <1>7 DEF Carried
    <3>2. t = "dec"
      BY <2>1 DEF IInv, Holding, Threads
    <3>3. owed'[t] = owed[t] \ {current} /\ \A r : r # current => (r \in ahead'[t] <=> r \in ahead[t])
      BY <2>4, <3>2 DEF EraseInPlace, IInv, TypeOK, Threads
    <3>4. \A r : Places(r, msg[t])' = Places(r, msg[t])
      BY <2>1 DEF Places
    <3> QED
      BY <2>1, <3>1, <3>3, <3>4 DEF Once
  <2>5. CASE ~Iterating /\ loop' = loop
    <3>1. \A t \in Threads : sessions_mtx # t
      BY <2>1, <2>5 DEF Iterating, IInv, Holding, Threads
    <3> QED
      BY <2>1, <3>1 DEF Carried
  <2> QED
    BY <1>7, <2>2, <2>3, <2>4, <2>5 DEF SessionDelete, loop
<1>8. ASSUME ~Crashed, Respond PROVE Carried'
  <2>1. /\ current \in Sessions /\ Response \in MessageIds /\ Response = made + 1
        /\ sessions_mtx' = sessions_mtx /\ Push("io", current, Response)
        /\ UNCHANGED <<registry, loop>>
    BY <1>8 DEF Respond, Response, IInv, Positions, TypeOK, MessageIds, Threads, conn
  <2>2. HandsOver(current, Response)
    BY <2>1, PushHandsOver DEF IInv, Threads
  <2>3. ASSUME NEW t \in Threads, sessions_mtx = t
        PROVE  msg'[t] = msg[t] /\ \A s \in Sessions : Places(s, msg[t])' = Places(s, msg[t])
    <3>1. t # "io"
      BY <1>8, <2>3 DEF Respond, IInv, Holding, Threads
    <3>2. msg'[t] = msg[t]
      BY <2>1, <3>1 DEF Push, IInv, TypeOK
    <3>3. msg[t] # Response
      BY <2>1 DEF InOrder, Numbered, IInv, TypeOK
    <3>4. PICK n : n = msg[t]
      OBVIOUS
    <3>5. \A s \in Sessions : Places(s, n)' = Places(s, n)
      BY <2>1, <2>2, <3>3, <3>4, HandedPlaces DEF IInv
    <3>6. \A s : Places(s, msg[t])' = Places(s, n)'
      BY <3>2, <3>4 DEF Places
    <3> QED
      BY <3>2, <3>4, <3>5, <3>6
  <2> QED
    BY <1>8, <2>1, <2>3, CarriedQuiet
<1>9. ASSUME ~Crashed, NEW t \in Threads, SessionsSend(t) PROVE Carried'
  <2>1. /\ accepted' = accepted /\ registry' = registry /\ sessions_mtx' = t
        /\ msg'[t] = made + 1 /\ owed'[t] = registry /\ ahead'[t] = registry
    BY <1>9 DEF SessionsSend, history, conn, IInv, TypeOK
  <2>2. \A s \in Sessions : Places(s, msg[t])' = {}
    <3>1. \A s \in Sessions : \A i \in 1 .. Len(accepted[s]) : accepted[s][i].msg # made + 1
      <4>1. made \in Nat
        BY DEF IInv, TypeOK
      <4>2. \A s \in Sessions : \A i \in 1 .. Len(accepted[s]) : accepted[s][i].msg <= made
        BY DEF InOrder, Numbered
      <4> QED
        BY <4>1, <4>2
    <3> QED
      BY <2>1, <3>1 DEF Places
  <2> QED
    BY <2>1, <2>2 DEF Carried, IInv, TypeOK
<1>10. ASSUME NEW t \in Threads, SessionsSent(t) PROVE Carried'
  BY <1>10 DEF SessionsSent, Carried, Threads
<1>11. ASSUME ~Crashed, NEW t \in Threads, NEW s \in Sessions, Visit(t, s) PROVE Carried'
  <2>1. /\ s \in ahead[t] /\ ahead' = [ahead EXCEPT ![t] = @ \ {s}]
        /\ UNCHANGED <<registry, owed, sessions_mtx>>
    BY <1>11 DEF Visit, conn
  <2>2. sessions_mtx = t /\ msg[t] \in MessageIds
    BY <1>11 DEF Visit, IInv, Holding
  <2>3. CASE life[s] # "open"
    BY <1>11, <2>3 DEF Visit, Carried, Crashed
  <2>4. CASE life[s] = "open"
    <3>1. Push(t, s, msg[t])
      BY <1>11, <2>4 DEF Visit
    <3>2. HandsOver(s, msg[t])
      BY <2>2, <3>1, PushHandsOver DEF IInv
    <3>3. msg' = msg
      BY <3>1 DEF Push, IInv, TypeOK
    <3>4. PICK n \in MessageIds : n = msg[t]
      BY <2>2
    <3>5. \A r \in Sessions : r # s => Places(r, n)' = Places(r, n)
      BY <3>2, <3>4, HandedPlaces DEF IInv
    <3>6. Places(s, n)' = Places(s, n) \cup {Len(accepted[s]) + 1}
      BY <3>2, <3>4, HandedPlaces DEF IInv
    <3>7. \A r : Places(r, msg[t])' = Places(r, n)'
      BY <3>3, <3>4 DEF Places
    <3>8. /\ owed[t] \subseteq registry
          /\ \A r \in owed[t] : IF r \in ahead[t] THEN Places(r, n) = {} ELSE Once(r, n)
      BY <1>11, <2>2, <3>4 DEF Carried
    <3>9. \A r : r \in ahead'[t] <=> r \in ahead[t] /\ r # s
      BY <2>1 DEF IInv, TypeOK
    <3>10. \A r \in owed[t] : IF r \in ahead'[t] THEN Places(r, msg[t])' = {} ELSE Once(r, msg[t])'
      <4> TAKE r \in owed[t]
      <4>1. r \in Sessions
        BY <3>8 DEF IInv, TypeOK
      <4>2. CASE r = s
        <5>1. Places(s, msg[t])' = {Len(accepted[s]) + 1}
          BY <2>1, <3>6, <3>7, <3>8, <4>2
        <5> QED
          BY <3>9, <4>2, <5>1 DEF Once
      <4>3. CASE r # s
        BY <3>5, <3>7, <3>8, <3>9, <4>1, <4>3 DEF Once
      <4> QED
        BY <4>2, <4>3
    <3>11. \A r \in Threads : sessions_mtx = r => r = t
      BY <2>2
    <3> QED
      BY <2>1, <3>8, <3>10, <3>11 DEF Carried
  <2> QED
    BY <2>3, <2>4
<1>12. ASSUME NEW t \in Threads, SetBinary(t) PROVE Quiet
  BY <1>12 DEF SetBinary, conn, history, sending
<1>13. ASSUME ~Crashed, NEW t \in Threads, StartWrite(t) PROVE Carried'
  <2>1. /\ UNCHANGED <<accepted, registry, loop, sessions_mtx>>
        /\ \A r \in Threads : sessions_mtx = r => msg'[r] = msg[r]
    BY <1>13 DEF StartWrite, conn, history, IInv, TypeOK
  <2> QED
    BY <1>13, <2>1, CarriedQuiet DEF Places
<1>14. CASE UNCHANGED vars
  <2>1. CASE Crashed
    BY <1>14, <2>1 DEF vars, Carried, Crashed
  <2>2. CASE ~Crashed
    BY <1>1, <1>14, <2>2 DEF vars, loop
  <2> QED
    BY <2>1, <2>2
<1> QED
  BY <1>1, <1>2, <1>3, <1>4, <1>5, <1>6, <1>7, <1>8, <1>9, <1>10, <1>11, <1>12, <1>13, <1>14
     DEF Next, Halt, Broadcast, ThreadStep

\* No two sessions were handed two messages in opposite orders: what is newer
\* came first in one of them, so it was a response, and the other never had it.
LEMMA Alike ==
  ASSUME IInv, InOrder, NEW s \in Sessions, NEW u \in Sessions,
         NEW m \in MessageIds, NEW n \in MessageIds, s # u, m # n
  PROVE  SameOrder(s, u, m, n)
<1>1. m \in Nat /\ n \in Nat
  BY DEF MessageIds
<1> SUFFICES ASSUME NEW i \in Places(s, m), NEW j \in Places(s, n),
                    NEW k \in Places(u, n), NEW l \in Places(u, m), i < j, k < l
             PROVE  FALSE
  BY DEF SameOrder
<1>2. /\ i \in 1 .. Len(accepted[s]) /\ j \in 1 .. Len(accepted[s])
      /\ k \in 1 .. Len(accepted[u]) /\ l \in 1 .. Len(accepted[u])
      /\ accepted[s][i].msg = m /\ accepted[s][j].msg = n
      /\ accepted[u][k].msg = n /\ accepted[u][l].msg = m
  BY DEF Places
<1>3. CASE m > n
  <2>1. Only(s, m)
    BY <1>2, <1>3 DEF InOrder, EarlierIsResponse
  <2> QED
    BY <2>1 DEF Only
<1>4. CASE n > m
  <2>1. Only(u, n)
    BY <1>2, <1>4 DEF InOrder, EarlierIsResponse
  <2> QED
    BY <2>1 DEF Only
<1> QED
  BY <1>1, <1>3, <1>4

(***************************************************************************)
(* A broadcast hands its message, once, to every session that is           *)
(* registered all the while, unless the set is rehashed under it; and no   *)
(* two clients see messages in different orders (sessions_send of both     *)
(* threads under sessions_mtx_, against session_add and session_delete     *)
(* without it).                                                            *)
(***************************************************************************)
THEOREM BroadcastComplete == Spec => BroadcastReachesAll
<1> DEFINE J == IInv /\ LiveRegistry /\ InOrder /\ Carried
<1>1. Init => LiveRegistry
  BY DEF Init, LiveRegistry, IoSendsToLiveSessions, Threads
<1>2. Init => InOrder
  BY DEF Init, InOrder, Numbered, NewerIsResponse, EarlierIsResponse, Threads
<1>3. Init => Carried
  BY DEF Init, Carried, Threads
<1>4. J /\ [Next]_vars => J'
  BY TypeStep, PositionsStep, HoldingStep, SafeStep, LiveRegistryStep, OrderStep, CarriedStep
     DEF IInv, Safe
<1>5. J /\ [Next]_vars =>
          [\A t \in Threads : SessionsSent(t) =>
              /\ \A s \in owed[t] : \E i \in Places(s, msg[t]) : Places(s, msg[t]) = {i}
              /\ \A s, u \in Sessions : \A m, n \in MessageIds :
                     s # u /\ m # n => SameOrder(s, u, m, n)]_vars
  <2> SUFFICES ASSUME IInv, InOrder, Carried, [Next]_vars, vars' # vars,
                      NEW t \in Threads, SessionsSent(t)
               PROVE  /\ \A s \in owed[t] : \E i \in Places(s, msg[t]) : Places(s, msg[t]) = {i}
                      /\ \A s, u \in Sessions : \A m, n \in MessageIds :
                             s # u /\ m # n => SameOrder(s, u, m, n)
    OBVIOUS
  <2>1. ~Crashed
    BY DEF Next, Halt
  <2>2. sessions_mtx = t /\ ahead[t] = {}
    BY DEF SessionsSent, IInv, Holding
  <2>3. \A s \in owed[t] : Once(s, msg[t])
    BY <2>1, <2>2 DEF Carried
  <2> QED
    BY <2>3, Alike DEF Once
<1> QED
  BY <1>1, <1>2, <1>3, <1>4, <1>5, InitIInv, PTL DEF Spec, BroadcastReachesAll
=============================================================================
