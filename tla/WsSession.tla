------------------------------ MODULE WsSession ------------------------------
(***************************************************************************)
(* The websocket server of habdec: the listener, the http session that     *)
(* upgrades a connection, the websocket sessions with their write queues,  *)
(* and the registry through which messages are broadcast.                  *)
(*                                                                         *)
(* Two threads run this code.                                              *)
(*   "io"   runs io_context::run(): one completion handler at a time, to   *)
(*          its end, destructors of the sessions it releases included.     *)
(*   "dec"  is the decoder thread: inside Decoder::process(), which holds  *)
(*          process_mutex_ from beginning to end, the callbacks broadcast  *)
(*          messages.  sentence_callback_ runs on a third thread, but the  *)
(*          decoder thread waits for it (the std::future it discards joins *)
(*          it), so the two are one thread here.                           *)
(*                                                                         *)
(* sessions_mtx_ is held by a thread for a whole broadcast.  session_add   *)
(* and session_delete do not take it, so ws_sessions_, an unordered_set,   *)
(* changes while the decoder thread iterates over it.  The mutex of a      *)
(* session is held for a single step only, and is left out: a step of this *)
(* model is a section under that mutex, or a call outside it.              *)
(***************************************************************************)
EXTENDS Integers, Sequences, FiniteSets

CONSTANTS Sessions,        \* session objects, each serving one connection
          None,            \* no session
          MaxMessages,     \* bound: messages made in a behaviour
          BinaryMessages   \* the messages whose is_binary_ is set

ASSUME SessionsAssumption == None \notin Sessions \cup {"io", "dec"}
ASSUME MaxMessagesAssumption == MaxMessages \in Nat

Threads == {"io", "dec"}
MessageIds == 1 .. MaxMessages
Frame(m) == [msg |-> m, binary |-> m \in BinaryMessages]
Frames == [msg : MessageIds, binary : BOOLEAN]
\* An async_write that has not completed.  owned: the buffer it was given
\* belongs to the string its completion handler keeps alive.
Writes == [msg : MessageIds, binary : BOOLEAN, owned : BOOLEAN]

VARIABLES
    listening,   \* an async_accept of the listener is pending
    life,        \* stage in the life of a session
    reading,     \* an async_read of the session is pending or being handled
    registry,    \* ws_sessions_: the sessions a broadcast iterates over
    queue,       \* queue_: messages of a session not yet written
    binary,      \* the opcode set on the stream by ws_.binary()
    flight,      \* async_writes of the session that have not completed
    accepted,    \* history: frames handed to the session by send()
    received,    \* history: frames written to the session's socket
    mangled,     \* history: sessions that wrote bytes of a freed string
    failed,      \* history: sessions one of whose writes has failed
    pc,          \* what a thread is doing
    msg,         \* the message a thread is sending
    on,          \* the session a thread has started to write to
    current,     \* the session whose handler, or destructor, io is running
    ahead,       \* sessions the iteration of a thread's broadcast still comes to
    owed,        \* history: sessions that were registered when a thread's
                 \* broadcast began and still are; none after a rehash
    sessions_mtx,\* holder of sessions_mtx_
    made,        \* messages made so far
    fault        \* undefined behaviour that has occurred

vars == <<listening, life, reading, registry, queue, binary, flight, accepted,
          received, mangled, failed, pc, msg, on, current, ahead, owed,
          sessions_mtx, made, fault>>

conn    == <<listening, life, reading, registry>>
outbox  == <<queue, binary, flight>>
history == <<accepted, received, mangled, failed>>
loop    == <<ahead, owed>>
sending == <<msg, on, loop, sessions_mtx, made>>

\* "iterator": an iteration over ws_sessions_ goes astray because the set
\* changes.  "session": a call on a session whose last reference is gone.
\* "server": the second owner of the server deletes an object that make_shared
\* allocated.
Faults == {"iterator", "session", "server"}
Crashed == fault # {}

Stages == {"new", "http", "accepting", "open", "closing", "gone"}
Steps  == {"idle", "blocked", "handling", "process", "each", "binary", "write",
           "destroy"}

Init ==
    /\ listening = TRUE
    /\ life = [s \in Sessions |-> "new"]
    /\ reading = [s \in Sessions |-> FALSE]
    /\ registry = {}
    /\ queue = [s \in Sessions |-> <<>>]
    /\ binary = [s \in Sessions |-> FALSE]
    /\ flight = [s \in Sessions |-> {}]
    /\ accepted = [s \in Sessions |-> <<>>]
    /\ received = [s \in Sessions |-> <<>>]
    /\ mangled = {}
    /\ failed = {}
    /\ pc = [t \in Threads |-> "idle"]
    /\ msg = [t \in Threads |-> 0]
    /\ on = [t \in Threads |-> None]
    /\ current = None
    /\ ahead = [t \in Threads |-> {}]
    /\ owed = [t \in Threads |-> {}]
    /\ sessions_mtx = None
    /\ made = 0
    /\ fault = {}

-----------------------------------------------------------------------------
\* The listener and the sessions share an owner count of the server of their
\* own, made from a raw reference: the server is deleted when all of them are
\* gone, whoever else uses it.
Owners == {"http", "accepting", "open", "closing"}
OwnerCount == IF listening' \/ (\E s \in Sessions : life'[s] \in Owners)
              THEN {} ELSE {"server"}

\* listener::on_accept without error: a new http_session reads its request.
ListenerAccept(s) ==
    /\ pc["io"] = "idle" /\ listening /\ life[s] = "new"
    /\ life' = [life EXCEPT ![s] = "http"]
    /\ UNCHANGED <<listening, reading, registry, outbox, history, pc, current,
                   sending, fault>>

\* listener::on_accept with an error (bind() failed, out of descriptors...):
\* nothing is accepted any more and the listener is destroyed.
ListenerError ==
    /\ pc["io"] = "idle" /\ listening
    /\ listening' = FALSE
    /\ UNCHANGED life
    /\ fault' = fault \cup OwnerCount
    /\ UNCHANGED <<reading, registry, outbox, history, pc, current, sending>>

\* http_session::on_read of an upgrade request: a websocket_session takes over
\* the socket and starts the handshake.
HttpUpgrade(s) ==
    /\ pc["io"] = "idle" /\ life[s] = "http"
    /\ life' = [life EXCEPT ![s] = "accepting"]
    /\ UNCHANGED <<listening, reading, registry, outbox, history, pc, current,
                   sending, fault>>

\* http_session::on_read otherwise: end of stream, an error, or a request that
\* is no upgrade.  Nothing refers to the http_session any more.
HttpReject(s) ==
    /\ pc["io"] = "idle" /\ life[s] = "http"
    /\ life' = [life EXCEPT ![s] = "gone"]
    /\ UNCHANGED listening
    /\ fault' = fault \cup OwnerCount
    /\ UNCHANGED <<reading, registry, outbox, history, pc, current, sending>>

\* The decoder thread is iterating over ws_sessions_, of which the io thread
\* knows nothing.
Iterating == sessions_mtx = "dec"

\* WebsocketServer::session_add, unordered_set::insert.  In a bucket without a
\* rehash it puts s in front of the iteration's place or behind it.
InsertInPlace(s) ==
    /\ ahead' \in {ahead, [ahead EXCEPT !["dec"] = @ \cup {s}]}
    /\ UNCHANGED <<owed, fault>>

\* A rehash links the elements anew, in any order: the iteration goes on from
\* where its element is now, and skips or repeats others.
InsertAndRehash(s) ==
    /\ \E next \in SUBSET (registry \cup {s}) : ahead' = [ahead EXCEPT !["dec"] = next]
    /\ owed' = [owed EXCEPT !["dec"] = {}]
    /\ UNCHANGED fault

GoAstray == fault' = fault \cup {"iterator"} /\ UNCHANGED loop

SessionAdd(s) ==
    /\ registry' = registry \cup {s}
    /\ IF Iterating
       THEN InsertInPlace(s) \/ InsertAndRehash(s) \/ GoAstray
       ELSE UNCHANGED <<loop, fault>>

\* websocket_session::on_accept: session_add, then the first async_read.
OnAccept(s) ==
    /\ pc["io"] = "idle" /\ life[s] = "accepting"
    /\ life' = [life EXCEPT ![s] = "open"]
    /\ reading' = [reading EXCEPT ![s] = TRUE]
    /\ SessionAdd(s)
    /\ UNCHANGED <<listening, outbox, history, pc, msg, on, current,
                   sessions_mtx, made>>

\* websocket_session::on_accept with an error: the last reference goes.
OnAcceptError(s) ==
    /\ pc["io"] = "idle" /\ life[s] = "accepting"
    /\ life' = [life EXCEPT ![s] = "closing"]
    /\ pc' = [pc EXCEPT !["io"] = "destroy"]
    /\ current' = s
    /\ UNCHANGED <<listening, reading, registry, outbox, history, sending, fault>>

\* A handler of session s returns.  The pending read and the pending writes
\* hold the references to a session; without any, its destructor runs.
Release(s) ==
    IF reading'[s] \/ flight'[s] # {}
    THEN UNCHANGED <<life, pc, current>>
    ELSE /\ life' = [life EXCEPT ![s] = "closing"]
         /\ pc' = [pc EXCEPT !["io"] = "destroy"]
         /\ current' = s

\* WebsocketServer::session_delete, unordered_set::erase, of a session that is
\* in the set.  The decoder thread may have read the pointer just before.
KeepsDeleted(s) == registry
Without(s) == registry \ {s}

EraseInPlace(s) ==
    /\ ahead' \in {ahead, [ahead EXCEPT !["dec"] = @ \ {s}]}
    /\ owed' = [owed EXCEPT !["dec"] = @ \ {s}]
    /\ fault' = fault \cup OwnerCount

EraseAstray == fault' = fault \cup OwnerCount \cup {"iterator"} /\ UNCHANGED loop

\* ~websocket_session: session_delete, then the members are destroyed.
SessionDelete ==
    /\ pc["io"] = "destroy"
    /\ registry' = Without(current)
    /\ life' = [life EXCEPT ![current] = "gone"]
    /\ pc' = [pc EXCEPT !["io"] = "idle"]
    /\ current' = None
    /\ UNCHANGED listening
    /\ IF Iterating /\ current \in registry
       THEN EraseInPlace(current) \/ EraseAstray
       ELSE fault' = fault \cup OwnerCount /\ UNCHANGED loop
    /\ UNCHANGED <<reading, outbox, history, msg, on, sessions_mtx, made>>

-----------------------------------------------------------------------------
\* websocket_session::on_read with an error, or the client's close.
OnReadError(s) ==
    /\ pc["io"] = "idle" /\ life[s] = "open" /\ reading[s]
    /\ reading' = [reading EXCEPT ![s] = FALSE]
    /\ UNCHANGED flight
    /\ Release(s)
    /\ UNCHANGED <<listening, registry, queue, binary, history, sending, fault>>

\* websocket_session::on_read: HandleRequest runs.  Commands that set up the
\* decoder wait for process_mutex_ first.
OnRead(s) ==
    /\ pc["io"] = "idle" /\ life[s] = "open" /\ reading[s]
    /\ \E step \in {"handling", "blocked"} : pc' = [pc EXCEPT !["io"] = step]
    /\ current' = s
    /\ UNCHANGED <<conn, outbox, history, sending, fault>>

\* Decoder::process() holds process_mutex_ as long as the thread is inside.
Decoding == pc["dec"] # "idle"

SetDecoder ==
    /\ pc["io"] = "blocked" /\ ~Decoding
    /\ pc' = [pc EXCEPT !["io"] = "handling"]
    /\ UNCHANGED <<conn, outbox, history, current, sending, fault>>

\* The end of on_read: the next async_read.
OnReadDone ==
    /\ pc["io"] = "handling"
    /\ pc' = [pc EXCEPT !["io"] = "idle"]
    /\ current' = None
    /\ UNCHANGED <<conn, outbox, history, sending, fault>>

-----------------------------------------------------------------------------
\* The decoder thread enters and leaves Decoder::process().
ProcessBegin ==
    /\ pc["dec"] = "idle"
    /\ pc' = [pc EXCEPT !["dec"] = "process"]
    /\ UNCHANGED <<conn, outbox, history, current, sending, fault>>

ProcessEnd ==
    /\ pc["dec"] = "process"
    /\ pc' = [pc EXCEPT !["dec"] = "idle"]
    /\ UNCHANGED <<conn, outbox, history, current, sending, fault>>

\* Where a thread sends messages from.
Home(t) == IF t = "io" THEN "handling" ELSE "process"

\* The lock_guard of sessions_send.
NoGuard == TRUE
MutexFree == sessions_mtx = None

\* WebsocketServer::sessions_send: take sessions_mtx_, begin to iterate...
SessionsSend(t) ==
    /\ pc[t] = Home(t) /\ MutexFree /\ made < MaxMessages
    /\ sessions_mtx' = t
    /\ made' = made + 1
    /\ msg' = [msg EXCEPT ![t] = made + 1]
    /\ ahead' = [ahead EXCEPT ![t] = registry]
    /\ owed' = [owed EXCEPT ![t] = registry]
    /\ pc' = [pc EXCEPT ![t] = "each"]
    /\ UNCHANGED <<conn, outbox, history, current, on, fault>>

\* websocket_session::send returns early when the queue held something already.
NobodyWritesOffByOne(s) == Len(queue[s]) <= 1
NobodyWrites(s) == queue[s] = <<>>

\* The first half of websocket_session::send, under the session's mutex: queue
\* the message; the caller that finds the queue empty goes on to write it.
Push(t, s, m) ==
    /\ queue' = [queue EXCEPT ![s] = Append(@, m)]
    /\ accepted' = [accepted EXCEPT ![s] = Append(@, Frame(m))]
    /\ IF NobodyWrites(s)
       THEN /\ pc' = [pc EXCEPT ![t] = "binary"]
            /\ on' = [on EXCEPT ![t] = s]
            /\ msg' = [msg EXCEPT ![t] = m]
       ELSE UNCHANGED <<pc, on, msg>>

\* ... call send on one session after the other, in the order of the set...
Visit(t, s) ==
    /\ pc[t] = "each" /\ s \in ahead[t]
    /\ ahead' = [ahead EXCEPT ![t] = @ \ {s}]
    /\ IF life[s] = "open"
       THEN Push(t, s, msg[t]) /\ UNCHANGED fault
       ELSE fault' = fault \cup {"session"} /\ UNCHANGED <<queue, accepted, pc, on, msg>>
    /\ UNCHANGED <<conn, binary, flight, received, mangled, failed,
                   current, owed, sessions_mtx, made>>

\* ... until the iterator has come to the end, and release the mutex.
SessionsSent(t) ==
    /\ pc[t] = "each" /\ ahead[t] = {}
    /\ owed' = [owed EXCEPT ![t] = {}]
    /\ sessions_mtx' = None
    /\ pc' = [pc EXCEPT ![t] = Home(t)]
    /\ msg' = [msg EXCEPT ![t] = 0]
    /\ UNCHANGED <<conn, outbox, history, current, on, ahead, made, fault>>

\* The message that HandleRequest returns.
Response == made + 1

\* on_read sends a response that is not for all clients to its own session.
Respond ==
    /\ pc["io"] = "handling" /\ made < MaxMessages
    /\ made' = made + 1
    /\ Push("io", current, Response)
    /\ UNCHANGED <<conn, binary, flight, received, mangled, failed, current,
                   loop, sessions_mtx, fault>>

\* The second half of send, outside the mutex: the opcode...
SetBinary(t) ==
    /\ pc[t] = "binary"
    /\ IF life[on[t]] = "open"
       THEN /\ binary' = [binary EXCEPT ![on[t]] = msg[t] \in BinaryMessages]
            /\ pc' = [pc EXCEPT ![t] = "write"]
            /\ UNCHANGED fault
       ELSE fault' = fault \cup {"session"} /\ UNCHANGED <<binary, pc>>
    /\ UNCHANGED <<conn, queue, flight, history, current, sending>>

\* ... and the async_write.  shared_from_this throws on a session without
\* references, and nothing catches it on the decoder thread.
StartWrite(t) ==
    /\ pc[t] = "write"
    /\ IF life[on[t]] = "open"
       THEN /\ flight' = [flight EXCEPT ![on[t]] = @ \cup
                  {[msg |-> msg[t], binary |-> binary[on[t]], owned |-> TRUE]}]
            /\ pc' = [pc EXCEPT ![t] = IF sessions_mtx = t THEN "each" ELSE Home(t)]
            /\ on' = [on EXCEPT ![t] = None]
            /\ msg' = [msg EXCEPT ![t] = IF sessions_mtx = t THEN @ ELSE 0]
            /\ UNCHANGED fault
       ELSE fault' = fault \cup {"session"} /\ UNCHANGED <<flight, pc, on, msg>>
    /\ UNCHANGED <<conn, queue, binary, history, current, loop,
                   sessions_mtx, made>>

\* The message on_write goes on with.
NewestQueued(s) == Frame(queue[s][Len(queue[s])])
NextQueued(s) == Frame(queue[s][2])

\* Whether on_write has something to go on with.
MoreThanOneQueued(s) == Len(queue[s]) > 2
MoreQueued(s) == Len(queue[s]) > 1

\* websocket_session::on_write: take the message out of the queue and write
\* the next one.  The buffer of that write is a temporary string, and the
\* string that its handler keeps is a copy: what the socket has not taken by
\* the time async_write returns is read from freed memory.
OnWrite(s) ==
    /\ pc["io"] = "idle"
    /\ \E w \in flight[s] :
        /\ received' = [received EXCEPT ![s] =
               Append(@, [msg |-> w.msg, binary |-> w.binary])]
        /\ mangled' \in {mangled} \cup IF w.owned THEN {} ELSE {mangled \cup {s}}
        /\ queue' = [queue EXCEPT ![s] = Tail(@)]
        /\ IF MoreQueued(s)
           THEN LET next == NextQueued(s) IN
                /\ binary' = [binary EXCEPT ![s] = next.binary]
                /\ flight' = [flight EXCEPT ![s] = (@ \ {w}) \cup
                       {[msg |-> next.msg, binary |-> next.binary, owned |-> FALSE]}]
           ELSE /\ flight' = [flight EXCEPT ![s] = @ \ {w}]
                /\ UNCHANGED binary
    /\ UNCHANGED <<listening, reading, registry, accepted, failed, sending, fault>>
    /\ Release(s)

\* queue_ after a write has failed.
FailedRemoved(s) == [queue EXCEPT ![s] = Tail(@)]
FailedKept(s) == queue

\* on_write with an error: the message stays at the head of the queue, so no
\* later send finds the queue empty and nothing is written again.
OnWriteError(s) ==
    /\ pc["io"] = "idle"
    /\ \E w \in flight[s] : flight' = [flight EXCEPT ![s] = @ \ {w}]
    /\ queue' = FailedKept(s)
    /\ failed' = failed \cup {s}
    /\ UNCHANGED <<listening, reading, registry, binary, accepted, received,
                   mangled, sending, fault>>
    /\ Release(s)

-----------------------------------------------------------------------------
\* A program that has crashed stays as it is.
Halt == Crashed /\ UNCHANGED vars

\* The steps a thread takes by itself once a handler or process() has begun.
ThreadStep(t) ==
    \/ SessionsSent(t) \/ SetBinary(t) \/ StartWrite(t)
    \/ \E s \in Sessions : Visit(t, s)
    \/ t = "io" /\ (SetDecoder \/ SessionDelete)

Broadcast(t) == SessionsSend(t) \/ ThreadStep(t)

Connection(s) ==
    \/ ListenerAccept(s) \/ HttpUpgrade(s) \/ HttpReject(s)
    \/ OnAccept(s) \/ OnAcceptError(s)

Handler(s) == OnReadError(s) \/ OnRead(s) \/ OnWrite(s) \/ OnWriteError(s)

Next ==
    \/ /\ ~Crashed
       /\ \/ ListenerError
          \/ \E s \in Sessions : Connection(s) \/ Handler(s)
          \/ Respond \/ OnReadDone
          \/ ProcessBegin \/ ProcessEnd
          \/ \E t \in Threads : Broadcast(t)
    \/ Halt

Spec == Init /\ [][Next]_vars

(***************************************************************************)
(* Threads run, callbacks and handlers return, and asio runs the handlers  *)
(* of completed operations in the order of their completion, so a write    *)
(* whose handler could run again and again is not passed over for ever.    *)
(* process_mutex_ is free while the decoder thread waits for samples, so a *)
(* command that waits for it gets it: strong fairness for SetDecoder.      *)
(* That a write completes at all is the transport's doing: TCP delivers    *)
(* the bytes or reports an error, unless the client keeps the connection   *)
(* and stops reading.                                                      *)
(***************************************************************************)
Fairness ==
    /\ \A t \in Threads : WF_vars(~Crashed /\ ThreadStep(t))
    /\ WF_vars(~Crashed /\ ProcessEnd)
    /\ WF_vars(~Crashed /\ OnReadDone)
    /\ SF_vars(~Crashed /\ SetDecoder)
    /\ \A s \in Sessions : SF_vars(~Crashed /\ (OnWrite(s) \/ OnWriteError(s)))

FairSpec == Spec /\ Fairness

-----------------------------------------------------------------------------
TypeOK ==
    /\ listening \in BOOLEAN
    /\ life \in [Sessions -> Stages]
    /\ reading \in [Sessions -> BOOLEAN]
    /\ registry \subseteq Sessions
    /\ queue \in [Sessions -> Seq(MessageIds)]
    /\ binary \in [Sessions -> BOOLEAN]
    /\ flight \in [Sessions -> SUBSET Writes]
    /\ accepted \in [Sessions -> Seq(Frames)]
    /\ received \in [Sessions -> Seq(Frames)]
    /\ mangled \subseteq Sessions
    /\ failed \subseteq Sessions
    /\ pc \in [Threads -> Steps]
    /\ msg \in [Threads -> 0 .. MaxMessages]
    /\ on \in [Threads -> Sessions \cup {None}]
    /\ current \in Sessions \cup {None}
    /\ ahead \in [Threads -> SUBSET Sessions]
    /\ owed \in [Threads -> SUBSET Sessions]
    /\ sessions_mtx \in Threads \cup {None}
    /\ made \in 0 .. MaxMessages
    /\ fault \subseteq Faults

\* Thread t has found the queue of s empty and is on its way to async_write.
Writing(t, s) == pc[t] \in {"binary", "write"} /\ on[t] = s

(***************************************************************************)
(* A websocket stream allows one write at a time.  Whatever the two        *)
(* threads do, at most one async_write of a session is pending or about to *)
(* be started: the thread that finds queue_ empty owns the stream until    *)
(* on_write has emptied the queue.                                         *)
(***************************************************************************)
OneWriteAtATime ==
    \A s \in Sessions :
        /\ \A w, x \in flight[s] : w = x
        /\ flight[s] # {} => \A t \in Threads : ~Writing(t, s)
        /\ ~(Writing("io", s) /\ Writing("dec", s))

\* The frames a queue of messages stands for.
Backlog(q) == [i \in 1 .. Len(q) |-> Frame(q[i])]

(***************************************************************************)
(* What a session was handed is what its socket was given followed by what *)
(* its queue holds: no message is lost, repeated or overtaken, and what is *)
(* being written is the head of the queue with its own opcode.             *)
(***************************************************************************)
QueueIsBacklog ==
    \A s \in Sessions :
        /\ accepted[s] = received[s] \o Backlog(queue[s])
        /\ \A w \in flight[s] :
               queue[s] # <<>> /\ Frame(Head(queue[s])) = [msg |-> w.msg, binary |-> w.binary]

\* Where message m is among what a session was handed.
Places(s, m) == {i \in 1 .. Len(accepted[s]) : accepted[s][i].msg = m}

\* Two clients that were both handed m and n were not handed them in opposite
\* orders.
SameOrder(s, u, m, n) ==
    ~ \E i \in Places(s, m), j \in Places(s, n), k \in Places(u, n), l \in Places(u, m) :
          i < j /\ k < l

(***************************************************************************)
(* What a broadcast promises although session_add and session_delete       *)
(* change the registry in the midst of it.  When sessions_send returns,    *)
(* every session that was registered from its beginning to its end has     *)
(* been handed the message once, unless an insertion has rehashed the set  *)
(* meanwhile; one that was added meanwhile may have been left out.  And    *)
(* with the broadcasts of both threads, and with responses in between, no  *)
(* two clients have been handed messages in different orders, after a      *)
(* rehash either.                                                          *)
(***************************************************************************)
BroadcastReachesAll ==
    [][\A t \in Threads : SessionsSent(t) =>
          /\ \A s \in owed[t] : \E i \in Places(s, msg[t]) : Places(s, msg[t]) = {i}
          /\ \A s, u \in Sessions : \A m, n \in MessageIds :
                 s # u /\ m # n => SameOrder(s, u, m, n)]_vars

(***************************************************************************)
(* The io thread can send to any registered session: ws_sessions_ holds no *)
(* session that is gone, nor one that is going except in the midst of its  *)
(* destructor, so a call on a session without references is always the     *)
(* decoder thread's.                                                       *)
(***************************************************************************)
IoSendsToLiveSessions ==
    /\ \A s \in registry : life[s] = "open" \/ (pc["io"] = "destroy" /\ current = s)
    /\ "session" \in fault => Decoding

(***************************************************************************)
(* A message handed to a session comes out of its socket in the end,       *)
(* unless a write fails, the session is released or the program crashes.   *)
(***************************************************************************)
MessageSettles ==
    \A s \in Sessions : \A n \in MessageIds :
        Len(accepted[s]) >= n ~>
            Len(received[s]) >= n \/ s \in failed \/ life[s] # "open" \/ Crashed

(***************************************************************************)
(* The bytes of every message written are the message's: the string they   *)
(* are read from lives as long as the async_write (websocket_session.cpp,  *)
(* the comments of send and on_write).                                     *)
(***************************************************************************)
PayloadsOutliveWrites == mangled = {}

(***************************************************************************)
(* Each session is an Outbox.                                              *)
(***************************************************************************)
Promise == INSTANCE Outbox WITH
    sent <- accepted,
    delivered <- received,
    released <- {s \in Sessions : life[s] \in {"closing", "gone"}}

KeepsPromise == Promise!Spec
=============================================================================
