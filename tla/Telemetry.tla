------------------------------ MODULE Telemetry ------------------------------
(***************************************************************************)
(* What happens to a sentence once its CRC has matched: SentenceCallback   *)
(* (main.cpp) hands it to the SondeHub uploader, to the websocket clients  *)
(* and to the map of sentences, the uploader's thread reports it, and a    *)
(* client's cmd::sentence reads the map.                                   *)
(*                                                                         *)
(* Three threads: the decoder's, which waits for each callback, so that    *)
(* callbacks come one after the other; the uploader's, which calls         *)
(* upload() every 15 s; and io, which runs HandleRequest.                  *)
(* queue_mtx_ is held within single steps.  sentences_map_mtx_ is taken by *)
(* the callback only, so its try_lock_for always succeeds.                 *)
(***************************************************************************)
EXTENDS Integers, Sequences, FiniteSets

CONSTANTS Frames,         \* the sentence ids a payload transmits
          MaxSentences,   \* bound: sentences decoded in a behaviour
          None            \* no sentence

ASSUME FramesAssumption == Frames \subseteq Int
ASSUME MaxSentencesAssumption == MaxSentences \in Nat
ASSUME NoneAssumption == None \notin [id : 1 .. MaxSentences, frame : Frames]

\* A sentence that parses: its frame id, told apart by the order of decoding.
Sentences == [id : 1 .. MaxSentences, frame : Frames]

VARIABLES
    config,     \* "off": no station callsign.  "idle": a callsign but an empty
                \* --sondehub, so no uploader thread.  "on": both are set
    callback,   \* where SentenceCallback is
    sentence,   \* the sentence it was called with
    decoded,    \* number of sentences decoded
    queue,      \* queue_ of the uploader
    processing, \* processing_queue_ of the uploader
    upload,     \* where upload() is
    map,        \* sentences_map_: a function from frame ids to sentences
    num_ok,     \* stats_.num_ok_
    answer,     \* the last answer to cmd::sentence
    torn,       \* the map was read while it changed, and the reader went astray
    pushed,     \* history: sentences put into the uploader's queue
    tried,      \* history: sentences whose PUT has been made
    service,    \* history: sentences SondeHub has received
    announced,  \* history: sentences broadcast to the clients
    registered  \* history: sentences entered into the map

vars == <<config, callback, sentence, decoded, queue, processing, upload, map,
          num_ok, answer, torn, pushed, tried, service, announced, registered>>

uploader == <<processing, upload, tried, service>>
records  == <<map, num_ok, registered>>
reader   == <<answer, torn>>

Init ==
    /\ config \in {"off", "idle", "on"}
    /\ callback = "done" /\ sentence = None /\ decoded = 0
    /\ queue = <<>> /\ processing = <<>> /\ upload = "sleeping"
    /\ map = [f \in {} |-> None] /\ num_ok = 0
    /\ answer = None /\ torn = FALSE
    /\ pushed = <<>> /\ tried = <<>> /\ service = <<>>
    /\ announced = <<>> /\ registered = <<>>

-----------------------------------------------------------------------------
\* SentenceCallback begins with a sentence that parses.  One that does not,
\* or whose parsing throws, leaves no trace.
SentenceCallback ==
    /\ callback = "done" /\ decoded < MaxSentences
    /\ decoded' = decoded + 1
    /\ \E f \in Frames : sentence' = [id |-> decoded + 1, frame |-> f]
    /\ callback' = "push"
    /\ UNCHANGED <<config, queue, uploader, records, reader, pushed, announced>>

\* SondeHubUploader::push.  The end point has a path appended and is never
\* empty, so only a missing callsign turns the uploader off.
Push ==
    /\ callback = "push"
    /\ IF config = "off"
       THEN UNCHANGED <<queue, pushed>>
       ELSE /\ queue' = Append(queue, sentence)
            /\ pushed' = Append(pushed, sentence)
    /\ callback' = "notify"
    /\ UNCHANGED <<config, sentence, decoded, uploader, records, reader, announced>>

\* The sentence and its telemetry are sent to all clients.
Notify ==
    /\ callback = "notify"
    /\ announced' = Append(announced, sentence)
    /\ callback' = "register"
    /\ UNCHANGED <<config, sentence, decoded, queue, uploader, records, reader, pushed>>

\* A broadcast that meets a dying session throws; the future of the callback
\* swallows the exception and the rest of the callback is skipped.
NotifyThrows ==
    /\ callback = "notify"
    /\ callback' = "done"
    /\ UNCHANGED <<config, sentence, decoded, queue, uploader, records, reader,
                   pushed, announced>>

\* sentences_map_[t.frame] = sentence, under sentences_map_mtx_...
FirstEntered == [f \in DOMAIN map \cup {sentence.frame} |->
                    IF f \in DOMAIN map THEN map[f] ELSE sentence]
Entered == [f \in DOMAIN map \cup {sentence.frame} |->
               IF f = sentence.frame THEN sentence ELSE map[f]]

RegisterBegin ==
    /\ callback = "register"
    /\ callback' = "inserting"
    /\ UNCHANGED <<config, sentence, decoded, queue, uploader, records, reader,
                   pushed, announced>>

\* ... and the count of sentences.
RegisterEnd ==
    /\ callback = "inserting"
    /\ map' = Entered
    /\ num_ok' = Cardinality(DOMAIN Entered)
    /\ registered' = Append(registered, sentence)
    /\ callback' = "done"
    /\ UNCHANGED <<config, sentence, decoded, queue, uploader, reader, pushed, announced>>

-----------------------------------------------------------------------------
\* SondeHubUploader::upload, first the batch of the last time goes...
Kept == processing
Cleared == <<>>

UploadBegin ==
    /\ config = "on" /\ upload = "sleeping"
    /\ processing' = Cleared
    /\ upload' = "clear"
    /\ UNCHANGED <<config, callback, sentence, decoded, queue, records, reader,
                   pushed, tried, service, announced>>

\* ... then an empty queue ends it, and another one is swapped with the empty
\* batch, under queue_mtx_...
FewQueued == Len(queue) < 2
NothingQueued == queue = <<>>

UploadNothing ==
    /\ upload = "clear" /\ NothingQueued
    /\ upload' = "sleeping"
    /\ UNCHANGED <<config, callback, sentence, decoded, queue, processing,
                   records, reader, pushed, tried, service, announced>>

UploadSwap ==
    /\ upload = "clear" /\ ~NothingQueued
    /\ queue' = processing
    /\ processing' = queue
    /\ upload' = "put"
    /\ UNCHANGED <<config, callback, sentence, decoded, records, reader,
                   pushed, tried, service, announced>>

\* What is tried again after a PUT that failed: nothing.
RequeuedOnFailure == processing \o queue
NotRequeued == queue

\* ... and the PUT.  It reaches the service or not; a bad status is printed.
UploadPut ==
    /\ upload = "put"
    /\ upload' = "sleeping"
    /\ tried' = tried \o processing
    /\ service' \in {service, service \o processing}
    /\ queue' = NotRequeued
    /\ UNCHANGED <<config, callback, sentence, decoded, processing, records,
                   reader, pushed, announced>>

-----------------------------------------------------------------------------
\* The sentence of the highest frame id in map m, if there is any.
OfLowestFrame(m) ==
    IF DOMAIN m = {} THEN {None}
    ELSE {m[f] : f \in {f \in DOMAIN m : \A g \in DOMAIN m : f <= g}}
OfHighestFrame(m) ==
    IF DOMAIN m = {} THEN {None}
    ELSE {m[f] : f \in {f \in DOMAIN m : \A g \in DOMAIN m : f >= g}}

\* cmd::sentence reads the map without sentences_map_mtx_: during an insertion
\* it sees the map before or after it, or nothing that makes sense.
CmdSentence ==
    /\ \/ answer' \in OfHighestFrame(map) /\ UNCHANGED torn
       \/ callback = "inserting" /\ answer' \in OfHighestFrame(Entered) /\ UNCHANGED torn
       \/ callback = "inserting" /\ torn' = TRUE /\ UNCHANGED answer
    /\ UNCHANGED <<config, callback, sentence, decoded, queue, uploader,
                   records, pushed, announced>>

\* A program that has crashed stays as it is.
Halt == torn /\ UNCHANGED vars

Callback == Push \/ Notify \/ NotifyThrows \/ RegisterBegin \/ RegisterEnd
Upload == UploadBegin \/ UploadNothing \/ UploadSwap \/ UploadPut

Next ==
    \/ ~torn /\ (SentenceCallback \/ Callback \/ Upload \/ CmdSentence)
    \/ Halt

Spec == Init /\ [][Next]_vars

\* The uploader's thread wakes every 15 s, and a PUT ends: cpr::Put returns
\* when the connection fails or the service answers.
Fairness == WF_vars(~torn /\ Upload)

FairSpec == Spec /\ Fairness

-----------------------------------------------------------------------------
TypeOK ==
    /\ config \in {"off", "idle", "on"}
    /\ callback \in {"done", "push", "notify", "register", "inserting"}
    /\ sentence \in Sentences \cup {None}
    /\ callback # "done" => sentence # None
    /\ decoded \in 0 .. MaxSentences
    /\ queue \in Seq(Sentences) /\ processing \in Seq(Sentences)
    /\ upload \in {"sleeping", "clear", "put"}
    /\ upload = "put" => processing # <<>>
    /\ \E F \in SUBSET Frames : map \in [F -> Sentences]
    /\ num_ok \in Nat
    /\ answer \in Sentences \cup {None}
    /\ torn \in BOOLEAN
    /\ pushed \in Seq(Sentences) /\ tried \in Seq(Sentences)
    /\ service \in Seq(Sentences) /\ announced \in Seq(Sentences)
    /\ registered \in Seq(Sentences)

\* The batch whose PUT is being made.
Batch == IF upload = "put" THEN processing ELSE <<>>

(***************************************************************************)
(* Every sentence that was pushed is tried, being tried or waiting: none   *)
(* disappears between the two queues, none is in both, and their order is  *)
(* the order of decoding, whatever is pushed while a batch is uploaded.    *)
(***************************************************************************)
NoneLostNoneTwice == pushed = tried \o Batch \o queue

(***************************************************************************)
(* The map holds, for every frame id, the newest sentence entered with it, *)
(* and num_ok counts the frame ids: a payload that restarts its numbering  *)
(* replaces its old sentences one by one.                                  *)
(***************************************************************************)
LastOfFrame(i) ==
    \A j \in i + 1 .. Len(registered) : registered[j].frame # registered[i].frame

MapHoldsNewest ==
    /\ DOMAIN map = {registered[i].frame : i \in 1 .. Len(registered)}
    /\ \A i \in 1 .. Len(registered) : LastOfFrame(i) => map[registered[i].frame] = registered[i]
    /\ num_ok = Cardinality(DOMAIN map)

Announced(n) == IF n > 0 THEN announced[n] ELSE None
Rising(s) == \A i, j \in 1 .. Len(s) : i < j => s[i].frame < s[j].frame

(***************************************************************************)
(* As long as the frame ids rise, cmd::sentence answers with the sentence  *)
(* last announced to the clients or, while that one is being entered, with *)
(* the one before it.                                                      *)
(***************************************************************************)
AnswerIsRecent ==
    [][ CmdSentence /\ answer' # answer /\ Rising(announced) =>
          \/ answer' = Announced(Len(announced))
          \/ /\ callback \in {"register", "inserting"}
             /\ answer' = Announced(Len(announced) - 1) ]_vars

(***************************************************************************)
(* While the uploader runs, every sentence pushed is tried in the end.     *)
(***************************************************************************)
EverySentenceIsTried ==
    \A n \in 1 .. MaxSentences :
        config = "on" /\ Len(pushed) >= n ~> Len(tried) >= n \/ torn

(***************************************************************************)
(* The uploader reports as Reporting promises.                             *)
(***************************************************************************)
Promise == INSTANCE Reporting WITH Items <- Sentences, settled <- Len(tried)

ReportsInOrder == Promise!Spec
=============================================================================
