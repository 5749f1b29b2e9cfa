--------------------------- MODULE TelemetryProofs ---------------------------
(***************************************************************************)
(* Theorems about Telemetry for any set of frame ids and any number of     *)
(* sentences: types, no sentence lost or reported twice, the map holds the *)
(* newest sentence of each frame, and the uploader keeps Reporting.        *)
(* And about the date that a sentence is reported with.                    *)
(***************************************************************************)
EXTENDS Telemetry, Timestamp, SequenceTheorems, FiniteSetTheorems, TLAPS

\* The last batch has gone before the queue is looked at.
BatchGone == upload = "clear" => processing = <<>>

\* What has been announced is what has been entered into the map and, until
\* it is entered too, the sentence at hand.
Announcing ==
    announced = IF callback \in {"register", "inserting"}
                THEN Append(registered, sentence) ELSE registered

FiniteMap == IsFiniteSet(DOMAIN map)

IInv == TypeOK /\ BatchGone /\ Announcing /\ FiniteMap /\ NoneLostNoneTwice /\ MapHoldsNewest

-----------------------------------------------------------------------------
LEMMA InitIInv == Init => IInv
<1> SUFFICES ASSUME Init PROVE IInv
  OBVIOUS
<1>1. map = [f \in {} |-> None] /\ DOMAIN map = {}
  BY DEF Init
<1>2. map \in [{} -> Sentences]
  BY <1>1
<1>3. IsFiniteSet({}) /\ Cardinality({}) = 0
  BY FS_EmptySet
<1>4. \E F \in SUBSET Frames : map \in [F -> Sentences]
  BY <1>2
<1>5. TypeOK
  <2>1. 0 \in 0 .. MaxSentences /\ 0 \in Nat
    BY MaxSentencesAssumption
  <2>2. <<>> \in Seq(Sentences)
    OBVIOUS
  <2> QED
    BY <1>4, <2>1, <2>2, Zenon DEF Init, TypeOK
<1>6. NoneLostNoneTwice
  BY DEF Init, NoneLostNoneTwice, Batch
<1>7. MapHoldsNewest
  BY <1>1, <1>3 DEF Init, MapHoldsNewest
<1> QED
  BY <1>1, <1>3, <1>5, <1>6, <1>7 DEF Init, IInv, BatchGone, Announcing, FiniteMap

-----------------------------------------------------------------------------
(***************************************************************************)
(* The map after an insertion.                                             *)
(***************************************************************************)
LEMMA EnteredProperties ==
  ASSUME TypeOK, FiniteMap, callback # "done"
  PROVE  /\ DOMAIN Entered = DOMAIN map \cup {sentence.frame}
         /\ Entered[sentence.frame] = sentence
         /\ \A f \in DOMAIN map : f # sentence.frame => Entered[f] = map[f]
         /\ \E F \in SUBSET Frames : Entered \in [F -> Sentences]
         /\ IsFiniteSet(DOMAIN Entered)
         /\ Cardinality(DOMAIN Entered) \in Nat
<1>1. sentence \in Sentences /\ sentence.frame \in Frames
  BY DEF TypeOK, Sentences
<1>2. DOMAIN Entered = DOMAIN map \cup {sentence.frame}
  BY DEF Entered
<1>3. PICK F \in SUBSET Frames : map \in [F -> Sentences]
  BY DEF TypeOK
<1>4. F \cup {sentence.frame} \in SUBSET Frames
  BY <1>1
<1>5. Entered \in [F \cup {sentence.frame} -> Sentences]
  BY <1>1, <1>3 DEF Entered
<1>6. IsFiniteSet(DOMAIN Entered)
  BY <1>2, FS_AddElement DEF FiniteMap
<1>7. Cardinality(DOMAIN Entered) \in Nat
  BY <1>6, FS_CardinalityType
<1>8. Entered[sentence.frame] = sentence
  BY DEF Entered
<1>9. \A f \in DOMAIN map : f # sentence.frame => Entered[f] = map[f]
  BY DEF Entered
<1> QED
  BY <1>2, <1>4, <1>5, <1>6, <1>7, <1>8, <1>9

LEMMA OfHighestFrameType ==
  ASSUME NEW F \in SUBSET Frames, NEW m \in [F -> Sentences]
  PROVE  OfHighestFrame(m) \subseteq Sentences \cup {None}
  BY DEF OfHighestFrame

-----------------------------------------------------------------------------
(***************************************************************************)
(* Every step keeps the invariant: first the types, then the rest.         *)
(***************************************************************************)
LEMMA TypeStep ==
  ASSUME IInv, [Next]_vars
  PROVE  TypeOK' /\ BatchGone' /\ FiniteMap'
<1> USE DEF IInv
<1>1. CASE SentenceCallback
  <2>1. PICK f \in Frames : sentence' = [id |-> decoded + 1, frame |-> f]
    BY <1>1 DEF SentenceCallback
  <2>2. decoded + 1 \in 1 .. MaxSentences
    BY <1>1, MaxSentencesAssumption DEF SentenceCallback, TypeOK
  <2>3. sentence' \in Sentences /\ sentence' # None
    BY <2>1, <2>2, NoneAssumption DEF Sentences
  <2> QED
    BY <1>1, <2>2, <2>3 DEF SentenceCallback, TypeOK, BatchGone, FiniteMap,
       uploader, records, reader
<1>2. CASE Push
  <2>1. sentence \in Sentences
    BY <1>2 DEF Push, TypeOK
  <2>2. Append(queue, sentence) \in Seq(Sentences) /\ Append(pushed, sentence) \in Seq(Sentences)
    BY <2>1, AppendProperties DEF TypeOK
  <2>3. queue' \in Seq(Sentences) /\ pushed' \in Seq(Sentences)
    BY <1>2, <2>2 DEF Push, TypeOK
  <2> QED
    BY <1>2, <2>3 DEF Push, TypeOK, BatchGone, FiniteMap, uploader, records, reader
<1>3. CASE Notify \/ NotifyThrows
  <2>1. sentence \in Sentences
    BY <1>3 DEF Notify, NotifyThrows, TypeOK
  <2>2. Append(announced, sentence) \in Seq(Sentences) /\ announced \in Seq(Sentences)
    BY <2>1, AppendProperties DEF TypeOK
  <2>3. announced' \in Seq(Sentences)
    BY <1>3, <2>2 DEF Notify, NotifyThrows
  <2> QED
    BY <1>3, <2>3 DEF Notify, NotifyThrows, TypeOK, BatchGone, FiniteMap,
       uploader, records, reader
<1>4. CASE RegisterBegin
  BY <1>4 DEF RegisterBegin, TypeOK, BatchGone, FiniteMap, uploader, records, reader
<1>5. CASE RegisterEnd
  <2>1. callback # "done" /\ map' = Entered
    BY <1>5 DEF RegisterEnd
  <2>2. /\ \E F \in SUBSET Frames : map' \in [F -> Sentences]
        /\ FiniteMap' /\ num_ok' \in Nat
    BY <1>5, <2>1, EnteredProperties DEF RegisterEnd, FiniteMap
  <2>3. registered' \in Seq(Sentences)
    BY <1>5, <2>1 DEF RegisterEnd, TypeOK
  <2> QED
    BY <1>5, <2>2, <2>3 DEF RegisterEnd, TypeOK, BatchGone, uploader, reader
<1>6. CASE UploadBegin
  BY <1>6 DEF UploadBegin, Cleared, TypeOK, BatchGone, FiniteMap, records, reader
<1>7. CASE UploadNothing
  BY <1>7 DEF UploadNothing, TypeOK, BatchGone, FiniteMap, records, reader
<1>8. CASE UploadSwap
  BY <1>8 DEF UploadSwap, NothingQueued, TypeOK, BatchGone, FiniteMap, records, reader
<1>9. CASE UploadPut
  <2>1. processing \in Seq(Sentences) /\ tried \in Seq(Sentences) /\ service \in Seq(Sentences)
    BY DEF TypeOK
  <2>2. tried \o processing \in Seq(Sentences) /\ service \o processing \in Seq(Sentences)
    BY <2>1, ConcatProperties
  <2> QED
    BY <1>9, <2>2 DEF UploadPut, NotRequeued, TypeOK, BatchGone, FiniteMap, records, reader
<1>10. CASE CmdSentence
  <2>1. PICK F \in SUBSET Frames : map \in [F -> Sentences]
    BY DEF TypeOK
  <2>2. OfHighestFrame(map) \subseteq Sentences \cup {None}
    BY <2>1, OfHighestFrameType
  <2>3. callback = "inserting" => OfHighestFrame(Entered) \subseteq Sentences \cup {None}
    BY EnteredProperties, OfHighestFrameType
  <2>4. answer' \in Sentences \cup {None} /\ torn' \in BOOLEAN
    BY <1>10, <2>2, <2>3 DEF CmdSentence, TypeOK
  <2> QED
    BY <1>10, <2>4 DEF CmdSentence, TypeOK, BatchGone, FiniteMap, uploader, records
<1>11. CASE UNCHANGED vars
  BY <1>11 DEF vars, TypeOK, BatchGone, FiniteMap
<1> QED
  BY <1>1, <1>2, <1>3, <1>4, <1>5, <1>6, <1>7, <1>8, <1>9, <1>10, <1>11
     DEF Next, Callback, Upload, Halt

-----------------------------------------------------------------------------
LEMMA AnnouncingStep ==
  ASSUME IInv, [Next]_vars
  PROVE  Announcing'
<1> USE DEF IInv
<1>1. CASE SentenceCallback \/ Push
  BY <1>1 DEF SentenceCallback, Push, Announcing, records
<1>2. CASE Notify
  BY <1>2 DEF Notify, Announcing, records
<1>3. CASE NotifyThrows \/ RegisterBegin
  BY <1>3 DEF NotifyThrows, RegisterBegin, Announcing, records
<1>4. CASE RegisterEnd
  BY <1>4 DEF RegisterEnd, Announcing
<1>5. CASE Upload \/ CmdSentence \/ UNCHANGED vars
  BY <1>5 DEF Upload, UploadBegin, UploadNothing, UploadSwap, UploadPut,
     CmdSentence, Announcing, records, vars
<1> QED
  BY <1>1, <1>2, <1>3, <1>4, <1>5 DEF Next, Callback, Halt

-----------------------------------------------------------------------------
(***************************************************************************)
(* The two queues of the uploader.                                         *)
(***************************************************************************)
LEMMA QueuesStep ==
  ASSUME IInv, [Next]_vars
  PROVE  NoneLostNoneTwice'
<1> USE DEF IInv
<1>0. /\ queue \in Seq(Sentences) /\ processing \in Seq(Sentences)
      /\ tried \in Seq(Sentences) /\ Batch \in Seq(Sentences)
      /\ tried \o Batch \in Seq(Sentences)
  <2>1. /\ queue \in Seq(Sentences) /\ processing \in Seq(Sentences)
        /\ tried \in Seq(Sentences)
    BY DEF TypeOK
  <2>2. Batch \in Seq(Sentences)
    BY <2>1 DEF Batch
  <2> QED
    BY <2>1, <2>2, ConcatProperties
<1>1. CASE Push
  <2>1. tried' = tried /\ Batch' = Batch
    BY <1>1 DEF Push, uploader, Batch
  <2>2. CASE config = "off"
    BY <1>1, <2>1, <2>2 DEF Push, NoneLostNoneTwice
  <2>3. CASE config # "off"
    <3>1. sentence \in Sentences /\ <<sentence>> \in Seq(Sentences)
      BY <1>1 DEF Push, TypeOK
    <3>2. queue' = queue \o <<sentence>> /\ pushed' = pushed \o <<sentence>>
      BY <1>0, <1>1, <2>3, <3>1, AppendIsConcat DEF Push, TypeOK
    <3>3. (tried \o Batch) \o (queue \o <<sentence>>)
            = ((tried \o Batch) \o queue) \o <<sentence>>
      BY <1>0, <3>1, ConcatAssociative
    <3> QED
      BY <2>1, <3>2, <3>3, Zenon DEF NoneLostNoneTwice
  <2> QED
    BY <2>2, <2>3
<1>2. CASE UploadSwap
  <2>1. /\ Batch = <<>> /\ processing = <<>> /\ Batch' = queue /\ queue' = <<>>
        /\ tried' = tried /\ pushed' = pushed
    BY <1>2 DEF UploadSwap, Batch, BatchGone
  <2>2. (tried \o <<>>) \o queue = (tried \o queue) \o <<>>
    <3>1. tried \o queue \in Seq(Sentences)
      BY <1>0, ConcatProperties
    <3> QED
      BY <1>0, <3>1, ConcatEmptySeq
  <2> QED
    BY <2>1, <2>2, Zenon DEF NoneLostNoneTwice
<1>3. CASE UploadPut
  <2>1. /\ Batch = processing /\ Batch' = <<>> /\ queue' = queue
        /\ tried' = tried \o processing /\ pushed' = pushed
    BY <1>3 DEF UploadPut, NotRequeued, Batch
  <2>2. (tried \o processing) \o <<>> = tried \o processing
    <3>1. tried \o processing \in Seq(Sentences)
      BY <1>0, ConcatProperties
    <3> QED
      BY <3>1, ConcatEmptySeq
  <2> QED
    BY <2>1, <2>2, Zenon DEF NoneLostNoneTwice
<1>4. CASE UploadBegin \/ UploadNothing
  BY <1>4 DEF UploadBegin, UploadNothing, Batch, NoneLostNoneTwice
<1>5. CASE SentenceCallback \/ Notify \/ NotifyThrows \/ RegisterBegin \/ RegisterEnd
           \/ CmdSentence \/ UNCHANGED vars
  <2>1. pushed' = pushed /\ queue' = queue /\ UNCHANGED <<tried, processing, upload>>
    BY <1>5 DEF SentenceCallback, Notify, NotifyThrows, RegisterBegin,
       RegisterEnd, CmdSentence, vars, uploader
  <2> QED
    BY <2>1 DEF NoneLostNoneTwice, Batch
<1> QED
  BY <1>1, <1>2, <1>3, <1>4, <1>5 DEF Next, Callback, Upload, Halt

-----------------------------------------------------------------------------
(***************************************************************************)
(* The map of sentences.                                                   *)
(***************************************************************************)
LEMMA MapStep ==
  ASSUME IInv, [Next]_vars
  PROVE  MapHoldsNewest'
<1> USE DEF IInv
<1>1. CASE RegisterEnd
  <2> DEFINE r == registered
             n == Len(registered)
  <2>1. /\ map' = Entered /\ num_ok' = Cardinality(DOMAIN Entered)
        /\ registered' = Append(r, sentence) /\ callback # "done"
    BY <1>1 DEF RegisterEnd
  <2>2. /\ n \in Nat /\ Len(registered') = n + 1
        /\ \A i \in 1 .. n : registered'[i] = r[i]
        /\ registered'[n + 1] = sentence
    BY <2>1, AppendProperties, LenProperties DEF TypeOK
  <2>3. \A i \in 1 .. n + 1 : i \in 1 .. n \/ i = n + 1
    BY <2>2
  <2>4. 1 .. n \subseteq 1 .. n + 1 /\ n + 1 \in 1 .. n + 1
    BY <2>2
  <2>5. /\ DOMAIN Entered = DOMAIN map \cup {sentence.frame}
        /\ Entered[sentence.frame] = sentence
        /\ \A f \in DOMAIN map : f # sentence.frame => Entered[f] = map[f]
    BY <2>1, EnteredProperties
  <2>6. DOMAIN map = {r[i].frame : i \in 1 .. n}
    BY DEF MapHoldsNewest
  <2> HIDE DEF r, n
  <2>7. DOMAIN map' = {registered'[i].frame : i \in 1 .. Len(registered')}
    <3>1. ASSUME NEW f \in DOMAIN map'
          PROVE  \E i \in 1 .. n + 1 : f = registered'[i].frame
      <4>1. CASE f = sentence.frame
        BY <4>1, <2>2, <2>4
      <4>2. CASE f \in DOMAIN map
        BY <4>2, <2>2, <2>4, <2>6
      <4> QED
        BY <4>1, <4>2, <2>1, <2>5
    <3>2. ASSUME NEW i \in 1 .. n + 1
          PROVE  registered'[i].frame \in DOMAIN map'
      BY <2>1, <2>2, <2>3, <2>5, <2>6
    <3> QED
      BY <3>1, <3>2, <2>2
  <2>8. \A i \in 1 .. Len(registered') :
           LastOfFrame(i)' => map'[registered'[i].frame] = registered'[i]
    <3> SUFFICES ASSUME NEW i \in 1 .. n + 1, LastOfFrame(i)'
                 PROVE  map'[registered'[i].frame] = registered'[i]
      BY <2>2
    <3>1. CASE i = n + 1
      BY <3>1, <2>1, <2>2, <2>5
    <3>2. CASE i \in 1 .. n
      <4>1. registered'[i] = r[i] /\ r[i].frame \in DOMAIN map
        BY <3>2, <2>2, <2>6
      <4>2. \A j \in i + 1 .. n + 1 : registered'[j].frame # registered'[i].frame
        BY <2>2 DEF LastOfFrame
      <4>3. n + 1 \in i + 1 .. n + 1 /\ \A j \in i + 1 .. n : j \in i + 1 .. n + 1 /\ j \in 1 .. n
        BY <2>2, <3>2
      <4>4. r[i].frame # sentence.frame
        BY <4>1, <4>2, <4>3, <2>2
      <4>5. \A j \in i + 1 .. n : r[j].frame # r[i].frame
        BY <4>1, <4>2, <4>3, <2>2
      <4>6. map[r[i].frame] = r[i]
        BY <4>5, <3>2 DEF MapHoldsNewest, LastOfFrame, r, n
      <4> QED
        BY <4>1, <4>4, <4>6, <2>1, <2>5
    <3> QED
      BY <3>1, <3>2, <2>3
  <2> QED
    BY <2>1, <2>7, <2>8 DEF MapHoldsNewest
<1>2. CASE UNCHANGED records
  BY <1>2 DEF records, MapHoldsNewest, LastOfFrame
<1>3. CASE SentenceCallback \/ Push \/ Notify \/ NotifyThrows \/ RegisterBegin
           \/ Upload \/ CmdSentence \/ UNCHANGED vars
  BY <1>2, <1>3 DEF SentenceCallback, Push, Notify, NotifyThrows, RegisterBegin,
     Upload, UploadBegin, UploadNothing, UploadSwap, UploadPut, CmdSentence,
     records, vars
<1> QED
  BY <1>1, <1>3 DEF Next, Callback, Halt

LEMMA Invariance == Spec => []IInv
<1>1. IInv /\ [Next]_vars => IInv'
  BY TypeStep, AnnouncingStep, QueuesStep, MapStep DEF IInv
<1> QED
  BY InitIInv, <1>1, PTL DEF Spec

(***************************************************************************)
(* Every variable keeps its type, and no PUT is made of an empty batch.    *)
(***************************************************************************)
THEOREM TypeCorrect == Spec => []TypeOK
<1>1. IInv => TypeOK
  BY DEF IInv
<1> QED
  BY Invariance, <1>1, PTL

(***************************************************************************)
(* SondeHubUploader::push and upload: every sentence pushed is tried, in   *)
(* the batch being tried, or in the queue, once and in order.              *)
(***************************************************************************)
THEOREM NoneLost == Spec => []NoneLostNoneTwice
<1>1. IInv => NoneLostNoneTwice
  BY DEF IInv
<1> QED
  BY Invariance, <1>1, PTL

(***************************************************************************)
(* sentences_map_ holds the newest sentence of every frame id.             *)
(***************************************************************************)
THEOREM MapIsNewest == Spec => []MapHoldsNewest
<1>1. IInv => MapHoldsNewest
  BY DEF IInv
<1> QED
  BY Invariance, <1>1, PTL

-----------------------------------------------------------------------------
(***************************************************************************)
(* cmd::sentence while the frame ids rise: the newest sentence entered has *)
(* the highest frame, alone.                                               *)
(***************************************************************************)
LEMMA RisingHighest ==
  ASSUME NEW r \in Seq(Sentences), NEW m,
         DOMAIN m = {r[i].frame : i \in 1 .. Len(r)},
         \A i \in 1 .. Len(r) :
             (\A j \in i + 1 .. Len(r) : r[j].frame # r[i].frame) => m[r[i].frame] = r[i],
         Rising(r)
  PROVE  OfHighestFrame(m) \subseteq {IF Len(r) > 0 THEN r[Len(r)] ELSE None}
<1> DEFINE n == Len(r)
<1>1. n \in Nat
  BY LenProperties
<1>2. CASE n = 0
  <2>1. DOMAIN m = {}
    BY <1>2
  <2> QED
    BY <1>2, <2>1 DEF OfHighestFrame
<1>3. CASE n > 0
  <2>1. n \in 1 .. n /\ \A i \in 1 .. n : i = n \/ i < n
    BY <1>1, <1>3
  <2>2. \A i \in 1 .. n : r[i].frame \in Int
    <3> TAKE i \in 1 .. n
    <3>1. r[i] \in Sentences
      BY ElementOfSeq
    <3> QED
      BY <3>1, FramesAssumption DEF Sentences
  <2>3. \A i \in 1 .. n : i < n => r[i].frame < r[n].frame
    BY <2>1 DEF Rising
  <2>4. m[r[n].frame] = r[n]
    BY <1>1, <2>1
  <2>5. \A f \in DOMAIN m : (\A g \in DOMAIN m : f >= g) => f = r[n].frame
    <3> SUFFICES ASSUME NEW i \in 1 .. n, r[i].frame >= r[n].frame
                 PROVE  i = n
      BY <2>1
    <3> QED
      BY <2>1, <2>2, <2>3
  <2>6. DOMAIN m # {}
    BY <2>1
  <2> QED
    BY <1>3, <2>4, <2>5, <2>6 DEF OfHighestFrame
<1> QED
  BY <1>1, <1>2, <1>3

LEMMA AnswerStep ==
  ASSUME IInv, CmdSentence, answer' # answer, Rising(announced)
  PROVE  \/ answer' = Announced(Len(announced))
         \/ /\ callback \in {"register", "inserting"}
            /\ answer' = Announced(Len(announced) - 1)
<1> USE DEF IInv
<1> DEFINE r == registered
           n == Len(r)
<1>1. r \in Seq(Sentences) /\ n \in Nat
  BY LenProperties DEF TypeOK
<1>2. CASE callback \in {"register", "inserting"}
  <2>1. sentence \in Sentences /\ announced = Append(r, sentence)
    BY <1>2 DEF TypeOK, Announcing
  <2>2. /\ Len(announced) = n + 1 /\ announced[n + 1] = sentence
        /\ \A i \in 1 .. n : announced[i] = r[i]
    BY <1>1, <2>1, AppendProperties
  <2>3. Rising(r)
    BY <1>1, <2>2 DEF Rising
  <2>4. OfHighestFrame(map) \subseteq {IF n > 0 THEN r[n] ELSE None}
    BY <1>1, <2>3, RisingHighest DEF MapHoldsNewest, LastOfFrame
  <2>5. CASE answer' \in OfHighestFrame(map)
    <3>1. answer' = IF n > 0 THEN r[n] ELSE None
      BY <2>4, <2>5
    <3>2. Announced(Len(announced) - 1) = IF n > 0 THEN announced[n] ELSE None
      BY <1>1, <2>2 DEF Announced
    <3>3. n > 0 => n \in 1 .. n
      BY <1>1
    <3> QED
      BY <1>2, <2>2, <3>1, <3>2, <3>3
  <2>6. CASE callback = "inserting" /\ answer' \in OfHighestFrame(Entered)
    <3>1. /\ DOMAIN Entered = DOMAIN map \cup {sentence.frame}
          /\ Entered[sentence.frame] = sentence
          /\ \A f \in DOMAIN map : f # sentence.frame => Entered[f] = map[f]
      BY <2>6, EnteredProperties
    <3>2. announced \in Seq(Sentences)
      BY DEF TypeOK
    <3>3. \A i \in 1 .. n + 1 : i \in 1 .. n \/ i = n + 1
      BY <1>1
    <3>4. \A i \in 1 .. n : r[i].frame \in DOMAIN map /\ r[i].frame < sentence.frame
      BY <1>1, <2>2 DEF Rising, MapHoldsNewest
    <3>5. \A i \in 1 .. n : r[i].frame # sentence.frame /\ map[r[i].frame] = r[i]
      <4> TAKE i \in 1 .. n
      <4>1. sentence.frame \in Int /\ \A j \in 1 .. n : r[j].frame \in Int
        <5>1. \A t \in Sentences : t.frame \in Int
          BY FramesAssumption DEF Sentences
        <5>2. \A j \in 1 .. n : r[j] \in Sentences
          BY <1>1, ElementOfSeq
        <5> QED
          BY <5>1, <5>2, <2>1
      <4>2. \A j \in i + 1 .. n : j \in 1 .. n /\ i < j
        BY <1>1
      <4>3. \A j \in i + 1 .. n : r[i].frame < r[j].frame
        BY <4>2, <2>3 DEF Rising
      <4>4. \A j \in i + 1 .. n : r[j].frame # r[i].frame
        BY <4>1, <4>2, <4>3
      <4>5. map[r[i].frame] = r[i]
        BY <4>4 DEF MapHoldsNewest, LastOfFrame
      <4>6. r[i].frame # sentence.frame
        BY <3>4, <4>1
      <4> QED
        BY <4>5, <4>6
    <3>6. \A i \in 1 .. n + 1 : Entered[announced[i].frame] = announced[i]
      BY <2>2, <3>1, <3>3, <3>4, <3>5
    <3>7. DOMAIN Entered = {announced[i].frame : i \in 1 .. n + 1}
      <4>1. DOMAIN map = {r[i].frame : i \in 1 .. n}
        BY DEF MapHoldsNewest
      <4>2. 1 .. n \subseteq 1 .. n + 1 /\ n + 1 \in 1 .. n + 1
        BY <1>1
      <4> HIDE DEF r, n
      <4>3. ASSUME NEW f \in DOMAIN Entered
            PROVE  \E i \in 1 .. n + 1 : f = announced[i].frame
        BY <2>2, <3>1, <4>1, <4>2
      <4>4. ASSUME NEW i \in 1 .. n + 1
            PROVE  announced[i].frame \in DOMAIN Entered
        BY <2>2, <3>1, <3>3, <4>1
      <4> QED
        BY <4>3, <4>4
    <3>8. OfHighestFrame(Entered) \subseteq
             {IF Len(announced) > 0 THEN announced[Len(announced)] ELSE None}
      BY <2>2, <3>2, <3>6, <3>7, RisingHighest
    <3> QED
      BY <2>6, <3>8 DEF Announced
  <2> QED
    BY <2>5, <2>6 DEF CmdSentence
<1>3. CASE callback \notin {"register", "inserting"}
  <2>1. announced = r
    BY <1>3 DEF Announcing
  <2>2. OfHighestFrame(map) \subseteq {IF n > 0 THEN r[n] ELSE None}
    BY <1>1, <2>1, RisingHighest DEF MapHoldsNewest, LastOfFrame
  <2>3. answer' \in OfHighestFrame(map)
    BY <1>3 DEF CmdSentence
  <2> QED
    BY <2>1, <2>2, <2>3 DEF Announced
<1> QED
  BY <1>2, <1>3

(***************************************************************************)
(* HandleRequest, cmd::sentence: as long as the frame ids rise, an answer  *)
(* is the newest announced sentence or, while that one is being entered    *)
(* into sentences_map_, the one before it.                                 *)
(***************************************************************************)
THEOREM AnswersRecent == Spec => AnswerIsRecent
<1>1. IInv /\ [Next]_vars =>
        [ CmdSentence /\ answer' # answer /\ Rising(announced) =>
          \/ answer' = Announced(Len(announced))
          \/ /\ callback \in {"register", "inserting"}
             /\ answer' = Announced(Len(announced) - 1) ]_vars
  BY AnswerStep
<1> QED
  BY Invariance, <1>1, PTL DEF Spec, AnswerIsRecent

-----------------------------------------------------------------------------
(***************************************************************************)
(* Refinement.  The stretch of sentences that a PUT reports is the one that *)
(* follows the sentences already tried.                                    *)
(***************************************************************************)
LEMMA Stretch ==
  ASSUME NEW a \in Seq(Sentences), NEW b \in Seq(Sentences), NEW c \in Seq(Sentences)
  PROVE  b = SubSeq((a \o b) \o c, Len(a) + 1, Len(a) + Len(b))
<1> DEFINE s == (a \o b) \o c
           t == SubSeq(s, Len(a) + 1, Len(a) + Len(b))
<1>1. Len(a) \in Nat /\ Len(b) \in Nat /\ Len(c) \in Nat
  BY LenProperties
<1>2. /\ a \o b \in Seq(Sentences) /\ Len(a \o b) = Len(a) + Len(b)
      /\ \A i \in 1 .. Len(a) + Len(b) :
             (a \o b)[i] = IF i <= Len(a) THEN a[i] ELSE b[i - Len(a)]
  BY ConcatProperties
<1>3. /\ s \in Seq(Sentences) /\ Len(s) = Len(a) + Len(b) + Len(c)
      /\ \A i \in 1 .. Len(a) + Len(b) : s[i] = (a \o b)[i]
  BY <1>1, <1>2, ConcatProperties
<1> HIDE DEF s
<1>4. /\ t \in Seq(Sentences) /\ Len(t) = Len(b)
      /\ \A i \in 1 .. Len(b) : t[i] = s[Len(a) + i]
  <2>1. /\ Len(a) + 1 \in 1 .. Len(s) + 1 /\ Len(a) + Len(b) \in Len(a) .. Len(s)
        /\ (Len(a) + Len(b)) - (Len(a) + 1) + 1 = Len(b)
    BY <1>1, <1>3
  <2> QED
    BY <1>1, <1>3, <2>1, SubSeqProperties
<1>5. \A i \in 1 .. Len(b) : t[i] = b[i]
  <2> TAKE i \in 1 .. Len(b)
  <2>1. /\ Len(a) + i \in 1 .. Len(a) + Len(b) /\ ~(Len(a) + i <= Len(a))
        /\ (Len(a) + i) - Len(a) = i
    BY <1>1
  <2>2. (a \o b)[Len(a) + i] = b[i]
    BY <1>2, <2>1
  <2> QED
    BY <1>3, <1>4, <2>1, <2>2
<1> QED
  BY <1>4, <1>5, SeqEqual DEF s

LEMMA PromiseStep ==
  ASSUME IInv, [Next]_vars
  PROVE  [Promise!Next]_(Promise!vars)
<1> USE DEF IInv
<1>1. CASE Push
  <2>1. tried' = tried /\ service' = service
    BY <1>1 DEF Push, uploader
  <2>2. sentence \in Sentences
    BY <1>1 DEF Push, TypeOK
  <2> QED
    BY <1>1, <2>1, <2>2 DEF Push, Promise!Next, Promise!Push, Promise!vars
<1>2. CASE UploadPut
  <2>1. /\ tried \in Seq(Sentences) /\ processing \in Seq(Sentences)
        /\ queue \in Seq(Sentences) /\ processing # <<>>
    BY <1>2 DEF UploadPut, TypeOK
  <2>2. pushed = (tried \o processing) \o queue /\ pushed' = pushed
    BY <1>2 DEF UploadPut, NoneLostNoneTwice, Batch
  <2>3. Len(tried) \in Nat /\ Len(processing) \in Nat \ {0} /\ Len(queue) \in Nat
    BY <2>1, LenProperties, EmptySeq
  <2>4. Len(tried') = Len(tried) + Len(processing)
    BY <1>2, <2>1, ConcatProperties DEF UploadPut
  <2>5. Len(pushed) = Len(tried) + Len(processing) + Len(queue)
    BY <2>1, <2>2, ConcatProperties
  <2>6. Len(tried') \in Len(tried) + 1 .. Len(pushed)
    BY <2>3, <2>4, <2>5
  <2>7. processing = SubSeq(pushed, Len(tried) + 1, Len(tried'))
    BY <2>1, <2>2, <2>4, Stretch
  <2>8. service' \in {service, service \o SubSeq(pushed, Len(tried) + 1, Len(tried'))}
    BY <1>2, <2>7, Zenon DEF UploadPut
  <2>9. Promise!Report
    BY <2>2, <2>6, <2>8, Zenon DEF Promise!Report
  <2> QED
    BY <2>9 DEF Promise!Next
<1>3. CASE UNCHANGED <<pushed, tried, service>>
  BY <1>3 DEF Promise!vars
<1>4. CASE SentenceCallback \/ Notify \/ NotifyThrows \/ RegisterBegin \/ RegisterEnd
           \/ UploadBegin \/ UploadNothing \/ UploadSwap \/ CmdSentence \/ UNCHANGED vars
  BY <1>3, <1>4 DEF SentenceCallback, Notify, NotifyThrows, RegisterBegin, RegisterEnd,
     UploadBegin, UploadNothing, UploadSwap, CmdSentence, uploader, vars
<1> QED
  BY <1>1, <1>2, <1>4 DEF Next, Callback, Upload, Halt

(***************************************************************************)
(* The uploader keeps Reporting: each sentence is reported to SondeHub at  *)
(* most once, in order, and given up only with the whole of its batch.     *)
(***************************************************************************)
THEOREM Implements == Spec => ReportsInOrder
<1>1. Init => Promise!Init
  BY DEF Init, Promise!Init
<1> QED
  BY Invariance, PromiseStep, <1>1, PTL DEF Spec, ReportsInOrder, Promise!Spec

-----------------------------------------------------------------------------
(***************************************************************************)
(* The date of a sentence.                                                 *)
(***************************************************************************)
\* Day d at s of its seconds is t.
Is(t, d, s) == d \in Int /\ s \in Int /\ 0 <= s /\ s < Day /\ t = d * Day + s

LEMMA DayFacts ==
    ASSUME NEW t \in Nat
    PROVE  Is(t, DayOf(t), OfDay(t))
<1>1. t % 86400 \in Int /\ 0 <= t % 86400 /\ t % 86400 < 86400
  OBVIOUS
<1>2. t \div 86400 \in Int /\ t = (t \div 86400) * 86400 + (t % 86400)
  OBVIOUS
<1> QED
  BY <1>1, <1>2 DEF Is, DayOf, OfDay, Day

\* The first and the last hour.
LEMMA HourFacts ==
    ASSUME NEW s \in Int, 0 <= s, s < Day
    PROVE  (s \div Hour = 23 <=> s >= Day - Hour) /\ (s \div Hour = 0 <=> s < Hour)
  BY DEF Day, Hour

\* Two times an hour or less apart: of one day, or of two that follow each other
\* and then in the last and the first hour.
LEMMA Neighbours ==
    ASSUME NEW t \in Int, NEW d \in Int, NEW s \in Int, Is(t, d, s),
           NEW u \in Int, NEW e \in Int, NEW n \in Int, Is(u, e, n),
           t <= u, u - t <= Hour
    PROVE  \/ e = d /\ n - s <= Hour /\ s <= n
           \/ e = d + 1 /\ s >= Day - Hour /\ n <= Hour - 1
<1>1. e = d \/ e = d + 1
  BY DEF Is, Day, Hour
<1>2. CASE e = d
  BY <1>2 DEF Is, Day, Hour
<1>3. CASE e = d + 1
  BY <1>3 DEF Is, Day, Hour
<1> QED
  BY <1>1, <1>2, <1>3

\* A sentence that was sent at most an hour before or behind the receiver's
\* time is reported to SondeHub with the date it was sent on, around midnight
\* too, although it tells none.
THEOREM DateIsRight ==
    ASSUME NEW sent \in Nat, NEW now \in Nat, now - sent <= Hour, sent - now <= Hour
    PROVE  Timestamp(OfDay(sent), now) = sent
<1> DEFINE s == OfDay(sent)
           n == OfDay(now)
           d == DayOf(sent)
           e == DayOf(now)
<1>1. Is(sent, d, s) /\ Is(now, e, n)
  BY DayFacts
<1>2. /\ (s \div Hour = 23 <=> s >= Day - Hour) /\ (s \div Hour = 0 <=> s < Hour)
      /\ (n \div Hour = 23 <=> n >= Day - Hour) /\ (n \div Hour = 0 <=> n < Hour)
  BY <1>1, HourFacts DEF Is
<1> HIDE DEF s, n, d, e
<1>3. DayFor(s, now) = IF s \div Hour = 23 /\ n \div Hour = 0 THEN e - 1
                       ELSE IF s \div Hour = 0 /\ n \div Hour = 23 THEN e + 1
                       ELSE e
  BY DEF DayFor, HourOf, n, e
<1>4. d \in Int /\ e \in Int /\ s \in Int /\ n \in Int /\ sent \in Int /\ now \in Int
  BY <1>1 DEF Is
<1>5. DayFor(s, now) = d
  <2>1. \/ e = d /\ n - s <= Hour /\ s - n <= Hour
        \/ e = d + 1 /\ s >= Day - Hour /\ n <= Hour - 1
        \/ d = e + 1 /\ n >= Day - Hour /\ s <= Hour - 1
    <3>1. CASE sent <= now
      <4>1. (e = d /\ n - s <= Hour /\ s <= n) \/ (e = d + 1 /\ s >= Day - Hour /\ n <= Hour - 1)
        BY <1>1, <1>4, <3>1, Neighbours
      <4> QED
        BY <1>4, <4>1 DEF Hour
    <3>2. CASE now <= sent
      <4>1. (d = e /\ s - n <= Hour /\ n <= s) \/ (d = e + 1 /\ n >= Day - Hour /\ s <= Hour - 1)
        BY <1>1, <1>4, <3>2, Neighbours
      <4> QED
        BY <1>4, <4>1 DEF Hour
    <3> QED
      BY <1>4, <3>1, <3>2
  <2>2. CASE e = d /\ n - s <= Hour /\ s - n <= Hour
    <3>1. ~(s >= Day - Hour /\ n < Hour) /\ ~(s < Hour /\ n >= Day - Hour)
      BY <1>4, <2>2 DEF Day, Hour
    <3> QED
      BY <1>2, <1>3, <2>2, <3>1
  <2>3. CASE e = d + 1 /\ s >= Day - Hour /\ n <= Hour - 1
    <3>1. n < Hour
      BY <1>4, <2>3 DEF Hour
    <3>2. DayFor(s, now) = e - 1
      BY <1>2, <1>3, <2>3, <3>1
    <3> QED
      BY <1>4, <2>3, <3>2
  <2>4. CASE d = e + 1 /\ n >= Day - Hour /\ s <= Hour - 1
    <3>1. s < Hour /\ ~(s >= Day - Hour)
      BY <1>4, <2>4 DEF Day, Hour
    <3> QED
      BY <1>2, <1>3, <2>4, <3>1
  <2> QED
    BY <2>1, <2>2, <2>3, <2>4
<1>6. Timestamp(s, now) = d * Day + s
  BY <1>5 DEF Timestamp
<1> QED
  BY <1>1, <1>6 DEF Is, s

\* Whatever time a sentence tells, however wrong its clock is, it is never dated
\* a day or more from the time it was received at.
THEOREM LessThanADayOff ==
    ASSUME NEW hms \in Nat, hms < Day, NEW now \in Nat
    PROVE  now - Timestamp(hms, now) < Day /\ Timestamp(hms, now) - now < Day
<1>1. hms \in Int /\ 0 <= hms /\ hms < Day
  OBVIOUS
<1> DEFINE n == OfDay(now)
           e == DayOf(now)
<1>2. Is(now, e, n)
  BY DayFacts
<1>3. /\ (hms \div Hour = 23 <=> hms >= Day - Hour) /\ (hms \div Hour = 0 <=> hms < Hour)
      /\ (n \div Hour = 23 <=> n >= Day - Hour) /\ (n \div Hour = 0 <=> n < Hour)
  BY <1>1, <1>2, HourFacts DEF Is
<1> HIDE DEF n, e
<1>4. DayFor(hms, now) = IF hms \div Hour = 23 /\ n \div Hour = 0 THEN e - 1
                         ELSE IF hms \div Hour = 0 /\ n \div Hour = 23 THEN e + 1
                         ELSE e
  BY DEF DayFor, HourOf, n, e
<1>5. n \in Int /\ e \in Int /\ now = e * Day + n /\ 0 <= n /\ n < Day
  BY <1>2 DEF Is
<1>6. \/ DayFor(hms, now) = e - 1 /\ hms >= Day - Hour /\ n < Hour
      \/ DayFor(hms, now) = e + 1 /\ hms < Hour /\ n >= Day - Hour
      \/ DayFor(hms, now) = e
  BY <1>3, <1>4
<1>7. CASE DayFor(hms, now) = e - 1 /\ hms >= Day - Hour /\ n < Hour
  <2>1. Timestamp(hms, now) = (e - 1) * Day + hms
    BY <1>7 DEF Timestamp
  <2> QED
    BY <1>1, <1>5, <1>7, <2>1 DEF Day, Hour
<1>8. CASE DayFor(hms, now) = e + 1 /\ hms < Hour /\ n >= Day - Hour
  <2>1. Timestamp(hms, now) = (e + 1) * Day + hms
    BY <1>8 DEF Timestamp
  <2> QED
    BY <1>1, <1>5, <1>8, <2>1 DEF Day, Hour
<1>9. CASE DayFor(hms, now) = e
  <2>1. Timestamp(hms, now) = e * Day + hms
    BY <1>9 DEF Timestamp
  <2> QED
    BY <1>1, <1>5, <2>1 DEF Day
<1> QED
  BY <1>6, <1>7, <1>8, <1>9
=============================================================================
