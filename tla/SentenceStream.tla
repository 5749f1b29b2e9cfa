--------------------------- MODULE SentenceStream ---------------------------
(***************************************************************************)
(* How the Decoder finds sentences in the characters the RTTY decoder      *)
(* gives it (the second half of Decoder::process, and extractSentence).    *)
(*   The printable characters go to rtty_char_stream_, which is scanned    *)
(* once it is long enough, and to chr_callback_stream_, which is handed to *)
(* character_callback_ every 250 ms.  A sentence is taken out of the       *)
(* stream as soon as the regular expression matches, and handed to         *)
(* sentence_callback_ when its checksum is right.  A stream that has grown *)
(* too long is cut to the last "$".                                        *)
(*   A character is a string of the class it stands for: "$", "*", ",",    *)
(* "-", " ", "nl" (a newline), "np" (any other unprintable one), a letter  *)
(* or digit of Word, or something else of Other.                           *)
(*                                                                         *)
(* HABHUB_REGEX:  .*?(\$+)([\w,\-,\s]+?),(.+?)(\*|\$)(\w\w\w\w).*          *)
(***************************************************************************)
EXTENDS Integers, Sequences, SequencesExt, FiniteSetsExt

CONSTANTS Word,           \* what \w stands for
          Other,          \* printable and of no meaning to the expression
          Crc(_),         \* the checksum of callsign,data
          CrcLen,         \* CRC_LEN: 4
          ScanSize,       \* the stream is scanned above this size: 20
          Limit,          \* the stream is cut above this size: 1000
          Chunks,         \* bound: numbers of characters in one process()
          Transmissions   \* bound: what may be received, as sequences

ASSUME CrcAssumption == CrcLen \in Nat \ {0}
ASSUME SizeAssumption == ScanSize \in Nat /\ Limit \in Nat /\ ScanSize <= Limit

CallChar  == Word \cup {",", "-", " "}
Printable == CallChar \cup Other \cup {"$", "*", "nl"}
Anything  == Printable \cup {"np"}

ASSUME ClassAssumption == (Word \cup Other) \cap {"$", "*", ",", "-", " ", "nl", "np"} = {}
ASSUME ReceivedAssumption == Transmissions \subseteq Seq(Anything) /\ Chunks \subseteq Nat

VARIABLES
    received,        \* the raw characters that will be received
    pos,             \* how many of them have been
    stream,          \* rtty_char_stream_
    chr,             \* chr_callback_stream_
    last_sentence,   \* last_sentence_
    printed,         \* what character_callback_ was given, in order
    sentences,       \* what sentence_callback_ was given, in order
    cut              \* history: the stream has been cut

vars == <<received, pos, stream, chr, last_sentence, printed, sentences, cut>>

\* What passes the filter of isprint and newline.
Kept == Printable

\* copy_if: the members of S in t, in order.
Filtered(t, S) ==
    LET f[n \in 0 .. Len(t)] ==
            IF n = 0 THEN <<>>
            ELSE IF t[n] \in S THEN Append(f[n - 1], t[n]) ELSE f[n - 1]
    IN  f[Len(t)]

-----------------------------------------------------------------------------
\* extractSentence.  A newline is a space to it.
Spaced(t) == [i \in DOMAIN t |-> IF t[i] = "nl" THEN " " ELSE t[i]]

\* Where a callsign may begin, the commas that may end one that begins at i,
\* and the ends of data behind a comma at k.
Begins(t) == {i \in 2 .. Len(t) : t[i - 1] = "$" /\ t[i] # "$"}

Commas(t, i) == {k \in (i + 1) .. Len(t) :
                    t[k] = "," /\ \A n \in i .. (k - 1) : t[n] \in CallChar}

Ends(t, k) == {e \in (k + 2) .. (Len(t) - CrcLen) :
                  t[e] \in {"*", "$"} /\ \A n \in 1 .. CrcLen : t[e + n] \in Word}

\* The leading .*? is lazy: the first beginning that can be completed.
Matching(t) == {i \in Begins(t) : \E k \in Commas(t, i) : Ends(t, k) # {}}

HasSentence(t) == (\E n \in DOMAIN t : t[n] = "*") /\ Matching(Spaced(t)) # {}

\* +? is lazy: the first comma, and the first end.  The rest of the stream
\* begins with the last character of the checksum.
Extracted(t) ==
    LET s == Spaced(t)
        i == Min(Matching(s))
        k == Min(Commas(s, i))
        e == Min(Ends(s, k))
    IN  [callsign |-> SubSeq(s, i, k - 1),
         data     |-> SubSeq(s, k + 1, e - 1),
         crc      |-> SubSeq(s, e + 1, e + CrcLen),
         rest     |-> SubSeq(s, e + CrcLen, Len(s))]

Body(x) == x.callsign \o <<",">> \o x.data
Sentence(x) == [callsign |-> x.callsign, data |-> x.data, crc |-> x.crc]
ValidCrc(x) == x.crc = Crc(Body(x))

\* The loop of process(): scan until nothing is found.  r holds the stream,
\* the sentences handed to the callback and the last sentence.
Found(r) ==
    LET x == Extracted(r.stream)
    IN  [stream |-> x.rest,
         valid  |-> r.valid \o IF ValidCrc(x) THEN <<Sentence(x)>> ELSE <<>>,
         last   |-> Body(x) \o <<"*">> \o x.crc]

ScannedOnce(r) == IF HasSentence(r.stream) THEN Found(r) ELSE r

\* A sentence takes at least a character out of the stream.
ScannedAll(r) ==
    LET scan[n \in 0 .. Len(r.stream)] == IF n = 0 THEN r ELSE ScannedOnce(scan[n - 1])
    IN  scan[Len(r.stream)]

Scanned(r) == ScannedAll(r)

\* Overflow protection: erase(0, rfind('$')), which is all of it without one.
CutAll(t) == IF Len(t) > Limit THEN <<>> ELSE t
CutToDollar(t) ==
    IF Len(t) <= Limit THEN t
    ELSE LET dollars == {n \in DOMAIN t : t[n] = "$"}
         IN  IF dollars = {} THEN <<>> ELSE SubSeq(t, Max(dollars), Len(t))

Cut(t) == CutToDollar(t)

-----------------------------------------------------------------------------
Init ==
    /\ received \in Transmissions
    /\ pos = 0
    /\ stream = <<>> /\ chr = <<>> /\ last_sentence = <<>>
    /\ printed = <<>> /\ sentences = <<>>
    /\ cut = FALSE

\* What is left for the next call of character_callback_.
Cleared(t) == <<>>
NotCleared(t) == t
AfterCall(t) == Cleared(t)

\* One process() that decodes n characters.  due: the 250 ms are over.
Process(n, due) ==
    LET new == Filtered(SubSeq(received, pos + 1, pos + n), Kept)
        r0  == [stream |-> stream \o new, valid |-> sentences, last |-> last_sentence]
        r   == IF Len(r0.stream) > ScanSize THEN Scanned(r0) ELSE r0
    IN  /\ pos + n <= Len(received)
        /\ pos' = pos + n
        /\ sentences' = r.valid /\ last_sentence' = r.last
        /\ stream' = Cut(r.stream)
        /\ cut' = (cut \/ stream' # r.stream)
        /\ printed' = IF due THEN printed \o chr \o new ELSE printed
        /\ chr' = IF due THEN AfterCall(chr \o new) ELSE chr \o new
        /\ UNCHANGED received

Next == \E n \in Chunks, due \in BOOLEAN : Process(n, due)

Spec == Init /\ [][Next]_vars

-----------------------------------------------------------------------------
\* The whole printable text so far.
Text == Filtered(SubSeq(received, 1, pos), Printable)

Sentences == [callsign : Seq(CallChar), data : Seq(Printable), crc : Seq(Word)]

TypeOK ==
    /\ received \in Transmissions /\ pos \in 0 .. Len(received)
    /\ stream \in Seq(Printable) /\ chr \in Seq(Printable) /\ printed \in Seq(Printable)
    /\ last_sentence \in Seq(Printable)
    /\ sentences \in Seq(Sentences)
    /\ cut \in BOOLEAN

(***************************************************************************)
(* How the signal happens to be split into calls of process() makes no     *)
(* difference: unless the stream has been cut, the sentences found are     *)
(* those that one scan of the whole text would find, and none of them is   *)
(* waiting in a stream that is long enough to be scanned.                  *)
(***************************************************************************)
AtOnce == ScannedAll([stream |-> Text, valid |-> <<>>, last |-> <<>>]).valid

ChunkIndependent ==
    ~cut => /\ IsPrefix(sentences, AtOnce)
            /\ Len(stream) > ScanSize => sentences = AtOnce

(***************************************************************************)
(* A sentence as trackers send it, read without the expression: "$", a     *)
(* callsign without a comma, a comma, data without "$" and "*", "*" and    *)
(* the right checksum, in letters and digits.  It is clear when every "$"  *)
(* before it belongs to such sentences or to the run of "$" it begins with.*)
(***************************************************************************)
Reading(t, b, k, e) ==
    [callsign |-> SubSeq(t, b + 1, k - 1), data |-> SubSeq(t, k + 1, e - 1),
     crc |-> SubSeq(t, e + 1, e + CrcLen)]

IntactAt(t, b, k, e) ==
    /\ \A n \in (b + 1) .. (k - 1) : t[n] \in CallChar \ {","}
    /\ \A n \in (k + 1) .. (e - 1) : t[n] \notin {"$", "*"}
    /\ \A n \in (e + 1) .. (e + CrcLen) : t[n] \in Word
    /\ ValidCrc(Reading(t, b, k, e))

Places(t, c) == {n \in DOMAIN t : t[n] = c}

Intact(t) ==
    {x \in Places(t, "$") \X Places(t, ",") \X Places(t, "*") :
        /\ x[1] + 1 < x[2] /\ x[2] + 1 < x[3] /\ x[3] + CrcLen <= Len(t)
        /\ IntactAt(t, x[1], x[2], x[3])}

Clear(t) ==
    {x \in Intact(t) : \A d \in Places(t, "$") : d < x[1] =>
        \E y \in Intact(t) :
            d <= y[1] /\ y[1] <= x[1] /\ \A n \in d .. y[1] : t[n] = "$"}

\* How many clear sentences begin no later than at b.
Rank(t, b) == Cardinality({y \in Clear(t) : y[1] <= b})

(***************************************************************************)
(* No clear sentence is lost, given twice or out of its place, however the *)
(* signal is split, whatever noise without a "$" is around it and whether  *)
(* or not the stream is cut while it is coming in: the n-th clear sentence *)
(* of the text is the n-th that sentence_callback_ is given.               *)
(***************************************************************************)
ClearSentencesFound ==
    LET t == Spaced(Text)
    IN  Len(stream) > ScanSize => \A x \in Clear(t) :
            /\ Rank(t, x[1]) <= Len(sentences)
            /\ sentences[Rank(t, x[1])] = Reading(t, x[1], x[2], x[3])

(***************************************************************************)
(* The clients' live print shows every character once and in order: what   *)
(* was handed over and what still waits are the text.                      *)
(***************************************************************************)
LivePrintComplete == printed \o chr = Text
=============================================================================
