# A TLA+ model of habdec

habdec receives high-altitude balloons: it tunes an SDR receiver, demodulates RTTY, finds the
telemetry sentences in it, shows them to websocket clients and reports them to SondeHub. This
directory models the parts of it where order, concurrency and failure decide what happens. TLC
checks the models on small instances, and TLAPS proves what matters most for all of them.

Paths below are relative to `src/code/`.

## 1. The system

Three threads run after `main()` has set everything up (`websocketServer/main.cpp` 607-640):

| thread | runs | state it shares with the others |
|---|---|---|
| **io** | `io_context::run`: accept, handshake, read, write handlers; `HandleRequest` | the sessions and their queues, the registry of sessions, `par_`, the Decoder's settings, `sentences_map_` |
| **decoder** | `DECODER_THREAD`: get samples, `pushSamples`, `process()`, apply the AFC's correction | the same; its callbacks broadcast, `sentence_callback_` on a thread it waits for |
| **uploader** | `upload()` every 15 s | the uploader's two queues |

Locks are taken in the order `process_mutex_` (all of `process()` and the setters), `sessions_mtx_`
(a whole broadcast), the mutex of one session. `session_add`, `session_delete`, `par_`, and the
reading of `sentences_map_` take none.

### Components

| component | state | operations | hard to get right |
|---|---|---|---|
| websocket server (`listener`, `http_session`, `websocket_session`, `ws_server`) | the registry, a queue and an opcode per session, pending reads and writes | accept, upgrade, read, send, broadcast, write completion, error, destruction | two threads send to a session that the third event, a disconnect, is destroying; one write at a time; opcode and payload must outlive the write |
| sentence callback and SondeHub uploader (`main.cpp` 286-365, `sondehub/`) | `queue_`, `processing_queue_`, `sentences_map_`, statistics | parse, push, notify, register; clear, swap, PUT; `cmd::sentence` | a push during an upload, failed PUTs, a map that is read unlocked |
| tuning (`main.cpp` 247-263, `habdec_ws_protocol.cpp`) | the device, `par_`, what was sent to the clients | `set:frequency`, `set:afc`, `get:`, echo, AFC correction | a load and a store against another store; "send if changed" |
| RTTY framing (`Decoder/RTTY.h`) | `bits_`, `chars_`, the frame format | push, decode, get, change the format | characters split over two calls, noise, what may be erased |
| character stream (`Decoder/Decoder.h` 568-636, `sentence_extract.cpp`) | `rtty_char_stream_`, `chr_callback_stream_`, `last_sentence_` | filter, scan, live print, cut | sentences split anywhere, lazy matching on half a sentence, the cut |
| signal chain (`Decoder.h`, `Decimator.h`, `FirFilter.h`) | sample buffers, decimation stages, filter taps, spectrum | `pushSamples`, `process`, the setters of decimation and low-pass | what is left between calls, decimation set-up, when taps are made anew, unlocked AFC section |
| symbol extraction (`SymbolExtractor.h`) | samples since the last flip | push, find flips, extract, get | batches that end anywhere, uneven bits, the safety vent |
| AFC peak search (`AFC.h`) | spectrum, peaks | search | it is numerical |
| SSDV (`ssdv_wrapper.cpp`) | byte buffer, packets per image, JPEGs | push, make, get, save | packets over many calls, false beginnings, an image number that comes again |
| sample sources | file or device handle, running flag | start, stop, get | empty reads, stop, end of file |
| options and restart (`program_options.cpp`, `GLOBALS.h`, `run_loop.sh`) | the options file | load, reject, dump | a crash while dumping, values that are saved but not accepted |
| device set-up | the source | enumerate, create, retry, hand over the parameters | a receiver that is missing, comes late or does not start |
| sentence parsing | none | coordinates, date and time | formats, midnight |
| spectrum streams | none | shrink, quantise | ranges |
| web client (`webClient/js/`) | the socket, timers | connect, reconnect, refresh | timers nobody cancels, handlers of old sockets |

What makes each of them correct:

* *websocket server*: one write per stream at a time; no message lost, repeated, overtaken or given
  another opcode; a broadcast misses nobody who is there all the while, and all clients see messages
  in one order; nothing is sent to a session that is gone; a queued message comes out if the transport
  works; the three mutexes never leave everybody waiting.
* *telemetry*: every sentence is reported at most once and in order and is tried if there is an
  uploader; the map holds the newest sentence of a frame id and clients are answered with it.
* *tuning*: parameter, device and clients agree when nothing is going on.
* *signal chain*: every sample is demodulated once and in order wherever the decimation changes; the
  filter is that of the settings and fits its input; nobody waits for ever for `process_mutex_`.
* *framing and sentences*: what is found does not depend on how the signal is split; after noise the
  decoder recovers; no clear sentence is lost; buffers are bounded.
* *SSDV*: no intact packet is lost or taken twice, whatever is between them; a picture has packets of
  one image.
* *restart, set-up*: the next run has the parameters of the last, as far as the digits in the file go;
  a missing device is retried.
* *web client*: a page gets its connection back, and a connected page refreshes once per period.

`PROJECT.json` lists every component with its status, and the hazards with the line where each bites.

## 2. The modules

| module | models | state and actions in the code |
|---|---|---|
| `Outbox` | what the server promises a client | abstract: frames sent, delivered, sessions released |
| `WsSession` | the websocket server | see 2.1 |
| `WsSessionProofs` | | the theorems about `WsSession` |
| `Reporting` | what habdec promises about telemetry | abstract: pushed, settled, received by the service |
| `Telemetry` | `SentenceCallback`, `SondeHubUploader`, `cmd::sentence` | see 2.2 |
| `TelemetryProofs` | | the theorems about `Telemetry` and `Timestamp` |
| `Tuning` | the receiver's frequency | see 2.3 |
| `Rtty` | `RTTY::push`, `operator()`, `get`, the setters | see 2.4 |
| `RttyProofs` | | the theorems about `Rtty` |
| `SymbolExtractor` | `SymbolExtractor` | see 2.8 |
| `Reception` | the end of `process()`: `SymbolExtractor` in front of `Rtty` | see 2.8 |
| `SentenceStream` | the second half of `Decoder::process`, `extractSentence` | see 2.5 |
| `SentenceStreamProofs` | | the theorems about `SentenceStream` |
| `Settings` | `prog_opts`, `DumpToFile`, the retry of `SetupDevice`, `set:` commands, `run_loop.sh` | see 2.6 |
| `SettingsProofs` | | the theorems about `Settings` |
| `Pipeline` | `pushSamples`, `process()` up to the demodulation, the decimation and low-pass setters | see 2.7 |
| `ReceiverProofs` | | the theorems about `Pipeline` and `Tuning`, what the same two threads do to the receiver, and about `Reception` |
| `Ssdv` | `SSDV_wraper_t::push`, `make_jpeg` | see 2.9 |
| `SsdvProofs` | | the theorems about `Ssdv` |
| `WebClient` | the page's connection and refresh loops | see 2.10 |
| `WebClientProofs` | | the theorems about `WebClient` |
| `Timestamp` | `timestamp_from_HMS` | definitions only, no state |
| `MC*` | instances for TLC | |

### 2.1 WsSession

A session is created by the listener (`ListenerAccept`), upgraded (`HttpUpgrade`) or dropped
(`HttpReject`), accepted (`OnAccept`, which enters it into the registry) and lives as long as a
pending read or write refers to it (`Release`, `SessionDelete`). An io handler is atomic except where
the other thread can come in between: a broadcast is `SessionsSend` (take `sessions_mtx_`), a
`Visit` per session, `SessionsSent`; `websocket_session::send` is `Push` (under the session's mutex),
`SetBinary` and `StartWrite` (outside of it). `OnRead` and `OnReadDone` enclose `HandleRequest`, which
may wait for `process_mutex_` (`SetDecoder`), respond to its own client or broadcast. `OnWrite` takes
a message out of the queue and writes the next.

The registry is an `unordered_set`, and `session_add` and `session_delete` change it under the decoder
thread's iteration. `ahead` is what the iterator still comes to. An insertion puts the session in front
of the iterator or behind it (`InsertInPlace`), or rehashes the set and links its elements anew, after
which any of them may be skipped or come again (`InsertAndRehash`), or leads the iterator astray
(`GoAstray`). An erasure takes the session out, too late if the iterator has just read it
(`EraseInPlace`), or leads astray as well (`EraseAstray`). `owed` is the history that
`BroadcastReachesAll` speaks of: the sessions registered since the broadcast began, none after a rehash.

Undefined behaviour that cannot go well is recorded in `fault`: an iteration gone astray, a call on a
session without references, the second deletion of the server. A program that has crashed stays as it
is (`Halt`). A buffer that dies before its write has completed may or may not have been taken by the
socket before (`mangled`).

Simplifications: the model stops at the first call on a dead session, although an exception thrown
there during a sentence's broadcast is swallowed by the discarded future (`Telemetry` has that case,
`NotifyThrows`). Requests are not told apart except by what they do to locks and queues.

### 2.2 Telemetry

`SentenceCallback` runs for one sentence at a time (the decoder thread waits for the future) and
does `Push`, `Notify`, `RegisterBegin`, `RegisterEnd`; the broadcast may throw. `upload()` is
`UploadBegin` (clear the batch), `UploadNothing` or `UploadSwap`, `UploadPut` (received by the service
or not; a failure is printed and the batch given up). `cmd::sentence` reads the map at any time, and
astray (`torn`) while it changes. `config` covers a missing callsign, an empty `--sondehub` (which
starts no uploader thread, although `push` still queues) and the normal case. The statistics of
distance and the external command feed nothing back and are left out.

### 2.3 Tuning

`set:frequency` is `SetFrequency`, `SetDevice`, `SetPar`, `Echo`, then every request ends with
`Compare` and perhaps `EchoAll`, `Remember`. The decoder thread's correction is `ReadCorrection`,
`Load`, `Store`, `Reload`, `Tune`. A load or a store of a double is one step. The measured correction
is any member of `Corrections`: the peak search is numerical, and whatever it finds must not break
the agreement. The source is a SoapySDR device that tunes to what it is told.

### 2.4 Rtty

`Process(n)` pushes the next n bits and is then `Receive`, the part of `process()` from pushing bits
to taking the characters, which `Reception` uses too. The loop of `operator()` is a recursive function
(`Starts`), the erasing is `Rest`. `Init` makes what a tracker sends: noise, an idle line, characters
with or without idle bits between them. Settings are natural numbers; a negative or fractional number
of stop bits, which `set:rtty_stops` lets through, is not modelled.

### 2.5 SentenceStream

Characters are classes, because the regular expression tells only classes apart; the expression's
lazy and greedy quantifiers are the minima in `Extracted` (the first beginning that can be completed,
the first comma, the first end), with the whole run of `$` as the greedy `\$+`. `Process(n, due)` is
one call of `process()`: filter, scan in a loop, hand over the live print when 250 ms are over, cut.
The checksum is a constant operator. The terminal output is left out.

### 2.6 Settings

The program's runs one after the other. `Start` is `prog_opts` up to its call of `DumpToFile`, or
`StartRejected` where it calls `exit(1)`; `DumpLine` writes and flushes a line. `SetupDevice` and
`NoDevice` are the loop in `main()`, with the parameters handed to the decoder after it.
`SentenceDecoded` saves again, on the decoder thread, while `Command` (`HandleCommand`, its echo and
the comparison at the end of `HandleRequest`) changes `par_`. `Kill` ends the program anywhere.
`Plug` is the receiver's cable. Numbers are scaled to integers: gains are halves, because a gain
that is not whole does not parse, baud rates tenths, because the echo drops the fraction, and
coordinates millionths of a degree, because `DumpToFile` writes them with six digits (`Written`; it
calls `setprecision(9)` only for the frequency, three lines further down). The device reports what
it was set to. Options that nobody checks, the command line (which wins over the file) and the AFC's
changes of the frequency (`Tuning`) are left out. A receiver that does not start is `decoding =
FALSE`: the program stays up and decodes nothing.

### 2.7 Pipeline

A sample is its number. `Push` is `pushSamples`. `process()` is `TakeNothing` or `Take` (take
`process_mutex_`, copy whole samples out of the input, decimate, collect for the FFT, return if there
is no block), `AfcBegin` and `AfcEnd`, `DropFast` (the rate is too high: the samples are dropped) or
`Filter` (design, filter and demodulate whole blocks) and `Symbols` (the rest, which is in `Rtty` and
`SentenceStream`). Parts of `process()` that hold another mutex throughout are one step. The AFC's two
`unique_lock`s are temporaries that only skip the section while the io thread copies the spectrum, so
`CopyBegin` may come between `AfcBegin` and `AfcEnd`. On the io thread, `setupDecimationStagesFactor`
is `SetDecimation` (wait for `process_mutex_`), `ClearStages`, `AddStages`, `SetFactor`, or
`Unsupported`, which leaves no stages and the factor 1; factors outside of 1 to 256 are refused before
that and change nothing. `Design` is `LP_BlackmanHarris`: how many taps, and that they stay if their
number stays. It is called by the setters and with every block. A transition width is the number of
taps it asks for; the width 0, for which the code takes the square of the bandwidth, is left out.

### 2.8 SymbolExtractor and Reception

A sample is 1 or -1. `FirstFlips` is `findFirstFlipPoint`: from the first sample where the averages on
both sides differ to the first where they no longer do, the sharpest. `Runs` goes on from each to the
next and rounds the distances to bits (`findFlipPoints` and the loop of `operator()`); `Bits` are its
bits if there are samples enough to try, and `Erased` is what `get()` removes. The averages
look four samples or a quarter of a bit to each side; from eight samples a bit on they stay inside the
buffer, hence the assumption on `Spb`. `Pushed` is `pushSamples`, with the vent that clears a buffer
in which nothing has flipped for too long (30000 samples in the code). `Reception` is the end of
`process()`: `ProcessSamples(n)` pushes a batch of samples, extracts the bits and hands them to
`Rtty!Receive`, an instance with this module's variables. What is received is made in `ReceptionInit`:
noise, two characters, idle bits between them, as samples whose bits end on time, early or late, and,
for `BatchIndependent` only, with every fifth sample on the wrong side: one wrong sample beside a
bit's edge can turn the bit, so nothing can be said about the characters then.

What is found depends on the batches in one way: fewer samples than three bits are not tried, so after
a short batch a flip may wait that one call with all samples would have found. `BatchIndependent`
therefore compares what has been heard together with what the waiting samples still hold, and adds
that they hold nothing when they are enough to be tried.

### 2.9 Ssdv

A byte in the buffer is its number in the transmission, so that a theorem can say which bytes a packet
was taken from; `stream` says what each byte is. `push()` is `Receive(n)`, with one outcome for each
of its returns: `TooFew`, `NoSync`, `Incomplete`, `Resync`, `TakePacket`. A call handles one candidate
and leaves the rest of the buffer to the next call, also if it holds whole packets. After the
transmission the receiver decodes noise (`ReceiveNoise`), byte 0. Packets have an image (callsign and
number), an id and a size; `Inserted` is the packet set with its two conflicts, `Allocated` the JPEG
buffer. `ssdv_dec_is_packet` is outside of the repository and accepts exactly the intact packets here:
a packet it corrects is an intact one, one it takes out of noise is not modelled. Pictures are saved
by a `std::async` whose future is dropped at once, so the call waits for it and it is no step of its
own; the decoding into the buffer and the files are left out.

### 2.10 WebClient

The handlers of a page run one at a time: `OpenConnection` (from `Reconnect`, a timer, or from
`Click`), `ws_onOpen`, `ws_onClose`, and the three refresh functions. They all look at the two
globals, whatever socket they were called for. A socket that has been replaced is `closing` until its
close event comes (`Closed`), or goes on connecting if it was not open yet. `Lost` is a connection
refused or lost. Timers are counted by the ticks (seconds) they still have to wait; `Tick` waits for
those that are due. `RefreshPowerSpectrum` and `RefreshDemod` go on without sending while they wait
for an answer (`Waiting`), a choice in the model; a `send` on a connecting socket throws and ends the
loop. The loop of 25 ms is treated like the one of a second: both see a lost connection before the
five seconds of the reconnect are over, which is what matters.

## 3. The runs

| run | instance | shows |
|---|---|---|
| `ws_session` | 2 sessions, 3 messages (1 of them binary), symmetric sessions | `OneWriteAtATime`, `QueueIsBacklog`, `IoSendsToLiveSessions`, `BroadcastReachesAll`, and that each session implements `Outbox` (`KeepsPromise`) |
| `ws_live` | 2 sessions, 2 messages, fairness | `MessageSettles` |
| `ws_payload` | 1 session, 2 messages | **violated**: `PayloadsOutliveWrites` |
| `telemetry` | 3 sentences, frame ids 1 to 3, fairness of the uploader | `NoneLostNoneTwice`, `MapHoldsNewest`, `AnswerIsRecent`, the refinement of `Reporting`, `EverySentenceIsTried` |
| `tuning` | 2 frequencies, 3 corrections (too small, up, down), at most 3 applied | `AgreeUnlessOverlapped`, `CommandPrevails` |
| `rtty` | 2 or 3 data bits, 1 or 2 stop bits, noise of 0 or 3 bits, 2 characters, one change of settings | `ChunkIndependent`, `Resynchronises` |
| `sentence_stream` | 343 transmissions of three tokens, 1, 4 or 8 characters per call, limit 9, scan above 5, checksum of 2 | `ChunkIndependent`, `ClearSentencesFound`, `LivePrintComplete` |
| `settings` | no file or one of two stations' files with positions of up to seven digits, 15 values of 8 settings, 2 commands, 2 kills | `ShownIsActual`, `ParametersApply`, `RestoresLastRun`, `KeepsTrying` |
| `pipeline` | 12 samples in batches of 1, 4 and 8, factors 1 to 3, blocks of 2, three filter lengths, fairness of both threads | `InOrder`, `LittleLeft`, `FilterFits`, `ProcessEnds`, `SetterEnds` |
| `reception` | 8 samples a bit, bits on time or up to 2 samples off, noise of 0 or 3 bits, silence of 0, 11 or 14 bits, a vent after 9 bits, batches of 10 and 26 samples | `BatchIndependent`, `Recovers` |
| `ssdv` | packets of 4 bytes of two stations with one image number, transmissions of 4 pieces of 9 (5 packets, 2 that lost a byte, a false sync byte, another byte), 1, 3 or 6 characters per call, fairness | `NoPacketLost`, `SetIsARun`, `BufferFits`, `PacketsComeOut` |
| `webclient` | 4 sockets, loops of 1 and 2 s, reconnect after 5 s, 2 clicks, 2 connections refused or lost, fairness | `OneForEachClick`, `RefreshRuns`, `Undisturbed`, `AlwaysBack` |

`rtty`, `sentence_stream` and `reception` also check their type invariants. All type invariants are
theorems.

**Why the bounds are enough.** Two sessions let a broadcast be between two sessions while one of them
comes or goes, and the two orders of two messages be told apart; three messages are the shortest
backlog on which the next message, the newest and the one being written differ, and the first
message a second thread can add behind both. Three sentences let one be uploaded, one wait and one
be entered, and let frame ids rise, repeat and start over. Three corrections can overlap the
beginning and the end of a request with one to spare for after it; more frequencies differ only in
value, and the theorems cover them all. In `Rtty` any split in up to five bits per call covers calls
that are shorter than, as long as and longer than a character; three bits of noise contain false
start bits at every distance from the idle line. In `SentenceStream` eight characters can complete
one sentence and bring all of the next, one character splits anywhere, and with the small limit the
cut falls before, inside and behind sentences. In `Settings` each setting has a value of every
treatment (accepted or not, whole or not, supported or not); two commands can set one and change it
during a dump, two kills leave a broken file and then interrupt its repair. The coordinates have a
written digit of each weight, a carry into one more digit and a tie. In `Pipeline` the twelve
samples are two blocks at once and then one at the smaller factor, the shortest case in which an
input is shorter than the filter the one before left; single samples put every possible remainder
into both buffers, and the factor changes with each of them. In `Reception` a batch of 10 samples
brings less than the three bits the extractor waits for and moves the seam through the bits, 26
bring several at once, and the two longer silences overflow the vent. In `Ssdv` four pieces have
room for a packet between two false beginnings and for an image number that comes again after
another image; six characters bring a packet and the beginning of the next, or more than one false
beginning in a call. Two clicks of the web page beside two lost connections let every event of one
socket fall between those of two others, and `MaxLoops` of 2 tells one loop of a kind from more.

**Fairness.** Handlers return and threads run, which is the scheduler's doing (WF of the steps of a
thread). asio runs the handlers of completed operations in order of completion, and `process_mutex_`
is free each time the decoder thread waits for samples (SF of the write handlers and of `SetDecoder`).
That a write completes with success or an error is the transport's doing. A failed write leaves its
message at the head of the queue for ever, so `MessageSettles` excepts it. The uploader's thread wakes
up every 15 s and a PUT ends (WF of `Upload`); nothing is assumed about decoding, requests or clients.
run_loop.sh starts the program again, and `main()` runs (WF of `Start`, `DumpLine`, `SetupDevice`,
`NoDevice`); the receiver may stay away. In `Pipeline` a thread that waits for `process_mutex_` gets
it if it is free again and again (SF of `Process` and of `Setter`), and the copying of the spectrum
ends; clients may never stop asking. A receiver decodes characters as long as it runs, noise if
nothing else is there (WF of `Push` in `Ssdv`). A browser's timers fire, and a socket that connects or
closes gets its event (WF in `WebClient`); the bound on lost connections is what makes the server stay
reachable in the end.

**Deadlock** is checked where the system goes on for ever. `rtty`, `reception` and `sentence_stream`
end with the received signal, and turn it off.

**What the violation shows.** `ws_payload` is a disagreement of the code with its own comments
(`websocket_session.cpp` 105-107 and 138, the message has to outlive its write):
`websocket_session::on_write` passes a temporary string as the buffer of the next write; what its
handler keeps alive is a copy. Every second and later message of a backlog is exposed.

**Weaknesses that the models contain.** No text promises otherwise, or not clearly, so they have no
run; the properties say how far the code is right, and their comments name the exception.

* `sessions_send` on the decoder thread may call a session whose destructor is running on the io
  thread, because `session_delete` does not take `sessions_mtx_` (`fault` in `WsSession`).
* A session that connects during a broadcast of the decoder thread may be left out, and if its
  insertion rehashes the registry, others may be left out too, or be handed the message twice. The
  order of messages survives all of it (`BroadcastReachesAll`).
* The station's position comes back from the options file with six digits: 52.22967 is 52.2297 after a
  restart, -118.2437 is -118.244 (some 30 m). It is rounded only once (`RestoresLastRun`).
* `RTTY::operator()` reads behind the end of `bits_` when it looks for the stop bits of a place near
  the end, and discards what it finds because no whole character is left there; `Starts` asks that
  first.
* A kill between two `rtty` or `latlon` lines of the options file leaves a file with too few numbers,
  and `set:rtty_bits=5` is saved although it is not accepted. `prog_opts` exits on both before it
  writes the file anew, so `run_loop.sh` starts it again in vain. `KeepsTrying` says that these are
  the only cases.
* `LP_BlackmanHarris` returns when the number of taps is what it was, and that number depends on the
  transition width only; so a new bandwidth, or a new decimation, leaves the old taps until the width
  changes. A width above 1, outside of what `--help` allows, makes no filter and leaves the last one,
  which may be longer than the next input (`FilterFits` excepts it).
* When a correction comes between the echo and `par_sent = par_` in `HandleRequest`, no later request
  shows it (`AgreeUnlessOverlapped` excepts the overlap).
* The overflow protection of the character stream cuts to the last `$`, which is nothing when that is
  the first character.
* The safety vent drops samples in the middle of whatever they are. A character of which some are
  dropped, or one that begins too soon behind, is lost (`Harmless`).
* A JPEG buffer keeps the size of the first image of its number (`BufferFits`), and a new picture of
  the same size whose packets all have other ids than the old one's is mixed with it (`SetIsARun`).
* "Connect" on a connected page leaves it with a second connection for good, or with a timer that
  closes the first again and again, and with more than one loop of a kind (`OneForEachClick`,
  `Undisturbed`).

## 4. The proofs

Each theorem holds for every value of the constants under the assumptions its module names (`None` is
none of the sessions, sentences or numbers, bounds are natural numbers). The bounds stay in the proofs
as constants, so they restrict nothing. TLC evaluates the same assumptions on every run.

* **`WsSessionProofs`**: `TypeCorrect`, `OneWrite`, `Backlogged`, `IoSafe`, `BroadcastComplete`,
  `Implements`. None of the safety properties is inductive alone. `OneWriteAtATime` needs to know that
  a thread on its way to `async_write` owns a session whose queue is not empty, that queue and message
  correspond, and that `sessions_mtx_` keeps two broadcasts apart; the opcode of a write needs the
  opcode on the stream to be that of the head of the queue between `SetBinary` and `StartWrite`.
  `IInv` is the conjunction; there is one step per action. `IoSafe` adds which sessions are registered
  at which stage of life. `BroadcastComplete` needs three things. `Holding`: only the thread that holds
  `sessions_mtx_` is in a broadcast. `Carried`: what it owes its message to is registered, and has been
  handed it, once, if and only if the iterator has passed. `InOrder`: messages are numbered as they are
  made, and while a broadcast goes on, what is newer than its message can only be a response, which one
  session was handed; so whenever a session was handed something newer first, no other session has that
  at all, and no two sessions can disagree about two messages (`Alike`). `Implements` maps
  every step to a step of `Outbox` or a stutter, and uses `QueueIsBacklog` to show that what is written
  next is the next frame handed over.
* **`TelemetryProofs`**: `TypeCorrect`, `NoneLost`, `MapIsNewest`, `AnswersRecent`, `Implements`. The
  strengthening says that a batch that is not being uploaded has already been tried (so clearing it
  loses nothing), which sentence the callback is about to announce or enter, and that the map is
  finite. About `Timestamp`: `DateIsRight` (clocks an hour apart at most, in either direction) and
  `LessThanADayOff`.
* **`ReceiverProofs`**, about `Pipeline`: `TypeCorrect`, `Ordered`, `LeavesLittle`, `Fits`. `InOrder` is
  not inductive: that decimated samples join on to each other needs the stages to be those of the
  factor when `process()` divides by it, which `process_mutex_` provides (`LockInv`, `RatesInv`), and a
  whole number of samples (`Remainder`, `DecimateFacts`). `FilterFits` between two calls needs that the
  last input was at least a block (`BlockInv`).
  About `Tuning`: `TuningTypeCorrect`, `Agree`, `Prevails`. The strengthening, valid while nothing has
  overlapped, says for each place in a request and in a correction which of device, parameter, loaded
  value and shown frequency agree.
  About `Reception`: `ReceptionTypeCorrect` and `AnyBatches`, for any number of samples per bit from
  eight on, any signal, any batches and any vent. `RttyProofs` is used as an instance.
  `BatchIndependent` alone says nothing about the samples to come. `Unbroken` does: unless some were
  dropped, there is a place p such that the samples that wait are those behind the p-th, and for any
  number M of samples the signal may still bring, what all M give is what was heard and what those
  behind the p-th give. A batch keeps this for three reasons. A flip point is found by looking at the
  samples from the place of the last one to a bit behind the end of the difference, so one that has
  been found is found in the same place when more come (`FlipStays`, `FlipOne`; the scan limit is
  what keeps it from being found too early). The search in a window of the signal is the search in
  the signal from there on, because the averages of a flip point never reach in front of the place
  the search begins at (`SameView`, `WindowFirst`, `LaterRuns`: this is the `start + R` of the code).
  So what more samples give is what fewer give, and what is found behind their last flip point
  (`MoreSamples`); and behind it there is nothing left (`NothingLeft`). The characters follow from
  the theorems about `Rtty`, which hold for the instance (`LineIsRtty`).
* **`RttyProofs`**: `TypeCorrect`, `AnyChunks`, `Resynchronised`, for any numbers of data and stop bits,
  any bits and any split into calls. The characters of a sequence of bits begin where `Starts` says, a
  recursive function from a place to the rest of the scan. Two facts about it carry the proof. A scan
  of `a` and then more finds the characters of `a` and goes on where the scan of `a` ended
  (`Decoded(a \o c) = Decoded(a) \o Decoded(Rest(a) \o c)`, and the same for what is left): the loop
  looks at nothing before the end of the last character, so erasing it changes nothing. And a line that
  is idle for the length of data and stop bits stops any false character, so that behind it each
  framed character is found and nothing else. With them `IInv` says that `bits_` is what all of the
  bits seen leave, and, before a setting changes, that the bits seen and to come are one transmission.
  The value of a character is the number that was framed because the sum over its bits is (the lemmas
  on `Adding`). `LineAssumption` says what a line is: bits, and texts of characters that fit.
  `Resynchronises` needs more than one bit in a frame: with no data and no stop bits each 0 of the
  noise is a character, and an idle line of no bits separates nothing.
* **`SentenceStreamProofs`**: `TypeCorrect`, `AnySplit`, `PrintComplete`, `NoClearSentenceLost`, for
  any transmission of any characters. `ChunkIndependent` is not inductive: that the sentences found
  are those of one scan says nothing about what is left. `OnTheWay` does: while nothing was cut,
  taking sentences one at a time from the whole text leads to the stream and the sentences there are,
  and a stream long enough to be scanned has none left. A chunk keeps this because a sentence that is
  there stays the first one, and as long as it is, whatever follows it (`Extended`: every part of the
  expression is lazy, an earlier `$` could not be completed because the `$` of the sentence is in its
  way, and that is no character of a callsign). Taking one at a time is deterministic (`OneWay`), so
  the scan of the whole text must pass through the same stream.
  `ClassAssumption` says that letters are none of the special characters.
  `NoClearSentenceLost` has to hold behind a cut as well, where `OnTheWay` says nothing. `ClearInv`
  names a place p in the whole transmission such that the stream is the text behind it: every clear
  sentence that begins up to p has been given in its place, and while a clear one is still to come,
  nothing else has been given (`Behind`, `Held`). More characters keep p (`HeldMore`). While a clear
  sentence is to come, a sentence taken out of the stream is the first such one (`HeldTaken`): each
  `$` in front of a clear sentence belongs to a sentence that is itself intact, so the expression can
  match nothing that begins there and reaches into the next. A cut moves p to the last `$` (`HeldCut`):
  a clear sentence that begins in front of it in the stream would end in front of it too, but the
  stream holds no whole sentence then. The counting uses the theorems on finite sets.
* **`SettingsProofs`**: `TypeCorrect`, `ShownActual`, `Apply`, `Restores`. Clients have been told
  nothing before the parameters are handed over, and the decoder starts with its default factor:
  without these two facts handing them over could make the clients or the decoder wrong. For
  `Restores`, what is in the file is what is written of a value in the history of the dump, line for
  line, and `par_` is in that history as long as the dump goes on. `WrittenIsNear` says how far what is
  written is from the value, that it has six digits, and that a value of six digits is written exactly.
* **`SsdvProofs`**: `TypeCorrect`, `NothingLost`, `OnePicture`, `BuffersFit`. `NothingLost` needs
  `QueueInv`: there is a byte c of the transmission such that all intact packets that begin before c
  have been taken, in order and nothing else, and what the buffer holds from some place on is the
  transmission from c to the last byte received; `begin` is 0 or that place. A call moves c over bytes
  at which no intact packet can begin, because it begins with a sync byte, or takes the packet that
  begins at c. What the buffer holds in front of that place has no sync byte in it. For
  `OnePicture` and `BuffersFit` (`PictureInv`) each set is a run of the packets taken, and has one
  with the highest id, whose size the code compares with.
* **`WebClientProofs`**: `TypeCorrect`, `OnePerClick`, `Refreshes`, `InOrder`. `OneForEachClick` adds up
  the timers by a recursive function; `Counted` states the sum as some function with that recursion,
  which each event changes at one place. `RefreshRuns` is inductive with the types alone.
  `Undisturbed` is not: `AloneInv` says that a page nobody clicks on is in one of three states. It waits
  for one reconnect timer that is due after the timers of all loops (`Waits`; this is where the periods
  have to be shorter than the delay), it connects and has no timer (`Connects`), or it is open and has
  one timer for each loop (`Works`).

**Recursive functions.** The library's induction theorems take an operator as a parameter, which the
installed provers cannot instantiate. What `Rtty`, `SentenceStream`, `SymbolExtractor` and `WebClient`
compute by recursive functions is therefore proved from the least place at which a statement fails
(`WFMin` on the natural numbers, the lemmas `Induction`, `Upwards` and `Downwards`), with the recursive
function shown to exist first (`StartsIs`, `AddingExists`, `FilteredIs`, `RunsExist`).

**Only model-checked**: liveness (`MessageSettles`, `EverySentenceIsTried`, `KeepsTrying`,
`ProcessEnds`, `SetterEnds`, `PacketsComeOut`, `AlwaysBack`), which needs fairness and ENABLED; and
`Recovers`, which depends on the signals transmitted. That uneven bits are rounded to the right number,
that false bits out of noise or behind a vent are over before the next character, and that the three
bits at the end of a transmission are enough, is checked on the shapes of the run; for all constants
it does not hold, since bits can be so uneven that one is lost.

## 5. Not modelled

Filters, FFT, demodulation and the peak search are numerical. The loop that feeds samples to the
decoder is one thread around a driver; end of file, short reads and empty reads (which push the last
batch again) are left out, and `Pipeline` numbers samples as they are pushed. Spectrum and
demodulation streams are copies that are scaled and serialised for one answer. Coordinates are regular
expressions and floating-point numbers. The FLTK program, the Python clients and the drawing code have
no protocol of their own. `ssdv`, FFTW, SoapySDR, boost and cpr are outside of the repository and
appear only through what habdec does with them. A transmission that breaks off just before another
makes the expression take the first letters of the next callsign for a checksum, so that the next
sentence is lost; `ClearSentencesFound` says which sentences are safe from that.

Of the 42,900 lines of the repository 34,700 are vendored headers, coefficients and hashes
(`json.hpp`, `date.h`, `filtercoef.h`, `picosha2.h`); the models stand for about 2,500 of the 8,200
others.

## 6. What could follow

1. The file source in front of `Pipeline`: its flags, empty and short reads, the batch that is pushed
   again. Which rate the spectrum is labelled with after a change of the decimation.
2. `Rtty` in front of `SentenceStream` and `Ssdv`, which take the same characters.
3. `WebClient` composed with `Outbox`: answers that come late, to a page that has reconnected.
4. A proof of `Recovers` for bits that are uneven by less than a given part of a bit.
5. `ShrinkVector` and the positions of the peaks in the shrunk spectrum; coordinate formats.
