# Verification of edge-tts-cpp

edge-tts-cpp turns text into speech through the WebSocket service behind Microsoft Edge's
"Read aloud". This directory holds TLA+ models of its core, the TLC configurations that check
them on small instances, and proofs, checked by TLAPS, that the most important properties hold
for every value of the constants. Paths below are relative to the repository's root; a range
in parentheses after a file name is a range of its lines.

## 1. The system

```
 edge-tts / edge-playback        (src/apps, src/modules/cli)
      |                 \
 SpeechSynthesizer     VoiceService            src/modules/api, communication
      |        \            |
 TextChunker  FileWriter  HttpClient
      |        SubtitleBuilder                 src/modules/subtitle
      v
 SynthesisSession -- RetryPolicy, EdgeTokenProvider
      |        \
 EdgeProtocol  IWebSocketClient
      |             |
 ProtocolParser   WebSocketClient -- ixwebsocket (a thread of its own)
 MetadataJsonParser

 ProcessRunner (fork, pipes) -- ffplay           src/modules/media
```

Everything runs on the thread of the caller, with three exceptions: `WebSocketClient` starts one
run thread per connection, `ProcessRunner` a thread that drains stderr, and any thread may set
a `CancellationToken`. The library keeps no
state between two calls except the clock correction of `EdgeTokenProvider`.

### Inventory

| Component | State | Operations | Hard behaviour | What makes it correct |
|---|---|---|---|---|
| `SynthesisSession` (communication/src/SynthesisSession.cpp) | chunk and attempt counters, chunks collected, cumulative offset; shares the token provider's skew and a cancellation token | `synthesize` | retry after a refusal, seven exits with an open connection, cancellation between any two steps, an endless service | closed on return; no speech twice; one time line; an error returns nothing; cancelled calls return |
| `EdgeTokenProvider`, `RetryPolicy` | clock skew | `sec_ms_gec`, `adjust_clock_skew*`, `should_retry` | corrections that build on each other, a window edge between token and request | the token of a retry is the service's |
| `EdgeProtocol` | none | `parse_incoming`, `build_*_frame` | lengths the frame states about itself, entries that are skipped | exactly the body is audio; no read outside of the frame; all boundaries, in order |
| `WebSocketClient` | queue, mutex, condition variable, run thread | `connect`, `send_text`, `receive`, `close` | three threads, deadlines racing frames, reuse for a new connection, join | no stale item, no lost wakeup, no second thread, every join ends |
| `SpeechSynthesizer`, `FileWriter` | called flag, cancellation token, two files | `synthesize`, `synthesize_stream`, `save`, `cancel` | cancel from inside a callback, optional callbacks, second calls, a file that fails half-way | one use; ordered delivery; one terminal callback; files only after success |
| `TextChunker` | none (a loop over a text) | `chunk` | multi-byte characters and entities at the limit, stripping, progress | nothing divided, lost or over the limit; ends |
| `SubtitleBuilder`, `SrtComposer` | cues, kind of the first boundary | `feed`, `to_srt` | cues out of order, empty or blank ones | contiguous numbering, order kept |
| `ProcessRunner` | descriptors, a child | `run` | two pipes and a child that wait for each other, interrupted reads | no descriptor leaks, no wait without end |
| `PlaybackCommandDispatcher`, `FfmpegAudioConverter` | temporary files, one ffplay child | `dispatch`, `play_mp3` | failure at any step between synthesis and the end of playback | temporary files removed as documented, ffplay finds a whole file, exit code 0 only when it was played |
| `EdgeTtsCommandDispatcher`, `InputLoader` | routed audio, cues | `dispatch`, `load` | output on stdout, stderr and files when one step fails; a prompt on a stdin that is the text | exit code mirrors the only failure; all of the output, and each at its place; nothing before it was confirmed |
| `VoiceService`, `HttpDate` | shares the skew | `list_voices` | refusals without a usable date in several calls, one broken entry of a list, leap years | one retry; guesses are undone by the next date; a list is what the answer and the filter say |
| Argument parsers | none | `parse` (two, written apart) | options in any order and number, values that look like options | exactly the well-formed lines are accepted, and both programs mean the same by one line |
| `TtsConfig`, `ProtocolSerializer`, `ProtocolParser`, `SsmlBuilder`, `Utf8`, `XmlEscaper`, `TextNormalizer` | none | pure functions | names normalised twice, empty lines in a body, text that looks like markup, boundaries of UTF-8 | what is written is read back, and read as it was meant |
| `VoiceFormatter`, hashing, identifiers, constants, `HttpClient` | none | pure functions, one blocking library call | none | the expected value for each input (not modelled, section 6) |

The concrete hazards, each at its line and with the property that would catch it, are in
`PROJECT.json` under `hazards`.

## 2. The modules

| Module | Models | Extends or instantiates |
|---|---|---|
| `EdgeTokenProvider` | `sec_ms_gec`, the correction of the clock, the service's window | - |
| `EdgeProtocol` | `parse_incoming`, `MetadataJsonParser` | - |
| `SynthesisSession` | `synthesize()`, `RetryPolicy` | EXTENDS `EdgeProtocol`, `EdgeTokenProvider` |
| `Synthesis` | what one call promises, without connections, retries or clocks | - |
| `SynthesisSessionPromise` | the session against `Synthesis` | EXTENDS `SynthesisSession`, INSTANCE `Synthesis` |
| `WebSocketClient` | the client, its run thread and a thread that closes | - |
| `FrameStream` | what `receive()` promises | - |
| `WebSocketClientStream` | the client against `FrameStream` | EXTENDS `WebSocketClient`, INSTANCE `FrameStream` |
| `SpeechSynthesizer` | the public object with its callbacks and files | - |
| `VoiceService` | `list_voices()` over several calls, `VoiceJsonParser`, the filter | EXTENDS `EdgeTokenProvider` |
| `TextChunker` | the split loop | - |
| `ProcessRunner` | `run()`: parent, stderr thread, child, pipes | - |
| `Playback` | `dispatch()` of edge-playback | EXTENDS `ProcessRunner` |
| `ArgumentParser` | both command lines | - |
| `EdgeTts` | edge-tts from `main()` to the exit code | EXTENDS `ArgumentParser` |
| `Subtitles` | `SubtitleBuilder`, `SrtComposer`, `SubtitleTime` | - |
| `SpeechText` | `Utf8`, `TextNormalizer`, `XmlEscaper`, the content of the SSML | - |
| `SpeechRequest` | voice names, both frames of a turn, `ProtocolSerializer`, `ProtocolParser` | - |
| `HttpDate` | `parse_http_date` | - |
| `Formats` | the pure modules on any input, with the references they are compared with | EXTENDS `EdgeProtocol`, `Subtitles`, `SpeechText`, `SpeechRequest`, `HttpDate` |
| other `MC*` | values of the constants for TLC | the module they are named after |
| `*Proofs` | theorems and proofs | the module they are named after, TLAPS |

A `pc` variable says where a call is. One action stands for the code between two points at
which another party can step in, or at which something outside may fail. Variables marked
*history* in a declaration are not in the program: they record what properties speak of.
Operators with an underscored suffix (`Close_OnSuccessOnly`) are the plausible bugs a property
has been seen to catch; the comment before each of them begins with "Mutant".

### EdgeProtocol

A frame is a record of what the parser can tell apart: its type, whether the header section is
well formed, the `Path` and `Content-Type`, its length, the number in its first two bytes, the
positions of `\r\n`, and the entries of its `Metadata` array. `parse_incoming`,
`parse_text_frame` and `parse_binary_frame` make the checks of the code. Everything is a pure
operator, so `Formats` gives it frames and compares the outcome with a reference: the
wire layout the header documents (`Layout`), and the positions of the boundaries counted
independently (`Place`).

### SynthesisSession

| Action | Code (SynthesisSession.cpp) |
|---|---|
| `BeginChunk`, `Return` | loop over the text chunks, cancellation check, successful return |
| `BeginAttempt` | a new token and new headers for every attempt |
| `Connect` | `connect()`: opened, refused (`drm_error`, perhaps with a `Date`), or failed |
| `HandleRefusal` | `should_retry`, correction of the clock, or the error |
| `SendConfig`, `SendSsml` | the two `send_text()`; `build_ssml_frame` can fail on the configuration |
| `PollCancel`, `Receive`, `Dispatch` | the loop of `run_one_chunk` |
| `Close` | `close()` on every exit, then the offset or the error |
| `Cancel`, `Tick` | any thread that cancels; the clock |

The other side of `IWebSocketClient` is external: it answers in every way its header allows.
Where `honest` is TRUE the service refuses only tokens more than one window away from its own
clock and dates each refusal; otherwise it does as it likes.

`Synthesis` is what a user of one call may rely on: chunks are spoken one after the other; an
answer holds all that was said, in that order, on one time line computed from the start of the
answer; an error holds nothing and has a true reason. `KeepsPromise` says that the session
implements it, with `speaking <- chunk` and `outcome <- result`.

### WebSocketClient

One action is one critical section, or one call into ixwebsocket. `Callback`, `Push`, `Notify`
are the run thread: the callback, the `push` under the lock, and the `notify_one` after it.
`Wait`, `Take`, `Deadline` are `receive()`: the predicate that fails, the item that is taken,
and the deadline, at which `wait_for` looks at the predicate once more. `ConnectStop`,
`ConnectJoin`, `ConnectClear`, `ConnectOpen` are the steps of `connect()`; `CloseStop`,
`CloseJoin` those of `close()`, and `CloserStop`, `CloserJoin` the same from another thread
while the owner is inside `receive()`, which the header allows. Two threads inside `connect()`
or `close()` at a time are excluded because the header excludes them.

`FrameStream` is the promise: items of the current connection, each once and in order, and a
timeout only when there is none. `ImplementsStream` is the refinement.

### SpeechSynthesizer

`Begin` is the guard at the top of each of the three calls; `Pipeline` the checks of
`run_pipeline` in their order; `Session` the call of the session, which answers with one of
`Answers` or an error; `HandOver` what each call does with it. `Deliver`, `Callback`,
`CallbackReturns`, `Finish` are the delivery loop, cut where a callback is entered and left, so
that `Cancel` may come from inside of it. `Collect` is the subtitle pass of `save()`, which can
reject a boundary; `WriteMedia` and `WriteSubtitles` are `FileWriter`, with a file that cannot
be opened, that breaks off, that is written, or (with `FlushMayFail`) that loses what the
stream had buffered when its destructor closes it.

### TextChunker

A text is a function from places to kinds of bytes together with `unit`, which says where the
character or entity of a byte begins. The code does not see `unit`; the properties do. The
actions are one round of the loop: `FindSplit` (newline, space, code point), `AdjustEntity`
(one round of `adjust_xml_entity`), `Yield` (strip, emit, advance), and `Remainder`.
`WellFormed` is what `xml_escape` and UTF-8 validation guarantee of the input.

### ProcessRunner and Playback

`main` and `drainer` say where the two threads of `run()` are, `child` where the child is. `fds`
and `childFds` are the pipe ends either process has open, so that the end of a file is what it
is in the kernel: an empty pipe with no write end left anywhere. `closers` are the armed
`FdCloser` objects; `Return` runs their destructors on every way out. Bytes are counted:
`owed` is what the program still means to write, and it cannot exit before, so a full pipe that
nobody drains stops it for ever. A child may die by a signal at any moment; where `reaping`
holds, SIGCHLD is ignored and `waitpid()` fails after the child's end.

`Playback` is the dispatcher in one action per step, from the parser's verdict to the exit
code; `Leave` is every `return` of `dispatch_play`, with the destructor of `TempGuard`. `save()`
appears by what it can leave on the disk, which `SpeechSynthesizer` establishes (with files that
lose data only when they are closed, see `SavedMeansWritten`, "whole" is what `save()` believes).
`find_on_path` is evaluated for every set of directories that hold ffplay, and ffplay may be
gone again by the time of `execvp()`. `Abort` is an exception that nobody catches: in
`load_playback`, in the provider of the temporary paths, and in `save()` before it has opened a
file (`save_throws`). `std::terminate()` runs no destructor, so the `TempGuard` does not act; that
no file is left then is part of what is checked. Both modules are checked together: the runner is the part
of `Playback` that acts while `step = "play"`.

### VoiceService

`Begin` is a call with a filter; `send_request` makes a token, `send` gets an answer or a
transport error; `Refused` corrects the clock by the Date of the first refusal or, without one
that can be read, by the guess of 300 seconds; `Judge` parses and filters. The object lives on
between calls, and with it the correction. An element of the list is what the parser looks at:
whether it is complete, its gender, its name, and its locale, a tag together with the language
that stands in it. In an `honest` call the service refuses
stale tokens and nothing else; where `dates` holds, its refusals carry a date that the code
finds. The lookup of `"Date"` in a case-sensitive map (VoiceService.cpp:53) is why a refusal may
have a date the code does not find.

### ArgumentParser and EdgeTts

A token is long, short or a word, with the value attached to it. The two parsers of the
repository are separate functions with the same loop; the model has the loop once and a table of
options for each program, and the run compares both with one description of a well-formed line.
That the two functions do have the same loop is a reading of the code and not a result of the
run: what it shows of the two is that their tables agree.

`EdgeTts` has one action per step of `main()`, `dispatch()` and `load()`. Audio that reached
stdout is the sequence of its pieces, by their place in the answer. A write to `std::cout` may
fail, after which the stream takes no more; a file cannot be opened, breaks off, is written, or
loses what its stream had buffered. A write to stdout that fails and a buffer that is lost are
what the code does not look at: `lost` records them. `Abort` is the end by an exception that nobody
catches, with the status 134 a shell shows for it: where the status of the input or its bytes
cannot be read (`LoadFile`), and where a number in the service's JSON is too large for a double,
for which nlohmann's parser throws `out_of_range` and not the `parse_error` its two callers catch
(VoiceJsonParser.cpp:31, MetadataJsonParser.cpp:22). `ExitExplained` therefore speaks of three
kinds of ends: 0 without an error, 1 and 2 with one, and an abort, which comes before any output.

### The pure modules

- `Subtitles`: a text is a sequence of characters of which line ends and blanks are told apart,
  a document the sequence of its lines, which `Split` and `LinesOf` make of what the code writes
  as characters. Cues are cut to milliseconds, sorted, dropped and
  numbered in the code's order. The reference is a reader of SRT files: blocks end at empty
  lines.
- `SpeechText`: bytes. The reference for validation is the table of well-formed sequences of the
  Unicode standard; for escaping it is what a reader of the XML gets.
- `SpeechRequest`: frames as sequences of pieces, with CR, LF and colons of their own. What the
  program serializes must come back from its own parser.
- `HttpDate`: from the fields `sscanf` found to days and seconds. The reference is the calendar:
  the day after a day. Quotients are cut as in C++ (`Cut`), so before 1970 the days are the code's,
  which its comment excludes; the references speak of 1970 and later.

`Formats` gives each function inputs of its kind, which its constants hold; `of` says which
function a behaviour is about. `MCFormats` makes the constants every small input.

## 3. Runs

| Run | Instance | Shows |
|---|---|---|
| `session` | 2 text chunks, 1 retry, six frames, at most 4 data messages, drifts -7, 0, 7 with windows of 3 seconds, 2 ticks, honest and other services | `ClosedOnReturn`, `SpokenOnce`, `CancelStopsReading`, `BoundariesInOrder`, `RetryTokenFollowsService`, `WrongClockRecovered`, refinement `KeepsPromise`, liveness `CancelledCallReturns` |
| `websocket` | 3 connections with 2 frames each | `OneRunThread`, refinement `ImplementsStream`, liveness `ItemWakesReceiver`, `JoinReturns` |
| `websocket_normal_close` | 2 connections | violation, see below |
| `synthesizer` | 3 calls, every set of callbacks, five answers of up to 3 chunks | `DeliveredInOrder`, `OneTerminal`, `CancelStopsDelivery`, `FilesInOrder`, `SavedMeansWritten` |
| `chunker` | all escaped texts of up to 5 units, all raw ones of up to 4, limits 1, 3, 4, all preferences | `UnitsWhole`, `WithinLimit`, `NothingLost`, `WordsCutLast`, `LinesKept`, liveness `Terminates` |
| `playback` | pipes of 2 bytes read one at a time, up to 3 bytes on each stream, two directories on PATH | `NothingLeftOpen`, `ResultIsTheChilds`, `TempFilesCleared`, `PlayedOrReported`, liveness `RunReturns` |
| `playback_interrupted` | the same, where signals may interrupt a `read()` | violation, see below |
| `formats` | binary frames of up to 7 bytes, metadata of up to 3 entries, up to 3 boundaries with texts of up to 4 characters, texts of up to 4 bytes at the edges of UTF-8 and of up to 4 morsels of markup, frames of up to 7 pieces, every day of ten years | `FramesAsSent`, `SubtitlesReadBack`, `TextKept`, `RequestsReadBack`, `DatesFollowCalendar` |
| `voices` | 3 calls, windows of 3 seconds, drifts -7, 0, 8, lists of up to 2 entries, 2 filters | `GuessesAreUndone`, `ListIsTheAnswer`, liveness `CallReturns` |
| `edge_tts` | every line of up to 3 of some 40 tokens, every answer of up to 3 chunks | `LinesMeanTheSame`, `OutputOrError`, `OutputBegun`, `NothingUnconfirmed` |
| `edge_tts_lost`, `edge_tts_unread` | the same with 2 tokens and 1 chunk | violations, see below |

The type invariants, `NoStaleItem` of `WebSocketClient` and `SingleUse` of `SpeechSynthesizer`
are theorems of section 5 and no run repeats them. `ExitExplained` and `FilesAfterAnswer`, parts
of `OutputOrError` and `OutputBegun`, are theorems as well.

Why these bounds are enough to meet the interesting cases:

- Two text chunks are needed for everything that passes from one to the next: offsets, audio
  already received, results of earlier turns when a later one fails. Nothing in the code looks
  further back than the running sum. Four messages allow two boundaries in the first chunk (one
  frame holds two words, the later of which ends first), audio to end it, and one more message.
- Drifts of seven seconds against windows of three are more than two windows in either
  direction, so an uncorrected token is refused, and adding a correction twice is refused too.
  Two ticks keep a call shorter than a window, which is the condition of `WrongClockRecovered`.
- Seven bytes are two of length, at most three of headers, two of separator, and a body of up to
  three; stated lengths go from 0 beyond the frame, and to 65535. Three entries put a skipped
  entry before, between and after boundaries.
- Three connections distinguish "the previous connection" from "an earlier one"; two frames per
  connection are the least that can be reordered.
- Three calls on one object are a first, a second, and one after a rejected one. The answers
  have both kinds of boundary in one answer, one kind, a word before time zero, and none.
- An entity and a code point have three bytes in the instance: limit 3 is exactly their length,
  4 is above, 1 is below for everything but plain characters. `Fits` holds for many of the texts under each limit, so the implications that
  start with it are met.

- Three calls of `list_voices` are one that leaves a wrong guess, one that leaves a second, and
  one that has to undo both; the guess is as long as a window, as in the code (300 seconds each).
- Three tokens are an option with a value in the next token and another option, or one option
  given twice; the words among them can stand for values or for nothing. An option with its value
  attached is one token, so two outputs and an input fit into one line. Three chunks are
  two of one kind and one between them.
- TLC's integers have 32 bits. `TicksPerMs` is 10 instead of 10000, which leaves the cut to
  milliseconds between the same neighbours, and a date is a pair of days and seconds.
- The years are 1970, leap years and others, both kinds of centuries, and the year in which an
  era of 400 years ends; `DatesAreCounted` of section 5 has all years from 1970 on.
- Three bytes do not fit into a pipe of two, on either stream or both, so a child blocks unless
  its pipe is drained; one byte at a time makes a drain take several rounds.

The bounds themselves (`MaxOutput`, `MaxItems`, `MaxTime`, `MaxConnects`, `MaxFrames`, `MaxCalls`) are
constants, each used in one guard.

Deadlock is not checked: every modelled call returns, and after it nothing need happen.

### Disagreements between the code and what is written about it

A run that is expected to be violated checks one sentence of a document, header or comment,
stated as a property of the model of the code. Details and quotations are under `findings` in
`PROJECT.json`.

- `TimeoutMeansSilence`: a close with code 1000 by the service pushes nothing, so the receiver
  waits for its deadline and reports a timeout.
- `LostOutputIsAnError`: edge-tts never looks at `std::cout`, and `FileWriter` returns before the
  destructor of its stream writes what is buffered; output is lost and the exit code is 0.
- `UnreadInputIsAnError`: `InputLoader` asks for the status of the input with the overload of
  `is_directory()` that throws (InputLoader.cpp:31): no permission on the way to the file, a loop
  of links and a name that is too long end edge-tts in an exception nobody catches, without its
  own message and with status 134, where docs/CLI_COMPATIBILITY.md:60 promises the path and exit
  code 1. A read that fails throws as well (lines 46-48). edge-playback has the same two places in
  `load_playback` (lines 73, 88-90) and a third where it asks for the directory of temporary files
  (apps/edge-playback/main.cpp:47). A failing read of stdin is taken for its end, and the text is
  spoken as far as it came.
- `RunReturns` where `SignalsArrive`: a drain takes an interrupted `read()` for the end of the
  file; the child then blocks on the full pipe and `run()` waits for it for ever. `waitpid()` is
  repeated on EINTR, `read()` is not. The programs here install no handlers; a host program of
  the library may.

Smaller ones, seen while modelling and not given a run of their own:

- EdgeProtocol.hpp:88 lists an unknown metadata type as a protocol error;
  `MetadataJsonParser::parse` skips the entry (lines 49-57).
- TextChunker.hpp promises whole characters and entities without a condition on the limit; with
  a limit shorter than one of them the chunker drops bytes one at a time (TextChunker.cpp:88-90).
  `UnitsWhole` and `NothingLost` therefore start with `Fits`.
- The design documents compute the offset of a text chunk from the audio bytes before it
  (docs/HIGH_LEVEL_DESIGN.md:57-60, docs/REFERENCE_BEHAVIOR.md:442); SynthesisSession.cpp:219 uses
  the end of the last boundary.
- A stream call on a used object returns an error without a terminal callback
  (SpeechSynthesizer.cpp:204-207), where StreamCallbacks.hpp:17 and SpeechSynthesizer.hpp:137-138
  speak of exactly one.
- `save()` returns ok although closing the file lost data (the `FileWriter` of
  `LostOutputIsAnError`); `SavedMeansWritten` therefore has the premise `~FlushMayFail`.
- `edge-tts --file -` on a terminal without `--write-media` always ends with "Operation
  canceled." (EdgeTtsCommandDispatcher.cpp:157-167): the text has used up the stdin that the
  question is put to.
- With one path for the media and the subtitles, the subtitles overwrite the audio and the exit
  code is 0.
- EdgeTtsArgumentParser.hpp:42 says that a subtitle file is used "instead of stderr"; without the
  option no subtitles are written anywhere.
- src/modules/subtitle/include/subtitles/SrtComposer.hpp:23 promises "LF ('\n') only — no CRLF"; a
  carriage return in a cue's text stays.
- ProtocolMessage.hpp:23 says that the last value of a repeated header wins; `header()` returns
  the first (ProtocolMessage.cpp:11-12).
- ProcessRunner.hpp:57 says that a failing exec is `external_process_failed`; the code returns
  ok with exit code 127, and so does its test.

## 4. Fairness

- `SynthesisSession`: `WF_vars(Session)`. The calling thread is scheduled and each call it makes
  into the transport returns, since `connect()` and `receive()` take a timeout. Nothing is
  assumed about the service, the clock, or anyone who cancels. `CancelledCallReturns` therefore
  holds against a service that never stops sending. Without cancellation no such property
  holds: the loop has no limit of its own.
- `WebSocketClient`: weak fairness of the run thread's own steps, of the callback once `stop()`
  was called (the library hands over what it has and ends `run()`), of the steps inside a call
  of the owner, and of the closer's join. Deadlines are not assumed to pass: `ItemWakesReceiver`
  and `JoinReturns` need none.
- `VoiceService`: `WF_vars(ListVoices)`, the calling thread and its HTTP request, which has a
  timeout. Nothing is assumed of the service's answers or of the clock.
- `TextChunker`: `WF_vars(Next)`, a loop on one thread that waits for nothing.
- `Playback`: weak fairness of the dispatcher, of both threads of `run()`, and of the child as long
  as it can write or exit. Signals and deaths need not happen.
- `SpeechSynthesizer`, `EdgeTts`, `Formats`: none; only safety is stated. Whether a call of
  `SpeechSynthesizer` returns depends on the client's callbacks.

## 5. Proofs

`tlapm` checks all of the following for every value of the constants that the named
assumptions allow.

**`SynthesisSessionProofs`.** `TypeCorrect` rests on `CallAssumption`, `ClockAssumption` and
`FramesAssumption`, which give the kind of each constant. That a frame is parsed to an error or
to a non-empty list of messages is a lemma (`FramesParsed`, with the loop of the metadata parser
in `BoundariesParsed`). Each other theorem has an inductive strengthening:

- `ReturnsClosed` (`Closed`): the connection is open only between `Connect` and `Close`.
- `NeverSpokenTwice` (`Counted`): the counters of the current chunk follow `attempt` and the
  place in the call; those of chunks not begun are zero.
- `CancelIsPrompt` (`CancelSeen`): a frame counted after `cancel()` means that the call has not
  polled since, or has left the loop.
- `OneTimeLine` (`Placed`): every boundary so far lies before the start of the next chunk, that
  is, `cumulative` for earlier chunks and `cumulative + boundary_end` for the current one.
- `CorrectionsReplaceEachOther` (`Corrected`): after a dated refusal `now + skew` lies between
  its Date and the service's clock. The corrections telescope, so their number does not matter.
- `OneRetryIsEnough` (`Recovers`): a corrected token is at most one window behind if the call is
  shorter than a window, so a second refusal is impossible.
- `PromiseKept`: the session implements `Synthesis`. The counters of the session are the sums of
  the promise over the chunks before the current one (`OnTime`), nothing is said of a chunk
  before its turn (`Spoken`), every item of the result stands where the promise places it
  (`InPlace`), and an error has its reason (`Justified`). `SumStep`, `SumAgree` and `SumMonotone`
  say what a sum over chunks is; a message said last moves no earlier chunk (`SumsKept`). With
  these each action is a step or a stutter of `Synthesis` (`StepPromise`), and when every chunk is
  spoken the result is the promised answer (`ResultIsTimeline`).

**`SpeechSynthesizerProofs`.** `TypeCorrect` is proved together with facts about where a call is
(`TypeInv`): the loop index is inside the answer in the loop, and nothing was synthesized before
the first call. On top of it `Used` (the object's history of calls and sessions), `Telling`
(what has been heard matches the loop index and ends with the terminal callback only when the
call is over) and `Saved` (which files are written at each place of `save()`) are inductive and
give `UsedOnce`, `CancelIsObeyed`, `InOrder`, `ToldOnce`, `FilesLast` and `OkMeansWritten`. The
last one has the premise `~FlushMayFail`, without which a lost buffer refutes it.

**`TextChunkerProofs`.** Lemmas about units come first: a unit begins where its unit begins
(`UnitBegins`), units do not overlap (`UnitsApart`), what is inside a unit and no continuation
byte is in an entity (`InsideEntity`), and an entity without `;` up to a place reaches to it
(`EntityReaches`). `EmitAdds` says once what stripping and appending do to the result. Then:

- `LimitKept` (`LimitInv`): no chunk reaches beyond `pos`, where the next one is cut.
- `WordsKept` (`WordsInv`): a split without a separator under it has none before it; this
  survives `AdjustEntity`, because a split on white space is never inside an entity.
- `NothingDivided` (`WholeInv`): the rest begins between two units; a split is between two units
  or inside an entity that begins after the rest; a split without progress is at white space.
  The second part makes moving to the `&` always progress, the third makes the forced step over
  one byte harmless.
- `NothingLeftOut`: from `WholeInv` and `EmitHolds`.
- `LinesAreKept` (`LinesInv`): a split with a newline before it is at one, and where a chunk holds
  a newline another one lies between its end and the beginning of the rest. `AdjustEntity` keeps
  it, because a split at a newline is never inside an entity.

**`WebSocketClientProofs`.** `TypeCorrect` needs `Counted` (a connection is opened only inside a
`connect()` that was counted). `NothingStale` and `OneThread` follow from `Fresh`: from the join
of the old run thread to the start of the new one there is none, the queue is cleared in
between, so what is queued or about to be pushed is of this connection. For `StreamImplemented`
the history of a connection is what was taken followed by the queue (`Split`); with it every step
of the client maps to one step of `FrameStream` or to none (`StepStream`).

**`PlaybackProofs`** covers `ProcessRunner` and `Playback`, for pipes, read buffers and outputs of
any size and any PATH.

- `NothingIsLeftOpen` (`Control`): which ends are open in either process, and that each end of
  the parent has an armed closer, follows from where `run()` and the child are.
- `ResultIsTheChild`, where signals do not arrive: a byte written is in the pipe or was read
  (`Ledger`), a child that ends with 0 owes nothing (`OwesNothing`), and a loop that ended at the
  end of its pipe has emptied it, because a pipe ends only with the child (`Drained`).
- `TempFilesAreCleared` (`InStep`, `Temporary`): a file that exists is known to the guard, and
  nothing of `run()` takes a step before its call or after its return.
- `PlayedOrReportedAlways` (`Verdict`): an exit code exists only at the end; 0 stands for a
  command line that asked for no playback or for a child that read a whole file and ended well, 1
  and 2 for an error that was printed, and an exception gets out only before there is a file or a
  child (`AbortLeavesNothing`).
- `TypeCorrect` also needs that `find_on_path` names a directory of PATH that is not empty
  (`FoundOnPath`), by the least index among those that hold ffplay.

**`VoiceServiceProofs`.** `GuessesDoNotLast` (`Corrected`): the date of a first refusal was the
service's time during this call (`DateOfCall`), and the correction by it replaces whatever the
skew was, guesses of earlier calls included. So the second token is made for a time between
that date and the service's, and is accepted unless the call lasts longer than a window.
`ListsAreAnswers` (`Listed`), for lists of any length: after n rounds the loop of the parser holds
the voices among the first n entries that the filter lets through, the one of rank r at place r
(`KeptStep`, `KeptRounds`). Ranks are cardinalities, so that each entry is there as often as the
answer has it. It rests on `BodiesAssumption` and `FiltersAssumption`.

**`EdgeTtsProofs`.** `EveryExitExplained` (`Reason`, `Untouched`): there is an exit code only at the
end, with it at most one complaint, and the places an exception can leave from are before the
first output. `NothingIsUnconfirmed` (`Asked`): nothing is asked for or written up to
the question, and whoever gets past it on a terminal has agreed. `FilesComeAfterTheAnswer`
(`Fed`, `OnDisk`): the loop has fed every boundary before its place, and files are touched each in
its own stage.

`OutputIsThereOrAnError` and `OutputIsABeginning` rest on two more: what the
line asks for, what is spoken and how much of it the loop has put on stdout (`Spoken`), and which
files and cues there are in each stage (`Written`); a stream that failed takes no more, so what
stdout holds is always a beginning (`WriteOutRouting`). `LinesAreReadAsWritten` is about every
command line: after n rounds the loop of a parser stands at a token, all before it were well
placed, and the members hold the last value of each option among them (`RoundStep`); so it fails
exactly on lines that are not well formed (`LoopReads`), and on a line without the options of one
program both tables say the same of each token (`OptionsAgree`). `LinesAssumption` and
`AnswersAssumption` say that tokens and answers are of their kind.

**`FormatsProofs`** has the pure functions, on inputs of any length. `AnsweredAlways` says that an
outcome is the function's value; everything else is about the functions.

- `DatesAreCounted`: from any date of the calendar to the next, in any year from 1970 on,
  `days_from_civil` grows by one (`DaysAreConsecutive`); there its quotients are floors
  (`DaysFloored`). Within a month and over the ends of most months this is
  arithmetic (`WithinMonth`, `MonthAfter`, `YearAfter`). The first of March is where the algorithm's
  year begins (`FirstOfMarch`): inside an era of 400 years the terms of the fourth and the
  hundredth year add the leap day (`NextYearOfEra`, `LeapInEra`), and at its end the era of 146097
  days does.
- `FramesAreReadAsSent`: after n rounds the metadata parser holds the boundaries among n entries,
  the one of rank r at place r (`FoundStep`, `FoundRounds`, `MessagesAreSpoken`); for audio,
  `AudioOrNot` and `LayoutIs` relate the checks of the parser to the layout.
- `TextsAreKept`: at each place the code and the table of the Unicode standard accept the same
  characters (`CharactersAgree`, one lemma for each length), and two scans with the same
  characters agree (`ScansAgree`). The escaped text holds what each byte stands for at a place of
  its own (`EscapeLays`), the reader takes exactly that from there (`ByteReadsBack`), and so all of
  it from the first place on (`EscapedReadsBack`).
- `RequestsAreReadBack`: a frame of n headers without line ends lies in n lines (`FrameLies`,
  `SerializedLies`). The first empty line is the one after them (`HeadersEnd`), the parser's loop
  finds these n lines (`HeadersSplit`), and a line is divided where the name ends
  (`HeaderIsRead`); the headers the program sends hold no line end, whatever the text
  (`ConfigFrameIs`, `SsmlFrameIs`). The other way round, lines written again are the section they
  were read from (`SectionKept`), so an accepted frame is the frame of its parts (`WireIsKept`).
  `NamesStay` is the same for voice names: a name spelled out is full and spells what it came
  from.
- `SubtitlesAreReadBack`: every boundary fed is a cue in its place (`FedIs`). A stable sort puts a
  cue after those that go before it (`EarlierIs`, `PlacesCompare`), so every place is taken by one
  (`OrderIs`: an injection of a finite set into itself is onto it). What `make_legal_content`
  copies stands on the lines of the text that hold a character (`LinesAreShown`, character by
  character in `AlikeStep`), so no line of a block is empty but its last and a reader takes each
  block as it was written (`BlockIs`, `BlockIsRead`). After n places the reader finds a block for
  each cue shown on them, numbered by those before it (`WrittenStep`, `DocumentIs`).

The assumptions of `Formats` give the kind of each input and nothing else: frames have the
fields the parser reads, texts are bytes, names, chunks and frames to be read back are sequences
of pieces, dates are what `sscanf` may store.

**Induction.** The theorems of the library on induction over data take an operator as a
parameter, which the installed provers cannot instantiate. Sets and functions take its place.
`Induction` is about a set of numbers that holds 0 and with each number the next; `RunExists` says
that a loop of n rounds has a sequence of states (`Runs`), `LoopExists` the same for a recursive
function. The recursive functions of the models that run from the front of a sequence to its end
are defined from values further on: `AheadExists` says that such a function exists (`LooksAhead`,
`Solves`), and `DownInduction` is induction from the end. All are proved from the well-foundedness of the natural numbers.

Only model-checked: every liveness property, since neither fairness nor ENABLED is within the
provers' reach. Every invariant of the passing runs is a theorem.

## 6. What is left out of the models

- ixwebsocket, OpenSSL, the HTTP library and the JSON reader are external. The models let them
  do whatever their use in this code allows.
- Numbers: `int64` overflow of offsets (29000 years of audio) and connect timeouts below one
  second, which WebSocketClient.cpp:129 rounds to 0.
- The JSON readers are given by what they find, `sscanf` by the fields it converted.
- Exceptions inside the library. `SynthesisSession`, `SpeechSynthesizer` and `VoiceService`
  describe calls that return; the `out_of_range` of the JSON reader leaves them by another way,
  which only the programs are modelled with. No memory (`bad_alloc`) and no threads (`system_error`
  of the `std::thread` at ProcessRunner.cpp:126) are not modelled anywhere; the second would end
  edge-playback with its temporary file left behind.
- A second child at a time: pipes are made without CLOEXEC, so a child forked elsewhere between
  `pipe()` and `close()` would hold a write end. The programs here never run two.
- Wording, help texts and logging; `VoiceFormatter`; SHA-256, hexadecimal and random identifiers;
  the patterns of rate, volume and pitch; the constants of the service and the request headers; the
  options `HttpClient` sets before its one call. They carry no state, and fixed examples settle
  them.
- `FfmpegAudioConverter::convert()`, which no program of the repository calls.

## 7. Plan

The order is by how much can go wrong.

1. `SynthesisSession` over `FrameStream` in place of the free transport, so that close, reuse
   and cancellation of session and client are checked together.
