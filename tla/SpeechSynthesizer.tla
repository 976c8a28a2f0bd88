------------------------- MODULE SpeechSynthesizer --------------------------
(***************************************************************************)
(* SpeechSynthesizer: one text, one call, three ways to get the speech:    *)
(* synthesize(), synthesize_stream() and save().                           *)
(*                                                                         *)
(* The client's thread makes calls one after the other; any thread, also   *)
(* the client's own from inside a callback, may call cancel().  The        *)
(* session behind synthesizer_ answers as Synthesis promises: chunks in    *)
(* order, or an error and nothing.  A chunk is "audio", a "word" or a      *)
(* "sentence" boundary, or an "early" word that starts before time zero.   *)
(***************************************************************************)
EXTENDS Integers, Sequences

CONSTANTS
  Answers,       \* the chunk sequences the session may return
  Listeners,     \* the sets of callbacks a client may give
  MaxCalls,      \* bound: calls the client makes
  FlushMayFail   \* TRUE: the disk may fill up when a file is closed

ASSUME CallsAssumption == MaxCalls \in Nat /\ FlushMayFail \in BOOLEAN

Kind == {"audio", "word", "sentence", "early"}
ASSUME AnswersAssumption == Answers \subseteq Seq(Kind)

Callbacks == {"on_audio", "on_boundary", "on_complete", "on_error"}
ASSUME ListenersAssumption == Listeners \subseteq SUBSET Callbacks

SessionError == {"network_error", "drm_error", "timeout", "protocol_error", "service_error"}
ErrorCode == SessionError \cup
  {"cancelled", "unsupported", "invalid_argument", "invalid_state", "io_error"}

VARIABLES
  cancelled,      \* cancel_token_
  proxy,          \* options_.proxy.has_value()
  config_valid,   \* validate_tts_config(config_)
  text,           \* what TextChunker makes of text_
  called,         \* called_
  pc,             \* where the call is
  op,             \* which call it is
  listeners,      \* the callbacks that are set
  want_srt,       \* subtitles_path.has_value()
  synthesis,      \* result of run_pipeline()
  next,           \* the chunk the loop of synthesize_stream() is at
  heard,          \* history: the callbacks of this call, in order
  media,          \* the file at media_path
  subtitles,      \* the file at subtitles_path
  returned,       \* result of the last call
  calls,          \* history: calls made
  sessions,       \* history: calls of synthesizer_
  cancelled_at,   \* history: where the call was when cancel() came first, "before" any
  late            \* history: chunks handed out after cancel()

object == <<proxy, config_valid, text>>
call == <<op, listeners, want_srt>>
files == <<media, subtitles>>
vars == <<cancelled, proxy, config_valid, text, called, pc, op, listeners, want_srt,
          synthesis, next, heard, media, subtitles, returned, calls, sessions,
          cancelled_at, late>>

IsBoundary(kind) == kind # "audio"
AudioOf(chunks) == {i \in DOMAIN chunks : ~IsBoundary(chunks[i])}
CuesOf(chunks) == {i \in DOMAIN chunks : IsBoundary(chunks[i])}

\* A file: as it was before the call, broken off by a failed write, or holding chunks.
Old == [state |-> "old", chunks |-> {}]
Torn == [state |-> "torn", chunks |-> {}]
Holding(chunks) == [state |-> "written", chunks |-> chunks]

\* A callback's argument: the chunk's place in the answer, or an error code.
Event(callback, chunk, code) == [callback |-> callback, chunk |-> chunk, code |-> code]

\* An optional callback is called if it is set.
Tell(callback, chunk, code) ==
  heard' = IF callback \in listeners
           THEN Append(heard, Event(callback, chunk, code)) ELSE heard

TellError(code) == Tell("on_error", 0, code)

Return(code) ==
  /\ pc' = "idle"
  /\ returned' = [op |-> op, code |-> code]

-----------------------------------------------------------------------------
(* The single-use guard and run_pipeline().                                *)

Guard(o) == called' = TRUE

Begin(o) ==
  /\ pc = "idle" /\ calls < MaxCalls
  /\ calls' = calls + 1
  /\ op' = o
  /\ \E l \in Listeners : listeners' = IF o = "stream" THEN l ELSE {}
  /\ want_srt' \in IF o = "save" THEN BOOLEAN ELSE {FALSE}
  /\ heard' = <<>> /\ next' = 1
  /\ IF called
     THEN /\ returned' = [op |-> o, code |-> "invalid_state"]
          /\ UNCHANGED <<called, pc>>
     ELSE /\ Guard(o)
          /\ pc' = "pipeline"
          /\ UNCHANGED returned
  /\ UNCHANGED <<cancelled, object, synthesis, files, sessions, cancelled_at, late>>

Synthesized(code, chunks) ==
  /\ synthesis' = [code |-> code, chunks |-> chunks]
  /\ pc' = "synthesized"

\* Everything before the session, in the order of the checks.
Pipeline ==
  /\ pc = "pipeline"
  /\ CASE cancelled -> Synthesized("cancelled", <<>>)
       [] ~cancelled /\ proxy -> Synthesized("unsupported", <<>>)
       [] ~cancelled /\ ~proxy /\ (~config_valid \/ text = "malformed") ->
            Synthesized("invalid_argument", <<>>)
       [] ~cancelled /\ ~proxy /\ config_valid /\ text = "blank" -> Synthesized("none", <<>>)
       [] OTHER -> pc' = "session" /\ UNCHANGED synthesis
  /\ UNCHANGED <<cancelled, object, called, call, next, heard, files, returned, calls,
                 sessions, cancelled_at, late>>

\* synthesizer_(config_, text_chunks) returns.
Session ==
  /\ pc = "session"
  /\ \/ \E chunks \in Answers : Synthesized("none", chunks)
     \/ \E code \in SessionError : Synthesized(code, <<>>)
     \/ cancelled /\ Synthesized("cancelled", <<>>)
  /\ sessions' = sessions + 1
  /\ UNCHANGED <<cancelled, object, called, call, next, heard, files, returned, calls,
                 cancelled_at, late>>

GoOn == pc' = (IF op = "stream" THEN "deliver" ELSE "collect") /\ UNCHANGED returned

\* Mutant: after on_error the call goes on to the delivery.
HandOver_GoesOn ==
  /\ pc = "synthesized"
  /\ \/ op = "stream" /\ synthesis.code # "none" /\ TellError(synthesis.code) /\ GoOn
     \/ (op = "synthesize" \/ (op = "save" /\ synthesis.code # "none"))
        /\ Return(synthesis.code) /\ UNCHANGED heard
     \/ op # "synthesize" /\ synthesis.code = "none" /\ GoOn /\ UNCHANGED heard
  /\ UNCHANGED <<cancelled, object, called, call, synthesis, next, files, calls, sessions,
                 cancelled_at, late>>

\* What each of the three calls does with the result.
HandOver ==
  /\ pc = "synthesized"
  /\ \/ op = "stream" /\ synthesis.code # "none"
        /\ TellError(synthesis.code) /\ Return(synthesis.code)
     \/ (op = "synthesize" \/ (op = "save" /\ synthesis.code # "none"))
        /\ Return(synthesis.code) /\ UNCHANGED heard
     \/ op # "synthesize" /\ synthesis.code = "none" /\ GoOn /\ UNCHANGED heard
  /\ UNCHANGED <<cancelled, object, called, call, synthesis, next, files, calls, sessions,
                 cancelled_at, late>>

-----------------------------------------------------------------------------
(* synthesize_stream(): the delivery loop.                                 *)

Stop == TellError("cancelled") /\ Return("cancelled")

\* Mutant: there is no check after the last chunk.
Deliver_NoLastCheck ==
  /\ pc = "deliver"
  /\ IF next <= Len(synthesis.chunks)
     THEN IF cancelled THEN Stop ELSE pc' = "callback" /\ UNCHANGED <<heard, returned>>
     ELSE pc' = "finish" /\ UNCHANGED <<heard, returned>>
  /\ UNCHANGED <<cancelled, object, called, call, synthesis, next, files, calls, sessions,
                 cancelled_at, late>>

\* The check before each chunk, and once more after the last.
Deliver ==
  /\ pc = "deliver"
  /\ IF cancelled
     THEN Stop
     ELSE /\ pc' = IF next <= Len(synthesis.chunks) THEN "callback" ELSE "finish"
          /\ UNCHANGED <<heard, returned>>
  /\ UNCHANGED <<cancelled, object, called, call, synthesis, next, files, calls, sessions,
                 cancelled_at, late>>

\* Mutant: the branches are swapped.
CallbackFor_Swapped(kind) == IF IsBoundary(kind) THEN "on_audio" ELSE "on_boundary"

CallbackFor(kind) == IF IsBoundary(kind) THEN "on_boundary" ELSE "on_audio"

\* The callback is entered; from here cancel() comes from inside or outside of it.
Callback ==
  /\ pc = "callback"
  /\ Tell(CallbackFor(synthesis.chunks[next]), next, "none")
  /\ late' = late + IF cancelled THEN 1 ELSE 0
  /\ pc' = "inside"
  /\ UNCHANGED <<cancelled, object, called, call, synthesis, next, files, returned, calls,
                 sessions, cancelled_at>>

CallbackReturns ==
  /\ pc = "inside"
  /\ next' = next + 1
  /\ pc' = "deliver"
  /\ UNCHANGED <<cancelled, object, called, call, synthesis, heard, files, returned, calls,
                 sessions, cancelled_at, late>>

Finish ==
  /\ pc = "finish"
  /\ Tell("on_complete", 0, "none") /\ Return("none")
  /\ UNCHANGED <<cancelled, object, called, call, synthesis, next, files, calls, sessions,
                 cancelled_at, late>>

-----------------------------------------------------------------------------
(* save(): subtitles are collected first, then the files are written.      *)

\* SubtitleBuilder::feed takes every boundary: one type, no negative start.
Feedable(chunks) ==
  \A i, j \in CuesOf(chunks) : chunks[i] # "early" /\ chunks[i] = chunks[j]

Collect ==
  /\ pc = "collect"
  /\ IF Feedable(synthesis.chunks)
     THEN pc' = "media" /\ UNCHANGED returned
     ELSE Return("invalid_argument")
  /\ UNCHANGED <<cancelled, object, called, call, synthesis, next, heard, files, calls,
                 sessions, cancelled_at, late>>

\* Mutant: the stream is not tested after the write.
WriteFile_NotTested(file, content, after) ==
  \/ file' = file /\ Return("io_error")
  \/ file' = Holding(content) /\ after
  \/ content # {} /\ file' = Torn /\ after

\* FileWriter: a file that cannot be opened stays as it is; one that can is
\* truncated.  What the stream still buffers reaches the disk, or does not,
\* when the destructor closes it, after the result was decided.
WriteFile(file, content, after) ==
  \/ file' = file /\ Return("io_error")
  \/ content # {} /\ file' = Torn /\ Return("io_error")
  \/ file' = Holding(content) /\ after
  \/ FlushMayFail /\ content # {} /\ file' = Torn /\ after

\* Mutant: a failed write of the media file is not looked at.
WriteMedia_Unchecked ==
  /\ pc = "media"
  /\ media' \in {media, Torn, Holding(AudioOf(synthesis.chunks))}
  /\ IF want_srt THEN pc' = "subtitles" /\ UNCHANGED returned ELSE Return("none")
  /\ UNCHANGED <<cancelled, object, called, call, synthesis, next, heard, subtitles, calls,
                 sessions, cancelled_at, late>>

WriteMedia ==
  /\ pc = "media"
  /\ WriteFile(media, AudioOf(synthesis.chunks),
               IF want_srt THEN pc' = "subtitles" /\ UNCHANGED returned ELSE Return("none"))
  /\ UNCHANGED <<cancelled, object, called, call, synthesis, next, heard, subtitles, calls,
                 sessions, cancelled_at, late>>

WriteSubtitles ==
  /\ pc = "subtitles"
  /\ WriteFile(subtitles, CuesOf(synthesis.chunks), Return("none"))
  /\ UNCHANGED <<cancelled, object, called, call, synthesis, next, heard, media, calls,
                 sessions, cancelled_at, late>>

-----------------------------------------------------------------------------
Cancel ==
  /\ ~cancelled
  /\ cancelled' = TRUE
  /\ cancelled_at' = IF calls = 0 THEN "before" ELSE pc
  /\ UNCHANGED <<object, called, pc, call, synthesis, next, heard, files, returned, calls,
                 sessions, late>>

Init ==
  /\ cancelled = FALSE /\ called = FALSE
  /\ proxy \in BOOLEAN /\ config_valid \in BOOLEAN
  /\ text \in {"speech", "blank", "malformed"}
  /\ pc = "idle" /\ op = "none" /\ listeners = {} /\ want_srt = FALSE
  /\ synthesis = [code |-> "none", chunks |-> <<>>]
  /\ next = 1 /\ heard = <<>> /\ media = Old /\ subtitles = Old
  /\ returned = [op |-> "none", code |-> "none"]
  /\ calls = 0 /\ sessions = 0 /\ cancelled_at = "never" /\ late = 0

Next ==
  \/ \E o \in {"synthesize", "stream", "save"} : Begin(o)
  \/ Pipeline \/ Session \/ HandOver
  \/ Deliver \/ Callback \/ CallbackReturns \/ Finish
  \/ Collect \/ WriteMedia \/ WriteSubtitles
  \/ Cancel

Spec == Init /\ [][Next]_vars

-----------------------------------------------------------------------------
(* Properties.                                                             *)

Where == {"idle", "pipeline", "session", "synthesized", "deliver", "callback", "inside",
          "finish", "collect", "media", "subtitles"}

File == [state : {"old", "torn", "written"}, chunks : SUBSET (Nat \ {0})]

\* The type invariant of the object and its calls (SpeechSynthesizer.cpp:154-296).
TypeOK ==
  /\ cancelled \in BOOLEAN /\ called \in BOOLEAN
  /\ proxy \in BOOLEAN /\ config_valid \in BOOLEAN
  /\ text \in {"speech", "blank", "malformed"}
  /\ pc \in Where
  /\ op \in {"none", "synthesize", "stream", "save"}
  /\ listeners \subseteq Callbacks /\ want_srt \in BOOLEAN
  /\ synthesis \in [code : {"none"} \cup ErrorCode, chunks : Seq(Kind)]
  /\ next \in 1..(Len(synthesis.chunks) + 1)
  /\ heard \in Seq([callback : Callbacks, chunk : Nat, code : {"none"} \cup ErrorCode])
  /\ media \in File /\ subtitles \in File
  /\ returned \in [op : {"none", "synthesize", "stream", "save"}, code : {"none"} \cup ErrorCode]
  /\ calls \in 0..MaxCalls /\ sessions \in Nat
  /\ cancelled_at \in Where \cup {"never", "before"}
  /\ late \in Nat

-----------------------------------------------------------------------------
(* synthesize_stream().                                                    *)

IsTerminal(event) == event.callback \in {"on_complete", "on_error"}
Ends == {k \in DOMAIN heard : IsTerminal(heard[k])}
Told == DOMAIN heard \ Ends

StreamReturned ==
  pc = "idle" /\ returned.op = "stream" /\ returned.code # "invalid_state"

\* The callback that is due for a chunk, if the client has set it.
ListenerOf(i) == IF synthesis.chunks[i] = "audio" THEN "on_audio" ELSE "on_boundary"
Handed == 1..(IF pc = "inside" THEN next ELSE next - 1)

\* Every chunk handed out so far went to the callback of its kind, once, in the order of
\* arrival; a chunk nobody listens to is passed over (StreamCallbacks.hpp:16-17,
\* SpeechSynthesizer.cpp:216-232).
DeliveredInOrder ==
  /\ \A i \in Handed : ListenerOf(i) \in listeners => \E k \in Told : heard[k].chunk = i
  /\ \A k, l \in Told : k < l => heard[k].chunk < heard[l].chunk
  /\ \A k \in Told :
       heard[k].chunk \in Handed /\ heard[k].callback = ListenerOf(heard[k].chunk)

\* A stream call that did its work ends with exactly one of on_complete and on_error, as its
\* last callback, and with the outcome it returns (SpeechSynthesizer.hpp:131-138); a callback
\* that is not set is the only reason for hearing neither.
OneTerminal ==
  LET due == IF returned.code = "none" THEN "on_complete" ELSE "on_error"
  IN StreamReturned =>
       IF due \in listeners
       THEN Ends = {Len(heard)} /\ heard[Len(heard)] = Event(due, 0, returned.code)
       ELSE Ends = {}

\* After cancel() no chunk is handed out, but for the one whose check had been made; a
\* cancel() that comes during the delivery, from inside a callback too, makes the call
\* report cancelled, also after the last chunk (StreamCallbacks.hpp:19-22).
CancelStopsDelivery ==
  /\ late <= 1
  /\ late = 1 => cancelled_at = "callback"
  /\ StreamReturned /\ cancelled_at \in {"deliver", "callback", "inside"} =>
       returned.code = "cancelled"

-----------------------------------------------------------------------------
(* One use of the object; save().                                          *)

\* Whatever calls the client makes, in whatever order, the service is asked once, and never
\* if the object was cancelled before its first call (SpeechSynthesizer.hpp:50-52, 112-113).
SingleUse ==
  /\ sessions <= 1
  /\ cancelled_at = "before" => sessions = 0
  /\ calls > 1 => pc = "idle" /\ returned.code = "invalid_state"

\* The files are touched only when the speech is complete and the subtitles can be made: any
\* error but io_error leaves both as they were, and the subtitle file only follows a media
\* file that was written (SpeechSynthesizer.cpp:264-295).
FilesInOrder ==
  /\ pc = "idle" /\ returned.code \notin {"none", "io_error", "invalid_state"} =>
       media = Old /\ subtitles = Old
  /\ subtitles # Old => media = Holding(AudioOf(synthesis.chunks)) \/ FlushMayFail

\* A save() that returns ok has written all of the audio, and all of the subtitles if they
\* were asked for; a write failure is an io_error (docs/HIGH_LEVEL_DESIGN.md:384).
SavedMeansWritten ==
  pc = "idle" /\ returned = [op |-> "save", code |-> "none"] =>
    /\ media = Holding(AudioOf(synthesis.chunks))
    /\ want_srt => subtitles = Holding(CuesOf(synthesis.chunks))
=============================================================================
