-------------------------- MODULE SynthesisSession --------------------------
(***************************************************************************)
(* SynthesisSession::synthesize: one call, one WebSocket connection per    *)
(* text chunk, one retry per chunk when the service refuses the DRM token, *)
(* and boundary offsets made absolute over the whole call.                 *)
(*                                                                         *)
(* Three parties take steps: the thread inside synthesize(), any thread    *)
(* that calls cancel(), and the clock of the machine.  The service and the *)
(* transport answer connect(), send_text() and receive() in any way        *)
(* IWebSocketClient allows.                                                *)
(***************************************************************************)
EXTENDS EdgeProtocol, EdgeTokenProvider

CONSTANTS
  NumChunks,    \* text_chunks.size()
  MaxRetries,   \* RetryPolicy::max_retries
  Frames,       \* the messages the service may send
  MaxItems,     \* bound: audio and boundary messages received in one call
  Drifts,       \* what the service's clock may be ahead of ours, in seconds
  BaseTime,     \* local clock when synthesize() is called
  MaxTime,      \* bound: local clock
  Honesty       \* the kinds of service there are: TRUE for an honest one

ASSUME CallAssumption ==
  /\ NumChunks \in Nat
  /\ MaxRetries \in Nat
  /\ MaxItems \in Nat
  /\ Honesty \subseteq BOOLEAN

ASSUME ClockAssumption ==
  /\ Drifts \subseteq Int
  /\ BaseTime \in Int
  /\ MaxTime \in Int

ASSUME FramesAssumption == Frames \subseteq TextFrame \cup BinaryFrame

ErrorCode == {"cancelled", "network_error", "drm_error", "timeout",
              "protocol_error", "service_error", "invalid_argument"}

Chunks == 1..NumChunks

\* A TtsChunk of the result, with the text chunk it was spoken for (history).
Item ==
  [kind : {"audio"}, bytes : Nat \ {0}, chunk : Chunks]
    \cup [kind : {"boundary"}, type : BoundaryType,
          offset : Int, duration : Int, chunk : Chunks]

VARIABLES
  cancelled,       \* CancellationToken: shared with the threads that cancel
  honest,          \* the service refuses stale tokens only, and dates its refusals
  config_valid,    \* validate_tts_config(tts_config)
  pc,              \* where synthesize() is
  chunk,           \* index of the current text chunk
  attempt,
  conn_error,      \* error of connect(): its code and the Date in its context
  audio_received,
  boundary_end,    \* chunk_boundary_end
  inbox,           \* messages of the current frame not yet handled
  turn_error,      \* chunk_result: "none" or the error code
  cumulative,      \* cumulative_subtitle_ticks
  all_chunks,
  result,          \* what synthesize() returned
  open,            \* the transport holds a connection
  connects,        \* history: connect() calls per chunk
  requests,        \* history: SSML frames sent per chunk
  delivered,       \* history: messages with data received per chunk
  frames_after_cancel   \* history: frames taken after cancel(), counted to 2

env  == <<cancelled, now, drift, honest>>
turn == <<audio_received, boundary_end, inbox, turn_error>>
hist == <<connects, requests, delivered, frames_after_cancel>>
vars == <<cancelled, now, drift, honest, skew, config_valid, pc, chunk, attempt, token,
          conn_error, audio_received, boundary_end, inbox, turn_error, cumulative,
          all_chunks, result, open, connects, requests, delivered,
          frames_after_cancel>>

Pending == [code |-> "pending", chunks |-> <<>>]
NoError == [code |-> "none", dated |-> FALSE, date |-> 0]

-----------------------------------------------------------------------------
(* RetryPolicy and the correction of the clock.                            *)

should_retry(code, n) == code = "drm_error" /\ n < MaxRetries

\* Mutant: the correction made so far is counted twice.
ObservedSkew_AddsUp == conn_error.date - now

\* The Date of the refusal against the local clock as it is corrected so far.
ObservedSkew == conn_error.date - (now + skew)

-----------------------------------------------------------------------------
(* synthesize().                                                           *)

Fail(code) ==
  /\ pc' = "done"
  /\ result' = [code |-> code, chunks |-> <<>>]

\* run_one_chunk returns an error; the connection is closed next.
FailTurn(code) ==
  /\ pc' = "close"
  /\ turn_error' = code
  /\ inbox' = <<>>

BeginChunk ==
  /\ pc = "chunk" /\ chunk <= NumChunks
  /\ IF cancelled
     THEN Fail("cancelled") /\ UNCHANGED attempt
     ELSE pc' = "attempt" /\ attempt' = 0 /\ UNCHANGED result
  /\ UNCHANGED <<env, skew, config_valid, chunk, token, conn_error, turn,
                 cumulative, all_chunks, open, hist>>

Return ==
  /\ pc = "chunk" /\ chunk > NumChunks
  /\ pc' = "done"
  /\ result' = [code |-> "none", chunks |-> all_chunks]
  /\ UNCHANGED <<env, skew, config_valid, chunk, attempt, token, conn_error,
                 turn, cumulative, all_chunks, open, hist>>

\* A new token for every attempt.
BeginAttempt ==
  /\ pc = "attempt"
  /\ token' = sec_ms_gec(now, skew)
  /\ pc' = "connect"
  /\ UNCHANGED <<env, skew, config_valid, chunk, attempt, conn_error, turn,
                 cumulative, all_chunks, result, open, hist>>

\* Mutant: audio_received is declared outside of run_one_chunk.
ConnectSucceeds_AudioKept ==
  /\ honest => TokenAccepted
  /\ open' = TRUE
  /\ boundary_end' = 0
  /\ pc' = "config"
  /\ UNCHANGED <<conn_error, audio_received>>

ConnectSucceeds ==
  /\ honest => TokenAccepted
  /\ open' = TRUE
  /\ audio_received' = FALSE
  /\ boundary_end' = 0
  /\ pc' = "config"
  /\ UNCHANGED conn_error

ConnectRefused ==
  /\ honest => ~TokenAccepted
  /\ \E dated \in {honest, TRUE} :
       conn_error' = [code |-> "drm_error", dated |-> dated,
                      date |-> IF dated THEN ServerTime ELSE 0]
  /\ pc' = "refused"
  /\ UNCHANGED <<open, audio_received, boundary_end>>

ConnectFails ==
  /\ conn_error' = [code |-> "network_error", dated |-> FALSE, date |-> 0]
  /\ pc' = "refused"
  /\ UNCHANGED <<open, audio_received, boundary_end>>

Connect ==
  /\ pc = "connect"
  /\ ConnectSucceeds \/ ConnectRefused \/ ConnectFails
  /\ connects' = [connects EXCEPT ![chunk] = @ + 1]
  /\ UNCHANGED <<env, skew, config_valid, chunk, attempt, token, inbox, turn_error,
                 cumulative, all_chunks, result, requests, delivered,
                 frames_after_cancel>>

\* Mutant: the Date of the refusal is not used.
CorrectClock_Missing == UNCHANGED skew

CorrectClock ==
  IF conn_error.dated THEN adjust_clock_skew(ObservedSkew) ELSE UNCHANGED skew

HandleRefusal ==
  /\ pc = "refused"
  /\ IF should_retry(conn_error.code, attempt)
     THEN /\ CorrectClock
          /\ attempt' = attempt + 1
          /\ pc' = "attempt"
          /\ UNCHANGED result
     ELSE Fail(conn_error.code) /\ UNCHANGED <<skew, attempt>>
  /\ UNCHANGED <<env, config_valid, chunk, token, conn_error, turn, cumulative,
                 all_chunks, open, hist>>

SendConfig ==
  /\ pc = "config"
  /\ \/ pc' = "ssml" /\ UNCHANGED <<turn_error, inbox>>
     \/ FailTurn("network_error")
  /\ UNCHANGED <<env, skew, config_valid, chunk, attempt, token, conn_error,
                 audio_received, boundary_end, cumulative, all_chunks, result,
                 open, hist>>

\* build_ssml_frame validates the configuration before anything is sent.
SendSsml ==
  /\ pc = "ssml"
  /\ \/ /\ ~config_valid
        /\ FailTurn("invalid_argument")
        /\ UNCHANGED requests
     \/ /\ config_valid
        /\ requests' = [requests EXCEPT ![chunk] = @ + 1]
        /\ \/ pc' = "poll" /\ UNCHANGED <<turn_error, inbox>>
           \/ FailTurn("network_error")
  /\ UNCHANGED <<env, skew, config_valid, chunk, attempt, token, conn_error,
                 audio_received, boundary_end, cumulative, all_chunks, result,
                 open, connects, delivered, frames_after_cancel>>

\* Mutant: cancellation is looked at between chunks only.
PollCancel_Missing ==
  /\ pc = "poll"
  /\ pc' = "receive"
  /\ UNCHANGED <<env, skew, config_valid, chunk, attempt, token, conn_error, turn,
                 cumulative, all_chunks, result, open, hist>>

PollCancel ==
  /\ pc = "poll"
  /\ IF cancelled
     THEN FailTurn("cancelled")
     ELSE pc' = "receive" /\ UNCHANGED <<turn_error, inbox>>
  /\ UNCHANGED <<env, skew, config_valid, chunk, attempt, token, conn_error,
                 audio_received, boundary_end, cumulative, all_chunks, result,
                 open, hist>>

HasData(msgs) == msgs[1].kind \in {"audio", "boundary"}

ReceiveFrame(frame) ==
  LET parsed == parse_incoming(frame) IN
  IF parsed.code = "none"
  THEN /\ HasData(parsed.msgs) =>
            Len(all_chunks) + Len(parsed.msgs) <= MaxItems    \* bound
       /\ inbox' = parsed.msgs
       /\ pc' = "dispatch"
       /\ UNCHANGED turn_error
  ELSE FailTurn(parsed.code)

Receive ==
  /\ pc = "receive"
  /\ \/ /\ \E frame \in Frames : ReceiveFrame(frame)
        /\ frames_after_cancel' = IF cancelled /\ frames_after_cancel < 2    \* bound
                                   THEN frames_after_cancel + 1
                                   ELSE frames_after_cancel
     \/ /\ \E code \in {"timeout", "network_error"} : FailTurn(code)
        /\ UNCHANGED frames_after_cancel
  /\ UNCHANGED <<env, skew, config_valid, chunk, attempt, token, conn_error,
                 audio_received, boundary_end, cumulative, all_chunks, result,
                 open, connects, requests, delivered>>

\* The loop over the messages of one frame goes on, or back to the next frame.
NextMessage ==
  /\ inbox' = Tail(inbox)
  /\ pc' = IF Tail(inbox) = <<>> THEN "poll" ELSE "dispatch"
  /\ UNCHANGED turn_error

Audio(msg) == [kind |-> "audio", bytes |-> msg.bytes, chunk |-> chunk]

HandleAudio ==
  /\ audio_received' = TRUE
  /\ all_chunks' = Append(all_chunks, Audio(Head(inbox)))
  /\ delivered' = [delivered EXCEPT ![chunk] = Append(@, Head(inbox))]
  /\ NextMessage
  /\ UNCHANGED boundary_end

RawEnd(msg) == msg.offset + msg.duration

\* Mutant: the last boundary counts, not the latest.
Later_Last(x, y) == y

Later(x, y) == IF y > x THEN y ELSE x

Boundary(msg) ==
  [kind |-> "boundary", type |-> msg.type, offset |-> msg.offset + cumulative,
   duration |-> msg.duration, chunk |-> chunk]

HandleBoundary ==
  /\ boundary_end' = Later(boundary_end, RawEnd(Head(inbox)))
  /\ all_chunks' = Append(all_chunks, Boundary(Head(inbox)))
  /\ delivered' = [delivered EXCEPT ![chunk] = Append(@, Head(inbox))]
  /\ NextMessage
  /\ UNCHANGED audio_received

\* What is left of the frame is dropped; a turn without audio is an error.
HandleTurnEnd ==
  /\ pc' = "close"
  /\ inbox' = <<>>
  /\ turn_error' = IF audio_received THEN "none" ELSE "service_error"
  /\ UNCHANGED <<audio_received, boundary_end, all_chunks, delivered>>

Dispatch ==
  /\ pc = "dispatch"
  /\ \/ Head(inbox).kind = "audio" /\ HandleAudio
     \/ Head(inbox).kind = "boundary" /\ HandleBoundary
     \/ Head(inbox).kind = "turn_end" /\ HandleTurnEnd
     \/ /\ Head(inbox).kind = "ignored"
        /\ NextMessage
        /\ UNCHANGED <<audio_received, boundary_end, all_chunks, delivered>>
  /\ UNCHANGED <<env, skew, config_valid, chunk, attempt, token, conn_error,
                 cumulative, result, open, connects, requests, frames_after_cancel>>

\* Mutant: an early return skips close().
Close_OnSuccessOnly ==
  /\ pc = "close"
  /\ IF turn_error = "none"
     THEN /\ open' = FALSE
          /\ cumulative' = cumulative + boundary_end
          /\ chunk' = chunk + 1
          /\ pc' = "chunk"
          /\ UNCHANGED result
     ELSE Fail(turn_error) /\ UNCHANGED <<open, cumulative, chunk>>
  /\ UNCHANGED <<env, skew, config_valid, attempt, token, conn_error, turn,
                 all_chunks, hist>>

\* Mutant: a turn that times out is tried again.
Close_RetriesTimeout ==
  /\ pc = "close"
  /\ open' = FALSE
  /\ \/ /\ turn_error = "timeout" /\ attempt < MaxRetries
        /\ attempt' = attempt + 1
        /\ pc' = "attempt"
        /\ UNCHANGED <<cumulative, chunk, result>>
     \/ /\ turn_error = "none"
        /\ cumulative' = cumulative + boundary_end
        /\ chunk' = chunk + 1
        /\ pc' = "chunk"
        /\ UNCHANGED <<attempt, result>>
     \/ /\ turn_error # "none"
        /\ turn_error # "timeout" \/ attempt = MaxRetries
        /\ Fail(turn_error)
        /\ UNCHANGED <<attempt, cumulative, chunk>>
  /\ UNCHANGED <<env, skew, config_valid, token, conn_error, turn, all_chunks, hist>>

Close ==
  /\ pc = "close"
  /\ open' = FALSE
  /\ IF turn_error = "none"
     THEN /\ cumulative' = cumulative + boundary_end
          /\ chunk' = chunk + 1
          /\ pc' = "chunk"
          /\ UNCHANGED result
     ELSE Fail(turn_error) /\ UNCHANGED <<cumulative, chunk>>
  /\ UNCHANGED <<env, skew, config_valid, attempt, token, conn_error, turn,
                 all_chunks, hist>>

-----------------------------------------------------------------------------
(* The other threads and the clock.                                        *)

Cancel ==
  /\ ~cancelled
  /\ cancelled' = TRUE
  /\ UNCHANGED <<now, drift, honest, skew, config_valid, pc, chunk, attempt, token,
                 conn_error, turn, cumulative, all_chunks, result, open, hist>>

Tick ==
  /\ pc # "done" /\ now < MaxTime
  /\ now' = now + 1
  /\ UNCHANGED <<cancelled, drift, honest, skew, config_valid, pc, chunk, attempt, token,
                 conn_error, turn, cumulative, all_chunks, result, open, hist>>

Init ==
  /\ cancelled = FALSE /\ now = BaseTime /\ skew = 0
  /\ drift \in Drifts /\ honest \in Honesty
  /\ config_valid \in BOOLEAN
  /\ pc = "chunk" /\ chunk = 1 /\ attempt = 0 /\ token = 0
  /\ conn_error = NoError
  /\ audio_received = FALSE /\ boundary_end = 0 /\ inbox = <<>> /\ turn_error = "none"
  /\ cumulative = 0 /\ all_chunks = <<>> /\ result = Pending /\ open = FALSE
  /\ connects = [c \in Chunks |-> 0]
  /\ requests = [c \in Chunks |-> 0]
  /\ delivered = [c \in Chunks |-> <<>>]
  /\ frames_after_cancel = 0

Session ==
  \/ BeginChunk \/ Return \/ BeginAttempt \/ Connect \/ HandleRefusal
  \/ SendConfig \/ SendSsml \/ PollCancel \/ Receive \/ Dispatch \/ Close

Next == Session \/ Cancel \/ Tick

\* The calling thread is scheduled, and every call it makes returns: connect()
\* and receive() have timeouts.  Nothing is assumed of the other parties.
Spec == Init /\ [][Next]_vars /\ WF_vars(Session)
-----------------------------------------------------------------------------
(* Properties.                                                             *)

DataMessage == {m \in Message : m.kind \in {"audio", "boundary"}}

\* The type invariant of synthesize() and of what it shares (SynthesisSession.cpp:138-225).
TypeOK ==
  /\ cancelled \in BOOLEAN /\ now \in Int /\ skew \in Int
  /\ drift \in Int /\ honest \in BOOLEAN
  /\ config_valid \in BOOLEAN
  /\ pc \in {"chunk", "attempt", "connect", "refused", "config", "ssml", "poll",
             "receive", "dispatch", "close", "done"}
  /\ chunk \in 1..(NumChunks + 1)
  /\ pc \notin {"chunk", "done"} => chunk \in Chunks
  /\ attempt \in 0..MaxRetries
  /\ token \in Int
  /\ conn_error \in [code : {"none"} \cup ErrorCode, dated : BOOLEAN, date : Int]
  /\ audio_received \in BOOLEAN
  /\ boundary_end \in Nat
  /\ inbox \in Seq(Message)
  /\ pc = "dispatch" => inbox # <<>>
  /\ turn_error \in {"none"} \cup ErrorCode
  /\ cumulative \in Nat
  /\ all_chunks \in Seq(Item)
  /\ result \in [code : {"pending", "none"} \cup ErrorCode, chunks : Seq(Item)]
  /\ open \in BOOLEAN
  /\ connects \in [Chunks -> Nat]
  /\ requests \in [Chunks -> Nat]
  /\ delivered \in [Chunks -> Seq(DataMessage)]
  /\ frames_after_cancel \in Nat

\* synthesize() never returns with the connection open, whichever of its exits
\* it takes (SynthesisSession.cpp:202-216; SynthesisSession.hpp:79).
ClosedOnReturn == result # Pending => ~open

\* A text chunk is sent to the service at most once and connect() is called at
\* most 1 + max_retries times for it: the retry repeats the upgrade request,
\* never the speech (SynthesisSession.cpp:164-221).
SpokenOnce ==
  \A c \in Chunks : requests[c] <= 1 /\ connects[c] <= 1 + MaxRetries

\* After cancel() at most the frame receive() was already waiting for is taken
\* from the service (SynthesisSession.cpp:83-90, 153-156).
CancelStopsReading == frames_after_cancel <= 1

\* On the time line of the result a word of a later text chunk never starts
\* before a word of an earlier chunk has ended, provided the service's own
\* offsets are not negative (SynthesisSession.cpp:104-113, 161, 219).
OffsetsNonNegative ==
  \A frame \in Frames :
    LET msgs == parse_incoming(frame).msgs
    IN  \A i \in DOMAIN msgs : msgs[i].kind = "boundary" => msgs[i].offset >= 0

BoundariesInOrder ==
  OffsetsNonNegative =>
    \A i, j \in DOMAIN all_chunks :
      /\ all_chunks[i].kind = "boundary" /\ all_chunks[j].kind = "boundary"
      /\ all_chunks[i].chunk < all_chunks[j].chunk
      => all_chunks[i].offset + all_chunks[i].duration <= all_chunks[j].offset

\* The token of a retry names a window between the Date of the refusal and the
\* service's clock, however often the clock was corrected before: corrections
\* replace one another, they do not add up (EdgeTokenProvider.cpp:17-42, 49-52
\* and SynthesisSession.cpp:187-200).
RetryTokenFollowsService ==
  pc = "connect" /\ attempt > 0 /\ conn_error.dated =>
    token \in (conn_error.date \div Window)..(ServerTime \div Window)

\* Against a service that refuses only tokens of another window and dates its
\* refusals, a wrong local clock never makes a call fail, as long as the call
\* takes less than a window (SynthesisSession.cpp:186-203).
WrongClockRecovered ==
  honest /\ MaxRetries >= 1 /\ MaxTime - BaseTime < Window => result.code # "drm_error"

\* A cancelled call returns, even if the service would talk for ever
\* (SynthesisSession.cpp:82-90).
CancelledCallReturns == cancelled ~> pc = "done"
=============================================================================
