----------------------------- MODULE Synthesis ------------------------------
(***************************************************************************)
(* What one call of synthesize() promises, with no connection, retry or    *)
(* clock in sight: the text chunks are spoken one after the other; an      *)
(* answer holds everything the service said, in that order, on one time    *)
(* line; a failure holds nothing and has a reason.                         *)
(***************************************************************************)
EXTENDS Integers, SequencesExt, FiniteSetsExt

CONSTANTS
  NumChunks,   \* text chunks of the call
  Message      \* what the service may say: audio and boundary messages

VARIABLES
  speaking,    \* the text chunk that is being spoken
  delivered,   \* what the service has said for each text chunk
  cancelled,   \* somebody asked for the call to stop
  outcome      \* the answer, once there is one

vars == <<speaking, delivered, cancelled, outcome>>

Chunks == 1..NumChunks

Pending == [code |-> "pending", chunks |-> <<>>]

-----------------------------------------------------------------------------
(* The time line: every text chunk starts where the boundaries of the      *)
(* chunks before it end.                                                   *)

Ends(msgs) == {m.offset + m.duration : m \in {n \in Range(msgs) : n.kind = "boundary"}}

Length(msgs) == Max(Ends(msgs) \cup {0})

\* What f comes to over the text chunks before each one, and over all of them.
SumBefore(f) ==
  LET sum[c \in 1..(NumChunks + 1)] == IF c = 1 THEN 0 ELSE sum[c - 1] + f[c - 1]
  IN  sum

\* Where the time of each text chunk starts, and where its place in the answer.
StartOf == SumBefore([c \in Chunks |-> Length(delivered[c])])
PlaceOf == SumBefore([c \in Chunks |-> Len(delivered[c])])

Placed(msg, c) ==
  IF msg.kind = "audio"
  THEN [kind |-> "audio", bytes |-> msg.bytes, chunk |-> c]
  ELSE [kind |-> "boundary", type |-> msg.type, offset |-> StartOf[c] + msg.offset,
        duration |-> msg.duration, chunk |-> c]

ChunkAt(i) == CHOOSE c \in Chunks : PlaceOf[c] < i /\ i <= PlaceOf[c + 1]

Timeline ==
  [i \in 1..PlaceOf[NumChunks + 1] |->
     Placed(delivered[ChunkAt(i)][i - PlaceOf[ChunkAt(i)]], ChunkAt(i))]

HasAudio(c) == \E m \in Range(delivered[c]) : m.kind = "audio"

-----------------------------------------------------------------------------
Say(msg) ==
  /\ outcome = Pending /\ speaking \in Chunks
  /\ delivered' = [delivered EXCEPT ![speaking] = Append(@, msg)]
  /\ UNCHANGED <<speaking, cancelled, outcome>>

EndTurn ==
  /\ outcome = Pending /\ speaking \in Chunks
  /\ HasAudio(speaking)
  /\ speaking' = speaking + 1
  /\ UNCHANGED <<delivered, cancelled, outcome>>

Answer ==
  /\ outcome = Pending /\ speaking = NumChunks + 1
  /\ outcome' = [code |-> "none", chunks |-> Timeline]
  /\ UNCHANGED <<speaking, delivered, cancelled>>

\* A refusal and bad arguments show before the service says anything of a
\* chunk; the complaint that there is no audio is true.
Reason(code) ==
  \/ code = "cancelled" /\ cancelled
  \/ code = "service_error" /\ ~HasAudio(speaking)
  \/ code \in {"drm_error", "invalid_argument"} /\ delivered[speaking] = <<>>
  \/ code \in {"network_error", "timeout", "protocol_error"}

GiveUp ==
  /\ outcome = Pending /\ speaking \in Chunks
  /\ \E code \in {"cancelled", "service_error", "drm_error", "invalid_argument",
                  "network_error", "timeout", "protocol_error"} :
       /\ Reason(code)
       /\ outcome' = [code |-> code, chunks |-> <<>>]
  /\ UNCHANGED <<speaking, delivered, cancelled>>

Cancel ==
  /\ ~cancelled
  /\ cancelled' = TRUE
  /\ UNCHANGED <<speaking, delivered, outcome>>

Init ==
  /\ speaking = 1
  /\ delivered = [c \in Chunks |-> <<>>]
  /\ cancelled = FALSE
  /\ outcome = Pending

Next == (\E msg \in Message : Say(msg)) \/ EndTurn \/ Answer \/ GiveUp \/ Cancel

Spec == Init /\ [][Next]_vars
=============================================================================
