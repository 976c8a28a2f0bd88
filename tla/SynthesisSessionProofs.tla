----------------------- MODULE SynthesisSessionProofs -----------------------
(***************************************************************************)
(* Proofs about SynthesisSession: its type invariant and its safety        *)
(* invariants, for any number of text chunks and retries and for any set   *)
(* of frames.                                                              *)
(***************************************************************************)
EXTENDS SynthesisSessionPromise, WellFoundedInduction, TLAPS

-----------------------------------------------------------------------------
(* Induction over the natural numbers, and what a loop computes.           *)

LEMMA Induction ==
  ASSUME NEW S, 0 \in S, \A k \in Nat : k \in S => k + 1 \in S
  PROVE  \A k \in Nat : k \in S
<1> DEFINE I == Nat \ S
<1>1. SUFFICES ASSUME I # {} PROVE FALSE
  OBVIOUS
<1>2. PICK k \in I : \A j \in I : <<j, k>> \notin OpToRel(<, Nat)
  BY <1>1, NatLessThanWellFounded, WFMin, Zenon
<1>3. k \in Nat /\ k # 0
  OBVIOUS
<1>4. k - 1 \in Nat /\ <<k - 1, k>> \in OpToRel(<, Nat)
  BY <1>3 DEF OpToRel
<1>5. k - 1 \in S
  BY <1>2, <1>4
<1>6. (k - 1) + 1 \in S
  BY <1>4, <1>5
<1> QED
  BY <1>3, <1>6

\* g holds the values of a loop of n rounds that starts with d.
Runs(g, n, d, step) == g[0] = d /\ \A k \in 0..(n - 1) : g[k + 1] = step[<<k, g[k]>>]

LEMMA RunExists ==
  ASSUME NEW n \in Nat, NEW D, NEW d \in D, NEW step \in [(0..(n - 1)) \X D -> D]
  PROVE  \E g \in [0..n -> D] : Runs(g, n, d, step)
<1> DEFINE S == {m \in Nat : m <= n => \E g \in [0..m -> D] : Runs(g, m, d, step)}
<1>1. 0 \in S
  <2> DEFINE g == [k \in 0..0 |-> d]
  <2>1. g \in [0..0 -> D] /\ Runs(g, 0, d, step)
    BY DEF Runs
  <2> HIDE DEF g
  <2> QED
    BY <2>1
<1>2. ASSUME NEW m \in Nat, m \in S PROVE m + 1 \in S
  <2>1. SUFFICES ASSUME m + 1 <= n
                 PROVE  \E h \in [0..(m + 1) -> D] : Runs(h, m + 1, d, step)
    OBVIOUS
  <2>2. m <= n
    BY <2>1
  <2>3. PICK g \in [0..m -> D] : Runs(g, m, d, step)
    BY <1>2, <2>2
  <2> DEFINE h == [k \in 0..(m + 1) |-> IF k = m + 1 THEN step[<<m, g[m]>>] ELSE g[k]]
  <2>4. m \in 0..(n - 1) /\ g[m] \in D
    BY <2>1
  <2>5. step[<<m, g[m]>>] \in D
    BY <2>4
  <2>6. h \in [0..(m + 1) -> D]
    BY <2>5
  <2>7. \A k \in 0..m : h[k] = g[k]
    OBVIOUS
  <2>8. h[m + 1] = step[<<m, g[m]>>]
    OBVIOUS
  <2> HIDE DEF h
  <2>9. h[0] = d
    BY <2>3, <2>7 DEF Runs
  <2>10. ASSUME NEW k \in 0..m PROVE h[k + 1] = step[<<k, h[k]>>]
    <3>1. CASE k = m
      BY <2>7, <2>8, <3>1
    <3>2. CASE k # m
      <4>1. k \in 0..(m - 1) /\ k + 1 \in 0..m
        BY <3>2
      <4>2. g[k + 1] = step[<<k, g[k]>>]
        BY <2>3, <4>1 DEF Runs
      <4> QED
        BY <2>7, <4>1, <4>2
    <3> QED
      BY <3>1, <3>2
  <2>11. Runs(h, m + 1, d, step)
    <3>1. 0..((m + 1) - 1) = 0..m
      OBVIOUS
    <3> QED
      BY <2>9, <2>10, <3>1 DEF Runs
  <2> QED
    BY <2>6, <2>11
<1> HIDE DEF S
<1>3. n \in S
  BY <1>1, <1>2, Induction
<1> QED
  BY <1>3 DEF S

-----------------------------------------------------------------------------
(* What a frame of the service may be parsed to.                           *)

\* The loop of the metadata parser over arrays of any length.
LEMMA BoundariesParsed ==
  ASSUME NEW items \in Seq(MetadataItem)
  PROVE  BoundaryMessages(items) \in Seq(Message)
<1> DEFINE D == Seq(Message)
           N == Len(items)
           After(k, msgs) == IF IsBoundary(items[k + 1])
                             THEN Append(msgs, BoundaryMessage(items[k + 1])) ELSE msgs
           step == [p \in (0..(N - 1)) \X D |-> After(p[1], p[2])]
           Body(h) == [i \in 0..Len(items) |->
                         IF i = 0 THEN <<>>
                         ELSE IF IsBoundary(items[i])
                              THEN Append(h[i - 1], BoundaryMessage(items[i])) ELSE h[i - 1]]
<1>1. N \in Nat /\ <<>> \in D
  OBVIOUS
<1>2. ASSUME NEW k \in 0..(N - 1), NEW msgs \in D PROVE After(k, msgs) \in D
  <2>1. items[k + 1] \in MetadataItem
    <3>1. k + 1 \in DOMAIN items
      BY <1>1
    <3> QED BY <3>1
  <2>2. IsBoundary(items[k + 1]) => BoundaryMessage(items[k + 1]) \in Message
    BY <2>1 DEF MetadataItem, IsBoundary, BoundaryMessage, Message
  <2> QED BY <2>2
<1>3. PICK g \in [0..N -> D] : Runs(g, N, <<>>, step)
  <2>1. step \in [(0..(N - 1)) \X D -> D]
    <3> HIDE DEF D, After
    <3> QED BY <1>2
  <2> HIDE DEF step, D, N
  <2> QED BY <1>1, <2>1, RunExists
<1>4. g[0] = <<>> /\ \A k \in 0..(N - 1) : g[k + 1] = After(k, g[k])
  <2>1. ASSUME NEW k \in 0..(N - 1) PROVE g[k + 1] = After(k, g[k])
    <3>1. k \in 0..N /\ g[k] \in D
      BY <1>1
    <3>2. g[k + 1] = step[<<k, g[k]>>]
      BY <1>3 DEF Runs
    <3>3. step[<<k, g[k]>>] = After(k, g[k])
      <4> HIDE DEF D, After
      <4> QED BY <3>1
    <3> QED BY <3>2, <3>3
  <2> QED BY <1>3, <2>1 DEF Runs
<1>5. g = Body(g)
  <2>1. ASSUME NEW i \in 0..N
        PROVE  g[i] = IF i = 0 THEN <<>>
                      ELSE IF IsBoundary(items[i])
                           THEN Append(g[i - 1], BoundaryMessage(items[i])) ELSE g[i - 1]
    <3>1. i = 0 \/ (i - 1 \in 0..(N - 1) /\ (i - 1) + 1 = i)
      BY <1>1
    <3> QED BY <1>4, <3>1
  <2>2. g = [i \in 0..N |-> g[i]]
    OBVIOUS
  <2> QED BY <2>1, <2>2
<1> DEFINE found == CHOOSE h : h = Body(h)
<1>6. found = Body(found)
  <2> HIDE DEF Body
  <2> QED BY <1>5
<1>7. BoundaryMessages(items) = found[N]
  BY DEF BoundaryMessages
<1> HIDE DEF found
<1> DEFINE S == {i \in Nat : i <= N => found[i] \in D}
<1>8. 0 \in S
  <2>1. found[0] = <<>>
    BY <1>1, <1>6
  <2> QED BY <1>1, <2>1
<1>9. ASSUME NEW k \in Nat, k \in S PROVE k + 1 \in S
  <2>1. SUFFICES ASSUME k + 1 <= N PROVE found[k + 1] \in D
    OBVIOUS
  <2>2. k \in 0..(N - 1) /\ k + 1 \in 0..N /\ k + 1 # 0 /\ (k + 1) - 1 = k /\ found[k] \in D
    BY <1>1, <1>9, <2>1
  <2>3. found[k + 1] = After(k, found[k])
    BY <1>6, <2>2
  <2> HIDE DEF D, After
  <2> QED BY <1>2, <2>2, <2>3
<1>10. N \in S
  <2> HIDE DEF S, N
  <2> QED BY <1>1, <1>8, <1>9, Induction
<1> QED BY <1>1, <1>7, <1>10

\* Every frame is an error or some messages.
LEMMA FramesParsed ==
  ASSUME NEW frame \in Frames
  PROVE  /\ parse_incoming(frame).code \in {"none", "protocol_error"}
         /\ parse_incoming(frame).msgs \in Seq(Message)
         /\ parse_incoming(frame).code = "none" => parse_incoming(frame).msgs # <<>>
<1> DEFINE Right(outcome) == /\ outcome.code \in {"none", "protocol_error"}
                             /\ outcome.msgs \in Seq(Message)
                             /\ outcome.code = "none" => outcome.msgs # <<>>
<1>1. Right(ProtocolError)
  BY DEF ProtocolError
<1>2. ASSUME NEW kind \in {"turn_end", "ignored"} PROVE Right(Just(kind))
  <2>1. [kind |-> kind] \in Message
    BY DEF Message
  <2> QED BY <2>1 DEF Just, Parsed
<1>3. CASE frame \in TextFrame
  <2>1. parse_incoming(frame) = parse_text_frame(frame) /\ frame.items \in Seq(MetadataItem)
    BY <1>3 DEF TextFrame, parse_incoming
  <2>2. BoundaryMessages(frame.items) \in Seq(Message)
    BY <2>1, BoundariesParsed
  <2>3. BoundaryMessages(frame.items) # <<>> => Right(Parsed(BoundaryMessages(frame.items)))
    BY <2>2 DEF Parsed
  <2>4. \/ parse_text_frame(frame) = ProtocolError
        \/ \E kind \in {"turn_end", "ignored"} : parse_text_frame(frame) = Just(kind)
        \/ /\ parse_text_frame(frame) = Parsed(BoundaryMessages(frame.items))
           /\ BoundaryMessages(frame.items) # <<>>
    BY DEF parse_text_frame
  <2> HIDE DEF Right
  <2>5. Right(parse_text_frame(frame))
    BY <1>1, <1>2, <2>3, <2>4
  <2> QED BY <2>1, <2>5 DEF Right
<1>4. CASE frame \in BinaryFrame
  <2> DEFINE n == body_len(frame)
             audio == Parsed(<<[kind |-> "audio", bytes |-> n]>>)
  <2>1. parse_incoming(frame) = parse_binary_frame(frame)
    BY <1>4 DEF BinaryFrame, parse_incoming
  <2>2. LengthsAccepted(frame) => n \in Nat
    BY <1>4 DEF BinaryFrame, LengthsAccepted, body_len
  <2>3. n \in Nat /\ n # 0 => Right(audio)
    <3>1. SUFFICES ASSUME n \in Nat, n # 0 PROVE Right(audio)
      OBVIOUS
    <3>2. [kind |-> "audio", bytes |-> n] \in Message
      BY <3>1 DEF Message
    <3> QED BY <3>2 DEF Parsed
  <2>4. \/ parse_binary_frame(frame) = ProtocolError
        \/ parse_binary_frame(frame) = Just("ignored")
        \/ parse_binary_frame(frame) = audio /\ LengthsAccepted(frame) /\ n # 0
    BY DEF parse_binary_frame
  <2> HIDE DEF Right, audio, n
  <2>5. Right(parse_binary_frame(frame))
    BY <1>1, <1>2, <2>2, <2>3, <2>4
  <2> QED BY <2>1, <2>5 DEF Right
<1> QED BY <1>3, <1>4, FramesAssumption

-----------------------------------------------------------------------------
(* Lemmas about the parts an action is built from.                         *)

\* An audio message becomes an audio item.
LEMMA AudioItem ==
  ASSUME NEW msg \in Message, msg.kind = "audio", chunk \in Chunks
  PROVE  Audio(msg) \in Item /\ msg \in DataMessage
<1>1. msg \in [kind : {"audio"}, bytes : Nat \ {0}]
  BY DEF Message
<1> QED
  BY <1>1 DEF Audio, Item, DataMessage

\* A boundary message becomes a boundary item.
LEMMA BoundaryItem ==
  ASSUME NEW msg \in Message, msg.kind = "boundary", chunk \in Chunks, cumulative \in Nat
  PROVE  /\ Boundary(msg) \in Item /\ msg \in DataMessage
         /\ RawEnd(msg) \in Int /\ msg.offset \in Int /\ msg.duration \in Int
<1>1. msg \in [kind : {"boundary"}, type : BoundaryType, offset : Int, duration : Int]
  BY DEF Message
<1>2. /\ msg.type \in BoundaryType /\ msg.offset \in Int /\ msg.duration \in Int
      /\ msg.offset + cumulative \in Int
  BY <1>1
<1>3. Boundary(msg) \in [kind : {"boundary"}, type : BoundaryType,
                          offset : Int, duration : Int, chunk : Chunks]
  BY <1>2 DEF Boundary
<1> QED
  BY <1>2, <1>3 DEF Item, DataMessage, RawEnd

\* The end of a chunk's boundaries never moves back.
LEMMA LaterIsLater ==
  ASSUME NEW x \in Nat, NEW y \in Int
  PROVE  Later(x, y) \in Nat /\ x <= Later(x, y) /\ y <= Later(x, y)
BY DEF Later

\* The window a time lies in.
LEMMA WindowType ==
  ASSUME NEW t \in Int
  PROVE  t \div Window \in Int
BY ClockAssumption, WindowAssumption

\* The sets of the variables that an error changes.
ResultType == [code : {"pending", "none"} \cup ErrorCode, chunks : Seq(Item)]
TurnErrorType == {"none"} \cup ErrorCode

LEMMA EmptySequences == <<>> \in Seq(Item) /\ <<>> \in Seq(Message) /\ <<>> \in Seq(DataMessage)
OBVIOUS

LEMMA FailType ==
  ASSUME NEW code \in TurnErrorType, Fail(code)
  PROVE  pc' = "done" /\ result' \in ResultType
BY EmptySequences DEF Fail, ResultType, TurnErrorType

LEMMA FailTurnType ==
  ASSUME NEW code \in ErrorCode, FailTurn(code)
  PROVE  pc' = "close" /\ turn_error' \in TurnErrorType /\ inbox' \in Seq(Message)
BY EmptySequences DEF FailTurn, TurnErrorType

-----------------------------------------------------------------------------
(* The type invariant.                                                     *)

LEMMA InitType == ASSUME Init PROVE TypeOK
<1>1. 1 \in 1..(NumChunks + 1) /\ 0 \in 0..MaxRetries
  BY CallAssumption
<1>2. BaseTime \in Int /\ drift \in Int
  BY ClockAssumption, WindowAssumption DEF Init
<1>3. NoError \in [code : {"none"} \cup ErrorCode, dated : BOOLEAN, date : Int]
  BY DEF NoError
<1>4. Pending \in [code : {"pending", "none"} \cup ErrorCode, chunks : Seq(Item)]
  BY EmptySequences DEF Pending
<1>5. delivered \in [Chunks -> Seq(DataMessage)]
  BY EmptySequences DEF Init
<1>6. connects \in [Chunks -> Nat] /\ requests \in [Chunks -> Nat]
  BY DEF Init
<1>7. /\ chunk \in 1..(NumChunks + 1) /\ attempt \in 0..MaxRetries /\ token \in Int
      /\ boundary_end \in Nat /\ cumulative \in Nat /\ frames_after_cancel \in Nat
  BY <1>1 DEF Init
<1>8. honest \in BOOLEAN /\ skew \in Int
  BY CallAssumption DEF Init
<1> QED
  BY <1>2, <1>3, <1>4, <1>5, <1>6, <1>7, <1>8, EmptySequences DEF Init, TypeOK

LEMMA ConnectType == ASSUME TypeOK, Connect PROVE TypeOK'
<1> USE DEF TypeOK, ErrorCode
<1>1. ServerTime \in Int
  BY DEF ServerTime
<1>2. /\ conn_error' \in [code : {"none"} \cup ErrorCode, dated : BOOLEAN, date : Int]
      /\ pc' \in {"config", "refused"}
      /\ open' \in BOOLEAN /\ audio_received' \in BOOLEAN /\ boundary_end' \in Nat
  <2>1. CASE ConnectSucceeds
    BY <2>1 DEF Connect, ConnectSucceeds
  <2>2. CASE ConnectRefused
    <3>1. PICK dated \in {honest, TRUE} :
             conn_error' = [code |-> "drm_error", dated |-> dated,
                            date |-> IF dated THEN ServerTime ELSE 0]
      BY <2>2 DEF ConnectRefused
    <3>2. dated \in BOOLEAN
      BY CallAssumption
    <3>3. (IF dated THEN ServerTime ELSE 0) \in Int
      BY <1>1
    <3> QED
      BY <2>2, <3>1, <3>2, <3>3 DEF Connect, ConnectRefused
  <2>3. CASE ConnectFails
    BY <2>3 DEF Connect, ConnectFails
  <2> QED
    BY <2>1, <2>2, <2>3 DEF Connect
<1>3. connects' \in [Chunks -> Nat]
  BY DEF Connect
<1> QED
  BY <1>2, <1>3 DEF Connect, env, turn, hist

LEMMA ReceiveType == ASSUME TypeOK, Receive PROVE TypeOK'
<1> USE DEF TypeOK, ErrorCode
<1>1. /\ pc' \in {"dispatch", "close"}
      /\ inbox' \in Seq(Message)
      /\ pc' = "dispatch" => inbox' # <<>>
      /\ turn_error' \in {"none"} \cup ErrorCode
  <2>1. ASSUME NEW frame \in Frames, ReceiveFrame(frame) PROVE <1>1
    <3>1. CASE parse_incoming(frame).code = "none"
      BY <2>1, <3>1, FramesParsed DEF ReceiveFrame
    <3>2. CASE parse_incoming(frame).code = "protocol_error"
      BY <2>1, <3>2, FailTurnType DEF ReceiveFrame, TurnErrorType
    <3> QED
      BY <3>1, <3>2, FramesParsed
  <2>2. ASSUME NEW code \in {"timeout", "network_error"}, FailTurn(code) PROVE <1>1
    BY <2>2, FailTurnType DEF TurnErrorType
  <2> QED
    BY <2>1, <2>2 DEF Receive
<1>2. frames_after_cancel' \in Nat
  BY DEF Receive
<1> QED
  BY <1>1, <1>2 DEF Receive, env, turn, hist

LEMMA DispatchType == ASSUME TypeOK, Dispatch PROVE TypeOK'
<1> USE DEF TypeOK, ErrorCode
<1>1. /\ inbox # <<>> /\ Head(inbox) \in Message /\ Tail(inbox) \in Seq(Message)
      /\ chunk \in Chunks
  BY DEF Dispatch
<1>2. NextMessage => /\ inbox' \in Seq(Message) /\ pc' \in {"poll", "dispatch"}
                     /\ pc' = "dispatch" => inbox' # <<>>
                     /\ turn_error' \in {"none"} \cup ErrorCode
  BY <1>1 DEF NextMessage
<1>3. CASE Head(inbox).kind = "audio" /\ HandleAudio
  <2>1. Audio(Head(inbox)) \in Item /\ Head(inbox) \in DataMessage
    BY <1>1, <1>3, AudioItem
  <2>2. all_chunks' \in Seq(Item) /\ delivered' \in [Chunks -> Seq(DataMessage)]
    BY <1>1, <1>3, <2>1 DEF HandleAudio
  <2> QED
    BY <1>2, <1>3, <2>2 DEF Dispatch, HandleAudio, env
<1>4. CASE Head(inbox).kind = "boundary" /\ HandleBoundary
  <2>1. /\ Boundary(Head(inbox)) \in Item /\ Head(inbox) \in DataMessage
        /\ RawEnd(Head(inbox)) \in Int
    BY <1>1, <1>4, BoundaryItem
  <2>2. all_chunks' \in Seq(Item) /\ delivered' \in [Chunks -> Seq(DataMessage)]
    BY <1>1, <1>4, <2>1 DEF HandleBoundary
  <2>3. boundary_end' \in Nat
    BY <1>4, <2>1, LaterIsLater DEF HandleBoundary
  <2> QED
    BY <1>2, <1>4, <2>2, <2>3 DEF Dispatch, HandleBoundary, env
<1>5. CASE Head(inbox).kind = "turn_end" /\ HandleTurnEnd
  BY <1>5 DEF Dispatch, HandleTurnEnd, env
<1>6. CASE /\ Head(inbox).kind = "ignored" /\ NextMessage
           /\ UNCHANGED <<audio_received, boundary_end, all_chunks, delivered>>
  BY <1>2, <1>6 DEF Dispatch, env
<1> QED
  BY <1>3, <1>4, <1>5, <1>6 DEF Dispatch

LEMMA HandleRefusalType == ASSUME TypeOK, HandleRefusal PROVE TypeOK'
<1> USE DEF TypeOK, ErrorCode
<1>1. conn_error.code \in {"none"} \cup ErrorCode /\ ObservedSkew \in Int
  BY DEF ObservedSkew
<1>2. CASE should_retry(conn_error.code, attempt)
  <2>1. skew' \in Int
    BY <1>1, <1>2 DEF HandleRefusal, CorrectClock, adjust_clock_skew
  <2>2. attempt' \in 0..MaxRetries
    BY <1>2, CallAssumption DEF HandleRefusal, should_retry
  <2> QED
    BY <1>2, <2>1, <2>2 DEF HandleRefusal, env, turn, hist
<1>3. CASE ~should_retry(conn_error.code, attempt)
  <2>1. Fail(conn_error.code) /\ conn_error.code \in TurnErrorType
    BY <1>1, <1>3 DEF HandleRefusal, TurnErrorType
  <2>2. pc' = "done" /\ result' \in ResultType
    BY <2>1, FailType
  <2> QED
    BY <1>3, <2>2 DEF HandleRefusal, ResultType, env, turn, hist
<1> QED
  BY <1>2, <1>3

LEMMA CloseType == ASSUME TypeOK, Close PROVE TypeOK'
<1> USE DEF TypeOK, ErrorCode
<1>1. chunk \in Chunks /\ chunk + 1 \in 1..(NumChunks + 1)
  BY CallAssumption DEF Close, Chunks
<1>2. CASE turn_error = "none"
  <2>1. cumulative' \in Nat /\ chunk' \in 1..(NumChunks + 1) /\ pc' = "chunk"
    BY <1>1, <1>2 DEF Close
  <2> QED
    BY <1>2, <2>1 DEF Close, env, turn, hist
<1>3. CASE turn_error # "none"
  <2>1. pc' = "done" /\ result' \in ResultType
    BY <1>3, FailType DEF Close, TurnErrorType
  <2> QED
    <3>1. /\ open' \in BOOLEAN
          /\ UNCHANGED <<cancelled, now, drift, honest, skew, config_valid, chunk, attempt, token,
                        conn_error, audio_received, boundary_end, inbox, turn_error, cumulative,
                        all_chunks, connects, requests, delivered, frames_after_cancel>>
      BY <1>3 DEF Close, env, turn, hist
    <3>2. (pc' \notin {"chunk", "done"}) => chunk' \in Chunks
      BY <2>1
    <3> QED
      BY <2>1, <3>1, <3>2 DEF ResultType
<1> QED
  BY <1>2, <1>3

LEMMA NextType == ASSUME TypeOK, [Next]_vars PROVE TypeOK'
<1> USE DEF TypeOK, ErrorCode
<1>1. CASE BeginChunk
  <2>1. CASE cancelled
    <3>1. pc' = "done" /\ result' \in ResultType
      BY <1>1, <2>1, FailType DEF BeginChunk, TurnErrorType
    <3> QED
      BY <1>1, <2>1, <3>1 DEF BeginChunk, ResultType, env, turn, hist
  <2>2. CASE ~cancelled
    <3>1. attempt' \in 0..MaxRetries /\ chunk' \in Chunks
      BY <1>1, <2>2, CallAssumption DEF BeginChunk, Chunks
    <3> QED
      BY <1>1, <2>2, <3>1 DEF BeginChunk, env, turn, hist
  <2> QED
    BY <2>1, <2>2
<1>2. CASE Return
  BY <1>2 DEF Return, env, turn, hist
<1>3. CASE BeginAttempt
  <2>1. token' \in Int
    BY <1>3, WindowType DEF BeginAttempt, sec_ms_gec
  <2> QED
    BY <1>3, <2>1 DEF BeginAttempt, env, turn, hist
<1>4. CASE Connect
  BY <1>4, ConnectType
<1>5. CASE HandleRefusal
  BY <1>5, HandleRefusalType
<1>6. CASE SendConfig
  <2>1. /\ pc' \in {"poll", "receive", "ssml", "close"}
        /\ turn_error' \in TurnErrorType /\ inbox' \in Seq(Message)
    BY <1>6, FailTurnType DEF SendConfig, TurnErrorType
  <2> QED
    BY <1>6, <2>1 DEF SendConfig, TurnErrorType, env, hist
<1>7. CASE SendSsml
  <2>1. /\ pc' \in {"poll", "receive", "ssml", "close"}
        /\ turn_error' \in TurnErrorType /\ inbox' \in Seq(Message)
    BY <1>7, FailTurnType DEF SendSsml, TurnErrorType
  <2>2. requests' \in [Chunks -> Nat]
    <3>1. chunk \in Chunks /\ requests[chunk] + 1 \in Nat
      BY <1>7 DEF SendSsml
    <3>2. \/ requests' = requests
          \/ requests' = [requests EXCEPT ![chunk] = requests[chunk] + 1]
      BY <1>7 DEF SendSsml
    <3> QED
      BY <3>1, <3>2
  <2> QED
    BY <1>7, <2>1, <2>2 DEF SendSsml, TurnErrorType, env, hist
<1>8. CASE PollCancel
  <2>1. /\ pc' \in {"poll", "receive", "ssml", "close"}
        /\ turn_error' \in TurnErrorType /\ inbox' \in Seq(Message)
    BY <1>8, FailTurnType DEF PollCancel, TurnErrorType
  <2> QED
    BY <1>8, <2>1 DEF PollCancel, TurnErrorType, env, hist
<1>9. CASE Receive
  BY <1>9, ReceiveType
<1>10. CASE Dispatch
  BY <1>10, DispatchType
<1>11. CASE Close
  BY <1>11, CloseType
<1>12. CASE Cancel
  BY <1>12 DEF Cancel, turn, hist
<1>13. CASE Tick
  BY <1>13 DEF Tick, turn, hist
<1>14. CASE UNCHANGED vars
  BY <1>14 DEF vars
<1> QED
  BY <1>1, <1>2, <1>3, <1>4, <1>5, <1>6, <1>7, <1>8, <1>9, <1>10, <1>11, <1>12,
     <1>13, <1>14 DEF Next, Session

\* Every variable keeps its type: in particular no more than max_retries
\* attempts are repeated, no item without audio or timing enters the result,
\* and the loop over a frame never looks at an empty list
\* (SynthesisSession.cpp:138-225).
THEOREM TypeCorrect == Spec => []TypeOK
<1>1. Init => TypeOK
  BY InitType
<1>2. TypeOK /\ [Next]_vars => TypeOK'
  BY NextType
<1> QED
  BY <1>1, <1>2, PTL DEF Spec

-----------------------------------------------------------------------------
(* The connection is closed when the call returns.                         *)

\* Inductive: where the session holds no connection, and when it has a result.
Closed ==
  /\ result # Pending => pc = "done"
  /\ pc \in {"chunk", "attempt", "connect", "refused", "done"} => ~open

LEMMA InitClosed == ASSUME Init PROVE Closed
BY DEF Init, Closed

LEMMA NextClosed == ASSUME TypeOK, Closed, [Next]_vars PROVE Closed'
<1> USE DEF Closed, Pending
<1>1. CASE BeginChunk
  BY <1>1 DEF BeginChunk, Fail
<1>2. CASE Return
  BY <1>2 DEF Return
<1>3. CASE BeginAttempt
  BY <1>3 DEF BeginAttempt
<1>4. CASE Connect
  BY <1>4 DEF Connect, ConnectSucceeds, ConnectRefused, ConnectFails
<1>5. CASE HandleRefusal
  BY <1>5 DEF HandleRefusal, Fail
<1>6. CASE SendConfig
  BY <1>6 DEF SendConfig, FailTurn
<1>7. CASE SendSsml
  BY <1>7 DEF SendSsml, FailTurn
<1>8. CASE PollCancel
  BY <1>8 DEF PollCancel, FailTurn
<1>9. CASE Receive
  BY <1>9 DEF Receive, ReceiveFrame, FailTurn
<1>10. CASE Dispatch
  BY <1>10 DEF Dispatch, HandleAudio, HandleBoundary, HandleTurnEnd, NextMessage
<1>11. CASE Close
  BY <1>11 DEF Close, Fail
<1>12. CASE Cancel
  BY <1>12 DEF Cancel
<1>13. CASE Tick
  BY <1>13 DEF Tick
<1>14. CASE UNCHANGED vars
  BY <1>14 DEF vars
<1> QED
  BY <1>1, <1>2, <1>3, <1>4, <1>5, <1>6, <1>7, <1>8, <1>9, <1>10, <1>11, <1>12,
     <1>13, <1>14 DEF Next, Session

\* No exit of synthesize() leaves the connection open (SynthesisSession.cpp:202-216).
THEOREM ReturnsClosed == Spec => []ClosedOnReturn
<1>1. Init => TypeOK /\ Closed
  BY InitType, InitClosed
<1>2. TypeOK /\ Closed /\ [Next]_vars => TypeOK' /\ Closed'
  BY NextType, NextClosed
<1>3. Closed => ClosedOnReturn
  BY DEF Closed, ClosedOnReturn
<1> QED
  BY <1>1, <1>2, <1>3, PTL DEF Spec

-----------------------------------------------------------------------------
(* One request per text chunk.                                             *)

\* Inductive: the attempts of the current chunk are its connect() calls, and
\* nothing was sent for it before its turn, nor for the chunks after it.
Counted ==
  /\ SpokenOnce
  /\ \A c \in Chunks : c > chunk => connects[c] = 0 /\ requests[c] = 0
  /\ pc = "chunk" /\ chunk \in Chunks => connects[chunk] = 0
  /\ pc \in {"attempt", "connect"} => connects[chunk] = attempt
  /\ pc = "refused" => connects[chunk] = attempt + 1
  /\ pc \in {"chunk", "attempt", "connect", "refused", "config", "ssml"}
       /\ chunk \in Chunks => requests[chunk] = 0

LEMMA InitCounted == ASSUME Init PROVE Counted
BY CallAssumption DEF Init, Counted, SpokenOnce, Chunks

LEMMA NextCounted == ASSUME TypeOK, Counted, [Next]_vars PROVE Counted'
<1>0. /\ chunk \in Int /\ Chunks \subseteq Int /\ attempt \in 0..MaxRetries
      /\ connects \in [Chunks -> Nat] /\ requests \in [Chunks -> Nat]
      /\ pc \notin {"chunk", "done"} => chunk \in Chunks
      /\ MaxRetries \in Nat
  BY CallAssumption DEF TypeOK, Chunks
<1> USE <1>0 DEF Counted, SpokenOnce
<1>1. CASE BeginChunk
  <2>1. pc = "chunk" /\ chunk \in Chunks
    BY <1>1, CallAssumption DEF BeginChunk, TypeOK, Chunks
  <2> QED
    BY <1>1, <2>1 DEF BeginChunk, Fail, hist
<1>2. CASE Return
  BY <1>2 DEF Return, hist
<1>3. CASE BeginAttempt
  BY <1>3 DEF BeginAttempt, hist
<1>4. CASE Connect
  <2>1. /\ chunk \in Chunks
        /\ connects' = [connects EXCEPT ![chunk] = connects[chunk] + 1]
        /\ UNCHANGED <<chunk, attempt, requests>>
        /\ pc = "connect" /\ pc' \in {"config", "refused"}
    BY <1>4 DEF Connect, ConnectSucceeds, ConnectRefused, ConnectFails
  <2>2. connects[chunk] = attempt /\ attempt + 1 <= 1 + MaxRetries
    BY <2>1
  <2> QED
    BY <2>1, <2>2
<1>5. CASE HandleRefusal
  BY <1>5 DEF HandleRefusal, Fail, hist
<1>6. CASE SendConfig
  BY <1>6 DEF SendConfig, FailTurn, hist
<1>7. CASE SendSsml
  <2>1. /\ chunk \in Chunks /\ requests[chunk] = 0
        /\ UNCHANGED <<chunk, attempt, connects>>
        /\ pc' \in {"poll", "close"}
        /\ \/ requests' = requests
           \/ requests' = [requests EXCEPT ![chunk] = requests[chunk] + 1]
    BY <1>7 DEF SendSsml, FailTurn
  <2> QED
    BY <2>1
<1>8. CASE PollCancel
  BY <1>8 DEF PollCancel, FailTurn, hist
<1>9. CASE Receive
  BY <1>9 DEF Receive, ReceiveFrame, FailTurn
<1>10. CASE Dispatch
  BY <1>10 DEF Dispatch, HandleAudio, HandleBoundary, HandleTurnEnd, NextMessage
<1>11. CASE Close
  BY <1>11 DEF Close, Fail, hist
<1>12. CASE Cancel
  BY <1>12 DEF Cancel, hist
<1>13. CASE Tick
  BY <1>13 DEF Tick, hist
<1>14. CASE UNCHANGED vars
  BY <1>14 DEF vars
<1> QED
  BY <1>1, <1>2, <1>3, <1>4, <1>5, <1>6, <1>7, <1>8, <1>9, <1>10, <1>11, <1>12,
     <1>13, <1>14 DEF Next, Session

\* However often the service refuses, no text is sent twice and no chunk is
\* tried more than 1 + max_retries times (SynthesisSession.cpp:164-221).
THEOREM NeverSpokenTwice == Spec => []SpokenOnce
<1>1. Init => TypeOK /\ Counted
  BY InitType, InitCounted
<1>2. TypeOK /\ Counted /\ [Next]_vars => TypeOK' /\ Counted'
  BY NextType, NextCounted
<1>3. Counted => SpokenOnce
  BY DEF Counted
<1> QED
  BY <1>1, <1>2, <1>3, PTL DEF Spec

-----------------------------------------------------------------------------
(* Cancellation.                                                           *)

\* Inductive: receive() is only entered before a frame was taken after cancel().
CancelSeen ==
  /\ ~cancelled \/ pc = "receive" => frames_after_cancel = 0
  /\ CancelStopsReading

LEMMA InitCancelSeen == ASSUME Init PROVE CancelSeen
BY DEF Init, CancelSeen, CancelStopsReading

LEMMA NextCancelSeen == ASSUME TypeOK, CancelSeen, [Next]_vars PROVE CancelSeen'
<1> USE DEF CancelSeen, CancelStopsReading
<1>1. CASE BeginChunk
  BY <1>1 DEF BeginChunk, Fail, env, hist
<1>2. CASE Return
  BY <1>2 DEF Return, env, hist
<1>3. CASE BeginAttempt
  BY <1>3 DEF BeginAttempt, env, hist
<1>4. CASE Connect
  BY <1>4 DEF Connect, ConnectSucceeds, ConnectRefused, ConnectFails, env
<1>5. CASE HandleRefusal
  BY <1>5 DEF HandleRefusal, Fail, env, hist
<1>6. CASE SendConfig
  BY <1>6 DEF SendConfig, FailTurn, env, hist
<1>7. CASE SendSsml
  BY <1>7 DEF SendSsml, FailTurn, env
<1>8. CASE PollCancel
  BY <1>8 DEF PollCancel, FailTurn, env, hist
<1>9. CASE Receive
  <2>1. frames_after_cancel = 0 /\ pc' \in {"dispatch", "close"} /\ cancelled' = cancelled
    BY <1>9 DEF Receive, ReceiveFrame, FailTurn, env
  <2>2. frames_after_cancel' \in {0, 1} /\ (~cancelled => frames_after_cancel' = 0)
    BY <1>9, <2>1 DEF Receive
  <2> QED
    BY <2>1, <2>2
<1>10. CASE Dispatch
  BY <1>10 DEF Dispatch, HandleAudio, HandleBoundary, HandleTurnEnd, NextMessage, env
<1>11. CASE Close
  BY <1>11 DEF Close, Fail, env, hist
<1>12. CASE Cancel
  BY <1>12 DEF Cancel, hist
<1>13. CASE Tick
  BY <1>13 DEF Tick, hist
<1>14. CASE UNCHANGED vars
  BY <1>14 DEF vars
<1> QED
  BY <1>1, <1>2, <1>3, <1>4, <1>5, <1>6, <1>7, <1>8, <1>9, <1>10, <1>11, <1>12,
     <1>13, <1>14 DEF Next, Session

\* Whenever cancel() comes, at most the frame receive() already waits for is
\* read (SynthesisSession.cpp:83-90, 153-156).
THEOREM CancelIsPrompt == Spec => []CancelStopsReading
<1>1. Init => TypeOK /\ CancelSeen
  BY InitType, InitCancelSeen
<1>2. TypeOK /\ CancelSeen /\ [Next]_vars => TypeOK' /\ CancelSeen'
  BY NextType, NextCancelSeen
<1>3. CancelSeen => CancelStopsReading
  BY DEF CancelSeen
<1> QED
  BY <1>1, <1>2, <1>3, PTL DEF Spec

-----------------------------------------------------------------------------
(* One time line for all text chunks.                                      *)

ItemEnd(item) == item.offset + item.duration

\* Inductive: the words of the chunks before this one end where the chunk
\* starts, its own words end where its boundaries end so far, and it has none
\* before its turn begins.
Placed ==
  /\ \A i \in DOMAIN inbox : inbox[i].kind = "boundary" => inbox[i].offset >= 0
  /\ \A i \in DOMAIN all_chunks : all_chunks[i].kind = "boundary" =>
       /\ all_chunks[i].chunk <= chunk
       /\ all_chunks[i].chunk < chunk => ItemEnd(all_chunks[i]) <= cumulative
       /\ all_chunks[i].chunk = chunk => ItemEnd(all_chunks[i]) <= cumulative + boundary_end
       /\ pc \in {"chunk", "attempt", "connect", "refused"} => all_chunks[i].chunk # chunk
  /\ \A i, j \in DOMAIN all_chunks :
       /\ all_chunks[i].kind = "boundary" /\ all_chunks[j].kind = "boundary"
       /\ all_chunks[i].chunk < all_chunks[j].chunk
       => ItemEnd(all_chunks[i]) <= all_chunks[j].offset

\* The fields of a boundary that is already in the result.
LEMMA BoundaryFields ==
  ASSUME TypeOK, NEW i \in DOMAIN all_chunks, all_chunks[i].kind = "boundary"
  PROVE  /\ all_chunks[i].offset \in Int /\ all_chunks[i].duration \in Int
         /\ all_chunks[i].chunk \in Int /\ ItemEnd(all_chunks[i]) \in Int
<1>1. all_chunks[i] \in Item
  BY DEF TypeOK
<1>2. all_chunks[i] \in [kind : {"boundary"}, type : BoundaryType,
                         offset : Int, duration : Int, chunk : Chunks]
  BY <1>1 DEF Item
<1> QED
  BY <1>2 DEF Chunks, ItemEnd

\* A step that adds nothing to the result and does not leave the chunk.
LEMMA PlacedKept ==
  ASSUME TypeOK, Placed, UNCHANGED <<chunk, cumulative, all_chunks>>,
         inbox' \in {inbox, <<>>},
         \/ boundary_end' = boundary_end
         \/ pc \in {"chunk", "attempt", "connect", "refused"},
         pc' \in {"chunk", "attempt", "connect", "refused"} =>
           pc \in {"chunk", "attempt", "connect", "refused"}
  PROVE  Placed'
<1>1. \A i \in DOMAIN inbox' : inbox'[i].kind = "boundary" => inbox'[i].offset >= 0
  BY DEF Placed
<1>2. ASSUME NEW i \in DOMAIN all_chunks, all_chunks[i].kind = "boundary"
      PROVE  /\ all_chunks[i].chunk <= chunk
             /\ all_chunks[i].chunk < chunk => ItemEnd(all_chunks[i]) <= cumulative
             /\ all_chunks[i].chunk = chunk =>
                  ItemEnd(all_chunks[i]) <= cumulative + boundary_end'
             /\ pc' \in {"chunk", "attempt", "connect", "refused"} =>
                  all_chunks[i].chunk # chunk
  BY <1>2 DEF Placed
<1> QED
  BY <1>1, <1>2 DEF Placed, ItemEnd

\* Nothing a frame of the service says starts before its turn.
LEMMA ReceivePlaced ==
  ASSUME TypeOK, OffsetsNonNegative, Placed, Receive PROVE Placed'
<1>1. UNCHANGED <<chunk, cumulative, boundary_end, all_chunks>> /\ pc' \in {"dispatch", "close"}
  BY DEF Receive, ReceiveFrame, FailTurn
<1>2. \A i \in DOMAIN inbox' : inbox'[i].kind = "boundary" => inbox'[i].offset >= 0
  <2>1. ASSUME NEW frame \in Frames, ReceiveFrame(frame) PROVE <1>2
    BY <2>1 DEF ReceiveFrame, FailTurn, OffsetsNonNegative
  <2>2. ASSUME NEW code \in {"timeout", "network_error"}, FailTurn(code) PROVE <1>2
    BY <2>2 DEF FailTurn
  <2> QED
    BY <2>1, <2>2 DEF Receive
<1> QED
  BY <1>1, <1>2 DEF Placed, ItemEnd

LEMMA HandleBoundaryPlaced ==
  ASSUME TypeOK, Placed, Dispatch, Head(inbox).kind = "boundary", HandleBoundary
  PROVE  Placed'
<1> DEFINE new == Boundary(Head(inbox))
<1>1. /\ inbox # <<>> /\ Head(inbox) \in Message /\ chunk \in Chunks
      /\ Head(inbox) = inbox[1] /\ 1 \in DOMAIN inbox
      /\ cumulative \in Nat /\ boundary_end \in Nat /\ all_chunks \in Seq(Item)
      /\ inbox \in Seq(Message)
  BY DEF Dispatch, TypeOK
<1>2. /\ new.kind = "boundary" /\ new.chunk = chunk
      /\ new.offset = Head(inbox).offset + cumulative
      /\ new.duration = Head(inbox).duration
  BY DEF Boundary
<1>3. /\ RawEnd(Head(inbox)) \in Int /\ Head(inbox).offset \in Int
      /\ Head(inbox).duration \in Int
      /\ new \in Item
  BY <1>1, BoundaryItem
<1>4. Head(inbox).offset >= 0
  BY <1>1 DEF Placed
<1>5. /\ boundary_end' \in Nat /\ boundary_end <= boundary_end'
      /\ RawEnd(Head(inbox)) <= boundary_end'
  BY <1>1, <1>3, LaterIsLater DEF HandleBoundary
<1>6. /\ new.offset \in Int /\ new.offset >= cumulative
      /\ ItemEnd(new) <= cumulative + boundary_end'
  BY <1>1, <1>2, <1>3, <1>4, <1>5 DEF ItemEnd, RawEnd
<1>7. /\ all_chunks' = Append(all_chunks, new) /\ inbox' = Tail(inbox)
      /\ UNCHANGED <<chunk, cumulative>> /\ pc' \in {"poll", "dispatch"}
  BY DEF Dispatch, HandleBoundary, NextMessage
<1> HIDE DEF new
<1>8. /\ DOMAIN all_chunks' = 1..(Len(all_chunks) + 1)
      /\ \A i \in DOMAIN all_chunks : all_chunks'[i] = all_chunks[i]
      /\ all_chunks'[Len(all_chunks) + 1] = new
      /\ \A i \in DOMAIN all_chunks' : i \in DOMAIN all_chunks \/ i = Len(all_chunks) + 1
  BY <1>1, <1>7
<1>9. \A i \in DOMAIN inbox' : inbox'[i].kind = "boundary" => inbox'[i].offset >= 0
  BY <1>1, <1>7 DEF Placed
<1>10. ASSUME NEW i \in DOMAIN all_chunks', all_chunks'[i].kind = "boundary"
       PROVE  /\ all_chunks'[i].chunk <= chunk
              /\ all_chunks'[i].chunk < chunk => ItemEnd(all_chunks'[i]) <= cumulative
              /\ all_chunks'[i].chunk = chunk =>
                   ItemEnd(all_chunks'[i]) <= cumulative + boundary_end'
  <2>1. CASE i \in DOMAIN all_chunks
    <3>1. ItemEnd(all_chunks[i]) \in Int
      BY <1>8, <1>10, <2>1, BoundaryFields
    <3> QED
      BY <1>1, <1>5, <1>8, <1>10, <2>1, <3>1 DEF Placed
  <2>2. CASE i = Len(all_chunks) + 1
    BY <1>1, <1>2, <1>6, <1>8, <2>2 DEF Chunks
  <2> QED
    BY <1>8, <2>1, <2>2
<1>11. ASSUME NEW i \in DOMAIN all_chunks', NEW j \in DOMAIN all_chunks',
              all_chunks'[i].kind = "boundary", all_chunks'[j].kind = "boundary",
              all_chunks'[i].chunk < all_chunks'[j].chunk
       PROVE  ItemEnd(all_chunks'[i]) <= all_chunks'[j].offset
  <2>1. CASE i \in DOMAIN all_chunks /\ j \in DOMAIN all_chunks
    BY <1>8, <1>11, <2>1 DEF Placed
  <2>2. CASE i \in DOMAIN all_chunks /\ j = Len(all_chunks) + 1
    <3>1. ItemEnd(all_chunks[i]) \in Int
      BY <1>8, <1>11, <2>2, BoundaryFields
    <3>2. ItemEnd(all_chunks[i]) <= cumulative
      BY <1>2, <1>8, <1>11, <2>2 DEF Placed
    <3> QED
      BY <1>1, <1>6, <1>8, <2>2, <3>1, <3>2
  <2>3. CASE i = Len(all_chunks) + 1
    <3>1. all_chunks'[j].chunk <= chunk /\ all_chunks'[j].chunk \in Int
      BY <1>1, <1>2, <1>8, <1>10, <1>11, BoundaryFields DEF Chunks
    <3> QED
      BY <1>1, <1>2, <1>8, <1>11, <2>3, <3>1 DEF Chunks
  <2> QED
    BY <1>8, <2>1, <2>2, <2>3
<1> QED
  BY <1>7, <1>9, <1>10, <1>11 DEF Placed, ItemEnd

LEMMA HandleAudioPlaced ==
  ASSUME TypeOK, Placed, Dispatch, HandleAudio
  PROVE  Placed'
<1> DEFINE new == Audio(Head(inbox))
<1>1. /\ inbox # <<>> /\ inbox \in Seq(Message) /\ all_chunks \in Seq(Item)
      /\ new.kind = "audio"
      /\ all_chunks' = Append(all_chunks, new) /\ inbox' = Tail(inbox)
      /\ UNCHANGED <<chunk, cumulative, boundary_end>> /\ pc' \in {"poll", "dispatch"}
  BY DEF Dispatch, TypeOK, Audio, HandleAudio, NextMessage
<1> HIDE DEF new
<1>2. \A i \in DOMAIN all_chunks' : all_chunks'[i].kind = "boundary" =>
         i \in DOMAIN all_chunks /\ all_chunks'[i] = all_chunks[i]
  BY <1>1
<1>3. \A i \in DOMAIN inbox' : inbox'[i].kind = "boundary" => inbox'[i].offset >= 0
  BY <1>1 DEF Placed
<1> QED
  BY <1>1, <1>2, <1>3 DEF Placed, ItemEnd

LEMMA ClosePlaced ==
  ASSUME TypeOK, Placed, Close
  PROVE  Placed'
<1>1. CASE turn_error # "none"
  <2>1. /\ UNCHANGED <<chunk, cumulative, all_chunks, inbox, boundary_end>>
        /\ pc' = "done"
    BY <1>1 DEF Close, Fail, turn
  <2> QED
    BY <2>1, PlacedKept
<1>2. CASE turn_error = "none"
  <2>1. /\ UNCHANGED <<all_chunks, inbox, boundary_end>> /\ pc' = "chunk"
        /\ chunk' = chunk + 1 /\ cumulative' = cumulative + boundary_end
        /\ chunk \in Int /\ cumulative \in Nat /\ boundary_end \in Nat
    BY <1>2 DEF Close, turn, TypeOK
  <2>2. ASSUME NEW i \in DOMAIN all_chunks, all_chunks[i].kind = "boundary"
        PROVE  /\ all_chunks[i].chunk < chunk'
               /\ ItemEnd(all_chunks[i]) <= cumulative'
    <3>1. /\ all_chunks[i].chunk \in Int /\ ItemEnd(all_chunks[i]) \in Int
          /\ all_chunks[i].chunk <= chunk
      BY <2>2, BoundaryFields DEF Placed
    <3>2. ItemEnd(all_chunks[i]) <= cumulative + boundary_end
      BY <2>1, <2>2, <3>1 DEF Placed
    <3> QED
      BY <2>1, <3>1, <3>2
  <2>3. ASSUME NEW i \in DOMAIN all_chunks, all_chunks[i].kind = "boundary"
        PROVE  all_chunks[i].chunk <= chunk' /\ all_chunks[i].chunk # chunk'
    BY <2>1, <2>2, <2>3, BoundaryFields
  <2> QED
    BY <2>1, <2>2, <2>3 DEF Placed, ItemEnd
<1> QED
  BY <1>1, <1>2

LEMMA InitPlaced == ASSUME Init PROVE Placed
BY DEF Init, Placed

LEMMA NextPlaced ==
  ASSUME TypeOK, OffsetsNonNegative, Placed, [Next]_vars PROVE Placed'
<1>1. CASE BeginChunk
  BY <1>1, PlacedKept DEF BeginChunk, Fail, turn
<1>2. CASE Return
  BY <1>2, PlacedKept DEF Return, turn
<1>3. CASE BeginAttempt
  BY <1>3, PlacedKept DEF BeginAttempt, turn
<1>4. CASE Connect
  BY <1>4, PlacedKept DEF Connect, ConnectSucceeds, ConnectRefused, ConnectFails
<1>5. CASE HandleRefusal
  BY <1>5, PlacedKept DEF HandleRefusal, Fail, turn
<1>6. CASE SendConfig
  BY <1>6, PlacedKept DEF SendConfig, FailTurn
<1>7. CASE SendSsml
  BY <1>7, PlacedKept DEF SendSsml, FailTurn
<1>8. CASE PollCancel
  BY <1>8, PlacedKept DEF PollCancel, FailTurn
<1>9. CASE Receive
  BY <1>9, ReceivePlaced
<1>10. CASE Dispatch
  <2>1. CASE HandleAudio
    BY <1>10, <2>1, HandleAudioPlaced
  <2>2. CASE Head(inbox).kind = "boundary" /\ HandleBoundary
    BY <1>10, <2>2, HandleBoundaryPlaced
  <2>3. CASE HandleTurnEnd
    BY <1>10, <2>3, PlacedKept DEF Dispatch, HandleTurnEnd
  <2>4. CASE NextMessage /\ UNCHANGED <<audio_received, boundary_end, all_chunks, delivered>>
    <3>1. /\ inbox # <<>> /\ inbox \in Seq(Message) /\ inbox' = Tail(inbox)
          /\ UNCHANGED <<chunk, cumulative, all_chunks, boundary_end>>
          /\ pc' \in {"poll", "dispatch"}
      BY <1>10, <2>4 DEF Dispatch, NextMessage, TypeOK
    <3>2. \A i \in DOMAIN inbox' : inbox'[i].kind = "boundary" => inbox'[i].offset >= 0
      BY <3>1 DEF Placed
    <3> QED
      BY <3>1, <3>2 DEF Placed, ItemEnd
  <2> QED
    BY <1>10, <2>1, <2>2, <2>3, <2>4 DEF Dispatch
<1>11. CASE Close
  BY <1>11, ClosePlaced
<1>12. CASE Cancel
  BY <1>12, PlacedKept DEF Cancel, turn
<1>13. CASE Tick
  BY <1>13, PlacedKept DEF Tick, turn
<1>14. CASE UNCHANGED vars
  BY <1>14, PlacedKept DEF vars
<1> QED
  BY <1>1, <1>2, <1>3, <1>4, <1>5, <1>6, <1>7, <1>8, <1>9, <1>10, <1>11, <1>12,
     <1>13, <1>14 DEF Next, Session

\* For a service whose offsets are not negative, no word of a later text chunk
\* starts before a word of an earlier one has ended, in whatever order the
\* boundaries of a chunk come (SynthesisSession.cpp:104-113, 161, 219).
THEOREM OneTimeLine == Spec => []BoundariesInOrder
<1>1. Init => TypeOK /\ (OffsetsNonNegative => Placed)
  BY InitType, InitPlaced
<1>2. TypeOK /\ (OffsetsNonNegative => Placed) /\ [Next]_vars
        => TypeOK' /\ (OffsetsNonNegative => Placed)'
  BY NextType, NextPlaced DEF OffsetsNonNegative
<1>3. (OffsetsNonNegative => Placed) => BoundariesInOrder
  BY DEF Placed, ItemEnd, BoundariesInOrder
<1> QED
  BY <1>1, <1>2, <1>3, PTL DEF Spec

-----------------------------------------------------------------------------
(* The token of a retry.                                                   *)

\* Inductive: a dated refusal is not later than the service's clock, and the
\* retry that follows it starts from a clock that is between the two.
Corrected ==
  /\ conn_error.dated => conn_error.date <= ServerTime
  /\ pc = "attempt" /\ attempt > 0 /\ conn_error.dated =>
       conn_error.date <= now + skew /\ now + skew <= ServerTime
  /\ RetryTokenFollowsService

\* A later time lies in the same window or a later one.
LEMMA WindowsInOrder ==
  ASSUME NEW s \in Int, NEW t \in Int, s <= t
  PROVE  s \div Window <= t \div Window
BY ClockAssumption, WindowAssumption

LEMMA InitCorrected == ASSUME Init PROVE Corrected
BY DEF Init, Corrected, NoError, RetryTokenFollowsService

\* Steps that neither lead to an attempt nor change a clock.
LEMMA CorrectedKept ==
  ASSUME Corrected, UNCHANGED <<now, drift, conn_error>>,
         pc' \notin {"attempt", "connect"} \/ UNCHANGED <<pc, attempt, token, skew>>
  PROVE  Corrected'
BY DEF Corrected, RetryTokenFollowsService, ServerTime

LEMMA NextCorrected ==
  ASSUME TypeOK, Corrected, [Next]_vars PROVE Corrected'
<1>0. /\ now \in Int /\ drift \in Int /\ skew \in Int /\ conn_error.date \in Int
      /\ token \in Int /\ ServerTime \in Int
  BY DEF TypeOK, ServerTime
<1>1. CASE BeginChunk
  BY <1>1 DEF BeginChunk, Fail, Corrected, RetryTokenFollowsService, ServerTime, env
<1>2. CASE Return
  BY <1>2, CorrectedKept DEF Return, env
<1>3. CASE BeginAttempt
  <2>1. /\ pc = "attempt" /\ pc' = "connect" /\ token' = (now + skew) \div Window
        /\ UNCHANGED <<now, drift, skew, conn_error, attempt>> /\ ServerTime' = ServerTime
    BY <1>3 DEF BeginAttempt, sec_ms_gec, env, ServerTime
  <2>2. ASSUME attempt > 0, conn_error.dated
        PROVE  token' \in (conn_error.date \div Window)..(ServerTime \div Window)
    <3>1. conn_error.date <= now + skew /\ now + skew <= ServerTime
      BY <2>1, <2>2 DEF Corrected
    <3>2. /\ conn_error.date \div Window <= (now + skew) \div Window
          /\ (now + skew) \div Window <= ServerTime \div Window
      BY <1>0, <3>1, WindowsInOrder
    <3>3. /\ conn_error.date \div Window \in Int /\ (now + skew) \div Window \in Int
          /\ ServerTime \div Window \in Int
      BY <1>0, WindowType
    <3> QED
      BY <2>1, <3>2, <3>3
  <2> QED
    BY <2>1, <2>2 DEF Corrected, RetryTokenFollowsService
<1>4. CASE Connect
  <2>1. /\ pc' \in {"config", "refused"} /\ UNCHANGED <<now, drift>>
        /\ ServerTime' = ServerTime
    BY <1>4 DEF Connect, ConnectSucceeds, ConnectRefused, ConnectFails, env, ServerTime
  <2>2. conn_error'.dated => conn_error'.date <= ServerTime
    <3>1. CASE ConnectSucceeds
      BY <3>1 DEF ConnectSucceeds, Corrected
    <3>2. CASE ConnectRefused
      BY <1>0, <3>2 DEF ConnectRefused
    <3>3. CASE ConnectFails
      BY <3>3 DEF ConnectFails
    <3> QED
      BY <1>4, <3>1, <3>2, <3>3 DEF Connect
  <2> QED
    BY <2>1, <2>2 DEF Corrected, RetryTokenFollowsService
<1>5. CASE HandleRefusal
  <2>1. /\ UNCHANGED <<now, drift, conn_error>> /\ pc' \in {"attempt", "done"}
        /\ ServerTime' = ServerTime
    BY <1>5 DEF HandleRefusal, Fail, env, ServerTime
  <2>2. pc' = "attempt" /\ conn_error.dated => skew' = skew + (conn_error.date - (now + skew))
    BY <1>5 DEF HandleRefusal, Fail, CorrectClock, adjust_clock_skew, ObservedSkew
  <2>3. pc' = "attempt" /\ conn_error.dated => now + skew' = conn_error.date
    BY <1>0, <2>2
  <2> QED
    BY <1>0, <2>1, <2>3 DEF Corrected, RetryTokenFollowsService
<1>6. CASE SendConfig
  BY <1>6, CorrectedKept DEF SendConfig, FailTurn, env
<1>7. CASE SendSsml
  BY <1>7, CorrectedKept DEF SendSsml, FailTurn, env
<1>8. CASE PollCancel
  BY <1>8, CorrectedKept DEF PollCancel, FailTurn, env
<1>9. CASE Receive
  BY <1>9, CorrectedKept DEF Receive, ReceiveFrame, FailTurn, env
<1>10. CASE Dispatch
  BY <1>10, CorrectedKept
  DEF Dispatch, HandleAudio, HandleBoundary, HandleTurnEnd, NextMessage, env
<1>11. CASE Close
  BY <1>11, CorrectedKept DEF Close, Fail, env
<1>12. CASE Cancel
  BY <1>12, CorrectedKept DEF Cancel
<1>13. CASE Tick
  <2>1. /\ now' = now + 1 /\ UNCHANGED <<drift, skew, conn_error, pc, attempt, token>>
        /\ ServerTime' = ServerTime + 1
    BY <1>0, <1>13 DEF Tick, ServerTime
  <2>2. ServerTime \div Window <= (ServerTime + 1) \div Window
    BY <1>0, WindowsInOrder
  <2>3. /\ ServerTime \div Window \in Int /\ (ServerTime + 1) \div Window \in Int
        /\ conn_error.date \div Window \in Int
    BY <1>0, WindowType
  <2>4. RetryTokenFollowsService'
    BY <1>0, <2>1, <2>2, <2>3 DEF Corrected, RetryTokenFollowsService
  <2> QED
    BY <1>0, <2>1, <2>4 DEF Corrected
<1>14. CASE UNCHANGED vars
  BY <1>14, CorrectedKept DEF vars
<1> QED
  BY <1>1, <1>2, <1>3, <1>4, <1>5, <1>6, <1>7, <1>8, <1>9, <1>10, <1>11, <1>12,
     <1>13, <1>14 DEF Next, Session

\* Whatever the clocks, and after any number of refusals, a retry sends a token
\* of a window between the refusal and now (SynthesisSession.cpp:187-200).
THEOREM CorrectionsReplaceEachOther == Spec => []RetryTokenFollowsService
<1>1. Init => TypeOK /\ Corrected
  BY InitType, InitCorrected
<1>2. TypeOK /\ Corrected /\ [Next]_vars => TypeOK' /\ Corrected'
  BY NextType, NextCorrected
<1>3. Corrected => RetryTokenFollowsService
  BY DEF Corrected
<1> QED
  BY <1>1, <1>2, <1>3, PTL DEF Spec

-----------------------------------------------------------------------------
(* A wrong clock.                                                          *)

\* What the theorem is about: the service refuses stale tokens only, there is
\* at least one retry, and the call takes less than a window.
FairRefusals == honest /\ MaxRetries >= 1 /\ MaxTime - BaseTime < Window

\* Inductive: refusals are dated and recent, so that only a first attempt can
\* meet one.
Recovers ==
  /\ BaseTime <= now /\ now - BaseTime < Window
  /\ conn_error.dated => BaseTime + drift <= conn_error.date
  /\ conn_error.code = "drm_error" => conn_error.dated
  /\ pc \in {"attempt", "connect"} /\ attempt > 0 => conn_error.dated
  /\ pc = "refused" /\ conn_error.code = "drm_error" => attempt = 0
  /\ turn_error # "drm_error"
  /\ result.code # "drm_error"

\* Times less than a window apart lie in the same window or in neighbours.
LEMMA NeighbourWindows ==
  ASSUME NEW s \in Int, NEW t \in Int, t - s < Window
  PROVE  t \div Window <= s \div Window + 1
BY ClockAssumption, WindowAssumption

LEMMA RetryAccepted ==
  ASSUME TypeOK, Corrected, Recovers, pc = "connect", attempt > 0
  PROVE  TokenAccepted
<1> DEFINE date == conn_error.date
<1>1. /\ conn_error.dated /\ date \in Int /\ ServerTime \in Int /\ token \in Int
      /\ BaseTime + drift <= date /\ ServerTime = now + drift
  BY DEF TypeOK, Recovers, ServerTime
<1>2. /\ token \in (date \div Window)..(ServerTime \div Window)
  BY <1>1 DEF Corrected, RetryTokenFollowsService
<1>3. ServerTime - date < Window
  BY <1>1, ClockAssumption, WindowAssumption DEF Recovers, TypeOK
<1>4. ServerTime \div Window <= date \div Window + 1
  BY <1>1, <1>3, NeighbourWindows
<1>5. date \div Window \in Int /\ ServerTime \div Window \in Int
  BY <1>1, WindowType
<1> QED
  BY <1>1, <1>2, <1>4, <1>5 DEF TokenAccepted

LEMMA InitRecovers == ASSUME Init PROVE Recovers
BY ClockAssumption, WindowAssumption DEF Init, Recovers, NoError, Pending

\* Steps that neither lead to an attempt nor change a clock or a connection error.
LEMMA RecoversKept ==
  ASSUME Recovers, UNCHANGED <<now, drift, honest, conn_error>>,
         \/ pc' \notin {"attempt", "connect", "refused"}
         \/ UNCHANGED <<pc, attempt>>
         \/ pc = "attempt" /\ pc' = "connect" /\ UNCHANGED attempt,
         turn_error' # "drm_error", result'.code # "drm_error"
  PROVE  Recovers'
BY DEF Recovers

\* The kind of service does not change.
LEMMA HonestyKept == ASSUME [Next]_vars PROVE honest' = honest
BY DEF Next, Session, BeginChunk, Return, BeginAttempt, Connect, ConnectSucceeds, ConnectRefused,
       ConnectFails, HandleRefusal, SendConfig, SendSsml, PollCancel, Receive, Dispatch, Close,
       Cancel, Tick, vars, env

LEMMA NextRecovers ==
  ASSUME FairRefusals, TypeOK, Corrected, Recovers, [Next]_vars PROVE Recovers'
<1>0. /\ now \in Int /\ drift \in Int /\ conn_error.date \in Int /\ ServerTime \in Int
      /\ attempt \in 0..MaxRetries /\ BaseTime \in Int /\ MaxTime \in Int
      /\ Window \in Nat /\ MaxRetries \in Nat
      /\ turn_error # "drm_error" /\ result.code # "drm_error"
  BY CallAssumption, ClockAssumption, WindowAssumption DEF TypeOK, Recovers, ServerTime
<1>1. CASE BeginChunk
  BY <1>0, <1>1 DEF BeginChunk, Fail, Recovers, env, turn
<1>2. CASE Return
  BY <1>0, <1>2, RecoversKept DEF Return, env, turn
<1>3. CASE BeginAttempt
  BY <1>0, <1>3, RecoversKept DEF BeginAttempt, env, turn
<1>4. CASE Connect
  <2>1. /\ pc = "connect" /\ UNCHANGED <<now, drift, honest, attempt, turn_error, result>>
    BY <1>4 DEF Connect, env
  <2>2. CASE ConnectSucceeds
    BY <1>0, <2>1, <2>2, RecoversKept DEF ConnectSucceeds
  <2>3. CASE ConnectRefused
    <3>1. /\ conn_error' = [code |-> "drm_error", dated |-> TRUE, date |-> ServerTime]
          /\ pc' = "refused" /\ ~TokenAccepted
      BY <2>3 DEF ConnectRefused, FairRefusals
    <3>2. attempt = 0
      BY <1>0, <2>1, <3>1, RetryAccepted
    <3> QED
      BY <1>0, <2>1, <3>1, <3>2 DEF Recovers, ServerTime
  <2>4. CASE ConnectFails
    BY <1>0, <2>1, <2>4 DEF ConnectFails, Recovers
  <2> QED
    BY <1>4, <2>2, <2>3, <2>4 DEF Connect
<1>5. CASE HandleRefusal
  <2>1. /\ pc = "refused" /\ UNCHANGED <<now, drift, honest, conn_error, turn_error>>
    BY <1>5 DEF HandleRefusal, env, turn
  <2>2. CASE should_retry(conn_error.code, attempt)
    <3>1. conn_error.dated
      BY <2>2 DEF should_retry, Recovers
    <3> QED
      BY <1>0, <1>5, <2>1, <2>2, <3>1 DEF HandleRefusal, Recovers
  <2>3. CASE ~should_retry(conn_error.code, attempt)
    <3>1. conn_error.code # "drm_error"
      BY <1>0, <2>1, <2>3 DEF should_retry, Recovers, FairRefusals
    <3>2. pc' = "done" /\ result'.code = conn_error.code
      BY <1>5, <2>3 DEF HandleRefusal, Fail
    <3> QED
      BY <1>0, <2>1, <3>1, <3>2, RecoversKept
  <2> QED
    BY <2>2, <2>3
<1>6. CASE SendConfig
  BY <1>0, <1>6, RecoversKept DEF SendConfig, FailTurn, env
<1>7. CASE SendSsml
  BY <1>0, <1>7, RecoversKept DEF SendSsml, FailTurn, env
<1>8. CASE PollCancel
  BY <1>0, <1>8, RecoversKept DEF PollCancel, FailTurn, env
<1>9. CASE Receive
  <2>1. turn_error' # "drm_error" /\ pc' \in {"dispatch", "close"}
    BY <1>0, <1>9, FramesParsed DEF Receive, ReceiveFrame, FailTurn
  <2> QED
    BY <1>0, <1>9, <2>1, RecoversKept DEF Receive, env
<1>10. CASE Dispatch
  <2>1. turn_error' # "drm_error" /\ pc' \in {"poll", "dispatch", "close"}
    BY <1>0, <1>10 DEF Dispatch, HandleAudio, HandleBoundary, HandleTurnEnd, NextMessage
  <2> QED
    BY <1>0, <1>10, <2>1, RecoversKept DEF Dispatch, env
<1>11. CASE Close
  BY <1>0, <1>11, RecoversKept DEF Close, Fail, env, turn
<1>12. CASE Cancel
  BY <1>0, <1>12, RecoversKept DEF Cancel, turn
<1>13. CASE Tick
  BY <1>0, <1>13 DEF Tick, Recovers, FairRefusals, turn
<1>14. CASE UNCHANGED vars
  BY <1>0, <1>14, RecoversKept DEF vars
<1> QED
  BY <1>1, <1>2, <1>3, <1>4, <1>5, <1>6, <1>7, <1>8, <1>9, <1>10, <1>11, <1>12,
     <1>13, <1>14 DEF Next, Session

\* One retry is enough against a service that refuses stale tokens only and
\* dates its refusals, however wrong the local clock is (SynthesisSession.cpp:186-203).
THEOREM OneRetryIsEnough == Spec => []WrongClockRecovered
<1>1. Init => TypeOK /\ Corrected /\ (FairRefusals => Recovers)
  BY InitType, InitCorrected, InitRecovers
<1>2. TypeOK /\ Corrected /\ (FairRefusals => Recovers) /\ [Next]_vars
        => TypeOK' /\ Corrected' /\ (FairRefusals => Recovers)'
  <2>1. ASSUME TypeOK, [Next]_vars PROVE honest' = honest
    BY <2>1, HonestyKept
  <2> QED
    BY <2>1, NextType, NextCorrected, NextRecovers DEF FairRefusals
<1>3. (FairRefusals => Recovers) => WrongClockRecovered
  BY DEF FairRefusals, Recovers, WrongClockRecovered
<1> QED
  BY <1>1, <1>2, <1>3, PTL DEF Spec
-----------------------------------------------------------------------------
(* The sums over the text chunks before one.                               *)

SumEquation(f, sum) ==
  sum = [c \in 1..(NumChunks + 1) |-> IF c = 1 THEN 0 ELSE sum[c - 1] + f[c - 1]]

LEMMA SumExists ==
  ASSUME NEW f \in [Chunks -> Nat]
  PROVE  \E sum \in [1..(NumChunks + 1) -> Nat] : SumEquation(f, sum)
<1> DEFINE step == [p \in (0..(NumChunks - 1)) \X Nat |-> p[2] + f[p[1] + 1]]
<1> USE CallAssumption DEF Chunks
<1>1. step \in [(0..(NumChunks - 1)) \X Nat -> Nat]
  <2>1. ASSUME NEW p \in (0..(NumChunks - 1)) \X Nat PROVE p[2] + f[p[1] + 1] \in Nat
    OBVIOUS
  <2> QED
    BY <2>1
<1>2. PICK g \in [0..NumChunks -> Nat] : Runs(g, NumChunks, 0, step)
  <2> HIDE DEF step
  <2> QED
    BY <1>1, RunExists
<1> DEFINE sum == [c \in 1..(NumChunks + 1) |-> g[c - 1]]
<1>3. ASSUME NEW c \in 1..(NumChunks + 1)
      PROVE  sum[c] = IF c = 1 THEN 0 ELSE sum[c - 1] + f[c - 1]
  <2>1. CASE c = 1
    BY <1>2, <2>1 DEF Runs
  <2>2. CASE c # 1
    <3>1. c - 2 \in 0..(NumChunks - 1) /\ c - 1 \in 1..(NumChunks + 1) /\ (c - 2) + 1 = c - 1
      BY <2>2
    <3>2. <<c - 2, g[c - 2]>> \in (0..(NumChunks - 1)) \X Nat
      BY <3>1
    <3>3. g[c - 1] = step[<<c - 2, g[c - 2]>>]
      BY <1>2, <3>1 DEF Runs
    <3>4. step[<<c - 2, g[c - 2]>>] = g[c - 2] + f[c - 1]
      BY <3>1, <3>2
    <3> QED
      BY <2>2, <3>1, <3>3, <3>4
  <2> QED
    BY <2>1, <2>2
<1>4. sum \in [1..(NumChunks + 1) -> Nat]
  <2>1. ASSUME NEW c \in 1..(NumChunks + 1) PROVE g[c - 1] \in Nat
    BY <1>2
  <2> QED
    BY <2>1
<1>5. SumEquation(f, sum)
  BY <1>3 DEF SumEquation
<1> HIDE DEF sum
<1> QED
  BY <1>4, <1>5

\* Two sums that satisfy the equation are the same up to where f and g are.
LEMMA SumUnique ==
  ASSUME NEW f \in [Chunks -> Nat], NEW g \in [Chunks -> Nat], NEW r, NEW s,
         SumEquation(f, r), SumEquation(g, s),
         NEW m \in 1..(NumChunks + 1), \A c \in 1..(m - 1) : f[c] = g[c]
  PROVE  \A c \in 1..m : r[c] = s[c]
<1> USE CallAssumption DEF Chunks
<1> DEFINE S == {k \in Nat : k + 1 <= m => r[k + 1] = s[k + 1]}
<1>1. 0 \in S
  BY DEF SumEquation
<1>2. ASSUME NEW k \in Nat, k \in S PROVE k + 1 \in S
  <2>1. SUFFICES ASSUME k + 2 <= m PROVE r[k + 2] = s[k + 2]
    OBVIOUS
  <2>2. r[k + 1] = s[k + 1] /\ f[k + 1] = g[k + 1]
    BY <1>2, <2>1
  <2>3. k + 2 \in 1..(NumChunks + 1) /\ k + 2 # 1 /\ (k + 2) - 1 = k + 1
    BY <2>1
  <2>4. r[k + 2] = r[k + 1] + f[k + 1] /\ s[k + 2] = s[k + 1] + g[k + 1]
    BY <2>3 DEF SumEquation
  <2> QED
    BY <2>2, <2>4
<1> HIDE DEF S
<1>3. \A k \in Nat : k \in S
  BY <1>1, <1>2, Induction
<1>4. ASSUME NEW c \in 1..m PROVE r[c] = s[c]
  <2>1. c - 1 \in Nat /\ (c - 1) + 1 = c /\ c <= m
    OBVIOUS
  <2>2. c - 1 \in S
    BY <1>3, <2>1
  <2> QED
    BY <2>1, <2>2 DEF S
<1> QED
  BY <1>4

\* SumBefore is the function its recursion describes.
LEMMA SumFacts ==
  ASSUME NEW f \in [Chunks -> Nat]
  PROVE  /\ Promise!SumBefore(f) \in [1..(NumChunks + 1) -> Nat]
         /\ SumEquation(f, Promise!SumBefore(f))
<1>1. PICK r \in [1..(NumChunks + 1) -> Nat] : SumEquation(f, r)
  BY SumExists
<1>2. SumEquation(f, Promise!SumBefore(f))
  BY <1>1 DEF Promise!SumBefore, SumEquation
<1>3. NumChunks + 1 \in 1..(NumChunks + 1)
  BY CallAssumption
<1>4. \A c \in 1..(NumChunks + 1) : Promise!SumBefore(f)[c] = r[c]
  <2> DEFINE p == Promise!SumBefore(f)
  <2>1. SumEquation(f, p)
    BY <1>2
  <2> HIDE DEF p
  <2>2. \A c \in 1..((NumChunks + 1) - 1) : f[c] = f[c]
    OBVIOUS
  <2>3. \A c \in 1..(NumChunks + 1) : p[c] = r[c]
    BY <1>1, <1>3, <2>1, <2>2, SumUnique
  <2> QED
    BY <2>3 DEF p
<1>5. Promise!SumBefore(f) \in [1..(NumChunks + 1) -> Nat]
  <2>1. Promise!SumBefore(f) = [c \in 1..(NumChunks + 1) |-> Promise!SumBefore(f)[c]]
    BY <1>2 DEF SumEquation
  <2> QED
    BY <1>4, <2>1
<1> QED
  BY <1>2, <1>5

LEMMA SumStep ==
  ASSUME NEW f \in [Chunks -> Nat]
  PROVE  /\ Promise!SumBefore(f)[1] = 0
         /\ \A c \in Chunks : Promise!SumBefore(f)[c + 1] = Promise!SumBefore(f)[c] + f[c]
<1> DEFINE r == Promise!SumBefore(f)
<1>1. SumEquation(f, r)
  BY SumFacts
<1> HIDE DEF r
<1>2. r[1] = 0 /\ \A c \in Chunks : r[c + 1] = r[c] + f[c]
  BY <1>1, CallAssumption DEF SumEquation, Chunks
<1> QED
  BY <1>2 DEF r

\* What comes before a chunk depends on the chunks before it only.
LEMMA SumAgree ==
  ASSUME NEW f \in [Chunks -> Nat], NEW g \in [Chunks -> Nat],
         NEW m \in 1..(NumChunks + 1), \A c \in 1..(m - 1) : f[c] = g[c]
  PROVE  \A c \in 1..m : Promise!SumBefore(f)[c] = Promise!SumBefore(g)[c]
<1> DEFINE r == Promise!SumBefore(f)
           s == Promise!SumBefore(g)
<1>1. SumEquation(f, r) /\ SumEquation(g, s)
  BY SumFacts
<1> HIDE DEF r, s
<1>2. \A c \in 1..m : r[c] = s[c]
  BY <1>1, SumUnique
<1> QED
  BY <1>2 DEF r, s

\* A later chunk does not start before an earlier one.
LEMMA SumMonotone ==
  ASSUME NEW f \in [Chunks -> Nat], NEW a \in 1..(NumChunks + 1),
         NEW b \in 1..(NumChunks + 1), a <= b
  PROVE  Promise!SumBefore(f)[a] <= Promise!SumBefore(f)[b]
<1> USE CallAssumption DEF Chunks
<1> DEFINE r == Promise!SumBefore(f)
<1>1. r \in [1..(NumChunks + 1) -> Nat] /\ \A c \in Chunks : r[c + 1] = r[c] + f[c]
  BY SumFacts, SumStep
<1> HIDE DEF r
<1> DEFINE S == {k \in Nat : a + k <= NumChunks + 1 => r[a] <= r[a + k]}
<1>2. 0 \in S
  BY <1>1
<1>3. ASSUME NEW k \in Nat, k \in S PROVE k + 1 \in S
  <2>1. SUFFICES ASSUME a + (k + 1) <= NumChunks + 1 PROVE r[a] <= r[a + (k + 1)]
    OBVIOUS
  <2>2. a + k \in Chunks /\ a + k \in 1..(NumChunks + 1) /\ (a + k) + 1 = a + (k + 1)
    BY <2>1
  <2>3. r[a + (k + 1)] = r[a + k] + f[a + k] /\ f[a + k] \in Nat
    BY <1>1, <2>2
  <2>4. r[a] <= r[a + k] /\ r[a] \in Nat /\ r[a + k] \in Nat
    BY <1>1, <1>3, <2>2
  <2> QED
    BY <2>3, <2>4
<1> HIDE DEF S
<1>4. b - a \in S
  <2>1. \A k \in Nat : k \in S
    BY <1>2, <1>3, Induction
  <2> QED
    BY <2>1
<1>5. a + (b - a) = b
  OBVIOUS
<1> QED
  BY <1>4, <1>5 DEF S, r

-----------------------------------------------------------------------------
(* The promise of Synthesis is kept.                                       *)

\* The sums of the promise over what the service has said, d.
Starts(d) == Promise!SumBefore([c \in Chunks |-> Promise!Length(d[c])])
Places(d) == Promise!SumBefore([c \in Chunks |-> Len(d[c])])

\* A message of a chunk as the promise places it.
AsPromised(d, msg, c) ==
  IF msg.kind = "audio"
  THEN [kind |-> "audio", bytes |-> msg.bytes, chunk |-> c]
  ELSE [kind |-> "boundary", type |-> msg.type, offset |-> Starts(d)[c] + msg.offset,
        duration |-> msg.duration, chunk |-> c]

Heard(msgs) == \E m \in Promise!Range(msgs) : m.kind = "audio"

IsLast(x, S) == x \in S /\ \A y \in S : y <= x

Before == {"chunk", "attempt", "connect", "refused", "config", "ssml"}
InTurn == {"config", "ssml", "poll", "receive", "dispatch", "close"}

\* Inductive: nothing is said of a chunk before its turn.
Spoken ==
  /\ \A c \in Chunks :
       IsLast(Promise!Length(delivered[c]), Promise!Ends(delivered[c]) \cup {0})
  /\ \A c \in Chunks : c > chunk => delivered[c] = <<>>
  /\ pc \in Before /\ chunk \in Chunks => delivered[chunk] = <<>>

\* Inductive: the counters of the session are the sums of the promise.
OnTime ==
  /\ cumulative = Starts(delivered)[chunk]
  /\ pc \in InTurn => boundary_end = Promise!Length(delivered[chunk])

\* Inductive: every item of the result stands where the promise places it.
InPlace ==
  /\ chunk \in Chunks => Len(all_chunks) = Places(delivered)[chunk] + Len(delivered[chunk])
  /\ chunk \notin Chunks => Len(all_chunks) = Places(delivered)[chunk]
  /\ \A i \in DOMAIN all_chunks :
       LET c == all_chunks[i].chunk
       IN  /\ c <= chunk
           /\ Places(delivered)[c] < i /\ i <= Places(delivered)[c] + Len(delivered[c])
           /\ all_chunks[i] = AsPromised(delivered, delivered[c][i - Places(delivered)[c]], c)

\* Inductive: audio_received is what has been said, and an error has its reason.
Justified ==
  /\ pc \in InTurn => (audio_received <=> Heard(delivered[chunk]))
  /\ \A k \in DOMAIN inbox : inbox[k].kind \in {"audio", "boundary"} => inbox[k] \in Speech
  /\ pc = "refused" => conn_error.code \in {"drm_error", "network_error"}
  /\ pc = "close" =>
       /\ turn_error # "drm_error"
       /\ turn_error = "none" => audio_received
       /\ turn_error = "service_error" => ~audio_received
       /\ turn_error = "cancelled" => cancelled
       /\ turn_error = "invalid_argument" => delivered[chunk] = <<>>

\* The latest end is what Max says, and a new end moves it as Later does.
LEMMA MaxIsLast ==
  ASSUME NEW S \in SUBSET Int, NEW x \in Int, IsLast(x, S)
  PROVE  Promise!Max(S) = x
<1>1. ASSUME NEW y \in S, \A z \in S : y >= z PROVE y = x
  BY <1>1 DEF IsLast
<1>2. x \in S /\ \A z \in S : x >= z
  BY DEF IsLast
<1> QED
  BY <1>1, <1>2 DEF Promise!Max

LEMMA RangeAppend ==
  ASSUME NEW T, NEW s \in Seq(T), NEW m \in T
  PROVE  Promise!Range(Append(s, m)) = Promise!Range(s) \cup {m}
<1>1. DOMAIN Append(s, m) = 1..(Len(s) + 1) /\ DOMAIN s = 1..Len(s) /\ Len(s) \in Nat
  OBVIOUS
<1>2. Append(s, m)[Len(s) + 1] = m /\ \A i \in 1..Len(s) : Append(s, m)[i] = s[i]
  OBVIOUS
<1>3. ASSUME NEW x \in Promise!Range(Append(s, m)) PROVE x \in Promise!Range(s) \cup {m}
  <2>1. PICK i \in 1..(Len(s) + 1) : x = Append(s, m)[i]
    BY <1>1, <1>3 DEF Promise!Range
  <2>2. i \in 1..Len(s) \/ i = Len(s) + 1
    BY <1>1
  <2> QED
    BY <1>1, <1>2, <2>1, <2>2 DEF Promise!Range
<1>4. ASSUME NEW x \in Promise!Range(s) PROVE x \in Promise!Range(Append(s, m))
  <2>1. PICK i \in 1..Len(s) : x = s[i]
    BY <1>1, <1>4 DEF Promise!Range
  <2>2. i \in 1..(Len(s) + 1) /\ x = Append(s, m)[i]
    BY <1>1, <1>2, <2>1
  <2> QED
    BY <1>1, <2>2 DEF Promise!Range
<1>5. m \in Promise!Range(Append(s, m))
  <2>1. Len(s) + 1 \in 1..(Len(s) + 1)
    BY <1>1
  <2> QED
    BY <1>1, <1>2, <2>1 DEF Promise!Range
<1> QED
  BY <1>3, <1>4, <1>5

LEMMA RangeOfSeq ==
  ASSUME NEW T, NEW s \in Seq(T)
  PROVE  Promise!Range(s) \subseteq T /\ (s = <<>> => Promise!Range(s) = {})
BY DEF Promise!Range

LEMMA EndsType ==
  ASSUME NEW s \in Seq(DataMessage)
  PROVE  Promise!Ends(s) \cup {0} \in SUBSET Int /\ (s = <<>> => Promise!Ends(s) = {})
<1>1. ASSUME NEW m \in Promise!Range(s), m.kind = "boundary" PROVE m.offset + m.duration \in Int
  <2>1. m \in Message
    BY RangeOfSeq DEF DataMessage
  <2>2. m \in [kind : {"boundary"}, type : BoundaryType, offset : Int, duration : Int]
    BY <1>1, <2>1 DEF Message
  <2> QED
    BY <2>2
<1>2. s = <<>> => Promise!Range(s) = {}
  BY RangeOfSeq
<1> QED
  BY <1>1, <1>2 DEF Promise!Ends

LEMMA LengthType ==
  ASSUME NEW s \in Seq(DataMessage), IsLast(Promise!Length(s), Promise!Ends(s) \cup {0})
  PROVE  Promise!Length(s) \in Nat
<1>1. Promise!Length(s) \in Int /\ 0 <= Promise!Length(s)
  BY EndsType DEF IsLast
<1> QED
  BY <1>1

LEMMA LengthEmpty ==
  Promise!Length(<<>>) = 0 /\ IsLast(0, Promise!Ends(<<>>) \cup {0})
<1>1. <<>> \in Seq(DataMessage) /\ Promise!Ends(<<>>) = {}
  BY EndsType, EmptySequences
<1>2. IsLast(0, {0}) /\ {0} \in SUBSET Int
  BY DEF IsLast
<1>3. Promise!Max({0}) = 0
  BY <1>2, MaxIsLast
<1>4. Promise!Ends(<<>>) \cup {0} = {0}
  BY <1>1
<1> QED
  BY <1>2, <1>3, <1>4 DEF Promise!Length

LEMMA LengthAppend ==
  ASSUME NEW s \in Seq(DataMessage), NEW m \in DataMessage,
         IsLast(Promise!Length(s), Promise!Ends(s) \cup {0})
  PROVE  /\ IsLast(Promise!Length(Append(s, m)), Promise!Ends(Append(s, m)) \cup {0})
         /\ m.kind = "audio" => Promise!Length(Append(s, m)) = Promise!Length(s)
         /\ m.kind = "boundary" =>
              Promise!Length(Append(s, m)) = Later(Promise!Length(s), RawEnd(m))
<1> DEFINE x == Promise!Length(s)
           S == Promise!Ends(s) \cup {0}
           T == Promise!Ends(Append(s, m)) \cup {0}
<1>1. x \in Nat /\ IsLast(x, S) /\ S \in SUBSET Int
  BY LengthType, EndsType
<1>2. T \in SUBSET Int
  <2>1. Append(s, m) \in Seq(DataMessage)
    OBVIOUS
  <2> QED
    BY <2>1, EndsType
<1>3. Promise!Range(Append(s, m)) = Promise!Range(s) \cup {m}
  BY RangeAppend
<1>4. CASE m.kind = "audio"
  <2>1. T = S
    BY <1>3, <1>4 DEF Promise!Ends
  <2>2. Promise!Length(Append(s, m)) = x
    BY <2>1 DEF Promise!Length
  <2> QED
    BY <1>1, <1>4, <2>1, <2>2
<1>5. CASE m.kind = "boundary"
  <2>1. T = S \cup {RawEnd(m)}
    BY <1>3, <1>5 DEF Promise!Ends, RawEnd
  <2>2. RawEnd(m) \in Int
    BY <1>2, <2>1
  <2> HIDE DEF x, S, T
  <2>3. Later(x, RawEnd(m)) \in Int /\ IsLast(Later(x, RawEnd(m)), T)
    BY <1>1, <2>1, <2>2 DEF Later, IsLast
  <2>4. Promise!Max(T) = Later(x, RawEnd(m))
    BY <1>2, <2>3, MaxIsLast
  <2> QED
    BY <1>5, <2>3, <2>4 DEF Promise!Length, x, T
<1>6. m.kind \in {"audio", "boundary"}
  BY DEF DataMessage
<1> QED
  BY <1>4, <1>5, <1>6

LEMMA HeardAppend ==
  ASSUME NEW s \in Seq(DataMessage), NEW m \in DataMessage
  PROVE  Heard(Append(s, m)) <=> (Heard(s) \/ m.kind = "audio")
<1>1. Promise!Range(Append(s, m)) = Promise!Range(s) \cup {m}
  BY RangeAppend
<1> QED
  BY <1>1 DEF Heard

\* The sums are over natural numbers.
LEMMA SumsOfSpoken ==
  ASSUME TypeOK, Spoken
  PROVE  /\ [c \in Chunks |-> Promise!Length(delivered[c])] \in [Chunks -> Nat]
         /\ [c \in Chunks |-> Len(delivered[c])] \in [Chunks -> Nat]
<1>1. ASSUME NEW c \in Chunks
      PROVE  Promise!Length(delivered[c]) \in Nat /\ Len(delivered[c]) \in Nat
  <2>1. delivered[c] \in Seq(DataMessage)
    BY DEF TypeOK
  <2>2. IsLast(Promise!Length(delivered[c]), Promise!Ends(delivered[c]) \cup {0})
    BY DEF Spoken
  <2>3. Promise!Length(delivered[c]) \in Nat
    BY <2>1, <2>2, LengthType
  <2>4. Len(delivered[c]) \in Nat
    BY <2>1
  <2> QED
    BY <2>3, <2>4
<1> QED
  BY <1>1

LEMMA SumsStep ==
  ASSUME TypeOK, Spoken, NEW c \in Chunks
  PROVE  /\ Starts(delivered)[c + 1] = Starts(delivered)[c] + Promise!Length(delivered[c])
         /\ Places(delivered)[c + 1] = Places(delivered)[c] + Len(delivered[c])
         /\ Promise!Length(delivered[c]) \in Nat
         /\ Len(delivered[c]) \in Nat
<1> DEFINE f == [b \in Chunks |-> Promise!Length(delivered[b])]
           g == [b \in Chunks |-> Len(delivered[b])]
<1>1. f \in [Chunks -> Nat] /\ g \in [Chunks -> Nat]
  BY SumsOfSpoken
<1>2. f[c] = Promise!Length(delivered[c]) /\ g[c] = Len(delivered[c])
  OBVIOUS
<1>3. Starts(delivered) = Promise!SumBefore(f) /\ Places(delivered) = Promise!SumBefore(g)
  BY DEF Starts, Places
<1> HIDE DEF f, g
<1>4. /\ Promise!SumBefore(f)[c + 1] = Promise!SumBefore(f)[c] + f[c]
      /\ Promise!SumBefore(g)[c + 1] = Promise!SumBefore(g)[c] + g[c]
  BY <1>1, SumStep
<1>5. f[c] \in Nat /\ g[c] \in Nat
  BY <1>1
<1> QED
  BY <1>2, <1>3, <1>4, <1>5

LEMMA SumsType ==
  ASSUME TypeOK, Spoken
  PROVE  /\ Starts(delivered) \in [1..(NumChunks + 1) -> Nat]
         /\ Places(delivered) \in [1..(NumChunks + 1) -> Nat]
         /\ Starts(delivered)[1] = 0 /\ Places(delivered)[1] = 0
         /\ \A a, b \in 1..(NumChunks + 1) :
              a <= b => Places(delivered)[a] <= Places(delivered)[b]
<1> DEFINE f == [c \in Chunks |-> Promise!Length(delivered[c])]
           g == [c \in Chunks |-> Len(delivered[c])]
<1>1. f \in [Chunks -> Nat] /\ g \in [Chunks -> Nat]
  BY SumsOfSpoken
<1>2. Starts(delivered) = Promise!SumBefore(f) /\ Places(delivered) = Promise!SumBefore(g)
  BY DEF Starts, Places
<1> HIDE DEF f, g
<1>3. /\ Promise!SumBefore(f) \in [1..(NumChunks + 1) -> Nat]
      /\ Promise!SumBefore(g) \in [1..(NumChunks + 1) -> Nat]
      /\ Promise!SumBefore(f)[1] = 0 /\ Promise!SumBefore(g)[1] = 0
  BY <1>1, SumFacts, SumStep
<1>4. \A a, b \in 1..(NumChunks + 1) :
        a <= b => Promise!SumBefore(g)[a] <= Promise!SumBefore(g)[b]
  BY <1>1, SumMonotone
<1> QED
  BY <1>2, <1>3, <1>4

\* The promise reads its sums from the same variables.
LEMMA PromiseReads ==
  /\ Promise!StartOf = Starts(delivered)
  /\ Promise!PlaceOf = Places(delivered)
  /\ \A msg, c : Promise!Placed(msg, c) = AsPromised(delivered, msg, c)
BY DEF Promise!StartOf, Promise!PlaceOf, Promise!Placed, Promise!Chunks, Chunks, Starts, Places,
       AsPromised

\* A message that is said last of the current chunk moves no chunk up to it.
LEMMA SumsKept ==
  ASSUME TypeOK, Spoken, chunk \in Chunks, NEW m \in DataMessage,
         delivered' = [delivered EXCEPT ![chunk] = Append(@, m)],
         TypeOK', Spoken', NEW c \in 1..chunk
  PROVE  /\ Starts(delivered')[c] = Starts(delivered)[c]
         /\ Places(delivered')[c] = Places(delivered)[c]
<1> DEFINE f == [b \in Chunks |-> Promise!Length(delivered[b])]
           g == [b \in Chunks |-> Len(delivered[b])]
           f1 == [b \in Chunks |-> Promise!Length(delivered'[b])]
           g1 == [b \in Chunks |-> Len(delivered'[b])]
<1>1. f \in [Chunks -> Nat] /\ g \in [Chunks -> Nat]
  BY SumsOfSpoken
<1>2. f1 \in [Chunks -> Nat] /\ g1 \in [Chunks -> Nat]
  <2>1. ASSUME NEW b \in Chunks
        PROVE  Promise!Length(delivered'[b]) \in Nat /\ Len(delivered'[b]) \in Nat
    <3>1. delivered'[b] \in Seq(DataMessage)
      BY DEF TypeOK
    <3>2. IsLast(Promise!Length(delivered'[b]), Promise!Ends(delivered'[b]) \cup {0})
      BY DEF Spoken
    <3>3. Promise!Length(delivered'[b]) \in Nat
      BY <3>1, <3>2, LengthType
    <3>4. Len(delivered'[b]) \in Nat
      BY <3>1
    <3> QED
      BY <3>3, <3>4
  <2> QED
    BY <2>1
<1>3. \A b \in 1..(chunk - 1) : f1[b] = f[b] /\ g1[b] = g[b]
  <2>1. ASSUME NEW b \in 1..(chunk - 1) PROVE b \in Chunks /\ delivered'[b] = delivered[b]
    <3>1. delivered \in [Chunks -> Seq(DataMessage)]
      BY DEF TypeOK
    <3>2. b \in Chunks /\ b # chunk
      BY CallAssumption DEF Chunks
    <3> QED
      BY <3>1, <3>2
  <2> QED
    BY <2>1
<1>4. /\ Starts(delivered) = Promise!SumBefore(f) /\ Places(delivered) = Promise!SumBefore(g)
      /\ Starts(delivered') = Promise!SumBefore(f1) /\ Places(delivered') = Promise!SumBefore(g1)
  BY DEF Starts, Places
<1>5. chunk \in 1..(NumChunks + 1)
  BY DEF TypeOK
<1> HIDE DEF f, g, f1, g1
<1>6. Promise!SumBefore(f1)[c] = Promise!SumBefore(f)[c]
  BY <1>1, <1>2, <1>3, <1>5, SumAgree
<1>7. Promise!SumBefore(g1)[c] = Promise!SumBefore(g)[c]
  BY <1>1, <1>2, <1>3, <1>5, SumAgree
<1> QED
  BY <1>4, <1>6, <1>7

Told == Spoken /\ OnTime /\ InPlace

LEMMA InitTold == ASSUME Init PROVE Told /\ Justified
<1>1. TypeOK
  BY InitType
<1>2. Spoken
  <2>1. ASSUME NEW c \in Chunks PROVE delivered[c] = <<>>
    BY DEF Init
  <2> QED
    BY <2>1, LengthEmpty DEF Spoken
<1>3. Starts(delivered)[1] = 0 /\ Places(delivered)[1] = 0
  BY <1>1, <1>2, SumsType
<1>4. OnTime
  BY <1>3 DEF Init, OnTime, InTurn
<1>5. InPlace
  <2>1. chunk = 1 /\ all_chunks = <<>> /\ \A c \in Chunks : delivered[c] = <<>>
    BY DEF Init
  <2> QED
    BY <1>3, <2>1 DEF InPlace
<1>6. Justified
  BY DEF Init, Justified, InTurn
<1> QED
  BY <1>2, <1>4, <1>5, <1>6 DEF Told

\* A step that says nothing and stays with its chunk.
LEMMA ToldKept ==
  ASSUME Told, UNCHANGED <<chunk, cumulative, all_chunks, delivered>>,
         pc' \in Before => pc \in Before,
         pc' \in InTurn => pc \in InTurn /\ boundary_end' = boundary_end
  PROVE  Told'
<1>1. Spoken'
  BY DEF Told, Spoken
<1>2. OnTime'
  BY DEF Told, OnTime
<1>3. InPlace'
  BY DEF Told, InPlace
<1> QED
  BY <1>1, <1>2, <1>3 DEF Told

LEMMA ConnectTold == ASSUME TypeOK, Told, Connect PROVE Told'
<1>1. UNCHANGED <<chunk, cumulative, all_chunks, delivered>> /\ pc \in Before
  BY DEF Connect, Before
<1>2. chunk \in Chunks /\ delivered[chunk] = <<>>
  BY <1>1 DEF Connect, Told, Spoken, TypeOK
<1>3. pc' \in InTurn => boundary_end' = 0
  BY DEF Connect, ConnectSucceeds, ConnectRefused, ConnectFails, InTurn
<1>4. Spoken'
  BY <1>1 DEF Told, Spoken
<1>5. OnTime'
  BY <1>1, <1>2, <1>3, LengthEmpty DEF Told, OnTime
<1>6. InPlace'
  BY <1>1 DEF Told, InPlace
<1> QED
  BY <1>4, <1>5, <1>6 DEF Told

\* A message of the current turn joins what was said and the result.
LEMMA SayTold ==
  ASSUME TypeOK, TypeOK', Told, chunk \in Chunks, NEW m \in DataMessage,
         delivered' = [delivered EXCEPT ![chunk] = Append(@, m)],
         all_chunks' = Append(all_chunks, AsPromised(delivered, m, chunk)),
         boundary_end' = Promise!Length(Append(delivered[chunk], m)),
         UNCHANGED <<chunk, cumulative>>, pc' \notin Before
  PROVE  Told'
<1> DEFINE said == delivered[chunk]
           new == AsPromised(delivered, m, chunk)
           p == Places(delivered)[chunk]
<1>1. /\ delivered \in [Chunks -> Seq(DataMessage)] /\ said \in Seq(DataMessage)
      /\ delivered'[chunk] = Append(said, m)
      /\ \A c \in Chunks : c # chunk => delivered'[c] = delivered[c]
      /\ chunk \in Nat /\ chunk \in 1..(NumChunks + 1) /\ chunk \in 1..chunk
  <2>1. delivered \in [Chunks -> Seq(DataMessage)]
    BY DEF TypeOK
  <2>2. chunk \in Nat /\ chunk \in 1..(NumChunks + 1) /\ chunk \in 1..chunk
    BY CallAssumption DEF Chunks
  <2> QED
    BY <2>1, <2>2
<1>2. Spoken'
  <2>1. ASSUME NEW c \in Chunks
        PROVE  IsLast(Promise!Length(delivered'[c]), Promise!Ends(delivered'[c]) \cup {0})
    <3>1. IsLast(Promise!Length(delivered[c]), Promise!Ends(delivered[c]) \cup {0})
      BY DEF Told, Spoken
    <3>2. CASE c = chunk
      BY <1>1, <3>1, <3>2, LengthAppend
    <3>3. CASE c # chunk
      BY <1>1, <3>1, <3>3
    <3> QED
      BY <3>2, <3>3
  <2>2. ASSUME NEW c \in Chunks, c > chunk PROVE delivered'[c] = <<>>
    BY <1>1, <2>2 DEF Told, Spoken
  <2> QED
    BY <2>1, <2>2 DEF Spoken
<1>3. \A c \in 1..chunk : /\ Starts(delivered')[c] = Starts(delivered)[c]
                          /\ Places(delivered')[c] = Places(delivered)[c]
  BY <1>2, SumsKept DEF Told
<1>4. OnTime'
  <2>1. cumulative' = Starts(delivered')[chunk']
    BY <1>1, <1>3 DEF Told, OnTime
  <2>2. boundary_end' = Promise!Length(delivered'[chunk'])
    BY <1>1
  <2> QED
    BY <2>1, <2>2 DEF OnTime
<1>5. Len(all_chunks) = p + Len(said) /\ p \in Nat /\ Len(said) \in Nat
  BY <1>1, SumsType DEF Told, InPlace
<1>6. Len(Append(said, m)) = Len(said) + 1
  BY <1>1
<1>7. all_chunks \in Seq(Item) /\ new.chunk = chunk
  BY DEF TypeOK, AsPromised
<1>8. /\ Len(all_chunks') = Len(all_chunks) + 1
      /\ DOMAIN all_chunks' = 1..(Len(all_chunks) + 1)
      /\ \A i \in DOMAIN all_chunks : all_chunks'[i] = all_chunks[i]
      /\ all_chunks'[Len(all_chunks) + 1] = new
      /\ DOMAIN all_chunks = 1..Len(all_chunks)
  BY <1>7
<1>9. Places(delivered')[chunk] = p /\ \A c \in 1..chunk : Starts(delivered')[c] = Starts(delivered)[c]
  BY <1>1, <1>3
<1>10. Len(all_chunks') = Places(delivered')[chunk] + Len(delivered'[chunk])
  BY <1>1, <1>5, <1>6, <1>8, <1>9
<1>11. ASSUME NEW i \in DOMAIN all_chunks
       PROVE  LET c == all_chunks'[i].chunk
              IN  /\ c <= chunk
                  /\ Places(delivered')[c] < i
                  /\ i <= Places(delivered')[c] + Len(delivered'[c])
                  /\ all_chunks'[i] =
                       AsPromised(delivered', delivered'[c][i - Places(delivered')[c]], c)
  <2> DEFINE c == all_chunks[i].chunk
             k == i - Places(delivered)[c]
  <2>1. c \in Chunks
    <3>1. all_chunks[i] \in Item
      BY <1>7
    <3> QED
      BY <3>1 DEF Item
  <2>2. /\ c <= chunk /\ Places(delivered)[c] < i
        /\ i <= Places(delivered)[c] + Len(delivered[c])
        /\ all_chunks[i] = AsPromised(delivered, delivered[c][k], c)
    BY DEF Told, InPlace
  <2>3. c \in 1..chunk /\ c \in 1..(NumChunks + 1)
    BY <1>1, <2>1, <2>2, CallAssumption DEF Chunks
  <2>4. Places(delivered')[c] = Places(delivered)[c] /\ Starts(delivered')[c] = Starts(delivered)[c]
    BY <1>3, <2>3
  <2>5. Places(delivered)[c] \in Nat /\ i \in Nat /\ Len(delivered[c]) \in Nat
    BY <1>1, <1>8, <2>1, <2>3, SumsType DEF Told
  <2>6. k \in 1..Len(delivered[c])
    BY <2>2, <2>5
  <2>7. Len(delivered[c]) <= Len(delivered'[c]) /\ delivered'[c][k] = delivered[c][k]
    BY <1>1, <2>1, <2>5, <2>6
  <2>8. Len(delivered'[c]) \in Nat
    BY <1>1, <2>1
  <2>9. i <= Places(delivered)[c] + Len(delivered'[c])
    BY <2>2, <2>5, <2>7, <2>8
  <2>10. AsPromised(delivered', delivered[c][k], c) = AsPromised(delivered, delivered[c][k], c)
    BY <2>4 DEF AsPromised
  <2>11. all_chunks'[i] = all_chunks[i]
    BY <1>8
  <2> HIDE DEF c, k
  <2>12. all_chunks'[i] = AsPromised(delivered', delivered'[c][k], c)
    BY <2>2, <2>7, <2>10, <2>11
  <2>13. k = i - Places(delivered')[c] /\ all_chunks'[i].chunk = c
    BY <2>4, <2>11 DEF c, k
  <2> QED
    BY <2>2, <2>4, <2>9, <2>12, <2>13
<1>12. LET i == Len(all_chunks) + 1
       IN  /\ all_chunks'[i].chunk = chunk
           /\ p < i /\ i <= p + Len(delivered'[chunk])
           /\ all_chunks'[i] = AsPromised(delivered', delivered'[chunk][i - p], chunk)
  <2> DEFINE i == Len(all_chunks) + 1
  <2>1. all_chunks'[i] = new /\ new.chunk = chunk
    BY <1>7, <1>8
  <2>2. p < i /\ i <= p + Len(delivered'[chunk]) /\ i - p = Len(said) + 1
    BY <1>1, <1>5, <1>6
  <2>3. delivered'[chunk][Len(said) + 1] = m
    BY <1>1
  <2>4. AsPromised(delivered', m, chunk) = new
    BY <1>1, <1>3 DEF AsPromised
  <2> HIDE DEF new, p
  <2> QED
    BY <2>1, <2>2, <2>3, <2>4
<1> HIDE DEF new, p, said
<1>13. InPlace'
  <2>1. ASSUME NEW i \in DOMAIN all_chunks'
        PROVE  LET c == all_chunks'[i].chunk
               IN  /\ c <= chunk
                   /\ Places(delivered')[c] < i
                   /\ i <= Places(delivered')[c] + Len(delivered'[c])
                   /\ all_chunks'[i] =
                        AsPromised(delivered', delivered'[c][i - Places(delivered')[c]], c)
    <3>1. CASE i \in DOMAIN all_chunks
      BY <1>11, <3>1
    <3>2. CASE i = Len(all_chunks) + 1
      <4>1. chunk <= chunk
        BY <1>1
      <4> QED
        BY <1>9, <1>12, <3>2, <4>1
    <3>3. i \in DOMAIN all_chunks \/ i = Len(all_chunks) + 1
      BY <1>7, <1>8
    <3> QED
      BY <3>1, <3>2, <3>3
  <2> QED
    BY <1>10, <2>1 DEF InPlace
<1> QED
  BY <1>2, <1>4, <1>13 DEF Told

LEMMA DispatchTold == ASSUME TypeOK, TypeOK', Told, Dispatch PROVE Told'
<1> DEFINE m == Head(inbox)
           said == delivered[chunk]
<1>1. /\ inbox # <<>> /\ m \in Message /\ chunk \in Chunks /\ pc = "dispatch"
      /\ said \in Seq(DataMessage) /\ cumulative \in Nat
  BY DEF Dispatch, TypeOK
<1>2. /\ cumulative = Starts(delivered)[chunk] /\ boundary_end = Promise!Length(said)
      /\ IsLast(Promise!Length(said), Promise!Ends(said) \cup {0})
  BY <1>1 DEF Told, OnTime, Spoken, InTurn
<1>3. CASE m.kind = "audio" /\ HandleAudio
  <2>1. m \in DataMessage
    BY <1>1, <1>3 DEF DataMessage
  <2>2. AsPromised(delivered, m, chunk) = Audio(m)
    BY <1>3 DEF AsPromised, Audio
  <2>3. boundary_end' = Promise!Length(Append(said, m))
    BY <1>1, <1>2, <1>3, <2>1, LengthAppend DEF HandleAudio
  <2>4. pc' \notin Before /\ UNCHANGED <<chunk, cumulative>>
    BY <1>3 DEF Dispatch, HandleAudio, NextMessage, Before
  <2>5. /\ delivered' = [delivered EXCEPT ![chunk] = Append(@, m)]
        /\ all_chunks' = Append(all_chunks, AsPromised(delivered, m, chunk))
    BY <1>3, <2>2 DEF HandleAudio
  <2> QED
    BY <1>1, <2>1, <2>3, <2>4, <2>5, SayTold
<1>4. CASE m.kind = "boundary" /\ HandleBoundary
  <2>1. m \in DataMessage /\ m.offset \in Int
    BY <1>1, <1>4, BoundaryItem
  <2>2. AsPromised(delivered, m, chunk) = Boundary(m)
    BY <1>1, <1>2, <1>4, <2>1 DEF AsPromised, Boundary
  <2>3. boundary_end' = Promise!Length(Append(said, m))
    BY <1>1, <1>2, <1>4, <2>1, LengthAppend DEF HandleBoundary
  <2>4. pc' \notin Before /\ UNCHANGED <<chunk, cumulative>>
    BY <1>4 DEF Dispatch, HandleBoundary, NextMessage, Before
  <2>5. /\ delivered' = [delivered EXCEPT ![chunk] = Append(@, m)]
        /\ all_chunks' = Append(all_chunks, AsPromised(delivered, m, chunk))
    BY <1>4, <2>2 DEF HandleBoundary
  <2> QED
    BY <1>1, <2>1, <2>3, <2>4, <2>5, SayTold
<1>5. CASE /\ UNCHANGED <<audio_received, boundary_end, all_chunks, delivered>>
           /\ pc' \in {"close", "poll", "dispatch"}
  <2>1. UNCHANGED <<chunk, cumulative>>
    BY DEF Dispatch
  <2> QED
    BY <1>1, <1>5, <2>1, ToldKept DEF Before, InTurn
<1>6. \/ m.kind = "audio" /\ HandleAudio
      \/ m.kind = "boundary" /\ HandleBoundary
      \/ /\ UNCHANGED <<audio_received, boundary_end, all_chunks, delivered>>
         /\ pc' \in {"close", "poll", "dispatch"}
  BY DEF Dispatch, HandleTurnEnd, NextMessage
<1> QED
  BY <1>3, <1>4, <1>5, <1>6

LEMMA CloseTold == ASSUME TypeOK, TypeOK', Told, Close PROVE Told'
<1>1. CASE turn_error # "none"
  <2>1. UNCHANGED <<chunk, cumulative, all_chunks, delivered>> /\ pc' = "done"
    BY <1>1 DEF Close, Fail, hist
  <2> QED
    BY <2>1, ToldKept DEF Before, InTurn
<1>2. CASE turn_error = "none"
  <2>1. /\ UNCHANGED <<all_chunks, delivered>> /\ pc = "close" /\ pc' = "chunk"
        /\ chunk' = chunk + 1 /\ cumulative' = cumulative + boundary_end
    BY <1>2 DEF Close, hist
  <2>2. chunk \in Chunks /\ chunk \in Nat
    BY <2>1 DEF TypeOK, Chunks
  <2>3. Spoken'
    <3>1. ASSUME NEW c \in Chunks, c > chunk PROVE delivered[c] = <<>>
      BY <3>1 DEF Told, Spoken
    <3>2. ASSUME NEW c \in Chunks
          PROVE  IsLast(Promise!Length(delivered[c]), Promise!Ends(delivered[c]) \cup {0})
      BY DEF Told, Spoken
    <3>3. ASSUME NEW c \in Chunks, c >= chunk + 1 PROVE delivered[c] = <<>>
      BY <2>2, <3>1, <3>3 DEF Chunks
    <3>4. \A c \in Chunks : c > chunk + 1 => delivered[c] = <<>>
      BY <2>2, <3>3 DEF Chunks
    <3>5. chunk + 1 \in Chunks => delivered[chunk + 1] = <<>>
      BY <2>2, <3>3
    <3> QED
      BY <2>1, <3>2, <3>4, <3>5 DEF Spoken
  <2>4. /\ Starts(delivered)[chunk + 1] = Starts(delivered)[chunk] + Promise!Length(delivered[chunk])
        /\ Places(delivered)[chunk + 1] = Places(delivered)[chunk] + Len(delivered[chunk])
    BY <2>2, SumsStep DEF Told
  <2>5. /\ cumulative = Starts(delivered)[chunk]
        /\ boundary_end = Promise!Length(delivered[chunk])
    BY <2>1 DEF Told, OnTime, InTurn
  <2>6. OnTime'
    BY <2>1, <2>4, <2>5 DEF OnTime, InTurn
  <2>7. InPlace'
    <3>1. Len(all_chunks) = Places(delivered)[chunk + 1]
      BY <2>2, <2>4 DEF Told, InPlace
    <3>2. chunk + 1 \in Chunks => Len(delivered[chunk + 1]) = 0
      BY <2>1, <2>3 DEF Spoken, Before
    <3>3. Places(delivered)[chunk + 1] \in Nat
      <4>1. chunk + 1 \in 1..(NumChunks + 1)
        BY <2>2, CallAssumption DEF Chunks
      <4> QED
        BY <4>1, SumsType DEF Told
    <3>4. /\ chunk' \in Chunks =>
               Len(all_chunks') = Places(delivered')[chunk'] + Len(delivered'[chunk'])
          /\ chunk' \notin Chunks => Len(all_chunks') = Places(delivered')[chunk']
      BY <2>1, <3>1, <3>2, <3>3
    <3>5. ASSUME NEW i \in DOMAIN all_chunks
          PROVE  LET c == all_chunks[i].chunk
                 IN  /\ c <= chunk + 1
                     /\ Places(delivered)[c] < i
                     /\ i <= Places(delivered)[c] + Len(delivered[c])
                     /\ all_chunks[i] =
                          AsPromised(delivered, delivered[c][i - Places(delivered)[c]], c)
      <4>1. all_chunks[i].chunk \in Chunks
        <5>1. all_chunks \in Seq(Item)
          BY DEF TypeOK
        <5>2. all_chunks[i] \in Item
          BY <5>1
        <5> QED
          BY <5>2 DEF Item
      <4>2. LET c == all_chunks[i].chunk
            IN  /\ c <= chunk
                /\ Places(delivered)[c] < i
                /\ i <= Places(delivered)[c] + Len(delivered[c])
                /\ all_chunks[i] =
                     AsPromised(delivered, delivered[c][i - Places(delivered)[c]], c)
        BY DEF Told, InPlace
      <4>3. all_chunks[i].chunk <= chunk + 1
        BY <2>2, <4>1, <4>2 DEF Chunks
      <4> QED
        BY <4>2, <4>3
    <3> QED
      BY <2>1, <3>4, <3>5 DEF InPlace
  <2> QED
    BY <2>3, <2>6, <2>7 DEF Told
<1> QED
  BY <1>1, <1>2

LEMMA NextTold == ASSUME TypeOK, TypeOK', Told, [Next]_vars PROVE Told'
<1>1. CASE Connect
  BY <1>1, ConnectTold
<1>2. CASE Dispatch
  BY <1>2, DispatchTold
<1>3. CASE Close
  BY <1>3, CloseTold
<1>4. CASE BeginChunk \/ Return \/ BeginAttempt \/ HandleRefusal \/ SendConfig \/ SendSsml
             \/ PollCancel \/ Receive \/ Cancel \/ Tick \/ UNCHANGED vars
  <2>1. UNCHANGED <<chunk, cumulative, all_chunks, delivered>>
    BY <1>4 DEF BeginChunk, Return, BeginAttempt, HandleRefusal, SendConfig, SendSsml,
                PollCancel, Receive, Cancel, Tick, vars, hist
  <2>2. UNCHANGED boundary_end
    BY <1>4 DEF BeginChunk, Return, BeginAttempt, HandleRefusal, SendConfig, SendSsml,
                PollCancel, Receive, Cancel, Tick, vars, turn
  <2>3. (pc' \in Before => pc \in Before) /\ (pc' \in InTurn => pc \in InTurn)
    BY <1>4 DEF BeginChunk, Return, BeginAttempt, HandleRefusal, SendConfig, SendSsml,
                PollCancel, Receive, ReceiveFrame, Cancel, Tick, vars, Fail, FailTurn,
                Before, InTurn
  <2> QED
    BY <2>1, <2>2, <2>3, ToldKept
<1> QED
  BY <1>1, <1>2, <1>3, <1>4 DEF Next, Session

\* A step that handles no message of the turn and finds no error.
LEMMA JustifiedKept ==
  ASSUME Justified, UNCHANGED <<chunk, delivered, audio_received>>,
         cancelled => cancelled',
         inbox' \in {inbox, <<>>},
         pc' \in InTurn => pc \in InTurn,
         pc' = "refused" => pc = "refused" /\ UNCHANGED conn_error,
         pc' = "close" => pc = "close" /\ UNCHANGED turn_error
  PROVE  Justified'
<1>1. pc' \in InTurn => (audio_received' <=> Heard(delivered'[chunk']))
  BY DEF Justified
<1>2. \A k \in DOMAIN inbox' : inbox'[k].kind \in {"audio", "boundary"} => inbox'[k] \in Speech
  BY DEF Justified
<1> QED
  BY <1>1, <1>2 DEF Justified

\* A turn that ends with an error that has its reason.
LEMMA FailTurnJustified ==
  ASSUME Justified, NEW code, FailTurn(code), pc \in InTurn,
         UNCHANGED <<chunk, delivered, audio_received, cancelled>>,
         \/ code \in {"network_error", "timeout", "protocol_error"}
         \/ code = "cancelled" /\ cancelled
         \/ code = "invalid_argument" /\ delivered[chunk] = <<>>
  PROVE  Justified'
<1>1. pc' = "close" /\ turn_error' = code /\ inbox' = <<>>
  BY DEF FailTurn
<1>2. audio_received' <=> Heard(delivered'[chunk'])
  BY DEF Justified
<1>3. /\ code # "drm_error" /\ code # "none" /\ code # "service_error"
      /\ code = "cancelled" => cancelled'
      /\ code = "invalid_argument" => delivered'[chunk'] = <<>>
  OBVIOUS
<1> QED
  BY <1>1, <1>2, <1>3 DEF Justified

LEMMA ReceiveJustified == ASSUME TypeOK, Justified, Receive PROVE Justified'
<1>1. pc = "receive" /\ UNCHANGED <<chunk, delivered, audio_received, cancelled>>
  BY DEF Receive, env
<1>2. ASSUME NEW frame \in Frames, ReceiveFrame(frame) PROVE Justified'
  <2>1. CASE parse_incoming(frame).code = "none"
    <3>1. inbox' = parse_incoming(frame).msgs /\ pc' = "dispatch"
      BY <1>2, <2>1 DEF ReceiveFrame
    <3>2. ASSUME NEW k \in DOMAIN inbox', inbox'[k].kind \in {"audio", "boundary"}
          PROVE  inbox'[k] \in Speech
      <4>1. inbox'[k] \in Range(parse_incoming(frame).msgs)
        BY <3>1 DEF Range
      <4> QED
        BY <3>2, <4>1 DEF Speech
    <3>3. audio_received' <=> Heard(delivered'[chunk'])
      BY <1>1 DEF Justified, InTurn
    <3> QED
      BY <3>1, <3>2, <3>3 DEF Justified
  <2>2. CASE parse_incoming(frame).code # "none"
    <3>1. parse_incoming(frame).code = "protocol_error"
      BY <2>2, FramesParsed
    <3>2. FailTurn("protocol_error")
      BY <1>2, <3>1 DEF ReceiveFrame
    <3> QED
      BY <1>1, <3>2, FailTurnJustified DEF InTurn
  <2> QED
    BY <2>1, <2>2
<1>3. ASSUME NEW code \in {"timeout", "network_error"}, FailTurn(code) PROVE Justified'
  BY <1>1, <1>3, FailTurnJustified DEF InTurn
<1> QED
  BY <1>2, <1>3 DEF Receive

LEMMA DispatchJustified == ASSUME TypeOK, Justified, Dispatch PROVE Justified'
<1> DEFINE m == Head(inbox)
           said == delivered[chunk]
<1>1. /\ inbox # <<>> /\ inbox \in Seq(Message) /\ m \in Message /\ chunk \in Chunks
      /\ said \in Seq(DataMessage) /\ delivered \in [Chunks -> Seq(DataMessage)]
      /\ pc = "dispatch" /\ UNCHANGED <<chunk, conn_error, cancelled>>
  BY DEF Dispatch, TypeOK, env
<1>2. audio_received <=> Heard(said)
  BY <1>1 DEF Justified, InTurn
<1>3. NextMessage =>
        /\ pc' \in {"poll", "dispatch"}
        /\ \A k \in DOMAIN inbox' : inbox'[k].kind \in {"audio", "boundary"} => inbox'[k] \in Speech
  <2>1. DOMAIN Tail(inbox) = 1..(Len(inbox) - 1) /\ \A k \in DOMAIN Tail(inbox) :
           k + 1 \in DOMAIN inbox /\ Tail(inbox)[k] = inbox[k + 1]
    BY <1>1
  <2> QED
    BY <2>1 DEF NextMessage, Justified
<1>4. CASE m.kind \in {"audio", "boundary"} /\ (HandleAudio \/ HandleBoundary)
           /\ audio_received' = (audio_received \/ m.kind = "audio")
  <2>1. m \in DataMessage
    BY <1>1, <1>4 DEF DataMessage
  <2>2. delivered'[chunk] = Append(said, m) /\ NextMessage
    BY <1>1, <1>4 DEF HandleAudio, HandleBoundary
  <2>3. Heard(Append(said, m)) <=> (Heard(said) \/ m.kind = "audio")
    BY <1>1, <2>1, HeardAppend
  <2>4. audio_received' <=> Heard(delivered'[chunk'])
    BY <1>1, <1>2, <1>4, <2>2, <2>3, Zenon
  <2> QED
    BY <1>3, <2>2, <2>4 DEF Justified
<1>5. CASE HandleTurnEnd
  <2>1. audio_received' <=> Heard(delivered'[chunk'])
    BY <1>1, <1>2, <1>5 DEF HandleTurnEnd
  <2>2. /\ pc' = "close" /\ inbox' = <<>>
        /\ turn_error' = IF audio_received' THEN "none" ELSE "service_error"
    BY <1>5 DEF HandleTurnEnd
  <2> QED
    BY <2>1, <2>2 DEF Justified
<1>6. CASE NextMessage /\ UNCHANGED <<audio_received, delivered>>
  <2>1. audio_received' <=> Heard(delivered'[chunk'])
    BY <1>1, <1>2, <1>6
  <2> QED
    BY <1>3, <1>6, <2>1 DEF Justified
<1>7. CASE m.kind = "audio" /\ HandleAudio
  BY <1>4, <1>7 DEF HandleAudio
<1>8. CASE m.kind = "boundary" /\ HandleBoundary
  <2>1. audio_received' = (audio_received \/ m.kind = "audio")
    <3>1. audio_received \in BOOLEAN
      BY DEF TypeOK
    <3>2. m.kind # "audio" /\ audio_received' = audio_received
      BY <1>8 DEF HandleBoundary
    <3> QED
      BY <3>1, <3>2
  <2> QED
    BY <1>4, <1>8, <2>1
<1> QED
  BY <1>5, <1>6, <1>7, <1>8 DEF Dispatch

LEMMA ConnectJustified == ASSUME TypeOK, Told, Justified, Connect PROVE Justified'
<1>1. /\ pc = "connect" /\ UNCHANGED <<chunk, inbox, delivered, turn_error, cancelled>>
  BY DEF Connect, env
<1>2. delivered[chunk] = <<>>
  BY <1>1 DEF Told, Spoken, Before, TypeOK
<1>3. ~Heard(<<>>)
  BY DEF Heard, Promise!Range
<1>4. CASE ConnectSucceeds
  <2>1. pc' = "config" /\ audio_received' = FALSE
    BY <1>4 DEF ConnectSucceeds
  <2>2. audio_received' <=> Heard(delivered'[chunk'])
    BY <1>1, <1>2, <1>3, <2>1
  <2> QED
    BY <1>1, <2>1, <2>2 DEF Justified
<1>5. CASE ConnectRefused \/ ConnectFails
  <2>1. pc' = "refused" /\ conn_error'.code \in {"drm_error", "network_error"}
    BY <1>5 DEF ConnectRefused, ConnectFails
  <2> QED
    BY <1>1, <2>1 DEF Justified, InTurn
<1> QED
  BY <1>4, <1>5 DEF Connect

LEMMA NextJustified == ASSUME TypeOK, Told, Justified, [Next]_vars PROVE Justified'
<1>1. CASE Connect
  BY <1>1, ConnectJustified
<1>2. CASE Receive
  BY <1>2, ReceiveJustified
<1>3. CASE Dispatch
  BY <1>3, DispatchJustified
<1>4. CASE SendConfig
  <2>1. pc = "config" /\ UNCHANGED <<chunk, delivered, audio_received, cancelled, conn_error>>
    BY <1>4 DEF SendConfig, env, hist
  <2>2. CASE FailTurn("network_error")
    BY <2>1, <2>2, FailTurnJustified DEF InTurn
  <2>3. CASE pc' = "ssml" /\ UNCHANGED <<turn_error, inbox>>
    BY <2>1, <2>3, JustifiedKept DEF InTurn
  <2> QED
    BY <1>4, <2>2, <2>3 DEF SendConfig
<1>5. CASE SendSsml
  <2>1. pc = "ssml" /\ UNCHANGED <<chunk, delivered, audio_received, cancelled, conn_error>>
    BY <1>5 DEF SendSsml, env
  <2>2. CASE FailTurn("network_error")
    BY <2>1, <2>2, FailTurnJustified DEF InTurn
  <2>3. CASE FailTurn("invalid_argument")
    <3>1. delivered[chunk] = <<>>
      BY <2>1 DEF Told, Spoken, Before, TypeOK
    <3> QED
      BY <2>1, <2>3, <3>1, FailTurnJustified DEF InTurn
  <2>4. CASE pc' = "poll" /\ UNCHANGED <<turn_error, inbox>>
    BY <2>1, <2>4, JustifiedKept DEF InTurn
  <2> QED
    BY <1>5, <2>2, <2>3, <2>4 DEF SendSsml
<1>6. CASE PollCancel
  <2>1. pc = "poll" /\ UNCHANGED <<chunk, delivered, audio_received, cancelled, conn_error>>
    BY <1>6 DEF PollCancel, env, hist
  <2>2. CASE cancelled /\ FailTurn("cancelled")
    BY <2>1, <2>2, FailTurnJustified DEF InTurn
  <2>3. CASE pc' = "receive" /\ UNCHANGED <<turn_error, inbox>>
    BY <2>1, <2>3, JustifiedKept DEF InTurn
  <2> QED
    BY <1>6, <2>2, <2>3 DEF PollCancel
<1>7. CASE BeginChunk \/ Return \/ BeginAttempt \/ HandleRefusal
  <2>1. /\ UNCHANGED <<chunk, delivered, audio_received, cancelled, inbox>>
        /\ pc' \in {"done", "attempt", "connect"}
    BY <1>7 DEF BeginChunk, Return, BeginAttempt, HandleRefusal, Fail, env, turn, hist
  <2> QED
    BY <2>1, JustifiedKept DEF InTurn
<1>8. CASE Cancel \/ Tick \/ UNCHANGED vars
  <2>1. /\ UNCHANGED <<pc, chunk, delivered, audio_received, inbox, conn_error, turn_error>>
        /\ cancelled => cancelled'
    BY <1>8 DEF Cancel, Tick, vars, turn, hist
  <2> QED
    BY <2>1, JustifiedKept
<1>9. CASE Close
  <2>1. /\ pc' \in {"chunk", "done"} /\ UNCHANGED inbox
    BY <1>9 DEF Close, Fail, turn
  <2> QED
    BY <2>1 DEF Justified, InTurn
<1> QED
  BY <1>1, <1>2, <1>3, <1>4, <1>5, <1>6, <1>7, <1>8, <1>9 DEF Next, Session

\* When every chunk has been spoken, the result is the promised answer.
LEMMA ResultIsTimeline ==
  ASSUME TypeOK, Told, chunk = NumChunks + 1
  PROVE  all_chunks = Promise!Timeline
<1> DEFINE P == Places(delivered)
           n == P[NumChunks + 1]
<1>1. /\ P \in [1..(NumChunks + 1) -> Nat]
      /\ \A a, b \in 1..(NumChunks + 1) : a <= b => P[a] <= P[b]
  BY SumsType DEF Told
<1>2. Len(all_chunks) = n /\ all_chunks \in Seq(Item) /\ n \in Nat
  <2>1. chunk \notin Chunks /\ NumChunks + 1 \in 1..(NumChunks + 1)
    BY CallAssumption DEF Chunks
  <2> QED
    BY <1>1, <2>1 DEF Told, InPlace, TypeOK
<1>3. ASSUME NEW i \in 1..n
      PROVE  all_chunks[i] = Promise!Placed(
               delivered[Promise!ChunkAt(i)][i - P[Promise!ChunkAt(i)]], Promise!ChunkAt(i))
  <2> DEFINE c == all_chunks[i].chunk
  <2>1. i \in DOMAIN all_chunks /\ c \in Chunks
    <3>1. i \in DOMAIN all_chunks /\ all_chunks[i] \in Item
      BY <1>2
    <3> QED
      BY <3>1 DEF Item
  <2>2. /\ P[c] < i /\ i <= P[c] + Len(delivered[c])
        /\ all_chunks[i] = AsPromised(delivered, delivered[c][i - P[c]], c)
    BY <2>1 DEF Told, InPlace
  <2>3. P[c + 1] = P[c] + Len(delivered[c])
    BY <2>1, SumsStep DEF Told
  <2>4. P[c] < i /\ i <= P[c + 1]
    BY <2>2, <2>3
  <2> HIDE DEF c
  <2>5. ASSUME NEW d \in Chunks, P[d] < i /\ i <= P[d + 1] PROVE d = c
    <3> USE CallAssumption DEF Chunks
    <3>1. /\ c \in 1..(NumChunks + 1) /\ c + 1 \in 1..(NumChunks + 1)
          /\ d \in 1..(NumChunks + 1) /\ d + 1 \in 1..(NumChunks + 1)
      BY <2>1
    <3>2. P[c] \in Nat /\ P[c + 1] \in Nat /\ P[d] \in Nat /\ P[d + 1] \in Nat /\ i \in Nat
      BY <1>1, <1>2, <3>1
    <3>3. ~(d + 1 <= c)
      <4>1. SUFFICES ASSUME d + 1 <= c PROVE FALSE
        OBVIOUS
      <4>2. P[d + 1] <= P[c]
        BY <1>1, <3>1, <4>1
      <4> QED
        BY <2>4, <2>5, <3>2, <4>2
    <3>4. ~(c + 1 <= d)
      <4>1. SUFFICES ASSUME c + 1 <= d PROVE FALSE
        OBVIOUS
      <4>2. P[c + 1] <= P[d]
        BY <1>1, <3>1, <4>1
      <4> QED
        BY <2>4, <2>5, <3>2, <4>2
    <3> QED
      BY <3>1, <3>3, <3>4
  <2>6. Promise!ChunkAt(i) = c
    <3>1. Promise!ChunkAt(i) = CHOOSE d \in Chunks : P[d] < i /\ i <= P[d + 1]
      BY PromiseReads DEF Promise!ChunkAt, Promise!Chunks, Chunks
    <3> HIDE DEF P
    <3> QED
      BY <2>1, <2>4, <2>5, <3>1
  <2> QED
    BY <2>2, <2>6, PromiseReads
<1>4. Promise!Timeline = [i \in 1..n |-> Promise!Placed(
               delivered[Promise!ChunkAt(i)][i - P[Promise!ChunkAt(i)]], Promise!ChunkAt(i))]
  BY PromiseReads DEF Promise!Timeline
<1> HIDE DEF P, n
<1>5. all_chunks = [i \in 1..n |-> all_chunks[i]]
  BY <1>2
<1> QED
  BY <1>3, <1>4, <1>5

ErrorReasons ==
  {"cancelled", "service_error", "drm_error", "invalid_argument", "network_error", "timeout",
   "protocol_error"}

\* A call that fails for a reason gives up as promised.
LEMMA GivesUp ==
  ASSUME TypeOK, Closed, pc # "done", chunk \in Chunks,
         NEW code \in ErrorReasons, Fail(code), Promise!Reason(code),
         UNCHANGED <<chunk, delivered, cancelled>>
  PROVE  Promise!GiveUp
<1>1. result = Pending
  BY DEF Closed
<1>2. result = Promise!Pending /\ chunk \in Promise!Chunks
  BY <1>1 DEF Pending, Promise!Pending, Chunks, Promise!Chunks
<1>3. result' = [code |-> code, chunks |-> <<>>]
  BY DEF Fail
<1> QED
  BY <1>2, <1>3 DEF Promise!GiveUp, ErrorReasons

LEMMA StepPromise ==
  ASSUME TypeOK, Closed, Told, Justified, [Next]_vars
  PROVE  [Promise!Next]_(Promise!vars)
<1> USE DEF Promise!vars
<1>1. CASE BeginChunk
  <2>1. UNCHANGED <<chunk, delivered, cancelled>> /\ pc = "chunk" /\ chunk \in Chunks
    BY <1>1, CallAssumption DEF BeginChunk, env, hist, TypeOK, Chunks
  <2>2. CASE cancelled
    <3>1. Fail("cancelled") /\ Promise!Reason("cancelled")
      BY <1>1, <2>2 DEF BeginChunk, Promise!Reason
    <3>2. Promise!GiveUp
      BY <2>1, <3>1, GivesUp DEF ErrorReasons
    <3> QED
      BY <3>2 DEF Promise!Next
  <2>3. CASE ~cancelled
    BY <1>1, <2>1, <2>3 DEF BeginChunk
  <2> QED
    BY <2>2, <2>3
<1>2. CASE Return
  <2>1. chunk = NumChunks + 1 /\ UNCHANGED <<chunk, delivered, cancelled>> /\ pc = "chunk"
    BY <1>2, CallAssumption DEF Return, TypeOK, env, hist
  <2>2. result = Promise!Pending
    BY <2>1 DEF Closed, Pending, Promise!Pending
  <2>3. result' = [code |-> "none", chunks |-> Promise!Timeline]
    BY <1>2, <2>1, ResultIsTimeline DEF Return
  <2>4. Promise!Answer
    BY <2>1, <2>2, <2>3 DEF Promise!Answer
  <2> QED
    BY <2>4 DEF Promise!Next
<1>3. CASE BeginAttempt \/ Connect \/ SendConfig \/ SendSsml \/ PollCancel \/ Receive \/ Tick
             \/ UNCHANGED vars
  BY <1>3 DEF BeginAttempt, Connect, SendConfig, SendSsml, PollCancel, Receive, Tick, vars,
              env, hist
<1>4. CASE HandleRefusal
  <2>1. UNCHANGED <<chunk, delivered, cancelled>> /\ pc = "refused" /\ chunk \in Chunks
    BY <1>4 DEF HandleRefusal, env, hist, TypeOK
  <2>2. CASE should_retry(conn_error.code, attempt)
    BY <1>4, <2>1, <2>2 DEF HandleRefusal
  <2>3. CASE ~should_retry(conn_error.code, attempt)
    <3>1. conn_error.code \in {"drm_error", "network_error"} /\ delivered[chunk] = <<>>
      BY <2>1 DEF Justified, Told, Spoken, Before
    <3>2. Fail(conn_error.code) /\ Promise!Reason(conn_error.code)
      BY <1>4, <2>3, <3>1 DEF HandleRefusal, Promise!Reason
    <3>3. Promise!GiveUp
      BY <2>1, <3>1, <3>2, GivesUp DEF ErrorReasons
    <3> QED
      BY <3>3 DEF Promise!Next
  <2> QED
    BY <2>2, <2>3
<1>5. CASE Dispatch
  <2>1. /\ UNCHANGED <<chunk, cancelled, result>> /\ pc = "dispatch" /\ chunk \in Chunks
        /\ inbox \in Seq(Message) /\ inbox # <<>>
    BY <1>5 DEF Dispatch, TypeOK, env
  <2>2. CASE UNCHANGED delivered
    BY <2>1, <2>2
  <2>3. CASE /\ Head(inbox).kind \in {"audio", "boundary"}
             /\ delivered' = [delivered EXCEPT ![chunk] = Append(@, Head(inbox))]
    <3>1. Head(inbox) = inbox[1] /\ 1 \in DOMAIN inbox
      BY <2>1
    <3>2. Head(inbox) \in Speech
      BY <2>3, <3>1 DEF Justified
    <3>3. result = Promise!Pending /\ chunk \in Promise!Chunks
      BY <2>1 DEF Closed, Pending, Promise!Pending, Chunks, Promise!Chunks
    <3>4. Promise!Say(Head(inbox))
      BY <2>1, <2>3, <3>3 DEF Promise!Say
    <3> QED
      BY <3>2, <3>4 DEF Promise!Next
  <2> QED
    BY <1>5, <2>2, <2>3 DEF Dispatch, HandleAudio, HandleBoundary, HandleTurnEnd
<1>6. CASE Close
  <2>1. /\ UNCHANGED <<delivered, cancelled>> /\ pc = "close" /\ chunk \in Chunks
    BY <1>6 DEF Close, TypeOK, env, hist
  <2>2. audio_received <=> Heard(delivered[chunk])
    BY <2>1 DEF Justified, InTurn
  <2>3. Promise!HasAudio(chunk) <=> Heard(delivered[chunk])
    BY DEF Promise!HasAudio, Heard
  <2>4. CASE turn_error = "none"
    <3>1. chunk' = chunk + 1 /\ result' = result
      BY <1>6, <2>4 DEF Close
    <3>2. Promise!HasAudio(chunk)
      BY <2>1, <2>2, <2>3, <2>4 DEF Justified
    <3>3. result = Promise!Pending /\ chunk \in Promise!Chunks
      BY <2>1 DEF Closed, Pending, Promise!Pending, Chunks, Promise!Chunks
    <3>4. Promise!EndTurn
      BY <2>1, <3>1, <3>2, <3>3 DEF Promise!EndTurn
    <3> QED
      BY <3>4 DEF Promise!Next
  <2>5. CASE turn_error # "none"
    <3>1. Fail(turn_error) /\ UNCHANGED chunk
      BY <1>6, <2>5 DEF Close
    <3>2. turn_error \in ErrorReasons
      BY <2>5 DEF TypeOK, ErrorCode, ErrorReasons
    <3>3. Promise!Reason(turn_error)
      <4>1. /\ turn_error # "drm_error"
            /\ turn_error = "service_error" => ~Promise!HasAudio(chunk)
            /\ turn_error = "cancelled" => cancelled
            /\ turn_error = "invalid_argument" => delivered[chunk] = <<>>
        BY <2>1, <2>2, <2>3 DEF Justified
      <4> QED
        BY <3>2, <4>1 DEF Promise!Reason, ErrorReasons
    <3>4. Promise!GiveUp
      BY <2>1, <3>1, <3>2, <3>3, GivesUp
    <3> QED
      BY <3>4 DEF Promise!Next
  <2> QED
    BY <2>4, <2>5
<1>7. CASE Cancel
  <2>1. Promise!Cancel
    BY <1>7 DEF Cancel, Promise!Cancel, hist
  <2> QED
    BY <2>1 DEF Promise!Next
<1> QED
  BY <1>1, <1>2, <1>3, <1>4, <1>5, <1>6, <1>7 DEF Next, Session

LEMMA InitPromise == ASSUME Init PROVE Promise!Init
BY DEF Init, Promise!Init, Pending, Promise!Pending, Chunks, Promise!Chunks

\* The session implements Synthesis for any number of text chunks and any
\* frames: a call answers with everything the service said, in the order said
\* and on one time line, or with nothing and a justified error
\* (SynthesisSession.cpp:138-225).
THEOREM PromiseKept == Spec => KeepsPromise
<1>1. Init => TypeOK /\ Closed /\ Told /\ Justified
  BY InitType, InitClosed, InitTold
<1>2. TypeOK /\ Closed /\ Told /\ Justified /\ [Next]_vars
        => (TypeOK /\ Closed /\ Told /\ Justified)'
  <2>1. SUFFICES ASSUME TypeOK, Closed, Told, Justified, [Next]_vars
                 PROVE  (TypeOK /\ Closed /\ Told /\ Justified)'
    OBVIOUS
  <2>2. TypeOK'
    BY <2>1, NextType
  <2>3. Closed'
    BY <2>1, NextClosed
  <2>4. Told'
    BY <2>1, <2>2, NextTold
  <2>5. Justified'
    BY <2>1, NextJustified
  <2> QED
    BY <2>2, <2>3, <2>4, <2>5
<1>3. TypeOK /\ Closed /\ Told /\ Justified /\ [Next]_vars => [Promise!Next]_(Promise!vars)
  BY StepPromise
<1>4. Init => Promise!Init
  BY InitPromise
<1> QED
  BY <1>1, <1>2, <1>3, <1>4, PTL DEF Spec, KeepsPromise, Promise!Spec
=============================================================================
