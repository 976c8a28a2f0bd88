---------------------- MODULE SpeechSynthesizerProofs ----------------------
(***************************************************************************)
(* Proofs about SpeechSynthesizer: its type invariant and its safety       *)
(* invariants, for any answers of the session, any callbacks and any       *)
(* number of calls.                                                        *)
(***************************************************************************)
EXTENDS SpeechSynthesizer, TLAPS

-----------------------------------------------------------------------------
(* The type invariant.                                                     *)

SynthesisType == [code : {"none"} \cup ErrorCode, chunks : Seq(Kind)]
HeardType == Seq([callback : Callbacks, chunk : Nat, code : {"none"} \cup ErrorCode])

\* Appending keeps the type of a sequence.
LEMMA AppendType ==
  ASSUME NEW S, NEW s \in Seq(S), NEW e \in S
  PROVE  Append(s, e) \in Seq(S)
OBVIOUS

\* Telling a callback keeps the type of what was heard.
LEMMA TellType ==
  ASSUME heard \in HeardType, NEW callback \in Callbacks, NEW chunk \in Nat,
         NEW code \in {"none"} \cup ErrorCode, Tell(callback, chunk, code)
  PROVE  heard' \in HeardType
<1>1. Event(callback, chunk, code)
        \in [callback : Callbacks, chunk : Nat, code : {"none"} \cup ErrorCode]
  BY DEF Event
<1> QED
  BY <1>1, AppendType DEF Tell, HeardType

\* What a file holds is a set of places of the answer.
LEMMA FileType ==
  ASSUME NEW chunks \in Seq(Kind)
  PROVE  /\ Holding(AudioOf(chunks)) \in File /\ Holding(CuesOf(chunks)) \in File
         /\ Old \in File /\ Torn \in File
<1>1. DOMAIN chunks \subseteq Nat \ {0}
  OBVIOUS
<1> QED
  BY <1>1 DEF Holding, AudioOf, CuesOf, Old, Torn, File

LEMMA InitType == ASSUME Init PROVE TypeOK
<1>1. Old \in File /\ <<>> \in Seq(Kind) /\ <<>> \in HeardType
  BY DEF Old, File, HeardType
<1>2. synthesis \in [code : {"none"} \cup ErrorCode, chunks : Seq(Kind)] /\ Len(synthesis.chunks) = 0
  BY <1>1 DEF Init
<1>3. /\ next \in 1..(Len(synthesis.chunks) + 1) /\ calls \in 0..MaxCalls
      /\ sessions \in Nat /\ late \in Nat
  BY <1>2, CallsAssumption DEF Init
<1>4. /\ returned \in [op : {"none", "synthesize", "stream", "save"},
                        code : {"none"} \cup ErrorCode]
      /\ heard \in HeardType /\ media \in File /\ subtitles \in File
  BY <1>1 DEF Init
<1> QED
  BY <1>2, <1>3, <1>4 DEF Init, TypeOK, Where, HeardType

LEMMA BeginType ==
  ASSUME TypeOK, NEW o \in {"synthesize", "stream", "save"}, Begin(o) PROVE TypeOK'
<1>1. listeners' \subseteq Callbacks /\ want_srt' \in BOOLEAN
  BY ListenersAssumption DEF Begin
<1>2. heard' \in HeardType
  BY DEF Begin, HeardType
<1>3. next' \in 1..(Len(synthesis'.chunks) + 1) /\ calls' \in 0..MaxCalls
  BY CallsAssumption DEF Begin, TypeOK
<1>4. /\ pc' \in Where /\ called' \in BOOLEAN
      /\ returned' \in [op : {"none", "synthesize", "stream", "save"},
                         code : {"none"} \cup ErrorCode]
  <2>1. CASE called
    BY <2>1 DEF Begin, TypeOK, Where, ErrorCode
  <2>2. CASE ~called
    BY <2>2 DEF Begin, TypeOK, Where, Guard
  <2> QED
    BY <2>1, <2>2
<1> QED
  BY <1>1, <1>2, <1>3, <1>4 DEF Begin, TypeOK, object, files, HeardType

\* A new answer keeps the delivery at its first chunk.
LEMMA SynthesizedType ==
  ASSUME NEW code \in {"none"} \cup ErrorCode, NEW chunks \in Seq(Kind),
         Synthesized(code, chunks), next = 1
  PROVE  /\ synthesis' \in SynthesisType /\ pc' \in Where
         /\ 1 \in 1..(Len(synthesis'.chunks) + 1)
BY DEF Synthesized, SynthesisType, Where

\* Before the delivery the loop is at the first chunk, and nothing was heard.
BeforeDelivery == {"pipeline", "session", "synthesized", "collect", "media", "subtitles"}
AtStart == pc \in BeforeDelivery => next = 1 /\ heard = <<>>

\* The body of the delivery loop is entered only for a chunk of the answer.
InLoop == pc \in {"callback", "inside"} => next <= Len(synthesis.chunks)

\* A call that is under way is one of the three; only save() gets to the files, and the
\* result of the pipeline is never the guard's.
Called ==
  /\ pc # "idle" => op \in {"synthesize", "stream", "save"}
  /\ pc \in {"collect", "media", "subtitles"} => op = "save"
  /\ synthesis.code # "invalid_state"

TypeInv == TypeOK /\ AtStart /\ InLoop /\ Called

LEMMA PipelineType == ASSUME TypeInv, Pipeline PROVE TypeOK'
<1>1. /\ synthesis' \in SynthesisType /\ pc' \in Where
      /\ 1 \in 1..(Len(synthesis'.chunks) + 1)
  <2>1. <<>> \in Seq(Kind) /\ next = 1 /\ TypeOK
    BY DEF TypeInv, AtStart, Pipeline, BeforeDelivery
  <2>2. CASE \E code \in {"cancelled", "unsupported", "invalid_argument", "none"} :
               Synthesized(code, <<>>)
    BY <2>1, <2>2, SynthesizedType DEF ErrorCode
  <2>3. CASE pc' = "session" /\ UNCHANGED synthesis
    BY <2>1, <2>3 DEF TypeOK, Where, SynthesisType
  <2> QED
    BY <2>2, <2>3 DEF Pipeline
<1>2. next = 1 /\ TypeOK
  BY DEF TypeInv, AtStart, Pipeline, BeforeDelivery
<1> QED
  BY <1>1, <1>2 DEF Pipeline, TypeOK, object, files, call, SynthesisType

LEMMA SessionType == ASSUME TypeInv, Session PROVE TypeOK'
<1>1. /\ synthesis' \in SynthesisType /\ pc' \in Where
      /\ 1 \in 1..(Len(synthesis'.chunks) + 1)
  <2>1. <<>> \in Seq(Kind) /\ next = 1
    BY DEF TypeInv, AtStart, Session, BeforeDelivery
  <2>2. PICK code \in {"none"} \cup ErrorCode, chunks \in Seq(Kind) : Synthesized(code, chunks)
    BY <2>1, AnswersAssumption DEF Session, ErrorCode
  <2> QED
    BY <2>1, <2>2, SynthesizedType
<1>2. next = 1 /\ TypeOK
  BY DEF TypeInv, AtStart, Session, BeforeDelivery
<1>3. sessions' \in Nat
  BY <1>2 DEF Session, TypeOK
<1> QED
  BY <1>1, <1>2, <1>3 DEF Session, TypeOK, object, files, call, SynthesisType

ReturnType == [op : {"none", "synthesize", "stream", "save"}, code : {"none"} \cup ErrorCode]

LEMMA HandOverType == ASSUME TypeInv, HandOver PROVE TypeOK'
<1>1. /\ TypeOK /\ synthesis.code \in {"none"} \cup ErrorCode
      /\ op \in {"synthesize", "stream", "save"}
  BY DEF TypeInv, TypeOK, Called, HandOver
<1>2. pc' \in Where /\ returned' \in ReturnType
  <2>1. [op |-> op, code |-> synthesis.code] \in ReturnType /\ returned \in ReturnType
    BY <1>1 DEF ReturnType, TypeOK
  <2>2. \/ Return(synthesis.code)
        \/ pc' \in {"deliver", "collect"} /\ UNCHANGED returned
    BY <1>1 DEF HandOver, GoOn
  <2> QED
    BY <2>1, <2>2 DEF Return, Where
<1>3. heard' \in HeardType
  BY <1>1, TellType DEF HandOver, TypeOK, HeardType, TellError, Callbacks
<1> QED
  BY <1>1, <1>2, <1>3 DEF HandOver, TypeOK, object, files, call, ReturnType, HeardType

LEMMA DeliverType == ASSUME TypeInv, Deliver PROVE TypeOK'
<1>1. TypeOK
  BY DEF TypeInv
<1>2. pc' \in Where /\ returned' \in ReturnType
  BY <1>1 DEF Deliver, TypeOK, Where, ReturnType, Return, Stop, ErrorCode
<1>3. heard' \in HeardType
  BY <1>1, TellType DEF Deliver, Stop, TypeOK, HeardType, TellError, Callbacks, ErrorCode
<1> QED
  BY <1>1, <1>2, <1>3 DEF Deliver, TypeOK, object, files, call, ReturnType, HeardType

LEMMA CallbackType == ASSUME TypeInv, Callback PROVE TypeOK'
<1>1. TypeOK /\ next \in Nat
  BY DEF TypeInv, TypeOK
<1>2. pc' \in Where /\ late' \in Nat
  BY <1>1 DEF Callback, TypeOK, Where
<1>3. heard' \in HeardType
  <2>1. CallbackFor(synthesis.chunks[next]) \in Callbacks
    BY DEF CallbackFor, Callbacks
  <2> QED
    BY <1>1, <2>1, TellType DEF Callback, TypeOK, HeardType
<1> QED
  BY <1>1, <1>2, <1>3 DEF Callback, TypeOK, object, files, call, HeardType

LEMMA CallbackReturnsType == ASSUME TypeInv, CallbackReturns PROVE TypeOK'
<1>1. TypeOK /\ next <= Len(synthesis.chunks)
  BY DEF TypeInv, InLoop, CallbackReturns
<1>2. next' \in 1..(Len(synthesis.chunks) + 1)
  <2>1. Len(synthesis.chunks) \in Nat
    BY <1>1 DEF TypeOK
  <2> QED
    BY <1>1, <2>1 DEF TypeOK, CallbackReturns
<1> QED
  BY <1>1, <1>2 DEF CallbackReturns, TypeOK, object, files, call, Where

LEMMA FinishType == ASSUME TypeInv, Finish PROVE TypeOK'
<1>1. TypeOK
  BY DEF TypeInv
<1>2. heard' \in HeardType
  BY <1>1, TellType DEF Finish, TypeOK, HeardType, Callbacks
<1>3. pc' \in Where /\ returned' \in ReturnType
  BY <1>1 DEF Finish, TypeOK, Where, ReturnType, Return
<1> QED
  BY <1>1, <1>2, <1>3 DEF Finish, TypeOK, object, files, call, ReturnType, HeardType

LEMMA SaveType ==
  ASSUME TypeInv, Collect \/ WriteMedia \/ WriteSubtitles PROVE TypeOK'
<1>1. TypeOK /\ synthesis.chunks \in Seq(Kind)
  BY DEF TypeInv, TypeOK
<1>2. media' \in File /\ subtitles' \in File
  BY <1>1, FileType DEF Collect, WriteMedia, WriteSubtitles, WriteFile, TypeOK, files
<1>3. pc' \in Where /\ returned' \in ReturnType
  BY <1>1 DEF Collect, WriteMedia, WriteSubtitles, WriteFile, TypeOK, Where, ReturnType,
              Return, ErrorCode
<1> QED
  BY <1>1, <1>2, <1>3
     DEF Collect, WriteMedia, WriteSubtitles, TypeOK, object, files, call, ReturnType

LEMMA StepType == ASSUME TypeInv, [Next]_vars PROVE TypeInv'
<1>1. TypeOK'
  <2>1. CASE Cancel
    BY <2>1 DEF Cancel, TypeInv, TypeOK, Where, object, files, call
  <2>2. CASE UNCHANGED vars
    BY <2>2 DEF TypeInv, TypeOK, vars, object, files, call
  <2> QED
    BY <2>1, <2>2, BeginType, PipelineType, SessionType, HandOverType, DeliverType,
       CallbackType, CallbackReturnsType, FinishType, SaveType DEF Next, TypeInv
<1>2. AtStart' /\ InLoop' /\ Called'
  <2>1. CASE \E o \in {"synthesize", "stream", "save"} : Begin(o)
    BY <2>1 DEF TypeInv, TypeOK, AtStart, InLoop, Called, BeforeDelivery, Begin
  <2>2. CASE Pipeline \/ Session
    BY <2>2 DEF call, AtStart, InLoop, Called, TypeInv, BeforeDelivery, Pipeline, Session, Synthesized, SessionError
  <2>3. CASE HandOver \/ Finish
    BY <2>3 DEF call, AtStart, InLoop, Called, TypeInv, BeforeDelivery, HandOver, GoOn, Finish, Return, TypeOK
  <2>4. CASE Deliver \/ Callback \/ CallbackReturns
    BY <2>4 DEF call, AtStart, InLoop, Called, TypeInv, BeforeDelivery, Deliver, Callback, CallbackReturns,
                Stop, Return
  <2>5. CASE Collect \/ WriteMedia \/ WriteSubtitles
    BY <2>5 DEF call, AtStart, InLoop, Called, TypeInv, BeforeDelivery, Collect, WriteMedia, WriteSubtitles,
                WriteFile, Return
  <2>6. CASE Cancel
    BY <2>6 DEF AtStart, InLoop, Called, TypeInv, Cancel, call
  <2>7. CASE UNCHANGED vars
    BY <2>7 DEF AtStart, InLoop, Called, TypeInv, vars, call
  <2> QED
    BY <2>1, <2>2, <2>3, <2>4, <2>5, <2>6, <2>7 DEF Next
<1> QED
  BY <1>1, <1>2 DEF TypeInv

LEMMA TypesAlways == Spec => []TypeInv
<1>1. Init => TypeInv
  <2>1. Init => AtStart /\ InLoop
    BY DEF Init, AtStart, InLoop, BeforeDelivery
  <2>2. Init => Called
    BY DEF Init, Called
  <2> QED
    BY <2>1, <2>2, InitType DEF TypeInv
<1>2. TypeInv /\ [Next]_vars => TypeInv'
  BY StepType
<1> QED
  BY <1>1, <1>2, PTL DEF Spec

\* Every variable of the object keeps its type, for any answers of the session
\* (SpeechSynthesizer.cpp:154-296).
THEOREM TypeCorrect == Spec => []TypeOK
<1>1. TypeInv => TypeOK
  BY DEF TypeInv
<1> QED
  BY <1>1, TypesAlways, PTL

-----------------------------------------------------------------------------
(* One use of the object.                                                  *)

\* Only the first call gets past the guard, and only it reaches the session.
Used ==
  /\ called <=> calls > 0
  /\ pc # "idle" => calls = 1
  /\ calls > 1 => returned.code = "invalid_state"
  /\ sessions <= 1
  /\ ~called \/ pc \in {"pipeline", "session"} => sessions = 0
  /\ cancelled <=> cancelled_at # "never"
  /\ cancelled_at = "before" => sessions = 0 /\ pc # "session"

LEMMA UsedStep == ASSUME TypeInv, Used, [Next]_vars PROVE Used'
<1> USE DEF Used, object, files, call
<1>0. calls \in Nat /\ sessions \in Nat
  BY CallsAssumption DEF TypeInv, TypeOK
<1>1. CASE \E o \in {"synthesize", "stream", "save"} : Begin(o)
  <2>1. CASE called
    BY <1>0, <1>1, <2>1 DEF Begin
  <2>2. CASE ~called
    BY <1>0, <1>1, <2>2 DEF Begin, Guard
  <2> QED
    BY <2>1, <2>2
<1>2. CASE Pipeline
  BY <1>0, <1>2 DEF Pipeline, Synthesized
<1>3. CASE Session
  BY <1>0, <1>3 DEF Session, Synthesized
<1>4. CASE HandOver \/ Finish
  BY <1>0, <1>4 DEF HandOver, GoOn, Finish, Return
<1>5. CASE Deliver \/ Callback \/ CallbackReturns
  BY <1>0, <1>5 DEF Deliver, Callback, CallbackReturns, Stop, Return
<1>6. CASE Collect \/ WriteMedia \/ WriteSubtitles
  BY <1>0, <1>6 DEF Collect, WriteMedia, WriteSubtitles, WriteFile, Return
<1>7. CASE Cancel
  <2>1. calls = 0 => pc # "session" /\ sessions = 0
    BY <1>0
  <2>2. cancelled_at' \in Where \cup {"before"} /\ (cancelled_at' = "before" => calls = 0)
    BY <1>7 DEF Cancel, TypeInv, TypeOK, Where
  <2> QED
    BY <1>0, <1>7, <2>1, <2>2 DEF Cancel, Where
<1>8. CASE UNCHANGED vars
  BY <1>8 DEF vars
<1> QED
  BY <1>1, <1>2, <1>3, <1>4, <1>5, <1>6, <1>7, <1>8 DEF Next

LEMMA UsedAlways == Spec => [](TypeInv /\ Used)
<1>1. Init => Used
  BY DEF Init, Used
<1>2. TypeInv /\ Used /\ [Next]_vars => Used'
  BY UsedStep
<1> QED
  BY <1>1, <1>2, TypesAlways, PTL DEF Spec

\* The service is asked at most once, however many calls the client makes, and never after a
\* cancel() before the first call (SpeechSynthesizer.cpp:194-198, 157-159).
THEOREM UsedOnce == Spec => []SingleUse
<1>1. TypeInv /\ Used => SingleUse
  BY CallsAssumption DEF TypeInv, TypeOK, Used, SingleUse
<1> QED
  BY <1>1, UsedAlways, PTL

-----------------------------------------------------------------------------
(* cancel() against the delivery.                                          *)

Delivering == {"deliver", "callback", "inside"}

\* A chunk is entered late only when cancel() came after its check; a cancel() during the
\* delivery finds the call still delivering, or stopped by it.
Delivery ==
  /\ pc \in Delivering \cup {"finish"} => op = "stream" /\ synthesis.code = "none"
  /\ late <= 1 /\ (late = 1 => cancelled_at = "callback")
  /\ pc = "callback" => late = 0
  /\ pc \in {"callback", "finish"} /\ cancelled => cancelled_at = pc
  /\ cancelled_at \in Delivering => called
  /\ cancelled_at \in Delivering =>
       pc \in Delivering \/ (pc = "idle" /\ returned.code \in {"cancelled", "invalid_state"})

LEMMA DeliveryStep ==
  ASSUME TypeInv, Used, Delivery, [Next]_vars PROVE Delivery'
<1> USE DEF Delivery, Delivering, object, files, call
<1>0. /\ late \in Nat /\ calls \in Nat /\ (cancelled <=> cancelled_at # "never")
      /\ (pc # "idle" => calls = 1) /\ (called <=> calls > 0)
  BY CallsAssumption DEF TypeInv, TypeOK, Used
<1>1. CASE \E o \in {"synthesize", "stream", "save"} : Begin(o)
  <2>1. CASE called
    BY <1>0, <1>1, <2>1 DEF Begin
  <2>2. CASE ~called
    <3>1. cancelled_at \notin Delivering
      BY <1>1, <2>2 DEF Begin
    <3> QED
      BY <1>0, <1>1, <2>2, <3>1 DEF Begin, Guard
  <2> QED
    BY <2>1, <2>2
<1>2. CASE Pipeline \/ Session
  BY <1>0, <1>2 DEF Pipeline, Session, Synthesized
<1>4. CASE HandOver \/ Finish
  BY <1>0, <1>4 DEF HandOver, GoOn, Finish, Return, TypeInv, Called
<1>5. CASE Deliver
  BY <1>0, <1>5 DEF Deliver, Stop, Return
<1>6. CASE Callback \/ CallbackReturns
  BY <1>0, <1>6 DEF Callback, CallbackReturns
<1>7. CASE Collect \/ WriteMedia \/ WriteSubtitles
  BY <1>0, <1>7 DEF Collect, WriteMedia, WriteSubtitles, WriteFile, Return
<1>8. CASE Cancel
  BY <1>0, <1>8 DEF Cancel
<1>9. CASE UNCHANGED vars
  BY <1>9 DEF vars
<1> QED
  BY <1>1, <1>2, <1>4, <1>5, <1>6, <1>7, <1>8, <1>9 DEF Next

\* After cancel() at most one more chunk is handed out, and a call cancelled during its
\* delivery reports it (SpeechSynthesizer.cpp:217-221, 234-238).
THEOREM CancelIsObeyed == Spec => []CancelStopsDelivery
<1>1. Init => Delivery
  BY DEF Init, Delivery, Delivering
<1>2. TypeInv /\ Used /\ Delivery /\ [Next]_vars => Delivery'
  BY DeliveryStep
<1>3. Delivery => CancelStopsDelivery
  BY DEF Delivery, Delivering, CancelStopsDelivery, StreamReturned
<1> QED
  BY <1>1, <1>2, <1>3, UsedAlways, PTL DEF Spec

-----------------------------------------------------------------------------
(* The callbacks.                                                          *)

\* No terminal callback while the call runs; before the delivery nothing was heard.
Telling ==
  /\ DeliveredInOrder /\ OneTerminal
  /\ pc # "idle" => Ends = {}
  /\ pc \in Delivering \cup {"finish"} => op = "stream" /\ synthesis.code = "none"
  /\ pc \in BeforeDelivery => heard = <<>> /\ next = 1

\* A callback that is told is one more event at the end.
LEMMA OneMore ==
  ASSUME heard \in HeardType, NEW callback \in listeners, NEW chunk \in Nat,
         NEW code \in {"none"} \cup ErrorCode, Tell(callback, chunk, code)
  PROVE  /\ DOMAIN heard' = DOMAIN heard \cup {Len(heard) + 1} /\ Len(heard') = Len(heard) + 1
         /\ DOMAIN heard = 1..Len(heard) /\ Len(heard) \in Nat
         /\ \A k \in DOMAIN heard : heard'[k] = heard[k]
         /\ heard'[Len(heard) + 1] = Event(callback, chunk, code)
BY DEF Tell, HeardType

\* A terminal callback closes the sequence: it is told, or not set.
LEMMA LastTold ==
  ASSUME heard \in HeardType, Ends = {}, NEW code \in {"none"} \cup ErrorCode,
         NEW due \in {"on_complete", "on_error"}, Tell(due, 0, code)
  PROVE  /\ Told' = Told /\ \A k \in Told : heard'[k] = heard[k]
         /\ IF due \in listeners
            THEN Ends' = {Len(heard')} /\ heard'[Len(heard')] = Event(due, 0, code)
            ELSE Ends' = {}
<1>1. CASE due \in listeners
  <2>1. IsTerminal(Event(due, 0, code))
    BY DEF IsTerminal, Event
  <2>2. \A k \in DOMAIN heard : ~IsTerminal(heard[k]) /\ heard'[k] = heard[k]
    BY <1>1, OneMore DEF Ends
  <2>3. Len(heard) + 1 \notin DOMAIN heard
    BY <1>1, OneMore
  <2>4. Ends' = {Len(heard')}
    BY <1>1, <2>1, <2>2, OneMore DEF Ends
  <2>5. Told' = Told
    BY <1>1, <2>3, <2>4, OneMore DEF Told
  <2> QED
    BY <1>1, <2>2, <2>4, <2>5, OneMore DEF Told
<1>2. CASE due \notin listeners
  BY <1>2 DEF Tell, Ends, Told
<1> QED
  BY <1>1, <1>2

\* The order of delivery only looks at the chunks told, the answer and who listens.
LEMMA SameDelivery ==
  ASSUME DeliveredInOrder, Told' = Told, \A k \in Told : heard'[k] = heard[k],
         UNCHANGED <<synthesis, listeners>>, Handed' = Handed
  PROVE  DeliveredInOrder'
BY DEF DeliveredInOrder, ListenerOf

\* A callback that is entered extends the delivery by the next chunk.
LEMMA OneMoreDelivered ==
  ASSUME TypeInv, DeliveredInOrder, Ends = {}, Callback
  PROVE  DeliveredInOrder' /\ Ends' = {}
<1> DEFINE callback == CallbackFor(synthesis.chunks[next])
<1>1. /\ heard \in HeardType /\ next \in Nat \ {0} /\ "none" \in {"none"} \cup ErrorCode
      /\ Handed = 1..(next - 1) /\ Handed' = Handed \cup {next} /\ next \notin Handed
      /\ \A i \in Handed : i < next
      /\ Tell(callback, next, "none") /\ UNCHANGED <<synthesis, listeners, next>>
  BY DEF TypeInv, TypeOK, HeardType, Callback, Handed, call
<1>2. /\ callback = ListenerOf(next) /\ callback \in {"on_audio", "on_boundary"}
      /\ \A i \in Nat : ListenerOf(i)' = ListenerOf(i)
  BY <1>1 DEF CallbackFor, IsBoundary, ListenerOf
<1>3. Told = DOMAIN heard
  BY DEF Told
<1>4. CASE callback \in listeners
  <2>1. /\ DOMAIN heard' = DOMAIN heard \cup {Len(heard) + 1}
        /\ DOMAIN heard = 1..Len(heard) /\ Len(heard) \in Nat
        /\ \A k \in DOMAIN heard : heard'[k] = heard[k]
        /\ heard'[Len(heard) + 1] = Event(callback, next, "none")
    BY <1>1, <1>4, OneMore
  <2>2. ~IsTerminal(Event(callback, next, "none"))
    BY <1>2 DEF IsTerminal, Event
  <2>3. Ends' = {} /\ Told' = Told \cup {Len(heard) + 1}
    BY <1>3, <2>1, <2>2 DEF Ends, Told, IsTerminal
  <2>4. /\ heard'[Len(heard) + 1].chunk = next
        /\ heard'[Len(heard) + 1].callback = ListenerOf(next)
    BY <1>2, <2>1 DEF Event
  <2>5. \A k \in Told : k < Len(heard) + 1 /\ heard[k].chunk \in Handed
    BY <1>3, <2>1 DEF DeliveredInOrder
  <2>6. \A i \in Handed' : ListenerOf(i)' \in listeners' =>
          \E k \in Told' : heard'[k].chunk = i
    <3>1. \A i \in Handed : ListenerOf(i) \in listeners => \E k \in Told : heard[k].chunk = i
      BY DEF DeliveredInOrder
    <3> QED
      BY <1>1, <1>2, <1>3, <2>1, <2>3, <2>4, <3>1
  <2>7. \A k, l \in Told' : k < l => heard'[k].chunk < heard'[l].chunk
    <3>1. \A k, l \in Told : k < l => heard[k].chunk < heard[l].chunk
      BY DEF DeliveredInOrder
    <3> QED
      BY <1>1, <1>3, <2>1, <2>3, <2>4, <2>5, <3>1
  <2>8. \A k \in Told' :
          /\ heard'[k].chunk \in Handed'
          /\ heard'[k].callback = ListenerOf(heard'[k].chunk)
    <3>1. \A k \in Told :
            heard[k].chunk \in Handed /\ heard[k].callback = ListenerOf(heard[k].chunk)
      BY DEF DeliveredInOrder
    <3> QED
      BY <1>1, <1>2, <1>3, <2>1, <2>3, <2>4, <3>1
  <2>9. \A i : ListenerOf(i)' = ListenerOf(i)
    BY <1>1 DEF ListenerOf
  <2> QED
    BY <2>3, <2>6, <2>7, <2>8, <2>9, <1>1 DEF DeliveredInOrder, ListenerOf
<1>5. CASE callback \notin listeners
  <2>1. heard' = heard
    BY <1>1, <1>5 DEF Tell
  <2>2. Ends' = {} /\ Told' = Told
    BY <2>1 DEF Ends, Told
  <2> QED
    BY <1>1, <1>2, <1>5, <2>1, <2>2 DEF DeliveredInOrder
<1> QED
  BY <1>4, <1>5

\* A step that ends the call with its terminal callback.
LEMMA CallEnds ==
  ASSUME TypeInv, Telling, op = "stream", pc # "idle", pc # "inside",
         NEW code \in {"none"} \cup ErrorCode, code # "invalid_state",
         Tell(IF code = "none" THEN "on_complete" ELSE "on_error", 0, code), Return(code),
         UNCHANGED <<synthesis, call, next>>
  PROVE  Telling'
<1> DEFINE due == IF code = "none" THEN "on_complete" ELSE "on_error"
<1>1. /\ heard \in HeardType /\ Ends = {} /\ due \in {"on_complete", "on_error"}
      /\ Tell(due, 0, code)
  BY DEF TypeInv, TypeOK, HeardType, Telling
<1>2. /\ Told' = Told /\ \A k \in Told : heard'[k] = heard[k]
      /\ IF due \in listeners
         THEN Ends' = {Len(heard')} /\ heard'[Len(heard')] = Event(due, 0, code)
         ELSE Ends' = {}
  BY <1>1, LastTold
<1>3. Handed' = Handed
  BY DEF Handed, Return
<1>4. DeliveredInOrder'
  BY <1>2, <1>3, SameDelivery DEF Telling, call
<1>5. OneTerminal'
  BY <1>2 DEF OneTerminal, Return, call
<1> QED
  BY <1>4, <1>5 DEF Telling, Return, Delivering, BeforeDelivery

\* A step that tells nothing and stays in the call, or returns from another call.
LEMMA NothingTold ==
  ASSUME TypeInv, Telling, UNCHANGED <<heard, listeners, synthesis>>, Handed' = Handed,
         pc' = "idle" => ~StreamReturned' \/ (pc = "idle" /\ UNCHANGED returned),
         pc' # "idle" => pc # "idle",
         pc' \in Delivering \cup {"finish"} => op' = "stream" /\ synthesis'.code = "none",
         pc' \in BeforeDelivery => heard' = <<>> /\ next' = 1
  PROVE  Telling'
<1>1. Ends' = Ends /\ Told' = Told
  BY DEF Ends, Told
<1>2. DeliveredInOrder'
  BY <1>1, SameDelivery DEF Telling
<1>3. OneTerminal'
  BY <1>1 DEF Telling, OneTerminal, StreamReturned
<1> QED
  BY <1>1, <1>2, <1>3 DEF Telling

LEMMA TellingStep == ASSUME TypeInv, Used, Telling, [Next]_vars PROVE Telling'
<1> USE DEF object, files, call
<1>0. next \in Nat \ {0}
  BY DEF TypeInv, TypeOK
<1>1. CASE \E o \in {"synthesize", "stream", "save"} : Begin(o)
  <2>1. heard' = <<>> /\ next' = 1 /\ synthesis' = synthesis /\ pc' \in {"idle", "pipeline"}
    BY <1>1 DEF Begin
  <2>2. Ends' = {} /\ Told' = {} /\ Handed' = {}
    BY <2>1 DEF Ends, Told, Handed
  <2>3. DeliveredInOrder'
    BY <2>2 DEF DeliveredInOrder
  <2>4. OneTerminal'
    BY <1>1, <2>2 DEF OneTerminal, StreamReturned, Begin
  <2> QED
    BY <2>1, <2>2, <2>3, <2>4 DEF Telling, Delivering, BeforeDelivery
<1>2. CASE Pipeline \/ Session
  <2>1. /\ pc' \in {"session", "synthesized"} /\ heard = <<>> /\ next = 1
        /\ UNCHANGED <<heard, next, listeners>>
    BY <1>2 DEF Pipeline, Session, Synthesized, Telling, BeforeDelivery
  <2>2. Ends' = {} /\ Told' = {} /\ Handed' = {}
    BY <2>1 DEF Ends, Told, Handed
  <2>3. DeliveredInOrder' /\ OneTerminal'
    BY <2>1, <2>2 DEF DeliveredInOrder, OneTerminal, StreamReturned
  <2> QED
    BY <2>1, <2>2, <2>3 DEF Telling, Delivering, BeforeDelivery
<1>3. CASE HandOver
  <2>1. /\ op \in {"synthesize", "stream", "save"} /\ synthesis.code \in {"none"} \cup ErrorCode
        /\ heard = <<>> /\ next = 1 /\ UNCHANGED <<synthesis, call, next>>
    BY <1>3 DEF HandOver, TypeInv, TypeOK, Called, Telling, BeforeDelivery
  <2>2. CASE op = "stream" /\ synthesis.code # "none"
    <3>1. synthesis.code # "invalid_state"
      BY DEF TypeInv, Called
    <3> QED
      BY <1>3, <2>1, <2>2, <3>1, CallEnds DEF HandOver, TellError
  <2>3. CASE op # "stream" \/ synthesis.code = "none"
    <3>1. /\ UNCHANGED heard
          /\ \/ op # "stream" /\ Return(synthesis.code)
             \/ GoOn /\ synthesis.code = "none"
      BY <1>3, <2>3 DEF HandOver
    <3>2. Handed' = Handed
      BY <1>3, <2>1, <3>1 DEF Handed, HandOver, Return, GoOn
    <3> QED
      BY <1>3, <2>1, <3>1, <3>2, NothingTold
         DEF HandOver, Return, GoOn, StreamReturned, Delivering, BeforeDelivery
  <2> QED
    BY <2>2, <2>3
<1>4. CASE Deliver
  <2>1. CASE cancelled
    BY <1>4, <2>1, CallEnds DEF Deliver, Stop, TellError, Telling, Delivering, ErrorCode
  <2>2. CASE ~cancelled
    <3>1. Handed' = Handed
      BY <1>4, <2>2 DEF Deliver, Handed
    <3> QED
      BY <1>4, <2>2, <3>1, NothingTold DEF Deliver, Telling, Delivering, BeforeDelivery
  <2> QED
    BY <2>1, <2>2
<1>5. CASE Callback
  <2>1. DeliveredInOrder' /\ Ends' = {}
    BY <1>5, OneMoreDelivered DEF Telling, Callback
  <2> QED
    BY <1>5, <2>1 DEF Callback, Telling, OneTerminal, StreamReturned, Delivering,
                      BeforeDelivery
<1>6. CASE CallbackReturns
  <2>1. Handed' = Handed
    BY <1>0, <1>6 DEF CallbackReturns, Handed
  <2> QED
    BY <1>6, <2>1, NothingTold DEF CallbackReturns, Telling, Delivering, BeforeDelivery
<1>7. CASE Finish
  BY <1>7, CallEnds DEF Finish, Telling, Delivering
<1>8. CASE Collect \/ WriteMedia \/ WriteSubtitles
  <2>1. op = "save"
    BY <1>8 DEF TypeInv, Called, Collect, WriteMedia, WriteSubtitles
  <2>2. /\ pc \in BeforeDelivery /\ pc' \in BeforeDelivery \cup {"idle"}
        /\ (pc' = "idle" => returned'.op = op)
        /\ UNCHANGED <<heard, next, listeners, synthesis, op>>
    BY <1>8 DEF Collect, WriteMedia, WriteSubtitles, WriteFile, Return, BeforeDelivery
  <2>3. Handed' = Handed
    BY <2>2 DEF Handed, BeforeDelivery
  <2> QED
    BY <2>1, <2>2, <2>3, NothingTold DEF Telling, StreamReturned, Delivering, BeforeDelivery
<1>9. CASE Cancel
  <2>1. Handed' = Handed
    BY <1>9 DEF Cancel, Handed
  <2> QED
    BY <1>9, <2>1, NothingTold DEF Cancel, Telling
<1>10. CASE UNCHANGED vars
  <2>1. Handed' = Handed
    BY <1>10 DEF vars, Handed
  <2> QED
    BY <1>10, <2>1, NothingTold DEF vars, Telling
<1> QED
  BY <1>1, <1>2, <1>3, <1>4, <1>5, <1>6, <1>7, <1>8, <1>9, <1>10 DEF Next

LEMMA TellingAlways == Spec => []Telling
<1>1. Init => Telling
  <2>1. Init => Ends = {} /\ Told = {} /\ Handed = {}
    BY DEF Init, Ends, Told, Handed
  <2>2. Init => OneTerminal
    BY DEF Init, OneTerminal, StreamReturned
  <2> QED
    BY <2>1, <2>2 DEF Init, Telling, DeliveredInOrder, Delivering, BeforeDelivery
<1>2. TypeInv /\ Used /\ Telling /\ [Next]_vars => Telling'
  BY TellingStep
<1> QED
  BY <1>1, <1>2, UsedAlways, PTL DEF Spec

\* Every chunk goes once, in order, to the callback of its kind, whichever callbacks the
\* client sets (SpeechSynthesizer.cpp:216-232).
THEOREM InOrder == Spec => []DeliveredInOrder
<1>1. Telling => DeliveredInOrder
  BY DEF Telling
<1> QED
  BY <1>1, TellingAlways, PTL

\* A stream call that did its work ends with one terminal callback, the last, which carries
\* the outcome it returns (SpeechSynthesizer.cpp:210-214, 234-241).
THEOREM ToldOnce == Spec => []OneTerminal
<1>1. Telling => OneTerminal
  BY DEF Telling
<1> QED
  BY <1>1, TellingAlways, PTL

-----------------------------------------------------------------------------
(* save().                                                                 *)

\* The media file is touched last but one, the subtitle file last.
Saved ==
  /\ calls = 0 \/ pc \notin {"idle", "subtitles"} => media = Old
  /\ calls = 0 \/ pc # "idle" => subtitles = Old
  /\ pc = "subtitles" => want_srt
  /\ pc = "subtitles" => media = Holding(AudioOf(synthesis.chunks)) \/ FlushMayFail
  /\ FilesInOrder
  /\ ~FlushMayFail => SavedMeansWritten

LEMMA SavedStep == ASSUME TypeInv, Used, Telling, Saved, [Next]_vars PROVE Saved'
<1> USE DEF object, files, call, Saved, FilesInOrder, SavedMeansWritten
<1>0. /\ calls \in Nat /\ (calls > 1 => pc = "idle" /\ returned.code = "invalid_state")
      /\ (called <=> calls > 0) /\ (pc # "idle" => calls = 1)
      /\ (pc \in {"collect", "media", "subtitles"} => op = "save")
  BY CallsAssumption DEF TypeInv, TypeOK, Used, Called
<1>1. CASE \E o \in {"synthesize", "stream", "save"} : Begin(o)
  <2>1. CASE called
    BY <1>0, <1>1, <2>1 DEF Begin
  <2>2. CASE ~called
    BY <1>0, <1>1, <2>2 DEF Begin, Guard
  <2> QED
    BY <2>1, <2>2
<1>2. CASE Pipeline \/ Session
  BY <1>0, <1>2 DEF Pipeline, Session, Synthesized
<1>3. CASE HandOver
  BY <1>0, <1>3 DEF HandOver, GoOn, Return, TypeInv, Called
<1>4. CASE Finish \/ Deliver
  <2>1. /\ UNCHANGED <<files, synthesis, calls, want_srt, op>>
        /\ media = Old /\ subtitles = Old /\ pc' # "subtitles"
        /\ pc' = "idle" => returned'.op = op
    BY <1>0, <1>4 DEF Finish, Deliver, Stop, Return
  <2>2. op = "stream"
    BY <1>4 DEF Telling, Delivering, Finish, Deliver
  <2> QED
    BY <1>0, <2>1, <2>2
<1>5. CASE Callback \/ CallbackReturns
  BY <1>0, <1>5 DEF Callback, CallbackReturns
<1>6. CASE Collect
  BY <1>0, <1>6 DEF Collect, Return
<1>7. CASE WriteMedia
  BY <1>0, <1>7 DEF WriteMedia, WriteFile, Return
<1>8. CASE WriteSubtitles
  BY <1>0, <1>8 DEF WriteSubtitles, WriteFile, Return
<1>9. CASE Cancel
  BY <1>9 DEF Cancel
<1>10. CASE UNCHANGED vars
  BY <1>10 DEF vars
<1> QED
  BY <1>1, <1>2, <1>3, <1>4, <1>5, <1>6, <1>7, <1>8, <1>9, <1>10 DEF Next

LEMMA SavedAlways == Spec => []Saved
<1>1. Init => Saved
  BY DEF Init, Saved, FilesInOrder, SavedMeansWritten
<1>2. TypeInv /\ Used /\ Telling /\ Saved /\ [Next]_vars => Saved'
  BY SavedStep
<1> QED
  BY <1>1, <1>2, UsedAlways, TellingAlways, PTL DEF Spec

\* An error but io_error leaves both files alone; the subtitle file is touched only after the
\* media file was written (SpeechSynthesizer.cpp:264-295).
THEOREM FilesLast == Spec => []FilesInOrder
<1>1. Saved => FilesInOrder
  BY DEF Saved
<1> QED
  BY <1>1, SavedAlways, PTL

\* If closing a file never fails, a save() that returns ok has written everything
\* (SpeechSynthesizer.cpp:282-295).
THEOREM OkMeansWritten == ~FlushMayFail => (Spec => []SavedMeansWritten)
<1>1. SUFFICES ASSUME ~FlushMayFail PROVE Spec => []SavedMeansWritten
  OBVIOUS
<1>2. Saved => SavedMeansWritten
  BY <1>1 DEF Saved
<1> QED
  BY <1>2, SavedAlways, PTL
=============================================================================
