----------------------- MODULE WebSocketClientProofs ------------------------
(***************************************************************************)
(* Proofs about WebSocketClient, for any number of connections and frames: *)
(* its type invariant, its safety invariants, and that it implements       *)
(* FrameStream.                                                            *)
(***************************************************************************)
EXTENDS WebSocketClientStream, TLAPS

-----------------------------------------------------------------------------
(* The type invariant.                                                     *)

Results == [op : {"none", "connect", "send_text", "receive", "close"},
            code : {"none", "unsupported", "drm_error", "network_error", "timeout"}]

LEMMA ItemType ==
  ASSUME NEW c \in 0..MaxConnects, NEW n \in 0..MaxFrames
  PROVE  Frame(c, n) \in Items /\ Lost(c) \in Items
BY BoundsAssumption DEF Frame, Lost, Items

\* Appending and taking keep the type of a sequence.
LEMMA AppendType ==
  ASSUME NEW S, NEW s \in Seq(S), NEW e \in S
  PROVE  Append(s, e) \in Seq(S)
OBVIOUS

LEMMA TailType ==
  ASSUME NEW S, NEW s \in Seq(S), s # <<>>
  PROVE  Tail(s) \in Seq(S) /\ Head(s) \in S
OBVIOUS

LEMMA ReturnType ==
  ASSUME NEW op \in {"none", "connect", "send_text", "receive", "close"},
         NEW code \in {"none", "unsupported", "drm_error", "network_error", "timeout"},
         Return(op, code)
  PROVE  returned' \in Results /\ owner' = "idle"
BY DEF Return, Results

LEMMA InitType == ASSUME Init PROVE TypeOK
<1>1. item \in Items /\ conn \in 0..MaxConnects
  BY ItemType, BoundsAssumption DEF Init, NoItem
<1>2. returned \in Results
  BY DEF Init, Results
<1>3. <<>> \in Seq(Items)
  OBVIOUS
<1> QED
  BY <1>1, <1>2, <1>3 DEF Init, TypeOK, Results

LEMMA RunThreadType == ASSUME TypeOK, RunThread PROVE TypeOK'
<1>1. CASE Callback
  <2>1. item' \in Items
    <3>1. CASE OnMessage
      <4>1. Len(arrived) + 1 \in 0..MaxFrames
        BY <3>1, BoundsAssumption DEF OnMessage, TypeOK
      <4> QED BY <3>1, <4>1, ItemType DEF OnMessage, TypeOK
    <3>2. CASE OnFailure
      BY <3>2, ItemType, BoundsAssumption DEF OnFailure, TypeOK
    <3>3. CASE OnNormalClose
      BY <3>3 DEF OnNormalClose, TypeOK
    <3>4. CASE OnStop
      BY <3>4, ItemType, BoundsAssumption DEF OnStop, TypeOK
    <3> QED BY <1>1, <3>1, <3>2, <3>3, <3>4 DEF Callback
  <2>2. /\ run' \in {"pushing", "finished"}
        /\ remote' \in {"unused", "open", "failed", "closed"}
    BY <1>1 DEF Callback, OnMessage, OnFailure, OnNormalClose, OnStop, TypeOK
  <2> QED BY <1>1, <2>1, <2>2 DEF Callback, TypeOK
<1>2. CASE Push
  <2>1. incoming' \in Seq(Items) /\ arrived' \in Seq(Items)
    BY <1>2, AppendType DEF Push, TypeOK
  <2> QED BY <1>2, <2>1 DEF Push, TypeOK
<1>3. CASE Notify
  BY <1>3 DEF Notify, TypeOK
<1> QED BY <1>1, <1>2, <1>3 DEF RunThread

LEMMA ConnectType ==
  ASSUME TypeOK,
         ConnectUnsupported \/ ConnectStop \/ ConnectJoin \/ ConnectClear
  PROVE  TypeOK'
<1>1. CASE ConnectUnsupported
  BY <1>1, ReturnType DEF ConnectUnsupported, TypeOK, Results
<1>2. CASE ConnectStop
  BY <1>2 DEF ConnectStop, Stop, TypeOK
<1>3. CASE ConnectJoin
  BY <1>3 DEF ConnectJoin, Join, TypeOK
<1>4. CASE ConnectClear
  <2>1. incoming' \in Seq(Items)
    BY <1>4 DEF ConnectClear
  <2> QED BY <1>4, <2>1 DEF ConnectClear, TypeOK
<1> QED BY <1>1, <1>2, <1>3, <1>4

\* A connection is opened only inside a connect() that was counted.
Counted == Connecting => conn < MaxConnects

LEMMA ConnectOpenType == ASSUME TypeOK, Counted, ConnectOpen PROVE TypeOK'
<1>1. conn' \in 0..MaxConnects
  BY BoundsAssumption DEF ConnectOpen, Counted, Connecting, TypeOK
<1>2. arrived' \in Seq(Items) /\ taken' \in Seq(Items) /\ incoming' \in Seq(Items)
  BY DEF ConnectOpen, TypeOK
<1>3. returned' \in Results /\ owner' = "idle"
  BY ReturnType DEF ConnectOpen
<1>4. /\ run' \in {"none", "polling", "pushing", "notifying", "finished"}
      /\ stopping' \in BOOLEAN /\ remote' \in {"unused", "open", "failed", "closed"}
  BY DEF ConnectOpen, TypeOK
<1>5. proxy' \in BOOLEAN /\ closer' \in {"idle", "joining"} /\ item' \in Items
  BY DEF ConnectOpen, TypeOK
<1> QED BY <1>1, <1>2, <1>3, <1>4, <1>5 DEF TypeOK, Results

LEMMA ReceiveType ==
  ASSUME TypeOK, Receive \/ Wait \/ Take \/ Deadline PROVE TypeOK'
<1>1. CASE Receive
  BY <1>1 DEF Receive, TypeOK
<1>2. CASE Wait
  BY <1>2 DEF Wait, TypeOK
<1>3. CASE Take
  <2>1. incoming' \in Seq(Items) /\ taken' \in Seq(Items)
    BY <1>3, TailType, AppendType DEF Take, TypeOK
  <2>2. returned' \in Results /\ owner' = "idle"
    BY <1>3, ReturnType DEF Take
  <2> QED BY <1>3, <2>1, <2>2 DEF Take, TypeOK, Results
<1>4. CASE Deadline
  <2>1. returned' \in Results /\ owner' \in {"idle", "receive"}
    BY <1>4, ReturnType DEF Deadline, TypeOK, Results
  <2> QED BY <1>4, <2>1 DEF Deadline, TypeOK, Results
<1> QED BY <1>1, <1>2, <1>3, <1>4

LEMMA CloseType ==
  ASSUME TypeOK, SendText \/ CloseStop \/ CloseJoin \/ CloserStop \/ CloserJoin
  PROVE  TypeOK'
<1>1. CASE SendText
  <2>1. returned' \in Results /\ owner' = "idle"
    BY <1>1, ReturnType DEF SendText
  <2> QED BY <1>1, <2>1 DEF SendText, TypeOK, Results
<1>2. CASE CloseStop
  BY <1>2 DEF CloseStop, Stop, TypeOK
<1>3. CASE CloseJoin
  <2>1. returned' \in Results /\ owner' = "idle"
    BY <1>3, ReturnType DEF CloseJoin
  <2> QED BY <1>3, <2>1 DEF CloseJoin, Join, TypeOK, Results
<1>4. CASE CloserStop
  BY <1>4 DEF CloserStop, Stop, TypeOK
<1>5. CASE CloserJoin
  BY <1>5 DEF CloserJoin, Join, TypeOK
<1> QED BY <1>1, <1>2, <1>3, <1>4, <1>5

LEMMA StepCounted == ASSUME TypeOK, Counted, [Next]_vars PROVE Counted'
<1>1. CASE ConnectStop
  BY <1>1 DEF ConnectStop, Counted
<1>2. CASE ConnectOpen
  BY <1>2 DEF ConnectOpen, Return, Counted, Connecting
<1>3. CASE RunThread
  BY <1>3 DEF RunThread, Callback, Push, Notify, Counted, Connecting
<1>4. CASE ConnectJoin \/ ConnectClear
  BY <1>4 DEF ConnectJoin, ConnectClear, Counted, Connecting
<1>5. CASE ConnectUnsupported \/ SendText \/ Receive \/ CloseStop
  BY <1>5 DEF ConnectUnsupported, SendText, Receive, CloseStop, Return, Counted, Connecting
<1>6. CASE Wait \/ Take \/ CloseJoin \/ Deadline
  BY <1>6 DEF Wait, Take, CloseJoin, Deadline, Return, Counted, Connecting
<1>7. CASE CloserStop \/ CloserJoin \/ UNCHANGED vars
  BY <1>7 DEF CloserStop, CloserJoin, vars, Counted, Connecting
<1> QED
  BY <1>1, <1>2, <1>3, <1>4, <1>5, <1>6, <1>7 DEF Next, OwnerBegins, OwnerCall

LEMMA StepType == ASSUME TypeOK, Counted, [Next]_vars PROVE TypeOK'
<1>1. CASE UNCHANGED vars
  BY <1>1 DEF vars, TypeOK
<1>2. CASE Next
  BY <1>2, RunThreadType, ConnectType, ConnectOpenType, ReceiveType, CloseType
     DEF Next, OwnerBegins, OwnerCall
<1> QED BY <1>1, <1>2

TypeInv == TypeOK /\ Counted

LEMMA TypeInvariant == Spec => []TypeInv
<1>1. ASSUME Init PROVE TypeInv
  BY <1>1, InitType DEF TypeInv, Counted, Connecting, Init
<1>2. ASSUME TypeInv, [Next]_vars PROVE TypeInv'
  BY <1>2, StepType, StepCounted DEF TypeInv
<1> QED BY <1>1, <1>2, PTL DEF Spec

\* Every variable of the client keeps its type (WebSocketClient.cpp:33-259).
THEOREM TypeCorrect == Spec => []TypeOK
<1>1. ASSUME TypeInv PROVE TypeOK
  BY <1>1 DEF TypeInv
<1> QED BY <1>1, TypeInvariant, PTL

-----------------------------------------------------------------------------
(* One run thread, and no item of another connection.                      *)

\* From the join of the old run thread until the new one is started there is
\* none, the queue is cleared in between, and whatever is queued or on its way
\* into the queue is of this connection.
Fresh ==
  /\ OneRunThread
  /\ owner = "connect_clear" => run = "none"
  /\ owner = "connect_open" => incoming = <<>>
  /\ run \in {"pushing", "notifying"} => item.conn = conn
  /\ \A i \in DOMAIN incoming : incoming[i].conn = conn
  /\ \A i \in DOMAIN taken : taken[i].conn = conn

\* An appended element is of the connection if all the others are.
LEMMA AppendOf ==
  ASSUME NEW s \in Seq(Items), NEW e \in Items, NEW c,
         \A i \in DOMAIN s : s[i].conn = c, e.conn = c
  PROVE  \A i \in DOMAIN Append(s, e) : Append(s, e)[i].conn = c
OBVIOUS

LEMMA TailOf ==
  ASSUME NEW s \in Seq(Items), NEW c, s # <<>>, \A i \in DOMAIN s : s[i].conn = c
  PROVE  Head(s).conn = c /\ \A i \in DOMAIN Tail(s) : Tail(s)[i].conn = c
OBVIOUS

LEMMA StepFresh ==
  ASSUME TypeInv, TypeInv', Fresh, [Next]_vars
  PROVE  Fresh'
<1> USE DEF Fresh, OneRunThread
<1>1. CASE Callback
  <2>1. item'.conn = conn \/ run' = "finished"
    BY <1>1 DEF Callback, OnMessage, OnFailure, OnNormalClose, OnStop, Frame, Lost
  <2>2. run = "polling" /\ run' \in {"pushing", "finished"}
    BY <1>1 DEF Callback, OnMessage, OnFailure, OnNormalClose, OnStop
  <2> QED BY <1>1, <2>1, <2>2 DEF Callback
<1>2. CASE Push
  <2>1. \A i \in DOMAIN incoming' : incoming'[i].conn = conn'
    BY <1>2, AppendOf DEF Push, TypeInv, TypeOK
  <2> QED BY <1>2, <2>1 DEF Push
<1>3. CASE Notify
  BY <1>3 DEF Notify
<1>4. CASE ConnectUnsupported \/ SendText \/ Receive \/ Wait
  BY <1>4 DEF ConnectUnsupported, SendText, Receive, Wait, Return
<1>5. CASE ConnectStop \/ CloseStop \/ CloserStop
  BY <1>5 DEF ConnectStop, CloseStop, CloserStop, Stop
<1>6. CASE ConnectJoin \/ CloseJoin \/ CloserJoin
  BY <1>6 DEF ConnectJoin, CloseJoin, CloserJoin, Join, Return
<1>7. CASE ConnectClear
  BY <1>7 DEF ConnectClear
<1>8. CASE ConnectOpen
  <2>1. run = "none" /\ incoming' = <<>> /\ taken' = <<>> /\ run' \in {"none", "polling"}
    BY <1>8 DEF ConnectOpen
  <2>2. owner' = "idle" /\ returned'.op = "connect"
    BY <1>8 DEF ConnectOpen, Return
  <2> QED BY <2>1, <2>2
<1>9. CASE Take
  <2>1. \A i \in DOMAIN incoming' : incoming'[i].conn = conn'
    BY <1>9, TailOf DEF Take, TypeInv, TypeOK
  <2>2. \A i \in DOMAIN taken' : taken'[i].conn = conn'
    <3>1. Head(incoming).conn = conn /\ Head(incoming) \in Items
      BY <1>9, TailOf, TailType DEF Take, TypeInv, TypeOK
    <3> QED BY <1>9, <3>1, AppendOf DEF Take, TypeInv, TypeOK
  <2>3. owner' = "idle" /\ returned'.op = "receive" /\ UNCHANGED <<run, item, conn>>
    BY <1>9 DEF Take, Return
  <2> QED BY <2>1, <2>2, <2>3
<1>10. CASE Deadline
  BY <1>10 DEF Deadline, Return
<1>11. CASE UNCHANGED vars
  BY <1>11 DEF vars
<1> QED
  BY <1>1, <1>2, <1>3, <1>4, <1>5, <1>6, <1>7, <1>8, <1>9, <1>10, <1>11
     DEF Next, RunThread, OwnerBegins, OwnerCall

LEMMA FreshInvariant == Spec => []Fresh
<1>1. ASSUME Init PROVE Fresh
  BY <1>1 DEF Init, Fresh, OneRunThread
<1>2. ASSUME TypeInv, TypeInv', Fresh, [Next]_vars PROVE Fresh'
  BY <1>2, StepFresh
<1> QED BY <1>1, <1>2, TypeInvariant, PTL DEF Spec

\* No item of an earlier connection is ever in the queue of another, or
\* returned to the owner, for any number of connections.
THEOREM NothingStale == Spec => []NoStaleItem
<1>1. ASSUME Fresh PROVE NoStaleItem
  BY <1>1 DEF Fresh, NoStaleItem
<1> QED BY <1>1, FreshInvariant, PTL

\* connect() never assigns run_thread while a thread is joinable, and close()
\* leaves none behind.
THEOREM OneThread == Spec => []OneRunThread
<1>1. ASSUME Fresh PROVE OneRunThread
  BY <1>1 DEF Fresh
<1> QED BY <1>1, FreshInvariant, PTL

-----------------------------------------------------------------------------
(* The client implements FrameStream.                                      *)

\* What arrived is what was taken, followed by the queue.  Between ConnectClear
\* and ConnectOpen the queue is cleared and the history is not yet.
Split == owner # "connect_open" => arrived = taken \o incoming

LEMMA SplitPush ==
  \A t, q \in Seq(Items) : \A e \in Items : Append(t \o q, e) = t \o Append(q, e)
OBVIOUS

LEMMA SplitTake ==
  ASSUME NEW S, NEW t \in Seq(S), NEW q \in Seq(S), q # <<>>
  PROVE  /\ t \o q = Append(t, Head(q)) \o Tail(q)
         /\ Len(t) < Len(t \o q) /\ (t \o q)[Len(t) + 1] = Head(q)
OBVIOUS

LEMMA SplitEnd ==
  ASSUME NEW S, NEW t \in Seq(S)
  PROVE  t \o <<>> = t
OBVIOUS

LEMMA StepSplit ==
  ASSUME TypeInv, Fresh, Split, [Next]_vars
  PROVE  Split'
<1>1. CASE Callback \/ Notify
  BY <1>1 DEF Callback, Notify, Split
<1>2. CASE Push
  <2>1. /\ arrived' = Append(arrived, item) /\ incoming' = Append(incoming, item)
        /\ owner' = owner /\ taken' = taken
    BY <1>2 DEF Push
  <2>2. Append(taken \o incoming, item) = taken \o Append(incoming, item)
    <3>1. taken \in Seq(Items) /\ incoming \in Seq(Items) /\ item \in Items
      BY DEF TypeInv, TypeOK
    <3> QED BY <3>1, SplitPush, Zenon
  <2> QED BY <2>1, <2>2 DEF Split
<1>3. CASE ConnectUnsupported \/ SendText \/ Receive \/ Wait \/ Deadline
  BY <1>3 DEF ConnectUnsupported, SendText, Receive, Wait, Deadline, Return, Split
<1>4. CASE ConnectStop \/ CloseStop \/ CloserStop \/ ConnectJoin \/ CloseJoin \/ CloserJoin
  BY <1>4 DEF ConnectStop, CloseStop, CloserStop, ConnectJoin, CloseJoin, CloserJoin, Return,
              Split
<1>5. CASE ConnectClear
  BY <1>5 DEF ConnectClear, Split
<1>6. CASE ConnectOpen
  BY <1>6 DEF ConnectOpen, Fresh, Split
<1>7. CASE Take
  <2>1. /\ arrived' = arrived /\ incoming' = Tail(incoming)
        /\ taken' = Append(taken, Head(incoming))
    BY <1>7 DEF Take
  <2>2. arrived = taken \o incoming
    BY <1>7 DEF Take, Split
  <2>3. taken \o incoming = Append(taken, Head(incoming)) \o Tail(incoming)
    <3>1. taken \in Seq(Items) /\ incoming \in Seq(Items) /\ incoming # <<>>
      BY <1>7 DEF Take, TypeInv, TypeOK
    <3> QED BY <3>1, SplitTake
  <2> QED BY <2>1, <2>2, <2>3 DEF Split
<1>8. CASE UNCHANGED vars
  BY <1>8 DEF vars, Split
<1> QED
  BY <1>1, <1>2, <1>3, <1>4, <1>5, <1>6, <1>7, <1>8
     DEF Next, RunThread, OwnerBegins, OwnerCall

LEMMA SplitInvariant == Spec => []Split
<1>1. ASSUME Init PROVE Split
  BY <1>1 DEF Init, Split
<1>2. ASSUME TypeInv, Fresh, Split, [Next]_vars PROVE Split'
  BY <1>2, StepSplit
<1> QED BY <1>1, <1>2, TypeInvariant, FreshInvariant, PTL DEF Spec

\* Every step of the client is a step of FrameStream, or none.
LEMMA StepStream ==
  ASSUME TypeInv, Split, [Next]_vars
  PROVE  [Stream!Next]_(Stream!vars)
<1> USE DEF Stream!vars
<1>1. CASE Callback \/ Notify \/ Receive \/ Wait
  BY <1>1 DEF Callback, Notify, Receive, Wait
<1>2. CASE Push
  <2>1. Stream!Arrive
    BY <1>2 DEF Push, Stream!Arrive, TypeInv, TypeOK
  <2> QED BY <2>1 DEF Stream!Next
<1>3. CASE ConnectUnsupported \/ SendText \/ CloseJoin
  <2>1. Stream!Other
    BY <1>3 DEF ConnectUnsupported, SendText, CloseJoin, Return, Stream!Other
  <2> QED BY <2>1 DEF Stream!Next
<1>4. CASE ConnectStop \/ CloseStop \/ CloserStop \/ ConnectJoin \/ CloserJoin \/ ConnectClear
  BY <1>4 DEF ConnectStop, CloseStop, CloserStop, ConnectJoin, CloserJoin, ConnectClear
<1>5. CASE ConnectOpen
  <2>1. Stream!Connect
    BY <1>5 DEF ConnectOpen, Return, Stream!Connect
  <2> QED BY <2>1 DEF Stream!Next
<1>6. CASE Take
  <2>1. /\ Len(taken) < Len(arrived) /\ arrived[Len(taken) + 1] = Head(incoming)
    BY <1>6, SplitTake DEF Take, Split, TypeInv, TypeOK
  <2>2. returned'.op = "receive" /\ returned' # Stream!Silence
    BY <1>6 DEF Take, Return, Stream!Silence
  <2>3. Stream!Take
    BY <1>6, <2>1, <2>2 DEF Take, Stream!Take
  <2> QED BY <2>3 DEF Stream!Next
<1>7. CASE Deadline
  <2>1. CASE incoming = <<>>
    <3>1. taken = arrived
      BY <1>7, <2>1, SplitEnd DEF Deadline, Split, TypeInv, TypeOK
    <3>2. Stream!GiveUp
      BY <1>7, <2>1, <3>1 DEF Deadline, Return, Stream!GiveUp, Stream!Silence
    <3> QED BY <3>2 DEF Stream!Next
  <2>2. CASE incoming # <<>>
    BY <1>7, <2>2 DEF Deadline
  <2> QED BY <2>1, <2>2
<1>8. CASE UNCHANGED vars
  BY <1>8 DEF vars
<1> QED
  BY <1>1, <1>2, <1>3, <1>4, <1>5, <1>6, <1>7, <1>8
     DEF Next, RunThread, OwnerBegins, OwnerCall

\* For any number of connections and frames, receive() hands out the items of
\* the connection in order, each once, and times out only when none is left.
THEOREM StreamImplemented == Spec => ImplementsStream
<1>1. ASSUME Init PROVE Stream!Init
  BY <1>1 DEF Init, Stream!Init
<1>2. ASSUME TypeInv, Split, [Next]_vars PROVE [Stream!Next]_(Stream!vars)
  BY <1>2, StepStream
<1> QED BY <1>1, <1>2, TypeInvariant, SplitInvariant, PTL DEF Spec, ImplementsStream, Stream!Spec
=============================================================================
