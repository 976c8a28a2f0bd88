------------------------- MODULE VoiceServiceProofs --------------------------
(***************************************************************************)
(* Proofs about VoiceService, for every window, drift and guess and any    *)
(* number of calls.                                                        *)
(***************************************************************************)
EXTENDS VoiceService, FiniteSetTheorems, WellFoundedInduction, TLAPS

\* The control state, without the clocks.
ControlOK ==
  /\ honest \in BOOLEAN /\ dates \in BOOLEAN
  /\ pc \in {"idle", "request", "wait", "answered"}
  /\ filter \in Filters
  /\ response.status \in {0, 200, 403, 500}
  /\ result.code \in TransportError \cup {Absent, "none", "service_error", "parse_error"}

\* A call makes two requests at most, and is about to judge only an answer.
Attempts ==
  /\ attempt \in 0..2
  /\ pc \in {"request", "wait"} => attempt \in {0, 1}
  /\ pc = "answered" => attempt \in {1, 2}

ClocksOK ==
  /\ now \in 0..MaxTime /\ drift \in Drifts /\ skew \in Int /\ token \in Int
  /\ calls \in 0..MaxCalls
  /\ started \in 0..now
  /\ response.date \in Int

TypeInv == ControlOK /\ Attempts /\ ClocksOK

LEMMA ParseCode ==
  ASSUME NEW body PROVE parse(body).code \in {"none", "parse_error"}
BY DEF parse

LEMMA WindowType ==
  ASSUME NEW t \in Int PROVE t \div Window \in Int
BY WindowAssumption

LEMMA StepControlOK ==
  ASSUME ControlOK, [Next]_vars
  PROVE  ControlOK'
<1> USE DEF ControlOK
<1>1. CASE Begin
  BY <1>1 DEF Begin, NoResponse, Nothing
<1>2. CASE send_request
  BY <1>2 DEF send_request
<1>3. CASE send
  <2>1. CASE Respond /\ pc' = "answered" /\ UNCHANGED result
    <3>1. response'.status \in {200, 403, 500}
      BY <2>1 DEF Respond
    <3> QED BY <1>3, <2>1, <3>1 DEF send
  <2>2. CASE TransportFails /\ UNCHANGED response
    BY <1>3, <2>2 DEF send, TransportFails, Return
  <2> QED BY <1>3, <2>1, <2>2 DEF send
<1>4. CASE Refused
  BY <1>4 DEF Refused
<1>5. CASE Judge
  <2>1. pc' = "idle" /\ result'.code \in {"service_error", "none", "parse_error"}
    BY <1>5, ParseCode DEF Judge, Return
  <2> QED BY <1>5, <2>1 DEF Judge
<1>6. CASE Tick \/ UNCHANGED vars
  BY <1>6 DEF Tick, vars
<1> QED BY <1>1, <1>2, <1>3, <1>4, <1>5, <1>6 DEF Next, ListVoices

LEMMA StepAttempts ==
  ASSUME Attempts, [Next]_vars
  PROVE  Attempts'
<1> USE DEF Attempts
<1>1. CASE Begin \/ send_request
  BY <1>1 DEF Begin, send_request
<1>2. CASE send
  BY <1>2 DEF send, TransportFails, Return
<1>3. CASE Refused \/ Judge
  BY <1>3 DEF Refused, Judge, FirstRefusal, Return
<1>4. CASE Tick \/ UNCHANGED vars
  BY <1>4 DEF Tick, vars
<1> QED BY <1>1, <1>2, <1>3, <1>4 DEF Next, ListVoices

LEMMA StepClocksOK ==
  ASSUME ClocksOK, [Next]_vars
  PROVE  ClocksOK'
<1> USE VoicesAssumption DEF ClocksOK
<1>1. CASE Begin
  BY <1>1 DEF Begin, NoResponse
<1>2. CASE send_request
  <2>1. token' \in Int
    BY <1>2, WindowType DEF send_request, sec_ms_gec
  <2> QED BY <1>2, <2>1 DEF send_request
<1>3. CASE send
  <2>1. CASE Respond
    <3>1. response'.date \in Int
      BY <2>1 DEF Respond, ServerTime
    <3> QED BY <1>3, <3>1 DEF send
  <2>2. CASE UNCHANGED response
    BY <1>3, <2>2 DEF send
  <2> QED BY <1>3, <2>1, <2>2 DEF send
<1>4. CASE Refused
  BY <1>4 DEF Refused, adjust_from_server_timestamp, adjust_clock_skew
<1>5. CASE Judge
  BY <1>5 DEF Judge
<1>6. CASE Tick \/ UNCHANGED vars
  BY <1>6 DEF Tick, vars
<1> QED BY <1>1, <1>2, <1>3, <1>4, <1>5, <1>6 DEF Next, ListVoices

LEMMA TypeInvariant == Spec => []TypeInv
<1>1. ASSUME Init PROVE TypeInv
  BY <1>1, VoicesAssumption DEF Init, NoResponse, Nothing, TypeInv, ControlOK, Attempts, ClocksOK
<1>2. ASSUME TypeInv, [Next]_vars PROVE TypeInv'
  BY <1>2, StepControlOK, StepAttempts, StepClocksOK DEF TypeInv
<1> QED BY <1>1, <1>2, PTL DEF Spec

\* The type invariant of the service, whatever bodies the service sends.
THEOREM TypeCorrect == Spec => []TypeOK
<1>1. ASSUME TypeInv PROVE TypeOK
  BY <1>1, VoicesAssumption DEF TypeInv, ControlOK, Attempts, ClocksOK, TypeOK
<1> QED BY <1>1, TypeInvariant, PTL

-----------------------------------------------------------------------------
(* A refusal that says the time corrects the clock, whatever was in it.    *)

Fair == honest /\ dates

\* The Date of a refusal was the service's time at some moment of this call.
DateOfCall == response.date - drift \in started..now

\* What the first refusal leads to: a corrected time between its Date and the
\* service's time, a token of a window between theirs, and an answer that is no
\* refusal unless the call has taken a window's time.
Corrected ==
  /\ Fair /\ pc = "answered" /\ FirstRefusal => response.dated /\ DateOfCall
  /\ Fair /\ pc = "request" /\ attempt = 1 =>
       /\ DateOfCall
       /\ response.date <= now + skew /\ now + skew <= ServerTime
  /\ Fair /\ pc = "wait" /\ attempt = 1 =>
       /\ DateOfCall
       /\ token \in (response.date \div Window)..(ServerTime \div Window)
  /\ Fair /\ pc = "answered" /\ attempt = 2 /\ now - started < Window => response.status # 403
  /\ GuessesAreUndone

\* A later time lies in the same window or a later one, and one that is less
\* than a window later in the next at most.
LEMMA WindowsInOrder ==
  ASSUME NEW s \in Int, NEW t \in Int, s <= t
  PROVE  s \div Window <= t \div Window
BY WindowAssumption

LEMMA NeighbourWindows ==
  ASSUME NEW s \in Int, NEW t \in Int, t - s < Window
  PROVE  t \div Window <= s \div Window + 1
BY WindowAssumption

\* A token made for a time between a Date of this call and now is accepted
\* until the call has taken a window's time.
LEMMA TokenIsAccepted ==
  ASSUME ClocksOK, DateOfCall, now - started < Window,
         token \in (response.date \div Window)..(ServerTime \div Window)
  PROVE  TokenAccepted
<1>1. now \in Int /\ started \in Int /\ drift \in Int /\ response.date \in Int /\ token \in Int
  BY VoicesAssumption DEF ClocksOK
<1>2. ServerTime \in Int /\ ServerTime - response.date < Window
  <2>1. started <= response.date - drift
    BY <1>1 DEF DateOfCall
  <2> QED BY <1>1, <2>1, WindowAssumption DEF ServerTime
<1>3. ServerTime \div Window <= response.date \div Window + 1
  BY <1>1, <1>2, NeighbourWindows
<1>4. ServerTime \div Window \in Int /\ response.date \div Window \in Int
  BY <1>1, <1>2, WindowType
<1> HIDE DEF ServerTime
<1> QED BY <1>1, <1>3, <1>4 DEF TokenAccepted

LEMMA CorrectedTick ==
  ASSUME ClocksOK, Corrected, Tick
  PROVE  Corrected'
<1>0. now \in Int /\ started \in Int /\ drift \in Int /\ response.date \in Int
      /\ skew \in Int /\ token \in Int /\ Window \in Int
  BY VoicesAssumption, WindowAssumption DEF ClocksOK
<1>1. now' = now + 1 /\ UNCHANGED <<drift, skew, token, honest, dates, pc, attempt, response,
                                    result, started>>
  BY DEF Tick
<1>2. DateOfCall => DateOfCall'
  BY <1>0, <1>1 DEF DateOfCall
<1>3. response.date <= now + skew /\ now + skew <= ServerTime =>
        response'.date <= now' + skew' /\ now' + skew' <= ServerTime'
  BY <1>0, <1>1 DEF ServerTime
<1>4. now' - started' < Window => now - started < Window
  BY <1>0, <1>1
<1>5. token \in (response.date \div Window)..(ServerTime \div Window) =>
        token' \in (response'.date \div Window)..(ServerTime' \div Window)
  <2>1. ServerTime \in Int /\ ServerTime' \in Int /\ ServerTime <= ServerTime'
    BY <1>0, <1>1 DEF ServerTime
  <2>2. ServerTime \div Window <= ServerTime' \div Window
    BY <2>1, WindowsInOrder
  <2>3. /\ ServerTime \div Window \in Int /\ ServerTime' \div Window \in Int
        /\ response.date \div Window \in Int
    BY <1>0, <2>1, WindowType
  <2> HIDE DEF ServerTime
  <2> QED BY <1>0, <1>1, <2>2, <2>3
<1> QED
  BY <1>1, <1>2, <1>3, <1>4, <1>5 DEF Corrected, Fair, FirstRefusal, GuessesAreUndone

LEMMA StepCorrected ==
  ASSUME TypeInv, Corrected, [Next]_vars
  PROVE  Corrected'
<1>0. /\ ClocksOK /\ now \in Int /\ started \in Int /\ drift \in Int /\ response.date \in Int
      /\ skew \in Int /\ token \in Int /\ started <= now
  BY VoicesAssumption DEF TypeInv, ClocksOK
<1>1. CASE Begin
  <2>1. pc' = "request" /\ attempt' = 0
    BY <1>1 DEF Begin
  <2> QED BY <2>1 DEF Corrected, GuessesAreUndone
<1>2. CASE send_request
  <2>1. /\ pc = "request" /\ pc' = "wait" /\ token' = (now + skew) \div Window
        /\ UNCHANGED <<now, drift, skew, honest, dates, attempt, response, result, started>>
    BY <1>2 DEF send_request, sec_ms_gec
  <2>2. ASSUME Fair, attempt = 1
        PROVE  DateOfCall /\ token' \in (response.date \div Window)..(ServerTime \div Window)
    <3>1. DateOfCall /\ response.date <= now + skew /\ now + skew <= ServerTime
      BY <2>1, <2>2 DEF Corrected
    <3>2. ServerTime \in Int /\ now + skew \in Int
      BY <1>0 DEF ServerTime
    <3>3. /\ response.date \div Window <= (now + skew) \div Window
          /\ (now + skew) \div Window <= ServerTime \div Window
      BY <1>0, <3>1, <3>2, WindowsInOrder
    <3>4. /\ response.date \div Window \in Int /\ (now + skew) \div Window \in Int
          /\ ServerTime \div Window \in Int
      BY <1>0, <3>2, WindowType
    <3> QED BY <2>1, <3>1, <3>3, <3>4
  <2>3. DateOfCall' = DateOfCall /\ ServerTime' = ServerTime
    BY <2>1 DEF DateOfCall, ServerTime
  <2> QED BY <2>1, <2>2, <2>3 DEF Corrected, Fair, GuessesAreUndone
<1>3. CASE send
  <2>1. CASE Respond /\ pc' = "answered" /\ attempt' = attempt + 1
    <3>1. /\ pc = "wait" /\ attempt \in {0, 1}
          /\ UNCHANGED <<now, drift, token, honest, dates, started>>
      BY <1>3 DEF send, TypeInv, Attempts
    <3>2. /\ honest => (response'.status = 403) = ~TokenAccepted
          /\ Fair /\ response'.status = 403 => response'.dated
          /\ response'.dated => response'.date = ServerTime
      BY <2>1 DEF Respond, Fair
    <3>3. ASSUME Fair, response'.status = 403 PROVE response'.dated /\ DateOfCall'
      BY <1>0, <3>1, <3>2, <3>3 DEF DateOfCall, ServerTime
    <3>4. ASSUME Fair, attempt' = 2, now - started < Window PROVE response'.status # 403
      <4>1. attempt = 1
        BY <2>1, <3>1, <3>4
      <4>2. TokenAccepted
        BY <1>0, <3>1, <3>4, <4>1, TokenIsAccepted DEF Corrected
      <4> QED BY <3>2, <3>4, <4>2 DEF Fair
    <3> QED BY <2>1, <3>1, <3>3, <3>4 DEF Corrected, Fair, FirstRefusal, GuessesAreUndone
  <2>2. CASE TransportFails
    <3>1. pc' = "idle" /\ result'.code # "service_error"
      BY <2>2 DEF TransportFails, Return, TransportError
    <3> QED BY <3>1 DEF Corrected, GuessesAreUndone
  <2> QED BY <1>3, <2>1, <2>2 DEF send
<1>4. CASE Refused
  <2>1. /\ pc = "answered" /\ FirstRefusal /\ pc' = "request"
        /\ UNCHANGED <<now, drift, honest, dates, attempt, response, started>>
    BY <1>4 DEF Refused
  <2>2. ASSUME Fair
        PROVE  DateOfCall /\ response.date <= now + skew' /\ now + skew' <= ServerTime
    <3>1. response.dated /\ DateOfCall
      BY <2>1, <2>2 DEF Corrected
    <3>2. skew' = skew + (response.date - (now + skew))
      BY <1>4, <3>1 DEF Refused, adjust_from_server_timestamp, adjust_clock_skew
    <3> QED BY <1>0, <3>1, <3>2 DEF DateOfCall, ServerTime
  <2>3. DateOfCall' = DateOfCall /\ ServerTime' = ServerTime
    BY <2>1 DEF DateOfCall, ServerTime
  <2> QED BY <2>1, <2>2, <2>3 DEF Corrected, Fair, GuessesAreUndone
<1>5. CASE Judge
  <2>1. /\ pc = "answered" /\ ~FirstRefusal /\ pc' = "idle"
        /\ UNCHANGED <<now, honest, dates, response, attempt, started>>
    BY <1>5 DEF Judge, Return
  <2>2. Fair /\ now - started < Window => response.status # 403
    BY <2>1 DEF Corrected, FirstRefusal, TypeInv, Attempts
  <2> QED BY <2>1, <2>2 DEF Corrected, Fair, GuessesAreUndone
<1>6. CASE Tick
  BY <1>0, <1>6, CorrectedTick
<1>7. CASE UNCHANGED vars
  BY <1>7 DEF vars, Corrected, Fair, FirstRefusal, DateOfCall, ServerTime, GuessesAreUndone
<1> QED BY <1>1, <1>2, <1>3, <1>4, <1>5, <1>6, <1>7 DEF Next, ListVoices

\* Whatever guesses earlier refusals left in the clock, a call that meets a
\* service that refuses stale tokens only and says the time is not refused in
\* the end, unless it takes a window's time.
THEOREM GuessesDoNotLast == Spec => []GuessesAreUndone
<1>1. ASSUME Init PROVE Corrected
  BY <1>1 DEF Init, Nothing, Absent, Corrected, GuessesAreUndone
<1>2. ASSUME TypeInv, Corrected, [Next]_vars PROVE Corrected'
  BY <1>2, StepCorrected
<1>3. ASSUME Corrected PROVE GuessesAreUndone
  BY <1>3 DEF Corrected
<1> QED BY <1>1, <1>2, <1>3, TypeInvariant, PTL DEF Spec

-----------------------------------------------------------------------------
(* Induction over the natural numbers, and what a loop computes.           *)

LEMMA Induction ==
  ASSUME NEW S, 0 \in S, \A k \in Nat : k \in S => k + 1 \in S
  PROVE  \A k \in Nat : k \in S
<1> DEFINE I == Nat \ S
<1>1. SUFFICES ASSUME I # {} PROVE FALSE
  OBVIOUS
<1>2. PICK k \in I : \A j \in I : <<j, k>> \notin OpToRel(<, Nat)
  BY <1>1, NatLessThanWellFounded, WFMin, Zenon
<1>3. k \in Nat /\ k # 0
  OBVIOUS
<1>4. k - 1 \in Nat /\ <<k - 1, k>> \in OpToRel(<, Nat)
  BY <1>3 DEF OpToRel
<1>5. k - 1 \in S
  BY <1>2, <1>4
<1>6. (k - 1) + 1 \in S
  BY <1>4, <1>5
<1> QED BY <1>3, <1>6

\* g holds the values of a loop of n rounds that starts with d.
Runs(g, n, d, step) == g[0] = d /\ \A k \in 0..(n - 1) : g[k + 1] = step[<<k, g[k]>>]

LEMMA RunExists ==
  ASSUME NEW n \in Nat, NEW D, NEW d \in D, NEW step \in [(0..(n - 1)) \X D -> D]
  PROVE  \E g \in [0..n -> D] : Runs(g, n, d, step)
<1> DEFINE S == {m \in Nat : m <= n => \E g \in [0..m -> D] : Runs(g, m, d, step)}
<1>1. 0 \in S
  <2> DEFINE g == [k \in 0..0 |-> d]
  <2>1. g \in [0..0 -> D] /\ Runs(g, 0, d, step)
    BY DEF Runs
  <2> HIDE DEF g
  <2> QED BY <2>1
<1>2. ASSUME NEW m \in Nat, m \in S PROVE m + 1 \in S
  <2>1. SUFFICES ASSUME m + 1 <= n
                 PROVE  \E h \in [0..(m + 1) -> D] : Runs(h, m + 1, d, step)
    OBVIOUS
  <2>2. m <= n
    BY <2>1
  <2>3. PICK g \in [0..m -> D] : Runs(g, m, d, step)
    BY <1>2, <2>2
  <2> DEFINE h == [k \in 0..(m + 1) |-> IF k = m + 1 THEN step[<<m, g[m]>>] ELSE g[k]]
  <2>4. m \in 0..(n - 1) /\ g[m] \in D
    BY <2>1
  <2>5. step[<<m, g[m]>>] \in D
    BY <2>4
  <2>6. h \in [0..(m + 1) -> D]
    BY <2>5
  <2>7. \A k \in 0..m : h[k] = g[k]
    OBVIOUS
  <2>8. h[m + 1] = step[<<m, g[m]>>]
    OBVIOUS
  <2> HIDE DEF h
  <2>9. h[0] = d
    BY <2>3, <2>7 DEF Runs
  <2>10. ASSUME NEW k \in 0..m PROVE h[k + 1] = step[<<k, h[k]>>]
    <3>1. CASE k = m
      BY <2>7, <2>8, <3>1
    <3>2. CASE k # m
      <4>1. k \in 0..(m - 1) /\ k + 1 \in 0..m
        BY <3>2
      <4>2. g[k + 1] = step[<<k, g[k]>>]
        BY <2>3, <4>1 DEF Runs
      <4> QED BY <2>7, <4>1, <4>2
    <3> QED BY <3>1, <3>2
  <2>11. Runs(h, m + 1, d, step)
    <3>1. 0..((m + 1) - 1) = 0..m
      OBVIOUS
    <3> QED BY <2>9, <2>10, <3>1 DEF Runs
  <2> QED BY <2>6, <2>11
<1> HIDE DEF S
<1>3. n \in S
  BY <1>1, <1>2, Induction
<1> QED BY <1>3 DEF S

-----------------------------------------------------------------------------
(* The list a call returns, for bodies of any length.                      *)

\* The places among the first n that match, and the place of the k-th of them.
Matching(f, voices, n) == {i \in 1..n : Matches(f, voices[i])}
Rank(W, i) == Cardinality({j \in W : j <= i})

\* What the loop holds after n voices: those that match, in their order.
KeptSoFar(f, voices, n, list) ==
  /\ Len(list) = Cardinality(Matching(f, voices, n))
  /\ \A k \in DOMAIN list : \E i \in Matching(f, voices, n) :
       Rank(Matching(f, voices, n), i) = k /\ list[k] = voices[i]

LEMMA MatchingIsFinite ==
  ASSUME NEW f, NEW voices, NEW n \in Nat
  PROVE  /\ IsFiniteSet(Matching(f, voices, n)) /\ Cardinality(Matching(f, voices, n)) \in Nat
<1>1. IsFiniteSet(1..n)
  BY FS_Interval
<1>2. Matching(f, voices, n) \in SUBSET (1..n)
  BY DEF Matching
<1> QED BY <1>1, <1>2, FS_Subset, FS_CardinalityType

\* One more voice, and it does not match.
LEMMA MatchingKept ==
  ASSUME NEW f, NEW voices, NEW n \in Nat, ~Matches(f, voices[n + 1])
  PROVE  Matching(f, voices, n + 1) = Matching(f, voices, n)
<1>1. 1..(n + 1) = (1..n) \cup {n + 1}
  OBVIOUS
<1> QED BY <1>1 DEF Matching

\* One more voice, and it matches.
LEMMA MatchingGrows ==
  ASSUME NEW f, NEW voices, NEW n \in Nat, Matches(f, voices[n + 1])
  PROVE  /\ Matching(f, voices, n + 1) = Matching(f, voices, n) \cup {n + 1}
         /\ Cardinality(Matching(f, voices, n + 1)) = Cardinality(Matching(f, voices, n)) + 1
<1>1. 1..(n + 1) = (1..n) \cup {n + 1} /\ n + 1 \notin 1..n
  OBVIOUS
<1>2. Matching(f, voices, n + 1) = Matching(f, voices, n) \cup {n + 1}
  BY <1>1 DEF Matching
<1>3. n + 1 \notin Matching(f, voices, n)
  BY <1>1 DEF Matching
<1>4. Cardinality(Matching(f, voices, n) \cup {n + 1}) = Cardinality(Matching(f, voices, n)) + 1
  BY <1>3, MatchingIsFinite, FS_AddElement
<1> QED BY <1>2, <1>4

\* What is added later does not change a rank.
LEMMA RankIsKept ==
  ASSUME NEW f, NEW voices, NEW n \in Nat, NEW i \in 1..n
  PROVE  Rank(Matching(f, voices, n + 1), i) = Rank(Matching(f, voices, n), i)
<1>1. {j \in Matching(f, voices, n + 1) : j <= i} = {j \in Matching(f, voices, n) : j <= i}
  <2>1. \A j \in 1..(n + 1) : j <= i => j \in 1..n
    OBVIOUS
  <2>2. \A j \in 1..n : j \in 1..(n + 1)
    OBVIOUS
  <2> QED BY <2>1, <2>2 DEF Matching
<1> QED BY <1>1 DEF Rank

\* The last place has the highest rank.
LEMMA RankOfLast ==
  ASSUME NEW f, NEW voices, NEW n \in Nat
  PROVE  Rank(Matching(f, voices, n), n) = Cardinality(Matching(f, voices, n))
<1>1. {j \in Matching(f, voices, n) : j <= n} = Matching(f, voices, n)
  BY DEF Matching
<1> QED BY <1>1 DEF Rank

\* No two places have the same rank.
LEMMA RanksDiffer ==
  ASSUME NEW W, NEW n \in Nat, W \subseteq 1..n, NEW a \in W, NEW b \in W, Rank(W, a) = Rank(W, b)
  PROVE  a = b
<1>1. ASSUME NEW x \in W, NEW y \in W, x < y, Rank(W, x) = Rank(W, y) PROVE FALSE
  <2> DEFINE X == {j \in W : j <= x}
             Y == {j \in W : j <= y}
  <2>1. IsFiniteSet(Y)
    <3>1. IsFiniteSet(1..n)
      BY FS_Interval
    <3>2. Y \in SUBSET (1..n)
      OBVIOUS
    <3> HIDE DEF Y
    <3> QED BY <3>1, <3>2, FS_Subset
  <2>2. x \in Nat /\ y \in Nat /\ \A j \in W : j \in Nat
    OBVIOUS
  <2>3. X \subseteq Y /\ y \in Y /\ y \notin X
    <3>1. \A j \in W : j <= x => j <= y
      BY <1>1, <2>2
    <3>2. y <= y /\ ~(y <= x)
      BY <1>1, <2>2
    <3> QED BY <3>1, <3>2
  <2>4. Cardinality(X) = Cardinality(Y)
    BY <1>1 DEF Rank
  <2> HIDE DEF X, Y
  <2>5. X = Y
    BY <2>1, <2>3, <2>4, FS_Subset
  <2> QED BY <2>3, <2>5
<1>2. a \in Nat /\ b \in Nat
  OBVIOUS
<1> QED BY <1>1, <1>2

LEMMA KeptStep ==
  ASSUME NEW f, NEW V, NEW voices \in Seq(V), NEW n \in Nat, n < Len(voices), NEW list \in Seq(V),
         KeptSoFar(f, voices, n, list),
         NEW new, new = IF Matches(f, voices[n + 1]) THEN Append(list, voices[n + 1]) ELSE list
  PROVE  new \in Seq(V) /\ KeptSoFar(f, voices, n + 1, new)
<1> DEFINE W == Matching(f, voices, n)
           U == Matching(f, voices, n + 1)
           v == voices[n + 1]
<1>1. v \in V
  OBVIOUS
<1>2. CASE ~Matches(f, v)
  <2>1. new = list /\ U = W
    BY <1>2, MatchingKept
  <2> QED BY <2>1 DEF KeptSoFar
<1>3. CASE Matches(f, v)
  <2>1. /\ new = Append(list, v) /\ U = W \cup {n + 1}
        /\ Cardinality(U) = Cardinality(W) + 1
    <3>1. new = Append(list, v)
      BY <1>3
    <3>2. U = W \cup {n + 1} /\ Cardinality(U) = Cardinality(W) + 1
      BY <1>3, MatchingGrows
    <3> QED BY <3>1, <3>2
  <2>2. /\ new \in Seq(V) /\ Len(new) = Len(list) + 1 /\ new[Len(list) + 1] = v
        /\ \A k \in DOMAIN list : new[k] = list[k]
        /\ \A k \in DOMAIN new : k \in DOMAIN list \/ k = Len(list) + 1
    BY <1>1, <2>1
  <2>3. Len(list) = Cardinality(W) /\ \A k \in DOMAIN list : \E i \in W :
          Rank(W, i) = k /\ list[k] = voices[i]
    BY DEF KeptSoFar
  <2>4. \A i \in W : i \in U /\ Rank(U, i) = Rank(W, i)
    <3>1. \A i \in W : i \in 1..n
      BY DEF Matching
    <3> QED BY <2>1, <3>1, RankIsKept
  <2>5. n + 1 \in U /\ Rank(U, n + 1) = Cardinality(U)
    BY <2>1, RankOfLast
  <2> HIDE DEF W, U, v
  <2>6. Len(new) = Cardinality(U)
    BY <2>1, <2>2, <2>3
  <2>7. ASSUME NEW k \in DOMAIN new PROVE \E i \in U : Rank(U, i) = k /\ new[k] = voices[i]
    <3>1. CASE k \in DOMAIN list
      BY <2>2, <2>3, <2>4, <3>1
    <3>2. CASE k = Len(list) + 1
      <4>1. Rank(U, n + 1) = k /\ new[k] = voices[n + 1]
        BY <2>1, <2>2, <2>3, <2>5, <3>2 DEF v
      <4> QED BY <2>5, <4>1
    <3> QED BY <2>2, <3>1, <3>2
  <2> QED BY <2>2, <2>6, <2>7 DEF KeptSoFar, U
<1> QED BY <1>2, <1>3

LEMMA KeptRounds ==
  ASSUME NEW f, NEW V, NEW voices \in Seq(V)
  PROVE  \E kept \in [0..Len(voices) -> Seq(V)] :
           /\ kept[0] = <<>>
           /\ \A k \in 0..(Len(voices) - 1) : kept[k + 1] =
                IF Matches(f, voices[k + 1]) THEN Append(kept[k], voices[k + 1]) ELSE kept[k]
           /\ Kept(f, voices) = kept[Len(voices)]
<1> DEFINE D == Seq(V)
           N == Len(voices)
           After(k, list) == IF Matches(f, voices[k + 1]) THEN Append(list, voices[k + 1]) ELSE list
           step == [p \in (0..(N - 1)) \X D |-> After(p[1], p[2])]
<1>1. step \in [(0..(N - 1)) \X D -> D]
  <2>1. ASSUME NEW k \in 0..(N - 1), NEW list \in D PROVE After(k, list) \in D
    <3>1. voices[k + 1] \in V
      OBVIOUS
    <3> QED BY <3>1
  <2> HIDE DEF D, After
  <2> QED BY <2>1
<1>2. <<>> \in D /\ N \in Nat
  OBVIOUS
<1>3. PICK g \in [0..N -> D] : Runs(g, N, <<>>, step)
  <2> HIDE DEF step, D, N
  <2> QED BY <1>1, <1>2, RunExists
<1>4. ASSUME NEW k \in 0..(N - 1) PROVE g[k + 1] = After(k, g[k])
  <2>1. k \in 0..N /\ g[k] \in D
    BY <1>2
  <2>2. g[k + 1] = step[<<k, g[k]>>]
    BY <1>3 DEF Runs
  <2>3. step[<<k, g[k]>>] = After(k, g[k])
    <3> HIDE DEF D, After
    <3> QED BY <2>1
  <2> QED BY <2>2, <2>3
<1>5. g[0] = <<>>
  BY <1>3 DEF Runs
<1> DEFINE Body(h) ==
      [i \in 0..Len(voices) |->
         IF i = 0 THEN <<>>
         ELSE IF Matches(f, voices[i]) THEN Append(h[i - 1], voices[i]) ELSE h[i - 1]]
<1>6. \E h : h = Body(h)
  <2>1. ASSUME NEW i \in 0..N
        PROVE  g[i] = IF i = 0 THEN <<>>
                      ELSE IF Matches(f, voices[i]) THEN Append(g[i - 1], voices[i]) ELSE g[i - 1]
    <3>1. CASE i = 0
      BY <1>5, <3>1
    <3>2. CASE i # 0
      <4>1. i - 1 \in 0..(N - 1) /\ (i - 1) + 1 = i
        BY <1>2, <3>2
      <4>2. g[i] = After(i - 1, g[i - 1])
        BY <1>4, <4>1
      <4> QED BY <3>2, <4>1, <4>2
    <3> QED BY <3>1, <3>2
  <2>2. g = [i \in 0..N |-> g[i]]
    OBVIOUS
  <2>3. g = Body(g)
    BY <2>1, <2>2
  <2> QED BY <2>3
<1> DEFINE a == CHOOSE h : h = Body(h)
<1>7. a = Body(a)
  <2> HIDE DEF Body
  <2> QED BY <1>6
<1>8. Kept(f, voices) = a[Len(voices)]
  BY DEF Kept
<1> HIDE DEF a
<1>9. a[0] = <<>>
  BY <1>2, <1>7
<1>10. \A k \in 0..(N - 1) : a[k + 1] =
         IF Matches(f, voices[k + 1]) THEN Append(a[k], voices[k + 1]) ELSE a[k]
  <2>1. SUFFICES ASSUME NEW k \in 0..(N - 1)
                 PROVE  a[k + 1] = IF Matches(f, voices[k + 1])
                                   THEN Append(a[k], voices[k + 1]) ELSE a[k]
    OBVIOUS
  <2>2. k + 1 \in 0..N /\ k + 1 # 0 /\ (k + 1) - 1 = k
    BY <1>2
  <2> QED BY <1>7, <2>2
<1>11. a \in [0..N -> D]
  <2> DEFINE S == {i \in Nat : i <= N => a[i] \in D}
  <2>1. 0 \in S
    BY <1>9, <1>2
  <2>2. ASSUME NEW k \in Nat, k \in S PROVE k + 1 \in S
    <3>1. SUFFICES ASSUME k + 1 <= N PROVE a[k + 1] \in D
      OBVIOUS
    <3>2. k \in 0..(N - 1) /\ a[k] \in D /\ voices[k + 1] \in V
      BY <1>2, <2>2, <3>1
    <3>3. a[k + 1] = IF Matches(f, voices[k + 1]) THEN Append(a[k], voices[k + 1]) ELSE a[k]
      BY <1>10, <3>2
    <3>4. Append(a[k], voices[k + 1]) \in D
      BY <3>2
    <3> QED BY <3>2, <3>3, <3>4
  <2> HIDE DEF S
  <2>3. \A k \in Nat : k \in S
    BY <2>1, <2>2, Induction
  <2>4. \A i \in 0..N : a[i] \in D
    BY <1>2, <2>3 DEF S
  <2>5. a = [i \in 0..N |-> a[i]]
    BY <1>7
  <2> HIDE DEF D, N
  <2> QED BY <2>4, <2>5
<1> QED BY <1>8, <1>9, <1>10, <1>11

LEMMA KeptIsWanted ==
  ASSUME NEW f, NEW V, NEW voices \in Seq(V)
  PROVE  Kept(f, voices) \in Seq(V) /\ KeptSoFar(f, voices, Len(voices), Kept(f, voices))
<1>1. PICK kept \in [0..Len(voices) -> Seq(V)] :
           /\ kept[0] = <<>>
           /\ \A k \in 0..(Len(voices) - 1) : kept[k + 1] =
                IF Matches(f, voices[k + 1]) THEN Append(kept[k], voices[k + 1]) ELSE kept[k]
           /\ Kept(f, voices) = kept[Len(voices)]
  BY KeptRounds
<1>2. Len(voices) \in Nat
  OBVIOUS
<1> DEFINE S == {n \in Nat : n <= Len(voices) => KeptSoFar(f, voices, n, kept[n])}
<1>3. 0 \in S
  <2>1. Matching(f, voices, 0) = {}
    BY DEF Matching
  <2>2. Len(<<>>) = 0 /\ DOMAIN <<>> = {}
    OBVIOUS
  <2> QED BY <1>1, <2>1, <2>2, FS_EmptySet DEF KeptSoFar
<1>4. ASSUME NEW n \in Nat, n \in S PROVE n + 1 \in S
  <2>1. SUFFICES ASSUME n + 1 <= Len(voices) PROVE KeptSoFar(f, voices, n + 1, kept[n + 1])
    OBVIOUS
  <2>2. n \in 0..(Len(voices) - 1) /\ n \in 0..Len(voices) /\ n < Len(voices)
    BY <1>2, <2>1
  <2>3. KeptSoFar(f, voices, n, kept[n]) /\ kept[n] \in Seq(V)
    BY <1>4, <2>2
  <2>4. kept[n + 1] =
          IF Matches(f, voices[n + 1]) THEN Append(kept[n], voices[n + 1]) ELSE kept[n]
    BY <1>1, <2>2
  <2> QED BY <2>2, <2>3, <2>4, KeptStep
<1> HIDE DEF S
<1>5. \A n \in Nat : n \in S
  BY <1>3, <1>4, Induction
<1>6. KeptSoFar(f, voices, Len(voices), kept[Len(voices)])
  BY <1>2, <1>5 DEF S
<1> QED BY <1>1, <1>2, <1>6

BodySet == [array : BOOLEAN, items : Seq(Element)]

\* list holds the voices of the items that f lets through.
AnswerTo(items, f, list) ==
  LET Wanted == {i \in DOMAIN items : \A c \in {"locale", "gender", "short_name"} :
                   f[c] \in {Absent, voice_of(items[i])[c]}}
  IN  /\ Len(list) = Cardinality(Wanted)
      /\ \A k \in DOMAIN list : list[k] = voice_of(items[
           CHOOSE i \in Wanted : Cardinality({j \in Wanted : j <= i}) = k])

Answered ==
  IF pc = "idle" /\ result.code = "none"
  THEN /\ response.status = 200 /\ response.body.array
       /\ \A i \in DOMAIN response.body.items : ~Broken(response.body.items[i])
       /\ AnswerTo(response.body.items, filter, result.voices)
  ELSE result.voices = <<>>

\* The answer is one the service may send, and the list is the answer.
Listed == filter \in Filters /\ response.body \in BodySet /\ Answered

LEMMA AnsweredIs == Answered => ListIsTheAnswer
BY DEF Answered, AnswerTo, ListIsTheAnswer

\* The voices of a body, filtered.
LEMMA ListOfBody ==
  ASSUME NEW items \in Seq(Element), NEW f \in Filters,
         NEW list, list = Kept(f, [i \in DOMAIN items |-> voice_of(items[i])])
  PROVE  AnswerTo(items, f, list)
<1> DEFINE Wanted == {i \in DOMAIN items : \A c \in {"locale", "gender", "short_name"} :
                        f[c] \in {Absent, voice_of(items[i])[c]}}
           voices == [i \in DOMAIN items |-> voice_of(items[i])]
           V == {voice_of(items[i]) : i \in DOMAIN items}
           n == Len(items)
           W == Matching(f, voices, n)
<1>1. voices \in Seq(V) /\ Len(voices) = n /\ n \in Nat /\ DOMAIN items = 1..n
  OBVIOUS
<1>2. DOMAIN f = {"locale", "gender", "short_name"}
  BY FiltersAssumption
<1>3. W = Wanted
  <2>1. \A i \in 1..n : voices[i] = voice_of(items[i])
    BY <1>1
  <2>2. \A i \in 1..n : Matches(f, voices[i]) <=>
          \A c \in {"locale", "gender", "short_name"} : f[c] \in {Absent, voice_of(items[i])[c]}
    <3> HIDE DEF voices
    <3> QED BY <1>2, <2>1 DEF Matches
  <2> HIDE DEF voices, n
  <2> QED BY <1>1, <2>2 DEF Matching
<1>4. list \in Seq(V) /\ KeptSoFar(f, voices, n, list)
  <2>1. voices \in Seq(V) /\ Len(voices) = n /\ list = Kept(f, voices)
    BY <1>1
  <2> HIDE DEF voices, V, n
  <2> QED BY <2>1, KeptIsWanted
<1>5. Len(list) = Cardinality(Wanted)
  <2> HIDE DEF voices, n, W
  <2> QED BY <1>3, <1>4 DEF KeptSoFar, W
<1>6. ASSUME NEW k \in DOMAIN list
      PROVE  list[k] = voice_of(items[
               CHOOSE i \in Wanted : Cardinality({j \in Wanted : j <= i}) = k])
  <2> DEFINE c == CHOOSE i \in Wanted : Cardinality({j \in Wanted : j <= i}) = k
  <2>1. PICK i \in Wanted : Rank(Wanted, i) = k /\ list[k] = voices[i]
    <3> HIDE DEF voices, n
    <3> QED BY <1>3, <1>4 DEF KeptSoFar
  <2>2. c \in Wanted /\ Rank(Wanted, c) = k
    BY <2>1 DEF Rank
  <2>3. Wanted \subseteq 1..n
    BY <1>1
  <2> HIDE DEF c, voices, n, V, W
  <2>4. c = i
    BY <1>1, <2>1, <2>2, <2>3, RanksDiffer
  <2> QED BY <1>1, <2>1, <2>3, <2>4 DEF c, voices
<1> QED BY <1>5, <1>6 DEF AnswerTo

LEMMA KeptNone == ASSUME NEW f PROVE Kept(f, <<>>) = <<>>
<1>1. <<>> \in Seq(Nat)
  OBVIOUS
<1>2. Kept(f, <<>>) \in Seq(Nat) /\ KeptSoFar(f, <<>>, Len(<<>>), Kept(f, <<>>))
  BY <1>1, KeptIsWanted, Zenon
<1>3. Len(Kept(f, <<>>)) = 0
  <2>1. Matching(f, <<>>, Len(<<>>)) = {}
    BY DEF Matching
  <2> QED BY <1>2, <2>1, FS_EmptySet DEF KeptSoFar
<1> QED BY <1>2, <1>3

LEMMA JudgeLists ==
  ASSUME TypeInv, Listed, Judge
  PROVE  Listed'
<1>1. /\ pc = "answered" /\ pc' = "idle" /\ UNCHANGED <<filter, response>>
      /\ filter \in Filters /\ response.body \in BodySet
  BY DEF Judge, Return, Listed
<1> DEFINE body == response.body
           voices == [i \in DOMAIN body.items |-> voice_of(body.items[i])]
<1>2. CASE response.status # 200
  <2>1. result' = [code |-> "service_error", voices |-> <<>>]
    BY <1>2 DEF Judge, Return
  <2>2. result'.code # "none" /\ result'.voices = <<>>
    BY <2>1
  <2> QED BY <1>1, <2>2 DEF Listed, Answered
<1>3. CASE response.status = 200 /\ (~body.array \/ \E i \in DOMAIN body.items : Broken(body.items[i]))
  <2>1. parse(body) = [code |-> "parse_error", voices |-> <<>>]
    BY <1>3 DEF parse
  <2>2. result' = [code |-> "parse_error", voices |-> Kept(filter, <<>>)]
    BY <1>3, <2>1 DEF Judge, Return
  <2>3. Kept(filter, <<>>) = <<>>
    BY KeptNone
  <2>4. result'.code # "none" /\ result'.voices = <<>>
    BY <2>2, <2>3
  <2> QED BY <1>1, <2>4 DEF Listed, Answered
<1>4. CASE /\ response.status = 200 /\ body.array
           /\ \A i \in DOMAIN body.items : ~Broken(body.items[i])
  <2>1. parse(body) = [code |-> "none", voices |-> voices]
    BY <1>4 DEF parse
  <2>2. result' = [code |-> "none", voices |-> Kept(filter, voices)]
    BY <1>4, <2>1 DEF Judge, Return
  <2>3. result'.code = "none" /\ result'.voices = Kept(filter, voices)
    BY <2>2
  <2>4. body.items \in Seq(Element)
    BY <1>1 DEF BodySet
  <2>5. AnswerTo(body.items, filter, result'.voices)
    <3> HIDE DEF body
    <3> QED BY <1>1, <2>3, <2>4, ListOfBody
  <2>6. Answered'
    BY <1>1, <1>4, <2>3, <2>5 DEF Answered
  <2> QED BY <1>1, <2>6 DEF Listed
<1> QED BY <1>2, <1>3, <1>4

LEMMA MalformedIsABody == Malformed \in BodySet
<1>1. <<>> \in Seq(Element)
  OBVIOUS
<1> QED BY <1>1 DEF Malformed, BodySet

LEMMA StepListed ==
  ASSUME TypeInv, Listed, [Next]_vars
  PROVE  Listed'
<1>1. pc # "idle" => result.voices = <<>>
  BY DEF Listed, Answered
<1>2. CASE Begin
  <2>1. /\ pc' = "request" /\ result' = Nothing /\ response' = NoResponse /\ filter' \in Filters
    BY <1>2 DEF Begin
  <2>2. result'.voices = <<>> /\ response'.body \in BodySet
    BY <2>1, MalformedIsABody DEF Nothing, NoResponse
  <2> QED BY <2>1, <2>2 DEF Listed, Answered
<1>3. CASE send_request \/ Refused
  <2>1. /\ pc # "idle" /\ pc' # "idle" /\ UNCHANGED <<filter, response, result>>
    BY <1>3 DEF send_request, Refused
  <2> QED BY <1>1, <2>1 DEF Listed, Answered
<1>4. CASE send
  <2>1. pc # "idle" /\ UNCHANGED filter
    BY <1>4 DEF send
  <2>2. CASE Respond /\ pc' = "answered" /\ UNCHANGED result
    <3>1. response'.body \in Bodies
      BY <2>2 DEF Respond
    <3>2. response'.body \in BodySet
      BY <3>1, BodiesAssumption DEF BodySet
    <3> QED BY <1>1, <2>1, <2>2, <3>2 DEF Listed, Answered
  <2>3. CASE TransportFails /\ UNCHANGED response
    <3>1. result'.code # "none" /\ result'.voices = <<>>
      BY <2>3 DEF TransportFails, Return, TransportError
    <3> QED BY <2>1, <2>3, <3>1 DEF Listed, Answered
  <2> QED BY <1>4, <2>2, <2>3 DEF send
<1>5. CASE Judge
  BY <1>5, JudgeLists
<1>6. CASE Tick \/ UNCHANGED vars
  BY <1>6 DEF Tick, vars, Listed, Answered
<1> QED BY <1>2, <1>3, <1>4, <1>5, <1>6 DEF Next, ListVoices

\* A list holds the voices of the answer that satisfy every condition of the
\* filter, each as often as the answer has it and in its order, for answers of
\* any length and any filter; a broken answer and an error give no voice
\* (VoiceService.cpp:76-94, VoiceJsonParser.cpp:42-113).
THEOREM ListsAreAnswers == Spec => []ListIsTheAnswer
<1>1. ASSUME Init PROVE Listed
  <2>1. pc = "idle" /\ result = Nothing /\ response = NoResponse /\ filter \in Filters
    BY <1>1 DEF Init
  <2>2. result.code # "none" /\ result.voices = <<>> /\ response.body \in BodySet
    BY <2>1, MalformedIsABody DEF Nothing, NoResponse, Absent
  <2> QED BY <2>1, <2>2 DEF Listed, Answered
<1>2. ASSUME TypeInv, Listed, [Next]_vars PROVE Listed'
  BY <1>2, StepListed
<1>3. ASSUME Listed PROVE ListIsTheAnswer
  BY <1>3, AnsweredIs DEF Listed
<1> QED BY <1>1, <1>2, <1>3, TypeInvariant, PTL DEF Spec
=============================================================================
