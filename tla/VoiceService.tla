---------------------------- MODULE VoiceService ----------------------------
(***************************************************************************)
(* VoiceService::list_voices over HttpClient and VoiceJsonParser: repeated *)
(* calls on one object, whose token provider keeps its correction from one *)
(* call to the next.                                                       *)
(*                                                                         *)
(* A body is [array, items]: whether it is a JSON array, and its elements. *)
(* An element is [complete, Gender, ShortName, Locale]: whether it is an   *)
(* object that holds every required string, and the values the code looks  *)
(* at.  A locale is [tag, language]: the string, and what of it stands     *)
(* before the first dash.                                                  *)
(***************************************************************************)
EXTENDS EdgeTokenProvider, Sequences, FiniteSets

CONSTANTS
  Guess,     \* seconds added when a refusal has no readable Date (300)
  Drifts,    \* what the service's clock may be ahead of ours
  Bodies,    \* the bodies the service may send
  Filters,   \* the filters a client may pass
  MaxCalls,  \* bound: calls of list_voices
  MaxTime    \* bound: local clock

ASSUME VoicesAssumption ==
  /\ Guess \in Int /\ Drifts \subseteq Int
  /\ MaxCalls \in Nat /\ MaxTime \in Nat

Element ==
  [complete : BOOLEAN, Gender : STRING, ShortName : STRING,
   Locale : [tag : STRING, language : STRING]]

ASSUME BodiesAssumption == Bodies \subseteq [array : BOOLEAN, items : Seq(Element)]
ASSUME FiltersAssumption ==
  Filters \subseteq [locale : STRING, gender : STRING, short_name : STRING]

Absent == "absent"
Malformed == [array |-> FALSE, items |-> <<>>]   \* not JSON, or not an array

VARIABLES
  honest,    \* in this call the service refuses stale tokens, and nothing else
  dates,     \* in this call its refusals carry a Date the code can find and read
  pc,        \* where list_voices() is
  filter,    \* its argument
  attempt,   \* requests answered so far
  response,  \* what the service answered
  result,    \* what the last call returned
  calls,     \* history: calls made
  started    \* history: the clock when the call began

vars == <<now, drift, skew, token, honest, dates, pc, filter, attempt, response, result,
          calls, started>>

TransportError == {"network_error", "timeout", "invalid_argument", "unsupported"}
Nothing == [code |-> Absent, voices |-> <<>>]
NoResponse == [status |-> 0, dated |-> FALSE, date |-> 0, body |-> Malformed]

-----------------------------------------------------------------------------
(* VoiceJsonParser and VoiceFilter.                                        *)

gender == [Female |-> "female", Male |-> "male"]

Broken(entry) == ~entry.complete \/ entry.Gender \notin DOMAIN gender

voice_of(entry) ==
  [short_name |-> entry.ShortName, gender |-> gender[entry.Gender],
   locale |-> entry.Locale.tag, language |-> entry.Locale.language]

\* Mutant: a broken element is passed over.
parse_PassesOver(body) ==
  LET whole == SelectSeq(body.items, LAMBDA e : ~Broken(e))
  IN  [code |-> IF body.array THEN "none" ELSE "parse_error",
       voices |-> [i \in DOMAIN whole |-> voice_of(whole[i])]]

\* One broken element spoils the list.
parse(body) ==
  IF ~body.array \/ \E i \in DOMAIN body.items : Broken(body.items[i])
  THEN [code |-> "parse_error", voices |-> <<>>]
  ELSE [code |-> "none", voices |-> [i \in DOMAIN body.items |-> voice_of(body.items[i])]]

\* Every condition that is set must hold.
Matches(f, voice) == \A c \in DOMAIN f : f[c] \in {Absent, voice[c]}

\* The erase-remove pass: what does not match is dropped, the rest stays in order.
Kept(f, voices) ==
  LET kept[i \in 0..Len(voices)] ==
        IF i = 0 THEN <<>>
        ELSE IF Matches(f, voices[i]) THEN Append(kept[i - 1], voices[i]) ELSE kept[i - 1]
  IN  kept[Len(voices)]

-----------------------------------------------------------------------------
Init ==
  /\ now = 0 /\ drift \in Drifts /\ skew = 0 /\ token = 0
  /\ honest = TRUE /\ dates = TRUE
  /\ pc = "idle" /\ filter \in Filters /\ attempt = 0
  /\ response = NoResponse /\ result = Nothing /\ calls = 0 /\ started = 0

Return(code, voices) == pc' = "idle" /\ result' = [code |-> code, voices |-> voices]

Begin ==
  /\ pc = "idle" /\ calls < MaxCalls
  /\ honest' \in BOOLEAN /\ dates' \in BOOLEAN
  /\ filter' \in Filters
  /\ pc' = "request" /\ attempt' = 0 /\ response' = NoResponse /\ result' = Nothing
  /\ calls' = calls + 1 /\ started' = now
  /\ UNCHANGED <<now, drift, skew, token>>

\* send_request(): the token is made anew for every request.
send_request ==
  /\ pc = "request"
  /\ token' = sec_ms_gec(now, skew)
  /\ pc' = "wait"
  /\ UNCHANGED <<now, drift, skew, honest, dates, filter, attempt, response, result, calls,
                 started>>

\* What the service answers to a request.
Respond ==
  \E status \in {200, 403, 500}, body \in Bodies, dated \in BOOLEAN :
    /\ honest => (status = 403) = ~TokenAccepted
    /\ honest /\ dates => dated
    /\ ~dates => ~dated
    /\ status # 200 => body = Malformed
    /\ status # 403 => ~dated
    /\ response' = [status |-> status, body |-> body,
                    dated |-> dated, date |-> IF dated THEN ServerTime ELSE 0]

\* Mutant: a transport error is answered with another request.
TransportFails_TriesAgain == pc' = "request" /\ UNCHANGED result

TransportFails == \E code \in TransportError : Return(code, <<>>)

\* HttpClient::send: a transport error ends the call, an answer is looked at.
send ==
  /\ pc = "wait"
  /\ \/ Respond /\ attempt' = attempt + 1 /\ pc' = "answered" /\ UNCHANGED result
     \/ TransportFails /\ UNCHANGED <<response, attempt>>
  /\ UNCHANGED <<now, drift, skew, token, honest, dates, filter, calls, started>>

\* Mutant: the correction made so far is left out of the account.
adjust_from_server_timestamp_Uncorrected(date) == adjust_clock_skew(date - now)

adjust_from_server_timestamp(date) == adjust_clock_skew(date - (now + skew))

FirstRefusal == response.status = 403 /\ attempt = 1

\* The clock is corrected by the Date of the first refusal, or by a guess.
Refused ==
  /\ pc = "answered" /\ FirstRefusal
  /\ IF response.dated
     THEN adjust_from_server_timestamp(response.date) ELSE adjust_clock_skew(Guess)
  /\ pc' = "request"
  /\ UNCHANGED <<now, drift, token, honest, dates, filter, attempt, response, result, calls,
                 started>>

\* Any other answer ends the call.
Judge ==
  /\ pc = "answered" /\ ~FirstRefusal
  /\ LET parsed == parse(response.body)
     IN  IF response.status # 200
         THEN Return("service_error", <<>>)
         ELSE Return(parsed.code, Kept(filter, parsed.voices))
  /\ UNCHANGED <<now, drift, skew, token, honest, dates, filter, attempt, response, calls,
                 started>>

Tick ==
  /\ now < MaxTime /\ now' = now + 1
  /\ UNCHANGED <<drift, skew, token, honest, dates, pc, filter, attempt, response, result,
                 calls, started>>

ListVoices == send_request \/ send \/ Refused \/ Judge

Next == Begin \/ ListVoices \/ Tick

\* The calling thread is scheduled, and HttpClient answers or times out.
Spec == Init /\ [][Next]_vars /\ WF_vars(ListVoices)

-----------------------------------------------------------------------------
(* Properties.                                                             *)

\* The type invariant (VoiceService.cpp:27-95).
TypeOK ==
  /\ now \in 0..MaxTime /\ drift \in Drifts /\ skew \in Int /\ token \in Int
  /\ honest \in BOOLEAN /\ dates \in BOOLEAN
  /\ pc \in {"idle", "request", "wait", "answered"}
  /\ filter \in Filters /\ attempt \in 0..2 /\ calls \in 0..MaxCalls /\ started \in 0..MaxTime
  /\ response.status \in {0, 200, 403, 500}
  /\ result.code \in TransportError \cup {Absent, "none", "service_error", "parse_error"}

\* Whatever guesses earlier refusals left in the clock, a call that meets a
\* service that refuses stale tokens only, and says the time, is not refused in
\* the end (VoiceService.cpp:51-68, EdgeTokenProvider.cpp:54-60).
GuessesAreUndone ==
  /\ pc = "idle" /\ result.code = "service_error" /\ honest /\ dates /\ now - started < Window
  => response.status # 403

\* A list holds the voices of the answer that satisfy every condition of the
\* filter, each as often as the answer has it and in its order; an answer that
\* is broken anywhere gives none, and no error comes with voices
\* (VoiceService.cpp:76-94, VoiceJsonParser.cpp:42-113).
ListIsTheAnswer ==
  LET body == response.body.items
      Wanted == {i \in DOMAIN body : \A c \in {"locale", "gender", "short_name"} :
                   filter[c] \in {Absent, voice_of(body[i])[c]}}
      Place(k) == CHOOSE i \in Wanted : Cardinality({j \in Wanted : j <= i}) = k
  IN  IF pc = "idle" /\ result.code = "none"
      THEN /\ response.status = 200 /\ response.body.array
           /\ \A i \in DOMAIN body : ~Broken(body[i])
           /\ Len(result.voices) = Cardinality(Wanted)
           /\ \A k \in DOMAIN result.voices : result.voices[k] = voice_of(body[Place(k)])
      ELSE result.voices = <<>>

\* A refusal is followed by one more request, not by a loop: every call returns
\* even if the service refuses for ever (VoiceService.cpp:65-74).
CallReturns == pc # "idle" ~> pc = "idle"
=============================================================================
