---------------------------- MODULE SpeechRequest ---------------------------
(***************************************************************************)
(* What the program sends: TtsConfig with its voice names, the two frames  *)
(* of a turn (build_*_frame of EdgeProtocol), ProtocolSerializer and the   *)
(* ProtocolParser that reads such frames back.  Texts are sequences of     *)
(* pieces; CR, LF and Colon are the ones the frames tell apart, Dash,      *)
(* Comma, lower, UPPER and Neural those of a voice name.                   *)
(***************************************************************************)
EXTENDS Integers, Sequences, SequencesExt

CR == "CR"
LF == "LF"
Colon == ":"
Dash == "-"
Comma == ", "
lower == "aa"                   \* [a-z]{2,}
UPPER == "BB"                   \* [A-Z]{2,}
Neural == "Neural"
Prefix == "Microsoft Server Speech Text to Speech Voice ("
End == ")"

NoName == <<>>                  \* std::nullopt

\* Where piece p stands first from position i on; 0 if nowhere.
Find(pieces, p, i) ==
  LET places == {j \in i..Len(pieces) : pieces[j] = p}
  IN  IF places = {} THEN 0 ELSE CHOOSE j \in places : \A k \in places : j <= k

-----------------------------------------------------------------------------
(* TtsConfig                                                               *)

\* Something, a comma, something between the parentheses.
IsFull(voice) ==
  /\ Len(voice) >= 5 /\ voice[1] = Prefix /\ voice[Len(voice)] = End
  /\ \E i \in 3..(Len(voice) - 2) : voice[i] = Comma

\* Language and region end at the first two dashes; any name follows.
IsShort(voice) ==
  LET first == Find(voice, Dash, 1)
      second == Find(voice, Dash, first + 1)
  IN  /\ first > 1 /\ second > first + 1
      /\ \A i \in 1..(first - 1) : voice[i] = lower
      /\ \A i \in (first + 1)..(second - 1) : voice[i] = UPPER
      /\ Len(voice) >= second + 2 /\ voice[Len(voice)] = Neural

\* The dash that ends the locale: the third one if the name has one.
LocaleEnd(voice) ==
  LET second == Find(voice, Dash, Find(voice, Dash, 1) + 1)
      third == Find(voice, Dash, second + 1)
  IN  IF third = 0 THEN second ELSE third

normalize_voice_name(voice) ==
  CASE IsFull(voice) -> voice
    [] ~IsFull(voice) /\ IsShort(voice) ->
         <<Prefix>> \o SubSeq(voice, 1, LocaleEnd(voice) - 1) \o <<Comma>>
           \o SubSeq(voice, LocaleEnd(voice) + 1, Len(voice)) \o <<End>>
    [] OTHER -> NoName

-----------------------------------------------------------------------------
(* ProtocolSerializer                                                      *)

CRLF == <<CR, LF>>

HeaderLine(header) == header.name \o <<Colon>> \o header.value \o CRLF

serialize(msg) ==
  FlattenSeq([i \in DOMAIN msg.headers |-> HeaderLine(msg.headers[i])])
    \o CRLF \o msg.body

-----------------------------------------------------------------------------
(* ProtocolParser                                                          *)

ParseError == [ok |-> FALSE, headers |-> <<>>, body |-> <<>>]

IsCrlf(pieces, i) == SubSeq(pieces, i, i + 1) = CRLF

\* Mutant: the body may hold an empty line, and the last one is taken.
SepPos_Last(frame) ==
  LET places == {i \in 1..(Len(frame) - 3) : IsCrlf(frame, i) /\ IsCrlf(frame, i + 2)}
  IN  IF places = {} THEN 0 ELSE CHOOSE j \in places : \A k \in places : k <= j

SepPos(frame) ==
  LET places == {i \in 1..(Len(frame) - 3) : IsCrlf(frame, i) /\ IsCrlf(frame, i + 2)}
  IN  IF places = {} THEN 0 ELSE CHOOSE j \in places : \A k \in places : j <= k

\* Where the line that begins at i ends.
LineEnd(section, i) ==
  LET ends == {j \in i..(Len(section) - 1) : IsCrlf(section, j)}
  IN  IF ends = {} THEN Len(section) + 1 ELSE CHOOSE j \in ends : \A k \in ends : j <= k

\* The header lines, without the empty ones.
HeaderLines(section) ==
  LET From[i \in 1..(Len(section) + 3)] ==
        IF i > Len(section) THEN <<>>
        ELSE LET end == LineEnd(section, i)
             IN  (IF end = i THEN <<>> ELSE <<SubSeq(section, i, end - 1)>>) \o From[end + 2]
  IN  From[1]

HeaderOf(line) ==
  LET colon == Find(line, Colon, 1)
  IN  [name |-> SubSeq(line, 1, colon - 1), value |-> SubSeq(line, colon + 1, Len(line))]

parse(frame) ==
  LET sep == SepPos(frame)
      lines == HeaderLines(SubSeq(frame, 1, sep - 1))
  IN  IF sep = 0 \/ \E k \in DOMAIN lines : Find(lines[k], Colon, 1) = 0
      THEN ParseError
      ELSE [ok |-> TRUE, headers |-> [k \in DOMAIN lines |-> HeaderOf(lines[k])],
            body |-> SubSeq(frame, sep + 4, Len(frame))]

-----------------------------------------------------------------------------
(* EdgeProtocol::build_speech_config_frame and build_ssml_frame            *)

Header(name, value) == [name |-> <<name>>, value |-> value]

\* "Mon Jan 05 2026 10:30:00 GMT+0000 (Coordinated Universal Time)"
format_js_timestamp == <<"Mon Jan 05 2026 10", Colon, "30", Colon, "00 GMT+0000">>

\* Exactly one of the two boundary options is "true".
SpeechConfigBody(boundary_type) ==
  <<"sentenceBoundaryEnabled", IF boundary_type = "word" THEN "false" ELSE "true",
    "wordBoundaryEnabled", IF boundary_type = "word" THEN "true" ELSE "false",
    "outputFormat">> \o CRLF

build_speech_config_frame(config) ==
  [headers |-> <<Header("X-Timestamp", format_js_timestamp),
                 Header("Content-Type", <<"application/json; charset=utf-8">>),
                 Header("Path", <<"speech.config">>)>>,
   body |-> SpeechConfigBody(config.boundary_type)]

assemble_ssml(voice, escaped_content) ==
  <<"<speak><voice name='">> \o voice \o <<"'><prosody pitch rate volume>">>
    \o escaped_content \o <<"</prosody></voice></speak>">>

\* Made only of a valid configuration.
build_ssml_frame(config, text_chunk) ==
  [headers |-> <<Header("X-RequestId", <<"request_id">>),
                 Header("Content-Type", <<"application/ssml+xml">>),
                 Header("X-Timestamp", format_js_timestamp \o <<"Z">>),
                 Header("Path", <<"ssml">>)>>,
   body |-> assemble_ssml(normalize_voice_name(config.voice), text_chunk)]
=============================================================================
