------------------------------- MODULE Formats ------------------------------
(***************************************************************************)
(* The pure functions of the program: what it sends, what it reads back,   *)
(* the documents it writes.  of says which function a behaviour is about,  *)
(* input is what it is given and outcome what it answers, once it is done. *)
(***************************************************************************)
EXTENDS EdgeProtocol, Subtitles, SpeechText, SpeechRequest, HttpDate, FiniteSets

CONSTANTS
  BinaryFrames,  \* the frames of the service
  TextFrames,
  Boundaries,    \* what a subtitle builder may be fed
  Texts,         \* the texts to speak, byte by byte
  VoiceNames,    \* names a client may give
  Configs,       \* valid configurations
  Chunks,        \* texts that go into SSML, by the pieces a frame tells apart
  Wires,         \* frames to be read back
  Dates          \* dates sscanf may find

ASSUME FramesAssumption == BinaryFrames \subseteq BinaryFrame /\ TextFrames \subseteq TextFrame

ASSUME BoundariesAssumption ==
  Boundaries \subseteq
    Seq([type : STRING, offset : Int, duration : Int, text : Seq(STRING)])

ASSUME TextsAssumption == Texts \subseteq Seq(0..255)

ASSUME PiecesAssumption ==
  VoiceNames \subseteq Seq(STRING) /\ Chunks \subseteq Seq(STRING) /\ Wires \subseteq Seq(STRING)

ASSUME ConfigsAssumption ==
  Configs \subseteq [voice : Seq(STRING), boundary_type : {"word", "sentence"}]

ASSUME DatesAssumption ==
  Dates \subseteq [fields : 0..7, year : Int, month : 0..12, day : Int,
                   hour : Int, min : Int, sec : Int]

VARIABLES of, input, outcome, done
vars == <<of, input, outcome, done>>

-----------------------------------------------------------------------------
(* Frames of the service                                                   *)

\* The frame the service builds from a header section and a body
\* (EdgeProtocol.hpp:74-78).
Layout(f, header_bytes, body_bytes) ==
  /\ f.header_length = 2 + header_bytes
  /\ f.size = f.header_length + 2 + body_bytes
  /\ f.header_length \in f.crlf

\* An audio message holds exactly the body of a well-built audio frame, and
\* every such frame yields one (EdgeProtocolIncoming.cpp:80-183).
AudioIsTheBody ==
  of = "frame" /\ done /\ input.type = "binary" =>
    \A body_bytes \in 1..input.size :
      outcome = Parsed(<<[kind |-> "audio", bytes |-> body_bytes]>>) <=>
        /\ \E header_bytes \in 0..input.size : Layout(input, header_bytes, body_bytes)
        /\ input.framed /\ input.path = "audio" /\ input.content_type = "audio/mpeg"

\* The separator is looked up inside the frame, whatever its first two bytes
\* claim (EdgeProtocolIncoming.cpp:90-121).
ReadsInsideFrame ==
  of = "frame" /\ input.type = "binary" => SeparatorReads(input) \subseteq 0..(input.size - 1)

\* Where the words and the sentences of a Metadata array stand.
Spoken(items) == {p \in DOMAIN items : items[p].type \in {"WordBoundary", "SentenceBoundary"}}

\* Position of the k-th of them.
Place(items, k) ==
  CHOOSE p \in Spoken(items) : Cardinality({q \in Spoken(items) : q <= p}) = k

\* An accepted metadata frame yields its boundaries, all of them, in order,
\* with what stands between them left out (MetadataJsonParser.cpp:33-97,
\* EdgeProtocolIncoming.cpp:39-61).
BoundariesKeptInOrder ==
  of = "frame" /\ done /\ input.type = "text" =>
    (outcome.code = "none" /\ input.path = "audio.metadata" =>
       /\ Len(outcome.msgs) = Cardinality(Spoken(input.items))
       /\ \A k \in DOMAIN outcome.msgs :
            LET item == input.items[Place(input.items, k)]
            IN  outcome.msgs[k] = [kind |-> "boundary", type |-> item.type,
                                   offset |-> item.offset, duration |-> item.duration])

\* A frame is taken for what the service put into it, and nothing outside of it
\* is looked at (EdgeProtocolIncoming.cpp:27-183).
FramesAsSent == AudioIsTheBody /\ ReadsInsideFrame /\ BoundariesKeptInOrder

-----------------------------------------------------------------------------
(* Subtitles                                                               *)

\* Those of some lines that hold a character.
Filled(lines) ==
  LET held[n \in 0..Len(lines)] ==
        IF n = 0 THEN <<>>
        ELSE IF lines[n] # <<>> THEN Append(held[n - 1], lines[n]) ELSE held[n - 1]
  IN  held[Len(lines)]

Shown(text) == Filled(LinesOf(text))

\* The cues a document has to show, where they stand among what was fed.
Wanted(boundaries) ==
  {i \in DOMAIN boundaries :
     /\ boundaries[i].offset \div TicksPerMs
          < (boundaries[i].offset + boundaries[i].duration) \div TicksPerMs
     /\ \E c \in DOMAIN boundaries[i].text :
          boundaries[i].text[c] \notin {Blank, NewLine, CarriageReturn}}

\* a is shown before b.
Precedes(boundaries, a, b) ==
  LET Time(i) == <<boundaries[i].offset \div TicksPerMs,
                   (boundaries[i].offset + boundaries[i].duration) \div TicksPerMs, i>>
  IN  \E k \in 1..3 : /\ Time(a)[k] < Time(b)[k]
                      /\ \A l \in 1..(k - 1) : Time(a)[l] = Time(b)[l]

\* What a reader of SRT files takes from a document: its blocks, which end at
\* an empty line.
Blocks(lines) == Split(lines, EmptyLine).ended

Millis(stamp) == ((stamp[1] * 60 + stamp[2]) * 60 + stamp[3]) * 1000 + stamp[4]

\* A reader of the document finds one block for every cue that lasts a
\* millisecond and says something, numbered from one, by time and then in the
\* order they were spoken, with the times and all the words of the cue; nothing
\* of a text reads as the end of a block (SrtComposer.cpp:15-82).
SubtitlesReadBack ==
  of = "subtitles" /\ done => (outcome.ok =>
    LET blocks == Blocks(outcome.lines)
    IN  /\ Len(blocks) = Cardinality(Wanted(input))
        /\ \A i \in Wanted(input) :
             LET k == Cardinality({j \in Wanted(input) : Precedes(input, j, i)}) + 1
                 words == Shown(input[i].text)
             IN  /\ Len(blocks[k]) = 2 + Len(words)
                 /\ blocks[k][1] = IndexLine(k)
                 /\ Millis(blocks[k][2].from) = input[i].offset \div TicksPerMs
                 /\ Millis(blocks[k][2].to)
                      = (input[i].offset + input[i].duration) \div TicksPerMs
                 /\ \A l \in DOMAIN words : blocks[k][l + 2] = TextLine(words[l]))

-----------------------------------------------------------------------------
(* Texts                                                                   *)

\* The table of well-formed sequences (The Unicode Standard, table 3-7).
WellFormed ==
  LET T == 128..191
      Row(lead, second, rest) == [lead |-> lead, second |-> second, rest |-> rest]
  IN  {Row(194..223, T, 0), Row({224}, 160..191, 1), Row((225..236) \cup {238, 239}, T, 1),
       Row({237}, 128..159, 1), Row({240}, 144..191, 2), Row(241..243, T, 2),
       Row({244}, 128..143, 2)}

\* A sequence of at most four bytes that begins with a lead byte and is one
\* character, or an ASCII character and what follows it.
IsUnicode(text) ==
  LET From[i \in 1..(Len(text) + 1)] ==
        \/ i > Len(text)
        \/ text[i] < 128 /\ From[i + 1]
        \/ \E row \in WellFormed :
             /\ text[i] \in row.lead /\ i + row.rest + 1 <= Len(text)
             /\ text[i + 1] \in row.second
             /\ \A j \in (i + 2)..(i + row.rest + 1) : text[j] \in 128..191
             /\ From[i + row.rest + 2]
  IN  From[1]

\* A text is accepted exactly when it is UTF-8 as Unicode defines it: nothing
\* overlong, cut off, out of range or half of a surrogate pair (Utf8.cpp:8-53).
Utf8AsUnicode == of = "text" /\ done => (outcome.ok <=> IsUnicode(input))

\* What the service reads from the SSML is the text as it was given, control
\* characters turned into spaces, whatever looks like markup or an entity in it
\* (TextNormalizer.cpp:7-41, XmlEscaper.cpp:5-48, SsmlBuilder.cpp:70-89).
TextReadsBack ==
  of = "text" /\ done => (outcome.ok =>
    /\ \A i \in DOMAIN outcome.content : outcome.content[i] \notin {Less, Greater}
    /\ xml_unescape(outcome.content) =
         [i \in DOMAIN input |-> IF input[i] < 32 /\ input[i] \notin {9, 10, 13}
                                 THEN 32 ELSE input[i]])

\* A text reaches the service as it was given or is refused: never broken
\* bytes, never another text (Utf8.cpp:8-53, XmlEscaper.cpp:5-48).
TextKept == Utf8AsUnicode /\ TextReadsBack

-----------------------------------------------------------------------------
(* Requests                                                                *)

Requests ==
  {build_speech_config_frame(config) : config \in Configs}
    \cup {build_ssml_frame(config, chunk) : config \in Configs, chunk \in Chunks}

\* What the locale and the name in a full voice name spell.
Spelled(full) ==
  LET comma == Find(full, Comma, 1)
  IN  SubSeq(full, 2, comma - 1) \o <<Dash>> \o SubSeq(full, comma + 1, Len(full) - 1)

\* The name that SpeechSynthesizer and SsmlBuilder both normalise is the same
\* after the second time as after the first, and still spells the short name it
\* came from, regions of two parts included (TtsConfig.cpp:57-77).
NamesNormalisedOnce ==
  of = "voice" /\ done => (outcome # NoName =>
    /\ normalize_voice_name(outcome) = outcome
    /\ IsShort(input) /\ Find(input, Comma, 1) = 0 => Spelled(outcome) = input)

\* A frame the program sends is read back with every header and the whole body,
\* although timestamps hold colons and the text spoken may hold empty lines
\* (ProtocolSerializer.cpp:7-22, ProtocolParser.cpp:13-56, EdgeProtocol.cpp:51-106).
RequestsParsed ==
  of = "request" /\ done =>
    parse(outcome) = [ok |-> TRUE, headers |-> input.headers, body |-> input.body]

\* Whatever frame with headers is accepted, nothing of it is lost: written
\* again it is the same frame (ProtocolParser.cpp:13-56).
AcceptedIsKept ==
  of = "wire" /\ done => (outcome.ok /\ SubSeq(input, 1, 2) # CRLF =>
    serialize([headers |-> outcome.headers, body |-> outcome.body]) = input)

\* What is sent is what was meant: the frame as its own parser reads it, and
\* the voice it names (EdgeProtocol.cpp:51-106, ProtocolSerializer.cpp:7-22,
\* ProtocolParser.cpp:13-56, TtsConfig.cpp:57-77).
RequestsReadBack == RequestsParsed /\ AcceptedIsKept /\ NamesNormalisedOnce

-----------------------------------------------------------------------------
(* Dates                                                                   *)

\* One second later, by the clock and the calendar.
OneSecondAfter(date) ==
  LET next == NextDay(date.year, date.month, date.day)
      Midnight == [date EXCEPT !.year = next[1], !.month = next[2], !.day = next[3],
                               !.hour = 0, !.min = 0, !.sec = 0]
  IN  CASE date.sec < 59 -> [date EXCEPT !.sec = @ + 1]
        [] date.sec = 59 /\ date.min < 59 -> [date EXCEPT !.min = @ + 1, !.sec = 0]
        [] date.sec = 59 /\ date.min = 59 /\ date.hour < 23 ->
             [date EXCEPT !.hour = @ + 1, !.min = 0, !.sec = 0]
        [] OTHER -> Midnight

\* A date of the calendar and a time of the day; sscanf found all of it.
IsTime(date) ==
  /\ date.fields = 7 /\ IsDate(date.year, date.month, date.day)
  /\ date.hour \in 0..23 /\ date.min \in 0..59 /\ date.sec \in 0..59

Epoch ==
  [fields |-> 7, year |-> 1970, month |-> 1, day |-> 1, hour |-> 0, min |-> 0, sec |-> 0]

\* A second passes: the days go on when the 86400 seconds of one are over.
Tick(time) ==
  IF time[2] = 86399 THEN <<time[1] + 1, 0>> ELSE <<time[1], time[2] + 1>>

\* From every second of the calendar to the next the time grows by one, over
\* the ends of days, months, years and centuries, and it starts in 1970; an hour
\* the day does not have gives none (HttpDate.cpp:16-82).
DatesFollowCalendar ==
  of = "date" /\ done =>
    /\ IsTime(input) => parse_http_date(OneSecondAfter(input)) = Tick(outcome)
    /\ input = Epoch => outcome = <<0, 0>>
    /\ input.hour \notin 0..23 => outcome = NoTime

-----------------------------------------------------------------------------
Nothing == <<>>

Subject(name, inputs) == of = name /\ input \in inputs

Init ==
  /\ \/ Subject("frame", BinaryFrames \cup TextFrames)
     \/ Subject("subtitles", Boundaries)
     \/ Subject("text", Texts)
     \/ Subject("voice", VoiceNames)
     \/ Subject("request", Requests)
     \/ Subject("wire", Wires)
     \/ Subject("date", Dates)
  /\ outcome = Nothing
  /\ done = FALSE

Answer(name, answer) ==
  /\ of = name /\ ~done
  /\ outcome' = answer
  /\ done' = TRUE
  /\ UNCHANGED <<of, input>>

Parse == Answer("frame", parse_incoming(input))
Compose == Answer("subtitles", to_srt(input))
Escape == Answer("text", SsmlContent(input))
Normalise == Answer("voice", normalize_voice_name(input))
Serialize == Answer("request", serialize(input))
ReadBack == Answer("wire", parse(input))
ReadDate == Answer("date", parse_http_date(input))

Next ==
  \/ Parse \/ Compose \/ Escape \/ Normalise \/ Serialize
  \/ ReadBack \/ ReadDate

Spec == Init /\ [][Next]_vars
=============================================================================
