------------------------------ MODULE MCFormats -----------------------------
(***************************************************************************)
(* Every small input of the functions of Formats.                          *)
(***************************************************************************)
EXTENDS Formats, SequencesExt

CONSTANTS
  MaxSize,     \* bound: bytes of a binary frame
  MaxMetadata, \* bound: entries of a Metadata array
  MaxText,     \* bound: characters of a cue, pieces of a text, entities of it
  MaxPieces,   \* bound: pieces of a frame that is read back
  Years        \* bound: the years of the dates

SeqsUpTo(S, n) == UNION {[1..k -> S] : k \in 0..n}

\* \r\n stands at p when bytes p and p+1 are \r and \n: no two overlap.
SeparatorPlaces(size) ==
  {places \in SUBSET (2..(size - 2)) : \A p \in places : p + 1 \notin places}

MCBinaryFrames ==
  UNION {[type : {"binary"}, size : {size}, header_length : 0..(MaxSize + 2) \cup {65535},
          crlf : SeparatorPlaces(size), framed : BOOLEAN,
          path : {Absent, "audio", "turn.end"},
          content_type : {Absent, "audio/mpeg", "text/plain"}] : size \in 0..MaxSize}

Entries ==
  [type : {"WordBoundary", "SentenceBoundary"}, complete : BOOLEAN,
   offset : {0, 2}, duration : {1}]
    \cup [type : {"SessionEnd", "VisemeBoundary", "malformed"}, complete : {FALSE},
          offset : {0}, duration : {0}]

MCTextFrames ==
  [type : {"text"}, framed : BOOLEAN, path : {"audio.metadata"}, json : BOOLEAN,
   items : SeqsUpTo(Entries, MaxMetadata)]
    \cup [type : {"text"}, framed : BOOLEAN, json : {FALSE}, items : {<<>>},
          path : {Absent, "turn.start", "turn.end", "response", "audio"}]

CueTexts == SeqsUpTo({"a", Blank, NewLine}, MaxText)

Heard(types, offsets, durations, texts) ==
  [type : types, offset : offsets, duration : durations, text : texts]

\* One boundary with every text, at the start and after an hour, and two or
\* three that meet in time.
MCBoundaries ==
  LET Ms == TicksPerMs
  IN  [1..1 -> Heard({"word"}, {0, 3600000 * Ms}, {Ms - 1, 61234 * Ms}, CueTexts)]
        \cup SeqsUpTo(Heard({"word", "sentence"}, {-1, 0, Ms}, {-2 * Ms, Ms}, {<<"a">>}), 2)
        \cup [1..3 -> Heard({"word"}, {0, Ms}, {Ms - 1, Ms, 2 * Ms},
                            {<<"a">>, <<"b", NewLine, NewLine, "c">>, <<Blank>>})]

\* Both ends of every row of the table of well-formed sequences (The Unicode
\* Standard, table 3-7), and their neighbours.
LeadBytes == {0, 65, 127, 128, 191, 192, 193, 194, 223, 224, 225, 236, 237, 238, 239, 240,
              241, 243, 244, 245, 255}
NextBytes == {65, 127, 128, 143, 144, 159, 160, 191, 192}

ByteTexts ==
  {<<>>} \cup {<<lead>> \o rest : lead \in LeadBytes, rest \in SeqsUpTo(NextBytes, 3)}

\* & < > ; amp lt quot, a control character, e with acute, eight bytes
Morsels == {<<38>>, <<60>>, <<62>>, <<59>>, <<97, 109, 112>>, <<108, 116>>, <<7>>, <<195, 169>>,
            <<97, 97, 97, 97, 97, 97, 97, 97>>}

MarkupTexts == {FlattenSeq(morsels) : morsels \in SeqsUpTo(Morsels, MaxText)}

MCTexts == ByteTexts \cup MarkupTexts

MCVoiceNames ==
  LET Pieces == {lower, UPPER, Dash, "x", Neural, Comma}
  IN  {<<lower, Dash, UPPER, Dash>> \o rest : rest \in SeqsUpTo(Pieces, 4)}
        \cup {<<Prefix>> \o names \o <<End>> : names \in SeqsUpTo(Pieces, 4)}
        \cup SeqsUpTo(Pieces, 4)

MCConfigs ==
  {[voice |-> <<lower, Dash, UPPER, Dash, "x", Neural>>, boundary_type |-> boundary] :
     boundary \in {"word", "sentence"}}

MCChunks == SeqsUpTo({"x", Colon, CR, LF}, 5)
MCWires == SeqsUpTo({"x", Colon, CR, LF}, MaxPieces)

MCDates ==
  {[fields |-> 7, year |-> y, month |-> m, day |-> d,
    hour |-> time[1], min |-> time[2], sec |-> time[3]] :
     y \in Years, m \in 0..12, d \in 0..32,
     time \in {<<0, 0, 0>>, <<9, 59, 59>>, <<10, 30, 59>>, <<23, 59, 59>>, <<24, 0, 0>>}}
=============================================================================
