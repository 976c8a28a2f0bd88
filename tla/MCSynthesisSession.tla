------------------------- MODULE MCSynthesisSession -------------------------
(***************************************************************************)
(* Values of the constants of SynthesisSession for TLC: one frame of every *)
(* kind parse_incoming tells apart.                                        *)
(***************************************************************************)
EXTENDS SynthesisSessionPromise

Word(offset, duration) ==
  [type |-> "WordBoundary", complete |-> TRUE, offset |-> offset, duration |-> duration]

SessionEnd == [type |-> "SessionEnd", complete |-> FALSE, offset |-> 0, duration |-> 0]

Framed(path, items) ==
  [type |-> "text", framed |-> TRUE, path |-> path, json |-> TRUE, items |-> items]

Metadata(items) == Framed("audio.metadata", items)

AudioFrame(bytes) ==
  [type |-> "binary", size |-> 12 + bytes, header_length |-> 10, crlf |-> {10},
   framed |-> TRUE, path |-> "audio", content_type |-> "audio/mpeg"]

TurnStart == Framed("turn.start", <<>>)
TurnEnd == Framed("turn.end", <<>>)

\* The second word of the pair ends before the first one does; the single word
\* starts with its chunk.
AllFrames ==
  {AudioFrame(1), Metadata(<<Word(0, 1)>>), Metadata(<<SessionEnd, Word(1, 3), Word(2, 1)>>),
   Metadata(<<SessionEnd>>), TurnStart, TurnEnd}

Drifts7 == {-7, 0, 7}
=============================================================================
