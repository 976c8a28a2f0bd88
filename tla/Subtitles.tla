----------------------------- MODULE Subtitles ------------------------------
(***************************************************************************)
(* SubtitleBuilder and SrtComposer: from the boundaries of a synthesis to  *)
(* the lines of an SRT document.  A boundary is [type, offset, duration,   *)
(* text], in ticks of 100 ns; a text is a sequence of characters, of which *)
(* line ends and blanks are told apart; a document is the sequence of its  *)
(* lines.                                                                  *)
(***************************************************************************)
EXTENDS Integers, Sequences, FiniteSets

CONSTANT TicksPerMs     \* 10000 in the code
ASSUME TicksAssumption == TicksPerMs \in Nat \ {0}

NewLine == "LF"
CarriageReturn == "CR"
Blank == "Blank"                \* a space or a tab

NoType == "none"                \* type_ holds no value

-----------------------------------------------------------------------------
(* SubtitleTime                                                            *)

\* Negative ticks are refused by feed.
from_edge_ticks(ticks) == ticks \div TicksPerMs

\* "HH:MM:SS,mmm"
to_srt_timestamp(millis) ==
  <<millis \div 3600000, (millis % 3600000) \div 60000,
    (millis % 60000) \div 1000, millis % 1000>>

-----------------------------------------------------------------------------
(* SubtitleBuilder                                                         *)

EmptyBuilder == [ok |-> TRUE, type |-> NoType, cues |-> <<>>]

\* The caller feeds no more once a boundary is refused.
feed(builder, boundary) ==
  LET end_ticks == boundary.offset + boundary.duration
      cue == [start |-> from_edge_ticks(boundary.offset),
              end |-> from_edge_ticks(end_ticks), text |-> boundary.text]
  IN  IF ~builder.ok \/ builder.type \notin {NoType, boundary.type}
           \/ boundary.offset < 0 \/ end_ticks < 0
      THEN [builder EXCEPT !.ok = FALSE]
      ELSE [builder EXCEPT !.type = boundary.type, !.cues = Append(@, cue)]

FeedAll(boundaries) ==
  LET fed[n \in 0..Len(boundaries)] ==
        IF n = 0 THEN EmptyBuilder ELSE feed(fed[n - 1], boundaries[n])
  IN  fed[Len(boundaries)]

-----------------------------------------------------------------------------
(* SrtComposer                                                             *)

is_blank(text) == \A i \in DOMAIN text : text[i] \in {Blank, CarriageReturn, NewLine}

\* Mutant: only the ends are stripped.
Kept_InnerBlankLines(text) ==
  {i \in DOMAIN text :
     /\ \E j \in 1..i : text[j] # NewLine
     /\ \E j \in i..Len(text) : text[j] # NewLine}

\* What make_legal_content copies: nothing of the newlines at both ends, and
\* the first of every run of newlines in between.
Kept(text) ==
  {i \in DOMAIN text :
     /\ \E j \in 1..i : text[j] # NewLine
     /\ \E j \in i..Len(text) : text[j] # NewLine
     /\ ~(text[i] = NewLine /\ text[i - 1] = NewLine)}

make_legal_content(text) ==
  LET out[n \in 0..Len(text)] ==
        IF n = 0 THEN <<>>
        ELSE IF n \in Kept(text) THEN Append(out[n - 1], text[n]) ELSE out[n - 1]
  IN  out[Len(text)]

\* A stable sort by start and end.
GoesBefore(cues, a, b) ==
  \/ cues[a].start < cues[b].start
  \/ cues[a].start = cues[b].start /\ cues[a].end < cues[b].end
  \/ cues[a].start = cues[b].start /\ cues[a].end = cues[b].end /\ a < b

SortedPlace(cues, a) == Cardinality({b \in DOMAIN cues : GoesBefore(cues, b, a)}) + 1

Order(cues) == [k \in DOMAIN cues |-> CHOOSE a \in DOMAIN cues : SortedPlace(cues, a) = k]

\* Cues whose time is gone after the cut to milliseconds, or without text.
IsShown(cue) == cue.start < cue.end /\ ~is_blank(cue.text)

\* What was read of a sequence: the parts that have ended, and the open one.
NothingRead == [ended |-> <<>>, open |-> <<>>]

ReadOn(read, x, end) ==
  IF x = end THEN [ended |-> Append(read.ended, read.open), open |-> <<>>]
             ELSE [ended |-> read.ended, open |-> Append(read.open, x)]

Split(s, end) ==
  LET read[n \in 0..Len(s)] ==
        IF n = 0 THEN NothingRead ELSE ReadOn(read[n - 1], s[n], end)
  IN  read[Len(s)]

\* The lines a text stands on.
LinesOf(text) ==
  LET read == Split(text, NewLine) IN Append(read.ended, read.open)

IndexLine(k) == [index |-> k]
TimesLine(cue) ==
  [from |-> to_srt_timestamp(cue.start), to |-> to_srt_timestamp(cue.end)]
TextLine(chars) == [text |-> chars]
EmptyLine == TextLine(<<>>)

Block(k, cue) ==
  LET text == LinesOf(make_legal_content(cue.text))
  IN  <<IndexLine(k), TimesLine(cue)>>
        \o [l \in DOMAIN text |-> TextLine(text[l])] \o <<EmptyLine>>

Composed(out, cue) ==
  IF ~IsShown(cue) THEN out
  ELSE [idx |-> out.idx + 1, lines |-> out.lines \o Block(out.idx, cue)]

compose(cues) ==
  LET order == Order(cues)
      out[n \in 0..Len(cues)] ==
        IF n = 0 THEN [idx |-> 1, lines |-> <<>>]
        ELSE Composed(out[n - 1], cues[order[n]])
  IN  out[Len(cues)].lines

\* SubtitleBuilder::to_srt of everything fed; a refused boundary ends the
\* synthesis with an error instead.
to_srt(boundaries) ==
  LET builder == FeedAll(boundaries)
  IN  [ok |-> builder.ok, lines |-> IF builder.ok THEN compose(builder.cues) ELSE <<>>]
=============================================================================
