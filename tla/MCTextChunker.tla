--------------------------- MODULE MCTextChunker ---------------------------
(***************************************************************************)
(* Values of the constants of TextChunker for TLC: every text of a few     *)
(* characters and entities, as the escaped text the code splits in its     *)
(* reference mode, and as the raw text of the other mode.                  *)
(***************************************************************************)
EXTENDS TextChunker

CodePoint == <<"char", "continuation", "continuation">>
Entity == <<"&", "char", ";">>

EscapedUnits == {<<"char">>, <<"space">>, <<"newline">>, CodePoint, Entity}
RawUnits == {<<"char">>, <<"space">>, <<"tab">>, CodePoint, <<"&">>}

Empty(escaped) == [size |-> 0, escaped |-> escaped, byte |-> <<>>, unit |-> <<>>]

\* A text with one more unit at its end.
With(t, unit) ==
  LET size == t.size + Len(unit)
  IN [t EXCEPT
       !.size = size,
       !.byte = [p \in 0..(size - 1) |-> IF p < t.size THEN @[p] ELSE unit[p - t.size + 1]],
       !.unit = [p \in 0..(size - 1) |-> IF p < t.size THEN @[p] ELSE t.size]]

\* The texts of at most so many units.
TextsOf(units, most, escaped) ==
  LET texts[n \in 0..most] ==
        IF n = 0 THEN {Empty(escaped)}
        ELSE {With(t, unit) : t \in texts[n - 1], unit \in units}
  IN UNION {texts[n] : n \in 0..most}

SomeTexts == TextsOf(EscapedUnits, 5, TRUE) \cup TextsOf(RawUnits, 4, FALSE)
=============================================================================
