---------------------------- MODULE TextChunker ----------------------------
(***************************************************************************)
(* TextChunker: split_by_limit(), which cuts a text into chunks of at most *)
(* a number of bytes, at a newline, at a space or between two characters,  *)
(* and never inside an XML entity.                                         *)
(*                                                                         *)
(* The code sees bytes; which bytes belong together, one character or one  *)
(* entity, is known to the model only: unit[p] is where the character or   *)
(* entity of the byte at p begins.                                         *)
(***************************************************************************)
EXTENDS Integers, Sequences

CONSTANTS
  Texts,    \* normalized texts, escaped ones and raw ones
  Limits    \* values of max_chunk_size

Byte == {"char", "space", "tab", "newline", "&", ";", "continuation"}
Strip == {"space", "tab", "newline"}

Places(text) == 0..(text.size - 1)

\* A unit is consecutive; its later bytes are those of a code point, or of an entity, which
\* runs from its "&" to the first ";".
WellFormed(text) ==
  /\ text.size \in Nat /\ text.escaped \in BOOLEAN
  /\ text.byte \in [Places(text) -> Byte] /\ text.unit \in [Places(text) -> Places(text)]
  /\ \A p \in Places(text) :
       /\ text.unit[p] <= p
       /\ \A q \in text.unit[p]..p : text.unit[q] = text.unit[p]
       /\ text.byte[p] \in Strip => text.unit[p] = p
       /\ text.unit[p] < p => text.byte[text.unit[p]] \notin Strip
       /\ text.byte[p] = "continuation" => text.unit[p] < p
       /\ text.unit[p] < p => IF text.escaped /\ text.byte[text.unit[p]] = "&"
                              THEN /\ text.byte[p] \in {"char", ";"}
                                   /\ \A q \in text.unit[p]..(p - 1) : text.byte[q] # ";"
                              ELSE text.byte[p] = "continuation"
       /\ text.escaped /\ text.byte[p] = "&" =>
            /\ text.unit[p] = p
            /\ \E q \in Places(text) : p < q /\ text.unit[q] = p /\ text.byte[q] = ";"

ASSUME TextsAssumption == \A text \in Texts : WellFormed(text)
ASSUME LimitsAssumption == Limits \subseteq Nat \ {0}

VARIABLES
  text,             \* the whole text; the view of it begins at pos
  limit,
  prefer_newline,
  prefer_space,
  pc,
  pos,              \* where the rest of the text begins
  split,            \* split_at
  result            \* the chunks, as places [from, to) of the text

options == <<text, limit, prefer_newline, prefer_space>>
vars == <<text, limit, prefer_newline, prefer_space, pc, pos, split, result>>

IsLast(p, S) == p \in S /\ \A q \in S : q <= p

PlacesOf(byte, from, to) == {p \in from..(to - 1) : p < text.size /\ text.byte[p] = byte}

-----------------------------------------------------------------------------
(* The loop of split_by_limit().                                           *)

TooLong == text.size - pos > limit

\* Mutant: a newline is looked for only if there is no space.
Natural_SpaceFirst ==
  IF prefer_space /\ PlacesOf("space", pos, pos + limit) # {}
  THEN PlacesOf("space", pos, pos + limit)
  ELSE IF prefer_newline THEN PlacesOf("newline", pos, pos + limit) ELSE {}

\* Mutant: without a newline there is no second choice.
Natural_NoFallback ==
  IF prefer_newline THEN PlacesOf("newline", pos, pos + limit)
  ELSE IF prefer_space THEN PlacesOf("space", pos, pos + limit) ELSE {}

\* rfind(c, limit - 1): the newlines of the first limit bytes, or else the spaces.
Natural ==
  IF prefer_newline /\ PlacesOf("newline", pos, pos + limit) # {}
  THEN PlacesOf("newline", pos, pos + limit)
  ELSE IF prefer_space THEN PlacesOf("space", pos, pos + limit) ELSE {}

\* Mutant: the walk begins one byte after the limit.
CodePoints_OneFurther ==
  {pos} \cup {p \in pos..(pos + limit + 1) : p >= text.size \/ text.byte[p] # "continuation"}

\* Walking back from the limit over continuation bytes, at most to the beginning.
CodePoints ==
  {pos} \cup {p \in pos..(pos + limit) : p = text.size \/ text.byte[p] # "continuation"}

Candidates == IF Natural # {} THEN Natural ELSE CodePoints

FindSplit ==
  /\ pc = "loop" /\ TooLong
  /\ \E p \in Candidates : IsLast(p, Candidates) /\ split' = p
  /\ pc' = "entity"
  /\ UNCHANGED <<options, pos, result>>

\* Mutant: any ";" after the "&" will do, before the split or not.
Unterminated_AnywhereCloses(amp) == PlacesOf(";", amp + 1, text.size) = {}

Unterminated(amp) == PlacesOf(";", amp + 1, split) = {}

\* adjust_xml_entity(): the split moves to the "&" it follows while no ";" is between.
AdjustEntity ==
  /\ pc = "entity"
  /\ LET amps == PlacesOf("&", pos, split)
         moves == {p \in amps : text.escaped /\ IsLast(p, amps) /\ Unterminated(p)}
     IN IF moves # {}
        THEN split' \in moves /\ UNCHANGED pc
        ELSE pc' = "yield" /\ UNCHANGED split
  /\ UNCHANGED <<options, pos, result>>

\* strip(): the chunk runs from its first to its last byte that is kept, if it has one.
Kept(from, to) == {p \in from..(to - 1) : text.byte[p] \notin Strip}

Emit(from, to) ==
  IF Kept(from, to) = {}
  THEN UNCHANGED result
  ELSE \E first, last \in Kept(from, to) :
         /\ \A p \in Kept(from, to) : first <= p /\ p <= last
         /\ result' = Append(result, [from |-> first, to |-> last + 1])

\* Mutant: the byte at the split is taken for the separator and dropped.
Advance_PastSplit == pos' = split + 1

\* Mutant: no progress is forced.
Advance_Stuck == pos' = split

Advance == pos' = IF split > pos THEN split ELSE pos + 1

Yield ==
  /\ pc = "yield"
  /\ Emit(pos, split)
  /\ Advance
  /\ pc' = "loop"
  /\ UNCHANGED <<options, split>>

Remainder ==
  /\ pc = "loop" /\ ~TooLong
  /\ Emit(pos, text.size)
  /\ pos' = text.size
  /\ pc' = "done"
  /\ UNCHANGED <<options, split>>

Init ==
  /\ text \in Texts /\ limit \in Limits
  /\ prefer_newline \in BOOLEAN /\ prefer_space \in BOOLEAN
  /\ pc = "loop" /\ pos = 0 /\ split = 0 /\ result = <<>>

Next == FindSplit \/ AdjustEntity \/ Yield \/ Remainder

\* One thread, no waiting: the loop runs on while it can.
Spec == Init /\ [][Next]_vars /\ WF_vars(Next)

-----------------------------------------------------------------------------
(* Properties.                                                             *)

\* The type invariant; a split is a place of the rest, inside the text, so that no byte
\* beyond its end is read (TextChunker.cpp:58-88).
TypeOK ==
  /\ WellFormed(text) /\ limit \in Limits
  /\ prefer_newline \in BOOLEAN /\ prefer_space \in BOOLEAN
  /\ pc \in {"loop", "entity", "yield", "done"}
  /\ pos \in 0..text.size
  /\ split \in Nat
  /\ pc \in {"entity", "yield"} =>
       split \in pos..(pos + limit) /\ pos < text.size /\ split < text.size
  /\ result \in Seq([from : Nat, to : Nat])

\* No character and no entity is longer than the limit.
Fits == \A p \in Places(text) : p - text.unit[p] < limit

\* A place where a cut divides nothing.
Between(p) == p = text.size \/ text.unit[p] = p

\* Every chunk is a whole number of characters and entities, so it is valid UTF-8 and can be
\* put into the SSML as it is, whatever mixture of text, entities and limits
\* (TextChunker.hpp:39-43; TextChunker.cpp:31-44, 68-81).
UnitsWhole ==
  Fits => \A i \in DOMAIN result : Between(result[i].from) /\ Between(result[i].to)

\* Chunks come in order, do not overlap, are not empty and keep to the limit
\* (TextChunkerOptions::max_chunk_size; TextChunker.cpp:55-98).
WithinLimit ==
  /\ \A i \in DOMAIN result :
       0 < result[i].to - result[i].from /\ result[i].to - result[i].from <= limit
  /\ \A i, j \in DOMAIN result : i < j => result[i].to <= result[j].from

\* All that is left out of the chunks is white space: the text is spoken in full
\* (TextChunker.cpp:81-97).
NothingLost ==
  Fits => \A p \in 0..(pos - 1) :
            text.byte[p] \notin Strip =>
              \E i \in DOMAIN result : p \in result[i].from..(result[i].to - 1)

\* A word is divided between two chunks only if it has a chunk to itself: where a line or a
\* word ends within the limit, the cut is made there (TextChunker.hpp:37-38).
WordsCutLast ==
  prefer_newline /\ prefer_space =>
    \A i \in DOMAIN result :
      result[i].to < text.size /\ text.byte[result[i].to] \notin Strip =>
        /\ PlacesOf("newline", result[i].from, result[i].to) = {}
        /\ PlacesOf("space", result[i].from, result[i].to) = {}

\* Where a chunk holds a newline, the cut after it is made at a newline as well: a line is
\* divided only if it does not end within the limit (TextChunker.cpp:60-62).
LinesKept ==
  prefer_newline =>
    \A i \in 1..(Len(result) - 1) :
      PlacesOf("newline", result[i].from, result[i].to) # {} =>
        PlacesOf("newline", result[i].to, result[i + 1].from) # {}

\* The loop comes to its end, also when a character or an entity is longer than the limit
\* (TextChunker.cpp:88-90).
Terminates == <>(pc = "done")
=============================================================================
