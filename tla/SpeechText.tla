----------------------------- MODULE SpeechText -----------------------------
(***************************************************************************)
(* What becomes of the bytes of a text on their way into SSML and of the   *)
(* words that come back: UTF-8 validation, normalisation, XML escaping.    *)
(* A text is a sequence of numbers in 0..255.                              *)
(***************************************************************************)
EXTENDS Integers, Sequences

-----------------------------------------------------------------------------
(* common/Utf8                                                             *)

Continuation == 128..191

\* Bytes after a lead byte; -1 where the lead byte itself is refused.
Extra(lead) ==
  CASE lead < 128 -> 0
    [] lead \in 194..223 -> 1
    [] lead \in 224..239 -> 2
    [] lead \in 240..244 -> 3
    [] OTHER -> -1

\* The bits of the lead byte, then six of every continuation byte.
LeadBits(lead) ==
  CASE Extra(lead) = 0 -> lead
    [] Extra(lead) = 1 -> lead % 32
    [] Extra(lead) = 2 -> lead % 16
    [] Extra(lead) = 3 -> lead % 8

CodePoint(text, i) ==
  LET codepoint[j \in 0..Extra(text[i])] ==
        IF j = 0 THEN LeadBits(text[i]) ELSE (codepoint[j - 1] * 64) + (text[i + j] % 64)
  IN  codepoint[Extra(text[i])]

min_cp(extra) == <<0, 128, 2048, 65536>>[extra + 1]

InRange(cp, extra) ==
  cp >= min_cp(extra) /\ ~(cp >= 55296 /\ cp <= 57343) /\ cp <= 1114111

is_valid_utf8(text) ==
  LET ValidFrom[i \in 1..(Len(text) + 4)] ==
        \/ i > Len(text)
        \/ LET extra == Extra(text[i])
           IN  /\ extra >= 0
               /\ i + extra <= Len(text)
               /\ \A j \in (i + 1)..(i + extra) : text[j] \in Continuation
               /\ InRange(CodePoint(text, i), extra)
               /\ ValidFrom[i + extra + 1]
  IN  ValidFrom[1]

-----------------------------------------------------------------------------
(* TextNormalizer                                                          *)

Control == (0..8) \cup {11, 12} \cup (14..31)

\* A byte of a longer character is never below 128.
normalize(text) == [i \in DOMAIN text |-> IF text[i] \in Control THEN 32 ELSE text[i]]

-----------------------------------------------------------------------------
(* XmlEscaper                                                              *)

Ampersand == 38
Semicolon == 59
Less == 60
Greater == 62

Entity ==      \* the ones xml_escape writes, then those only xml_unescape knows
  [amp |-> <<38, 97, 109, 112, 59>>, lt |-> <<38, 108, 116, 59>>,
   gt |-> <<38, 103, 116, 59>>, quot |-> <<38, 113, 117, 111, 116, 59>>,
   apos |-> <<38, 97, 112, 111, 115, 59>>]

\* Mutant: an ampersand is left as it is.
EscapedByte_KeepsAmpersand(byte) ==
  CASE byte = Less -> Entity.lt
    [] byte = Greater -> Entity.gt
    [] OTHER -> <<byte>>

EscapedByte(byte) ==
  CASE byte = Ampersand -> Entity.amp
    [] byte = Less -> Entity.lt
    [] byte = Greater -> Entity.gt
    [] OTHER -> <<byte>>

xml_escape(raw) ==
  LET out[i \in 0..Len(raw)] == IF i = 0 THEN <<>> ELSE out[i - 1] \o EscapedByte(raw[i])
  IN  out[Len(raw)]

Decoded(entity) ==
  CASE entity = Entity.amp -> <<Ampersand>>
    [] entity = Entity.lt -> <<Less>>
    [] entity = Entity.gt -> <<Greater>>
    [] entity = Entity.quot -> <<34>>
    [] entity = Entity.apos -> <<39>>
    [] OTHER -> entity

\* Where the entity that starts at i ends; 0 when no semicolon is near.
EndOfEntity(text, i) ==
  LET found == {j \in (i + 1)..Len(text) : text[j] = Semicolon}
  IN  IF text[i] = Ampersand /\ \E j \in found : j - i <= 8
      THEN CHOOSE j \in found : \A k \in found : j <= k ELSE 0

xml_unescape(escaped) ==
  LET From[i \in 1..(Len(escaped) + 1)] ==
        IF i > Len(escaped) THEN <<>>
        ELSE LET end == EndOfEntity(escaped, i)
             IN  IF end = 0 THEN <<escaped[i]>> \o From[i + 1]
                 ELSE Decoded(SubSeq(escaped, i, end)) \o From[end + 1]
  IN  From[1]

-----------------------------------------------------------------------------
(* SsmlBuilder::build: the content of the prosody element.                 *)

SsmlContent(raw) ==
  [ok |-> is_valid_utf8(raw),
   content |-> IF is_valid_utf8(raw) THEN xml_escape(normalize(raw)) ELSE <<>>]
=============================================================================
