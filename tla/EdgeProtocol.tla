---------------------------- MODULE EdgeProtocol ----------------------------
(***************************************************************************)
(* EdgeProtocol::parse_incoming: what one WebSocket message from the       *)
(* speech service means to the synthesis session.                          *)
(*                                                                         *)
(* A text frame is [type |-> "text", framed, path, json, items]: whether   *)
(* ProtocolParser finds the blank line and a colon on every header line,   *)
(* the first Path header, whether the body is a JSON object with a         *)
(* "Metadata" array, and that array.  An item of it has a type and, for a  *)
(* boundary, whether Data holds every field (complete), with the values.   *)
(*                                                                         *)
(* A binary frame is [type |-> "binary", size, header_length, crlf,        *)
(* framed, path, content_type]: its length, the big-endian number in its   *)
(* first two bytes, the positions where \r\n stands, and the headers found *)
(* in the bytes 2 .. header_length-1.                                      *)
(***************************************************************************)
EXTENDS Integers, Sequences

Absent == "absent"      \* header() returned nullopt

BoundaryType == {"WordBoundary", "SentenceBoundary"}

MetadataItem == [type : STRING, complete : BOOLEAN, offset : Int, duration : Int]

TextFrame ==
  [type : {"text"}, framed : BOOLEAN, path : STRING, json : BOOLEAN, items : Seq(MetadataItem)]

BinaryFrame ==
  [type : {"binary"}, size : Nat, header_length : Nat, crlf : SUBSET Nat,
   framed : BOOLEAN, path : STRING, content_type : STRING]

Message ==
  [kind : {"audio"}, bytes : Nat \ {0}]
    \cup [kind : {"boundary"}, type : BoundaryType, offset : Int, duration : Int]
    \cup [kind : {"turn_end", "ignored"}]

Parsed(msgs) == [code |-> "none", msgs |-> msgs]
ProtocolError == [code |-> "protocol_error", msgs |-> <<>>]
Just(kind) == Parsed(<<[kind |-> kind]>>)

-----------------------------------------------------------------------------
(* MetadataJsonParser::parse.                                              *)

IsBoundary(item) == item.type \in BoundaryType

\* SessionEnd and every unknown type are skipped before Data is looked at.
Broken(item) == item.type = "malformed" \/ (IsBoundary(item) /\ ~item.complete)

MetadataAccepted(frame) ==
  frame.json /\ \A i \in DOMAIN frame.items : ~Broken(frame.items[i])

BoundaryMessage(item) ==
  [kind |-> "boundary", type |-> item.type,
   offset |-> item.offset, duration |-> item.duration]

\* The others leave nothing.
BoundaryMessages(items) ==
  LET found[i \in 0..Len(items)] ==
        IF i = 0 THEN <<>>
        ELSE IF IsBoundary(items[i])
             THEN Append(found[i - 1], BoundaryMessage(items[i])) ELSE found[i - 1]
  IN  found[Len(items)]

-----------------------------------------------------------------------------
(* parse_text_frame: dispatch on Path.                                     *)

parse_text_frame(frame) ==
  CASE ~frame.framed -> ProtocolError
    [] frame.framed /\ frame.path = "audio.metadata" ->
         IF MetadataAccepted(frame) /\ BoundaryMessages(frame.items) # <<>>
         THEN Parsed(BoundaryMessages(frame.items))
         ELSE ProtocolError
    [] frame.framed /\ frame.path = "turn.end" -> Just("turn_end")
    [] frame.framed /\ frame.path \in {"response", "turn.start"} -> Just("ignored")
    [] OTHER -> ProtocolError               \* no Path, or an unknown one

-----------------------------------------------------------------------------
(* parse_binary_frame: the length checks, in the order of the code, then   *)
(* the headers and the body.                                               *)

LengthsAccepted(frame) ==
  /\ frame.size >= 2                        \* the length prefix is there
  /\ frame.header_length >= 2               \* and covers itself
  /\ frame.header_length <= frame.size
  /\ frame.header_length + 2 <= frame.size  \* room for the separator

\* The bytes read to find the separator, once the lengths are accepted.
SeparatorReads(frame) ==
  IF LengthsAccepted(frame)
  THEN {frame.header_length, frame.header_length + 1}
  ELSE {}

SeparatorAccepted(frame) == frame.header_length \in frame.crlf

\* Mutant: the separator is taken for audio.
body_len_WithSeparator(frame) == frame.size - frame.header_length

body_len(frame) == frame.size - (frame.header_length + 2)

parse_binary_frame(frame) ==
  IF \/ ~LengthsAccepted(frame)
     \/ ~SeparatorAccepted(frame)
     \/ ~frame.framed
     \/ frame.path # "audio"
     \/ frame.content_type \notin {Absent, "audio/mpeg"}
  THEN ProtocolError
  ELSE CASE frame.content_type = Absent /\ body_len(frame) = 0 -> Just("ignored")
         [] frame.content_type # Absent /\ body_len(frame) # 0 ->
              Parsed(<<[kind |-> "audio", bytes |-> body_len(frame)]>>)
         [] OTHER -> ProtocolError

parse_incoming(frame) ==
  IF frame.type = "text" THEN parse_text_frame(frame) ELSE parse_binary_frame(frame)
=============================================================================
