------------------------------ MODULE MCEdgeTts -----------------------------
(***************************************************************************)
(* edge-tts on every line of at most MaxTokens tokens.                     *)
(***************************************************************************)
EXTENDS EdgeTts

CONSTANTS
  MaxTokens,  \* bound: tokens of a command line
  MaxChunks   \* bound: chunks of an answer

Tokens ==
  {Long("text", v) : v \in {Absent, "", "hello"}} \cup {Short("t", v) : v \in {Absent, "hello"}}
    \cup {Long("file", v) : v \in {Absent, "-", "dir"}} \cup {Short("f", "in")}
    \cup {Long("voice", Absent), Short("v", "-v")}
    \cup {Long("write_media", v) : v \in {Absent, "m", "-"}}
    \cup {Long("write_subtitles", v) : v \in {Absent, "s", "m", "-"}}
    \cup {Long("proxy", v) : v \in {Absent, "", "url"}}
    \cup {Long("list_voices", v) : v \in {Absent, "x"}} \cup {Short("l", v) : v \in {Absent, "x"}}
    \cup {Long("help", v) : v \in {Absent, "x"}} \cup {Short("h", Absent), Long("version", Absent)}
    \cup {Long("mpv", Absent), Long("unknown", "x"), Short("x", Absent)}
    \cup {Word(v) : v \in {"", "-", "in", "url"}}

MCCommandLines == UNION {[1..n -> Tokens] : n \in 0..MaxTokens}
MCAnswers == UNION {[1..n -> Kind] : n \in 0..MaxChunks}
=============================================================================
