------------------------------- MODULE EdgeTts ------------------------------
(***************************************************************************)
(* edge-tts from its command line to its exit code: main(), the parser,    *)
(* EdgeTtsCommandDispatcher and InputLoader::load.                         *)
(*                                                                         *)
(* The synthesizer answers as SpeechSynthesizer promises (chunks in order, *)
(* or an error and nothing) and the voice service with a list or an error. *)
(* Every value of the command line is a path that may name a file, but for *)
(* "dir", a directory, "", which names nothing, and "-".  An exception     *)
(* nobody catches ends the program with a status of its own.               *)
(***************************************************************************)
EXTENDS ArgumentParser, FiniteSetsExt

CONSTANTS
  CommandLines,  \* the token sequences a user may type
  Answers        \* the chunk sequences the synthesizer may return

Kind == {"audio", "word", "sentence", "early"}
ASSUME LinesAssumption == CommandLines \subseteq Seq(Token)
ASSUME AnswersAssumption == Answers \subseteq Seq(Kind)

VARIABLES
  tokens,      \* argv while it is parsed
  stage,       \* where the program is
  parsed,      \* the parser's result
  text,        \* what the loader returned; "cut" is stdin as far as it could be read
  stdin_read,  \* std::cin was read to its end
  confirmed,   \* the user pressed Enter at the warning
  asked,       \* history: the text the synthesizer was given
  terminal,    \* stdin and stdout are terminals
  chunks,      \* the synthesizer's answer
  next,        \* the chunk the routing loop is at
  out,         \* what reached stdout: chunks by their place, or a message
  out_bad,     \* std::cout has failed: further writes do nothing
  disk,        \* the files named for output
  srt,         \* the cues printed to stderr, {} for none
  complained,  \* history: error messages on stderr
  lost,        \* history: data was lost where the code does not look
  exit         \* exit code, NoExit while the program runs

input == <<tokens, parsed, text, stdin_read, confirmed, asked, terminal>>
vars == <<input, stage, chunks, next, out, out_bad, disk, srt, complained, lost, exit>>

NoExit == -1
Aborted == 134  \* the status a shell shows for a process that SIGABRT ended
Paths == {"m", "s", "in", "url"}
arguments == parsed.arguments

Old == [state |-> "old", chunks |-> {}]
Torn == [state |-> "torn", chunks |-> {}]
Holding(places) == [state |-> "written", chunks |-> places]

IsBoundary(kind) == kind # "audio"
AudioOf(c) == {i \in DOMAIN c : ~IsBoundary(c[i])}
CuesOf(c) == {i \in DOMAIN c : IsBoundary(c[i])}

media_to_file == arguments["write_media"] \notin {Absent, "-"}
srt_to_file == arguments["write_subtitles"] \notin {Absent, "-"}

\* Mutant: without an option the subtitles go to stderr.
srt_to_stderr_Default == arguments["write_subtitles"] \in {Absent, "-"}

srt_to_stderr == arguments["write_subtitles"] = "-"

Leave(code) == stage' = "exit" /\ exit' = code
Fail(code) == complained' = complained + 1 /\ Leave(code)

\* std::terminate(): no message of the program's own, and no destructor runs.
Abort == Leave(Aborted) /\ UNCHANGED complained

GoTo(s) == stage' = s /\ UNCHANGED <<complained, exit>>

\* A write to stdout: it fails, or has failed before, and nobody looks.
WriteOut(item) ==
  \/ /\ ~out_bad
     /\ out' = Append(out, item) /\ UNCHANGED <<out_bad, lost>>
  \/ out_bad' = TRUE /\ lost' = TRUE /\ UNCHANGED out

-----------------------------------------------------------------------------
Init ==
  /\ tokens \in CommandLines
  /\ stage = "parse" /\ parsed = Refused
  /\ text = Absent /\ stdin_read = FALSE /\ confirmed = FALSE /\ asked = Absent
  /\ terminal \in BOOLEAN
  /\ chunks = <<>> /\ next = 1
  /\ out = <<>> /\ out_bad = FALSE /\ disk = [p \in Paths |-> Old] /\ srt = {}
  /\ complained = 0 /\ lost = FALSE /\ exit = NoExit

\* main(): a proxy is refused before anything else is looked at.
Parse ==
  /\ stage = "parse"
  /\ parsed' = do_parse(edge_tts, tokens)
  /\ tokens' = <<>>
  /\ IF parsed'.arguments["proxy"] # Absent THEN Fail(1) ELSE GoTo("dispatch")
  /\ UNCHANGED <<text, stdin_read, confirmed, asked, terminal, chunks, next, out, out_bad,
                 disk, srt, lost>>

DispatchError == parsed.action = "error" /\ Fail(2)

Dispatch ==
  /\ stage = "dispatch"
  /\ \/ /\ parsed.action \in {"help", "version"}
        /\ WriteOut(parsed.action) /\ Leave(0) /\ UNCHANGED complained
     \/ DispatchError /\ UNCHANGED <<out, out_bad, lost>>
     \/ parsed.action = "list_voices" /\ GoTo("voices") /\ UNCHANGED <<out, out_bad, lost>>
     \/ parsed.action = "synthesize" /\ GoTo("load") /\ UNCHANGED <<out, out_bad, lost>>
  /\ UNCHANGED <<input, chunks, next, disk, srt>>

\* The parser of the list catches json::parse_error alone; a number that no
\* double holds throws another exception.
DispatchListVoices ==
  /\ stage = "voices"
  /\ \/ (Fail(1) \/ Abort) /\ UNCHANGED <<out, out_bad, lost>>
     \/ WriteOut("voices") /\ Leave(0) /\ UNCHANGED complained
  /\ UNCHANGED <<input, chunks, next, disk, srt>>

\* A named file is read, or is refused as a directory or because it does not
\* open.  Looking at its status throws for every error but a missing file (no
\* permission, a loop of links, a name too long), and so does a failing read.
LoadFile(path) ==
  \/ path \notin {"", "dir"} /\ text' = path /\ GoTo("confirm")
  \/ Fail(1) /\ UNCHANGED text
  \/ path \notin {"", "dir"} /\ Abort /\ UNCHANGED text

\* InputLoader::load: the text, all of stdin, or a file.  An error of stdin
\* reads as its end.
Load ==
  /\ stage = "load"
  /\ \/ /\ arguments["text"] # Absent
        /\ text' = arguments["text"] /\ GoTo("confirm") /\ UNCHANGED stdin_read
     \/ /\ arguments["file"] = "-"
        /\ text' \in {"stdin", "cut"} /\ stdin_read' = TRUE /\ GoTo("confirm")
     \/ /\ arguments["file"] \notin {Absent, "-"}
        /\ LoadFile(arguments["file"]) /\ UNCHANGED stdin_read
  /\ UNCHANGED <<tokens, parsed, confirmed, asked, terminal, chunks, next, out, out_bad,
                 disk, srt, lost>>

\* Mutant: the question is asked only if stdin was not used for the text.
Warned_NotAfterStdin == arguments["write_media"] = Absent /\ terminal /\ ~stdin_read

Warned == arguments["write_media"] = Absent /\ terminal

\* The warning and getline(): a stdin that was read to its end has no line left.
Confirm ==
  /\ stage = "confirm"
  /\ \/ ~Warned /\ GoTo("synthesize") /\ UNCHANGED confirmed
     \/ Warned /\ ~stdin_read /\ confirmed' = TRUE /\ GoTo("synthesize")
     \/ Warned /\ Leave(0) /\ UNCHANGED <<confirmed, complained>>
  /\ UNCHANGED <<tokens, parsed, text, stdin_read, asked, terminal, chunks, next, out,
                 out_bad, disk, srt, lost>>

\* The parser of the metadata catches as little as the parser of the voices.
Synthesize ==
  /\ stage = "synthesize"
  /\ asked' = text
  /\ \/ chunks' \in Answers /\ GoTo("route")
     \/ (Fail(1) \/ Abort) /\ UNCHANGED chunks
  /\ UNCHANGED <<tokens, parsed, text, stdin_read, confirmed, terminal, next, out, out_bad,
                 disk, srt, lost>>

-----------------------------------------------------------------------------
(* The routing loop and the output.                                        *)

\* SubtitleBuilder::feed: no cue before time zero, one kind only.
Feeds(i) == chunks[i] # "early" /\ \A j \in CuesOf(chunks) : j < i => chunks[j] = chunks[i]

\* Mutant: boundaries are fed only when subtitles were asked for.
Route_OnlyWhenAsked ==
  /\ stage = "route" /\ next <= Len(chunks)
  /\ IF IsBoundary(chunks[next])
     THEN /\ IF Feeds(next) \/ arguments["write_subtitles"] = Absent
             THEN GoTo("route") ELSE Fail(1)
          /\ UNCHANGED <<out, out_bad, lost>>
     ELSE /\ GoTo("route")
          /\ IF media_to_file THEN UNCHANGED <<out, out_bad, lost>> ELSE WriteOut(next)
  /\ next' = next + 1
  /\ UNCHANGED <<input, chunks, disk, srt>>

Route ==
  /\ stage = "route" /\ next <= Len(chunks)
  /\ IF IsBoundary(chunks[next])
     THEN (IF Feeds(next) THEN GoTo("route") ELSE Fail(1)) /\ UNCHANGED <<out, out_bad, lost>>
     ELSE /\ GoTo("route")
          /\ IF media_to_file THEN UNCHANGED <<out, out_bad, lost>> ELSE WriteOut(next)
  /\ next' = next + 1
  /\ UNCHANGED <<input, chunks, disk, srt>>

Routed ==
  /\ stage = "route" /\ next > Len(chunks)
  /\ GoTo(IF media_to_file THEN "media" ELSE "subtitles")
  /\ UNCHANGED <<input, chunks, next, out, out_bad, disk, srt, lost>>

\* FileWriter: opening or writing fails, or the stream's buffer is lost when
\* the destructor closes the file.
WriteFile(path, places, after) ==
  \/ UNCHANGED <<disk, lost>> /\ Fail(1)
  \/ /\ path \in Paths /\ places # {} /\ disk' = [disk EXCEPT ![path] = Torn]
     /\ Fail(1) /\ UNCHANGED lost
  \/ /\ path \in Paths /\ disk' = [disk EXCEPT ![path] = Holding(places)]
     /\ GoTo(after) /\ UNCHANGED lost
  \/ /\ path \in Paths /\ places # {} /\ disk' = [disk EXCEPT ![path] = Torn]
     /\ lost' = TRUE /\ GoTo(after)

WriteMedia ==
  /\ stage = "media"
  /\ WriteFile(arguments["write_media"], AudioOf(chunks), "subtitles")
  /\ UNCHANGED <<input, chunks, next, out, out_bad, srt>>

WriteSubtitles ==
  /\ stage = "subtitles"
  /\ \/ srt_to_file /\ WriteFile(arguments["write_subtitles"], CuesOf(chunks), "flush")
        /\ UNCHANGED srt
     \/ srt_to_stderr /\ srt' = CuesOf(chunks) /\ GoTo("flush") /\ UNCHANGED <<disk, lost>>
     \/ ~srt_to_file /\ ~srt_to_stderr /\ GoTo("flush") /\ UNCHANGED <<disk, srt, lost>>
  /\ UNCHANGED <<input, chunks, next, out, out_bad>>

Flush ==
  /\ stage = "flush"
  /\ Leave(0) /\ UNCHANGED complained
  /\ UNCHANGED <<input, chunks, next, out, out_bad, disk, srt, lost>>

Next ==
  \/ Parse \/ Dispatch \/ DispatchListVoices \/ Load \/ Confirm \/ Synthesize
  \/ Route \/ Routed \/ WriteMedia \/ WriteSubtitles \/ Flush

Spec == Init /\ [][Next]_vars

-----------------------------------------------------------------------------
(* Properties of the command line.                                         *)

\* Every token of a line is a flag, an option with its value, or the value of
\* the option before it, and no value but an attached one looks like an option.
WellFormed(program, line) ==
  /\ \A i \in DOMAIN line :
       \/ line[i] \in program.flags
       \/ /\ OptionOf(program, line[i]) # Absent
          /\ line[i].attached = Absent => i < Len(line) /\ line[i + 1].form = "word"
       \/ /\ line[i].form = "word" /\ i > 1
          /\ OptionOf(program, line[i - 1]) # Absent /\ line[i - 1].attached = Absent
  /\ \A i \in DOMAIN line :
       OptionOf(program, line[i]) = "proxy" => "url" \in {line[i].attached} \cup
         (IF line[i].attached = Absent THEN {line[i + 1].attached} ELSE {})

\* The value an option is left with: that of its last occurrence.
LastValue(program, line, option) ==
  LET places == {i \in DOMAIN line : OptionOf(program, line[i]) = option}
      last == Max(places)
  IN  CASE places = {} -> Absent
        [] places # {} /\ line[last].attached = Absent -> line[last + 1].attached
        [] OTHER -> line[last].attached

Flagged(program, line) == \E i \in DOMAIN line : line[i] \in program.flags
Given(program, line) ==
  {o \in program.inputs \cap program.values : LastValue(program, line, o) # Absent}
    \cup {f \in {program.flag} \cap program.inputs : Flagged(program, line)}

\* Either parser accepts exactly the lines that are well formed and name one
\* input, wherever their options stand, and hands on the last value of each
\* option (EdgeTtsArgumentParser.cpp:60-276, PlaybackArgumentParser.cpp:40-228).
ParsedAsWritten ==
  stage = "parse" => \A program \in {edge_tts, edge_playback} :
    LET result == do_parse(program, tokens)
        message == \E i \in DOMAIN tokens : MessageOf(program, tokens[i]) # Absent
    IN  ~message =>
          /\ result.exit_code = 0 <=>
               WellFormed(program, tokens) /\ Cardinality(Given(program, tokens)) = 1
          /\ result.exit_code = 0 =>
               \A o \in program.values : result.arguments[o] = LastValue(program, tokens, o)

\* edge-playback accepts a subset of edge-tts's options plus --mpv
\* (PlaybackArguments.hpp:12-13): without the options of one of them only, a
\* line means the same to both.
PlaybackSubset ==
  stage = "parse" =>
    LET play == do_parse(edge_playback, tokens)
        speak == do_parse(edge_tts, tokens)
    IN  /\ play.action = "play" /\ play.arguments["mpv"] = Absent =>
             speak = [play EXCEPT !.action = "synthesize"]
        /\ (/\ speak.action = "synthesize"
            /\ speak.arguments["write_media"] = Absent
            /\ speak.arguments["write_subtitles"] = Absent) =>
             play = [speak EXCEPT !.action = "play"]

\* A line is read as its options are documented, by the table of either program,
\* and the tables agree on what they share (EdgeTtsArgumentParser.cpp:60-276,
\* PlaybackArgumentParser.cpp:40-228).
LinesMeanTheSame == ParsedAsWritten /\ PlaybackSubset

-----------------------------------------------------------------------------
(* Properties of the run.                                                  *)

\* A program that was aborted left nothing behind: no piece of output, no file.
NothingDone == out = <<>> /\ (\A p \in Paths : disk[p] = Old) /\ srt = {}

\* Exit codes 1 and 2 come with one error on stderr, 0 with none, and 2 stands
\* for a refused command line alone (EdgeTtsCommandDispatcher.hpp:66-68); a
\* status that is none of them means an exception on the way to the output, in
\* a run that has not begun it (InputLoader.cpp:31, 46-48).
ExitExplained ==
  /\ complained <= 1
  /\ stage = "exit" =>
       /\ exit \in {1, 2} <=> complained = 1
       /\ exit = 2 <=> parsed.action = "error"
       /\ exit \notin {0, 1, 2} =>
            parsed.action \in {"synthesize", "list_voices"} /\ NothingDone

\* s holds the first of the places, in their order.
Beginning(s, places) ==
  /\ Range(s) \subseteq places
  /\ \A i, j \in DOMAIN s : i < j => s[i] < s[j]
  /\ \A p \in places, q \in Range(s) : p < q => p \in Range(s)

Subtitles == arguments["write_subtitles"]

\* The text the command line names, of which stdin may be cut off.
TextGiven ==
  CASE arguments["text"] # Absent -> {arguments["text"]}
    [] arguments["text"] = Absent /\ arguments["file"] = "-" -> {"stdin", "cut"}
    [] OTHER -> {arguments["file"]}

\* A run that ends with 0 spoke the text it was given and left everything at
\* its place: audio in order on stdout or in its file, cues in their file or on
\* stderr; only what a stream lost unnoticed, and a media file the subtitles
\* were written over, are excepted (EdgeTtsCommandDispatcher.cpp:117-231).
OutputDelivered ==
  exit = 0 /\ asked # Absent /\ ~lost =>
    /\ asked \in TextGiven
    /\ LET media == arguments["write_media"]
       IN  IF media \in Paths
           THEN /\ out = <<>>
                /\ media # Subtitles => disk[media] = Holding(AudioOf(chunks))
           ELSE Beginning(out, AudioOf(chunks)) /\ Range(out) = AudioOf(chunks)
    /\ Subtitles \in Paths => disk[Subtitles] = Holding(CuesOf(chunks))
    /\ srt = IF Subtitles = "-" THEN CuesOf(chunks) ELSE {}

\* Either all of the output is where it belongs, or there is one error and an
\* exit code that says so, or an abort before the first of it
\* (EdgeTtsCommandDispatcher.cpp:117-231).
OutputOrError == OutputDelivered /\ ExitExplained

\* Whatever happens later, stdout holds the first pieces of audio in order, or
\* one message, and nothing else: a pipe never gets subtitles, and an error
\* after half of the output leaves a beginning (EdgeTtsCommandDispatcher.cpp:180-197).
StdoutIsAudio ==
  \/ parsed.action # "synthesize" /\ Len(out) <= 1
  \/ Beginning(out, AudioOf(chunks))

\* A file is touched only when the whole answer was accepted, broken boundaries
\* refuse it even if nobody wants subtitles, and the subtitles come after a
\* media file that was written (EdgeTtsCommandDispatcher.cpp:176-227).
FilesAfterAnswer ==
  (\E p \in Paths : disk[p] # Old) =>
    /\ \A i, j \in CuesOf(chunks) : chunks[i] # "early" /\ chunks[i] = chunks[j]
    /\ next = Len(chunks) + 1
    /\ (Subtitles \in Paths /\ Subtitles # arguments["write_media"] /\ disk[Subtitles] # Old) =>
         \A p \in Paths \ {Subtitles} : disk[p].state = "torn" => lost

\* What an error leaves behind is a beginning of the right output, in the right
\* order: stdout, the media file, the subtitles (EdgeTtsCommandDispatcher.cpp:176-227).
OutputBegun == StdoutIsAudio /\ FilesAfterAnswer

\* On a terminal nothing is synthesised for stdout before the user agreed, and
\* without an answer the program ends with nothing done
\* (EdgeTtsCommandDispatcher.cpp:155-167).
NothingUnconfirmed ==
  (/\ terminal /\ parsed.action = "synthesize" /\ arguments["write_media"] = Absent
   /\ (asked # Absent \/ out # <<>>)) => confirmed

\* Lost output is an I/O failure and ends the program with 1
\* (EdgeTtsCommandDispatcher.hpp:67, "runtime error (service, synthesis, or
\* file I/O failure)").
LostOutputIsAnError == stage = "exit" /\ lost => exit = 1

\* A run whose input could not be read to its end says so and ends with 1
\* (docs/CLI_COMPATIBILITY.md:60, "When `--file` names a path that does not
\* exist or cannot be read, the error message on stderr contains the supplied
\* path. Exit code 1.").
UnreadInputIsAnError ==
  stage = "exit" /\ parsed.action = "synthesize" /\ text \in {Absent, "cut"} =>
    exit = 1 /\ complained = 1
=============================================================================
