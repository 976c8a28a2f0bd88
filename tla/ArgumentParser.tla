--------------------------- MODULE ArgumentParser ---------------------------
(***************************************************************************)
(* The command lines of edge-tts and edge-playback.  The two parsers are   *)
(* written apart, with the same loop; what differs is the table of options *)
(* that a program is given by here.                                        *)
(*                                                                         *)
(* A token is [form, name, attached]: "long" for --name or --name=value,   *)
(* "short" for -n or -nvalue, "word" for a token is_option_token() does    *)
(* not take for an option, "-" among them, whose text is its value.        *)
(***************************************************************************)
EXTENDS Integers, Sequences, SequencesExt

Absent == "absent"      \* an optional that holds nothing, a token without a value
Set == "set"            \* the value of a flag that was given

Long(name, value) == [form |-> "long", name |-> name, attached |-> value]
Short(name, value) == [form |-> "short", name |-> name, attached |-> value]
Word(value) == [form |-> "word", name |-> Absent, attached |-> value]

Token ==
  {t \in [form : {"long", "short", "word"}, name : STRING, attached : STRING] :
     t.form = "word" => t.attached # Absent}

Configuration == {"voice", "rate", "volume", "pitch"}

edge_tts ==
  [values |-> Configuration \cup {"text", "file", "write_media", "write_subtitles", "proxy"},
   flags |-> {Long("list_voices", Absent), Short("l", Absent)}, flag |-> "list_voices",
   messages |-> {"help", "version"}, inputs |-> {"text", "file", "list_voices"},
   action |-> "synthesize"]

edge_playback ==
  [values |-> Configuration \cup {"text", "file", "proxy"},
   flags |-> {Long("mpv", Absent)}, flag |-> "mpv",
   messages |-> {"help"}, inputs |-> {"text", "file"}, action |-> "play"]

Option == edge_tts.values \cup {"list_voices", "mpv"}

\* The members hold their defaults: every optional is empty, voice, rate,
\* volume and pitch are the documented ones.
DefaultArguments == [o \in Option |-> Absent]

Refused == [action |-> "error", arguments |-> DefaultArguments, exit_code |-> 2]
Accepted(action, arguments) ==
  [action |-> action, arguments |-> arguments, exit_code |-> 0]

-----------------------------------------------------------------------------
(* The tokens.                                                             *)

is_option_token(token) == token.form # "word"

ShortName == [t |-> "text", f |-> "file", v |-> "voice"]

\* The option a token stands for, if the program has it.
OptionOf(program, token) ==
  CASE token.form = "long" /\ token.name \in program.values -> token.name
    [] token.form = "short" /\ token.name \in DOMAIN ShortName -> ShortName[token.name]
    [] OTHER -> Absent

\* -h, --help and --version, without anything attached.
MessageOf(program, token) ==
  CASE token.attached = Absent /\ token.form = "short" /\ token.name = "h" -> "help"
    [] token.attached = Absent /\ token.form = "long" /\ token.name \in program.messages ->
         token.name
    [] OTHER -> Absent

HasNextValue(tokens, i) == i < Len(tokens) /\ ~is_option_token(tokens[i + 1])

\* The value of an option: what is attached to it, or else the next token.
ValueAt(tokens, i) ==
  CASE tokens[i].attached # Absent -> tokens[i].attached
    [] tokens[i].attached = Absent /\ HasNextValue(tokens, i) -> tokens[i + 1].attached
    [] OTHER -> Absent

\* A proxy needs a scheme: "url" is the only value here that holds "://".
Valid(option, value) == value # Absent /\ (option = "proxy" => value = "url")

-----------------------------------------------------------------------------
(* do_parse: the loop over the tokens, at most one iteration for each.     *)

\* Mutant: the first value of an option is kept.
Store_First(arguments, option, value) ==
  IF arguments[option] = Absent THEN [arguments EXCEPT ![option] = value] ELSE arguments

Store(arguments, option, value) == [arguments EXCEPT ![option] = value]

Iteration(program, tokens, loop) ==
  IF loop.i > Len(tokens) \/ loop.failed
  THEN loop
  ELSE LET token == tokens[loop.i]
           option == OptionOf(program, token)
           value == ValueAt(tokens, loop.i)
       IN  CASE token \in program.flags ->
                  [loop EXCEPT !.i = @ + 1, !.arguments = Store(@, program.flag, Set)]
             [] token \notin program.flags /\ option # Absent /\ Valid(option, value) ->
                  [loop EXCEPT !.i = @ + (IF token.attached = Absent THEN 2 ELSE 1),
                               !.arguments = Store(@, option, value)]
             [] OTHER -> [loop EXCEPT !.failed = TRUE]

Start == [i |-> 1, failed |-> FALSE, arguments |-> DefaultArguments]

Loop(program, tokens) ==
  LET after[n \in 0..Len(tokens)] ==
        IF n = 0 THEN Start ELSE Iteration(program, tokens, after[n - 1])
  IN  after[Len(tokens)]

\* Exactly one member of the required group.
InputsGiven(program, arguments) ==
  \E o \in program.inputs :
    arguments[o] # Absent /\ \A p \in program.inputs \ {o} : arguments[p] = Absent

\* Help and version go before everything else, the first of them wins.
do_parse(program, tokens) ==
  LET first == SelectInSeq(tokens, LAMBDA t : MessageOf(program, t) # Absent)
      loop == Loop(program, tokens)
  IN  CASE first # 0 -> Accepted(MessageOf(program, tokens[first]), DefaultArguments)
        [] first = 0 /\ ~loop.failed /\ InputsGiven(program, loop.arguments) ->
             Accepted(IF loop.arguments["list_voices"] = Set
                        THEN "list_voices" ELSE program.action, loop.arguments)
        [] OTHER -> Refused
=============================================================================
