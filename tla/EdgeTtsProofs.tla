--------------------------- MODULE EdgeTtsProofs -----------------------------
(***************************************************************************)
(* Proofs about edge-tts, for command lines and answers of any length.     *)
(***************************************************************************)
EXTENDS EdgeTts, FiniteSetTheorems, WellFoundedInduction, TLAPS

Output == {"synthesize", "route", "media", "subtitles", "flush"}

\* What the parser hands on when it refuses, or answers with a message.
LEMMA RefusedHasNoProxy ==
  ASSUME NEW program, NEW line, do_parse(program, line).arguments["proxy"] # Absent,
         program.action # "error"
  PROVE  do_parse(program, line).action # "error"
<1>1. DefaultArguments["proxy"] = Absent
  BY DEF DefaultArguments, Option, edge_tts
<1>2. Refused.arguments = DefaultArguments
  BY DEF Refused
<1>3. \A action, args : Accepted(action, args).action = action /\ Accepted(action, args).arguments = args
  BY DEF Accepted
<1> QED BY <1>1, <1>2, <1>3 DEF do_parse

-----------------------------------------------------------------------------
(* The exit code.                                                          *)

\* An exit code only at the end, and what stands behind it.
Reason ==
  /\ stage \in {"parse", "dispatch", "voices", "load", "confirm", "exit"} \cup Output
  /\ stage # "exit" => complained = 0 /\ exit = NoExit
  /\ stage = "exit" => \/ exit = 0 /\ complained = 0 /\ parsed.action # "error"
                       \/ exit = 1 /\ complained = 1 /\ parsed.action # "error"
                       \/ exit = 2 /\ complained = 1 /\ parsed.action = "error"
                       \/ exit = Aborted /\ complained = 0 /\ parsed.action # "error"
  /\ stage \notin {"parse", "dispatch", "exit"} => parsed.action # "error"

\* A step from one stage to another, or to an end.
Moves ==
  \/ stage' \notin {"parse", "dispatch", "exit"} /\ UNCHANGED <<complained, exit>>
  \/ Fail(1)
  \/ Leave(0) /\ UNCHANGED complained
  \/ Abort

LEMMA MovesReason ==
  ASSUME Reason, stage # "exit", parsed'.action # "error", Moves,
         stage' \in {"voices", "load", "confirm", "exit"} \cup Output
  PROVE  Reason'
<1>1. complained = 0 /\ exit = NoExit
  BY DEF Reason
<1>2. CASE stage' \notin {"parse", "dispatch", "exit"} /\ UNCHANGED <<complained, exit>>
  BY <1>1, <1>2 DEF Reason
<1>3. CASE Fail(1)
  BY <1>1, <1>3 DEF Reason, Fail, Leave
<1>4. CASE Leave(0) /\ UNCHANGED complained
  BY <1>1, <1>4 DEF Reason, Leave
<1>5. CASE Abort
  BY <1>1, <1>5 DEF Reason, Abort, Leave
<1> QED BY <1>2, <1>3, <1>4, <1>5 DEF Moves

LEMMA StepReason ==
  ASSUME Reason, [Next]_vars
  PROVE  Reason'
<1>1. CASE Parse
  <2>1. parsed' = do_parse(edge_tts, tokens) /\ complained = 0 /\ exit = NoExit
    BY <1>1 DEF Parse, Reason
  <2>2. CASE parsed'.arguments["proxy"] # Absent
    <3>1. edge_tts.action # "error"
      BY DEF edge_tts
    <3>2. parsed'.action # "error"
      BY <2>1, <2>2, <3>1, RefusedHasNoProxy
    <3> QED BY <1>1, <2>1, <2>2, <3>2 DEF Parse, Fail, Leave, Reason
  <2>3. CASE parsed'.arguments["proxy"] = Absent
    BY <1>1, <2>1, <2>3 DEF Parse, GoTo, Reason
  <2> QED BY <2>2, <2>3
<1>2. CASE Dispatch
  <2>1. stage = "dispatch" /\ UNCHANGED parsed /\ complained = 0 /\ exit = NoExit
    BY <1>2 DEF Dispatch, input, Reason
  <2>2. CASE DispatchError
    BY <2>1, <2>2 DEF DispatchError, Fail, Leave, Reason
  <2>3. CASE ~DispatchError
    <3>1. /\ parsed.action \in {"help", "version", "list_voices", "synthesize"}
          /\ Moves /\ stage' \in {"voices", "load", "exit"}
      BY <1>2, <2>3 DEF Dispatch, Moves, GoTo, Leave
    <3> QED BY <2>1, <3>1, MovesReason
  <2> QED BY <2>2, <2>3
<1>3. CASE DispatchListVoices \/ Load \/ Confirm \/ Synthesize
  <2>1. /\ stage \notin {"parse", "dispatch", "exit"} /\ UNCHANGED parsed
        /\ Moves /\ stage' \in {"confirm", "exit"} \cup Output
    BY <1>3 DEF DispatchListVoices, Load, LoadFile, Confirm, Synthesize, Moves, GoTo, Fail, Abort, Leave, input,
                Output
  <2> QED BY <2>1, MovesReason DEF Reason
<1>4. CASE Route \/ Routed \/ WriteMedia \/ WriteSubtitles \/ Flush
  <2>1. /\ stage \in Output /\ UNCHANGED parsed
        /\ Moves /\ stage' \in {"exit"} \cup Output
    BY <1>4 DEF Route, Routed, WriteMedia, WriteSubtitles, WriteFile, Flush, Moves, GoTo, Fail,
                Leave, input, Output
  <2> QED BY <2>1, MovesReason DEF Reason, Output
<1>5. CASE UNCHANGED vars
  BY <1>5 DEF vars, input, Reason
<1> QED BY <1>1, <1>2, <1>3, <1>4, <1>5 DEF Next

LEMMA ReasonInvariant == Spec => []Reason
<1>1. ASSUME Init PROVE Reason
  BY <1>1 DEF Init, Reason
<1>2. ASSUME Reason, [Next]_vars PROVE Reason'
  BY <1>2, StepReason
<1> QED BY <1>1, <1>2, PTL DEF Spec

\* The stages before the first piece of output.
Early == {"parse", "dispatch", "voices", "load", "confirm", "synthesize"}

\* Up to the answer nothing is done, and only there can an exception end the
\* program.
Untouched ==
  /\ stage \in Early => NothingDone
  /\ stage \in Early \ {"parse", "dispatch"} => parsed.action \in {"synthesize", "list_voices"}
  /\ stage = "exit" /\ exit \notin {0, 1, 2} =>
       parsed.action \in {"synthesize", "list_voices"} /\ NothingDone

LEMMA StepUntouched ==
  ASSUME Reason, Untouched, [Next]_vars
  PROVE  Untouched'
<1>1. CASE Parse
  <2>1. /\ stage = "parse" /\ UNCHANGED <<out, disk, srt>>
        /\ stage' = "dispatch" \/ (stage' = "exit" /\ exit' = 1)
    BY <1>1 DEF Parse, GoTo, Fail, Leave
  <2> QED BY <2>1 DEF Untouched, Early, NothingDone
<1>2. CASE Dispatch
  <2>1. stage = "dispatch" /\ UNCHANGED <<parsed, disk, srt>>
    BY <1>2 DEF Dispatch, input
  <2>2. \/ stage' = "exit" /\ exit' \in {0, 2}
        \/ /\ stage' \in {"voices", "load"} /\ UNCHANGED out
           /\ parsed.action \in {"synthesize", "list_voices"}
    BY <1>2 DEF Dispatch, DispatchError, GoTo, Fail, Leave
  <2> QED BY <2>1, <2>2 DEF Untouched, Early, NothingDone
<1>3. CASE DispatchListVoices \/ Load \/ Confirm \/ Synthesize
  <2>1. /\ stage \in Early \ {"parse", "dispatch"} /\ UNCHANGED <<parsed, disk, srt>>
        /\ \/ stage' = "exit" /\ exit' \in {0, 1}
           \/ stage' = "exit" /\ UNCHANGED out
           \/ stage' \in {"confirm", "synthesize", "route"} /\ UNCHANGED out
    BY <1>3 DEF DispatchListVoices, Load, LoadFile, Confirm, Synthesize, GoTo, Fail, Abort,
                Leave, input, Early
  <2> QED BY <2>1 DEF Untouched, Early, NothingDone
<1>4. CASE Route \/ Routed \/ WriteMedia \/ WriteSubtitles \/ Flush
  <2>1. \/ stage' = "exit" /\ exit' \in {0, 1}
        \/ stage' \in {"route", "media", "subtitles", "flush"}
    BY <1>4 DEF Route, Routed, WriteMedia, WriteSubtitles, WriteFile, Flush, GoTo, Fail, Leave
  <2> QED BY <2>1 DEF Untouched, Early
<1>5. CASE UNCHANGED vars
  BY <1>5 DEF vars, input, Untouched, NothingDone
<1> QED BY <1>1, <1>2, <1>3, <1>4, <1>5 DEF Next

\* Exit codes 1 and 2 come with one error, 0 with none, and 2 stands for a
\* refused command line alone; a program that an exception ended had not begun
\* its output, whatever the line, the answer and the files.
THEOREM EveryExitExplained == Spec => []ExitExplained
<1>1. ASSUME Init PROVE Untouched
  BY <1>1 DEF Init, Untouched, Early, NothingDone
<1>2. ASSUME Reason, Untouched, [Next]_vars PROVE Untouched'
  BY <1>2, StepUntouched
<1>3. ASSUME Reason, Untouched PROVE ExitExplained
  BY <1>3 DEF Reason, Untouched, ExitExplained, Aborted
<1> QED BY <1>1, <1>2, <1>3, ReasonInvariant, PTL DEF Spec

-----------------------------------------------------------------------------
(* The warning.                                                            *)

Prompted == terminal /\ parsed.action = "synthesize" /\ arguments["write_media"] = Absent

\* Nothing was asked for or written before the question, and who got past it
\* said yes.
Asked ==
  /\ stage \in {"parse", "dispatch", "voices", "load", "confirm"} => asked = Absent /\ out = <<>>
  /\ stage = "voices" => parsed.action = "list_voices"
  /\ Prompted /\ stage \in Output => confirmed
  /\ NothingUnconfirmed

LEMMA StepAsked ==
  ASSUME Reason, Asked, [Next]_vars
  PROVE  Asked'
<1> USE DEF Asked, Prompted, Output, NothingUnconfirmed, arguments
<1>1. CASE Parse
  <2>1. stage' \in {"dispatch", "exit"} /\ asked' = Absent /\ out' = <<>>
    BY <1>1 DEF Parse, GoTo, Fail, Leave
  <2> QED BY <2>1
<1>2. CASE Dispatch
  <2>1. stage = "dispatch" /\ UNCHANGED <<parsed, asked, terminal, confirmed>>
    BY <1>2 DEF Dispatch, input
  <2>2. CASE parsed.action \in {"help", "version"}
    BY <1>2, <2>1, <2>2 DEF Dispatch, Leave, GoTo, DispatchError
  <2>3. CASE parsed.action \notin {"help", "version"}
    <3>1. UNCHANGED out /\ stage' \in {"exit", "voices", "load"}
          /\ (stage' = "voices" => parsed.action = "list_voices")
      BY <1>2, <2>3 DEF Dispatch, DispatchError, Fail, Leave, GoTo
    <3> QED BY <2>1, <3>1
  <2> QED BY <2>2, <2>3
<1>3. CASE DispatchListVoices
  <2>1. parsed'.action = "list_voices" /\ stage' = "exit"
    BY <1>3 DEF DispatchListVoices, Fail, Abort, Leave, input
  <2> QED BY <2>1
<1>4. CASE Load
  <2>1. stage = "load" /\ stage' \in {"confirm", "exit"} /\ UNCHANGED <<asked, out>>
    BY <1>4 DEF Load, LoadFile, GoTo, Fail, Abort, Leave
  <2> QED BY <2>1
<1>5. CASE Confirm
  <2>1. /\ stage = "confirm" /\ UNCHANGED <<parsed, asked, out, terminal>>
        /\ \/ stage' = "exit"
           \/ stage' = "synthesize" /\ (~Warned \/ confirmed')
    BY <1>5 DEF Confirm, GoTo, Leave
  <2> QED BY <2>1 DEF Warned
<1>6. CASE Synthesize
  <2>1. /\ stage = "synthesize" /\ UNCHANGED <<parsed, out, terminal, confirmed>>
        /\ stage' \in {"route", "exit"}
    BY <1>6 DEF Synthesize, GoTo, Fail, Abort, Leave
  <2> QED BY <2>1
<1>7. CASE Route \/ Routed \/ WriteMedia \/ WriteSubtitles \/ Flush
  <2>1. /\ stage \in Output /\ UNCHANGED <<parsed, asked, terminal, confirmed>>
        /\ stage' \in {"exit"} \cup Output
    BY <1>7 DEF Route, Routed, WriteMedia, WriteSubtitles, WriteFile, Flush, GoTo, Fail, Leave,
                input
  <2> QED BY <2>1
<1>8. CASE UNCHANGED vars
  BY <1>8 DEF vars, input
<1> QED BY <1>1, <1>2, <1>3, <1>4, <1>5, <1>6, <1>7, <1>8 DEF Next

LEMMA AskedInvariant == Spec => []Asked
<1>1. ASSUME Init PROVE Asked
  BY <1>1 DEF Init, Asked, Output, NothingUnconfirmed
<1>2. ASSUME Reason, Asked, [Next]_vars PROVE Asked'
  BY <1>2, StepAsked
<1> QED BY <1>1, <1>2, ReasonInvariant, PTL DEF Spec

\* On a terminal nothing is asked of the service for stdout, and nothing
\* reaches stdout, before the user agreed.
THEOREM NothingIsUnconfirmed == Spec => []NothingUnconfirmed
<1>1. ASSUME Asked PROVE NothingUnconfirmed
  BY <1>1 DEF Asked
<1> QED BY <1>1, AskedInvariant, PTL

-----------------------------------------------------------------------------
(* The files.                                                              *)

Before == {"parse", "dispatch", "voices", "load", "confirm", "synthesize"}

\* The routing loop has fed the boundaries before its place, and goes on to the
\* files when it has fed all.
Fed ==
  /\ chunks \in Seq(Kind) /\ next \in Nat /\ next >= 1
  /\ stage \in Before => next = 1
  /\ stage = "route" =>
       next <= Len(chunks) + 1 /\ \A i \in CuesOf(chunks) : i < next => Feeds(i)
  /\ stage \in {"media", "subtitles", "flush"} =>
       next = Len(chunks) + 1 /\ \A i \in CuesOf(chunks) : Feeds(i)

LEMMA StepFed ==
  ASSUME Fed, Reason, [Next]_vars
  PROVE  Fed'
<1> USE DEF Fed, Before
<1>1. CASE Parse \/ Dispatch \/ DispatchListVoices \/ Load \/ Confirm
  <2>1. /\ stage \in Before /\ UNCHANGED <<chunks, next>>
        /\ stage' \in {"dispatch", "voices", "load", "confirm", "synthesize", "exit"}
    BY <1>1 DEF Parse, Dispatch, DispatchError, DispatchListVoices, Load, LoadFile, Confirm, GoTo, Fail,
                Abort, Leave
  <2> QED BY <2>1
<1>2. CASE Synthesize
  <2>1. stage \in Before /\ UNCHANGED next
    BY <1>2 DEF Synthesize
  <2>2. CASE chunks' \in Answers /\ stage' = "route"
    <3>1. chunks' \in Seq(Kind) /\ next = 1
      BY <2>1, <2>2, AnswersAssumption
    <3>2. \A i \in CuesOf(chunks') : i \in Nat /\ i >= 1
      BY <3>1 DEF CuesOf
    <3>3. Len(chunks') \in Nat
      BY <3>1
    <3> QED BY <2>1, <2>2, <3>1, <3>2, <3>3
  <2>3. CASE stage' = "exit" /\ UNCHANGED chunks
    BY <2>1, <2>3
  <2> QED BY <1>2, <2>2, <2>3 DEF Synthesize, GoTo, Fail, Abort, Leave
<1>3. CASE Route
  <2>1. /\ stage = "route" /\ next <= Len(chunks) /\ next' = next + 1 /\ UNCHANGED chunks
        /\ \/ stage' = "exit"
           \/ stage' = "route" /\ (IsBoundary(chunks[next]) => Feeds(next))
    BY <1>3 DEF Route, GoTo, Fail, Leave
  <2>2. CASE stage' = "exit"
    BY <2>1, <2>2
  <2>3. CASE stage' = "route"
    <3>1. next' \in Nat /\ next' <= Len(chunks) + 1
      BY <2>1
    <3>2. ASSUME NEW i \in CuesOf(chunks), i < next' PROVE Feeds(i)
      <4>1. i \in Nat /\ IsBoundary(chunks[i])
        BY DEF CuesOf
      <4>2. i < next \/ i = next
        BY <2>1, <3>2, <4>1
      <4> QED BY <2>1, <2>3, <4>1, <4>2
    <3> QED BY <2>1, <2>3, <3>1, <3>2 DEF Feeds, CuesOf
  <2> QED BY <2>1, <2>2, <2>3
<1>4. CASE Routed
  <2>1. /\ stage = "route" /\ next > Len(chunks) /\ UNCHANGED <<chunks, next>>
        /\ stage' \in {"media", "subtitles"}
    BY <1>4 DEF Routed, GoTo
  <2>2. next = Len(chunks) + 1
    BY <2>1
  <2>3. \A i \in CuesOf(chunks) : i < next
    BY <2>2 DEF CuesOf
  <2> QED BY <2>1, <2>2, <2>3 DEF Feeds, CuesOf
<1>5. CASE WriteMedia \/ WriteSubtitles \/ Flush
  <2>1. /\ stage \in {"media", "subtitles", "flush"} /\ UNCHANGED <<chunks, next>>
        /\ stage' \in {"subtitles", "flush", "exit"}
    BY <1>5 DEF WriteMedia, WriteSubtitles, WriteFile, Flush, GoTo, Fail, Leave
  <2> QED BY <2>1 DEF Feeds, CuesOf
<1>6. CASE UNCHANGED vars
  BY <1>6 DEF vars, Feeds, CuesOf
<1> QED BY <1>1, <1>2, <1>3, <1>4, <1>5, <1>6 DEF Next

LEMMA FedInvariant == Spec => []Fed
<1>1. ASSUME Init PROVE Fed
  BY <1>1 DEF Init, Fed, Before
<1>2. ASSUME Fed, Reason, [Next]_vars PROVE Fed'
  BY <1>2, StepFed
<1> QED BY <1>1, <1>2, ReasonInvariant, PTL DEF Spec

\* Each file is touched in its own stage, the media file first.
OnDisk ==
  /\ disk = [p \in Paths |-> disk[p]]
  /\ stage \in Before \cup {"route", "media"} => \A p \in Paths : disk[p] = Old
  /\ stage = "subtitles" => \A p \in Paths : disk[p].state = "torn" => lost
  /\ FilesAfterAnswer

\* What writing one file does to the disk.
LEMMA OneFile ==
  ASSUME disk = [p \in Paths |-> disk[p]], NEW path, NEW places, NEW after,
         after # "exit", WriteFile(path, places, after)
  PROVE  /\ disk' = [p \in Paths |-> disk'[p]]
         /\ \A p \in Paths : p # path => disk'[p] = disk[p]
         /\ stage' = "exit" \/ (stage' = after /\ (disk'[path].state = "torn" => lost'))
         /\ lost => lost'
<1>1. Holding(places).state = "written"
  BY DEF Holding
<1> QED BY <1>1 DEF WriteFile, GoTo, Fail, Leave

\* An answer whose boundaries were all fed is accepted.
LEMMA AllFed ==
  ASSUME Fed, stage \in {"media", "subtitles", "flush"}
  PROVE  /\ \A i, j \in CuesOf(chunks) : chunks[i] # "early" /\ chunks[i] = chunks[j]
         /\ next = Len(chunks) + 1
<1>1. next = Len(chunks) + 1 /\ \A i \in CuesOf(chunks) : Feeds(i)
  BY DEF Fed
<1>2. ASSUME NEW i \in CuesOf(chunks), NEW j \in CuesOf(chunks)
      PROVE  chunks[i] # "early" /\ chunks[i] = chunks[j]
  <2>1. i \in Int /\ j \in Int
    BY DEF Fed, CuesOf
  <2>2. i < j \/ j < i \/ i = j
    BY <2>1
  <2> QED BY <1>1, <2>2 DEF Feeds
<1> QED BY <1>1, <1>2

LEMMA StepOnDisk ==
  ASSUME Reason, Fed, OnDisk, [Next]_vars
  PROVE  OnDisk'
<1>1. CASE (\A p \in Paths : disk[p] = Old) /\ UNCHANGED disk
  <2>1. \A p \in Paths : disk'[p] = Old /\ disk'[p].state # "torn"
    BY <1>1 DEF Old
  <2> QED BY <1>1, <2>1 DEF OnDisk, FilesAfterAnswer
<1>2. CASE Parse \/ Dispatch \/ DispatchListVoices \/ Load \/ Confirm \/ Synthesize \/ Route
           \/ Routed
  <2>1. stage \in Before \cup {"route", "media"} /\ UNCHANGED disk
    BY <1>2 DEF Parse, Dispatch, DispatchListVoices, Load, LoadFile, Confirm, Synthesize, Route, Routed,
                Before
  <2> QED BY <1>1, <2>1 DEF OnDisk
<1>3. CASE WriteMedia
  <2> DEFINE media == arguments["write_media"]
  <2>1. /\ stage = "media" /\ UNCHANGED <<chunks, next, parsed>>
        /\ WriteFile(media, AudioOf(chunks), "subtitles")
    BY <1>3 DEF WriteMedia, input
  <2>2. /\ disk' = [p \in Paths |-> disk'[p]]
        /\ \A p \in Paths : p # media => disk'[p] = disk[p]
        /\ stage' = "exit" \/ (stage' = "subtitles" /\ (disk'[media].state = "torn" => lost'))
    <3>1. disk = [p \in Paths |-> disk[p]] /\ "subtitles" # "exit"
      BY DEF OnDisk
    <3> HIDE DEF media
    <3> QED BY <2>1, <3>1, OneFile, Zenon
  <2>3. \A p \in Paths : p # media => disk'[p] = Old /\ disk'[p].state # "torn"
    BY <2>1, <2>2 DEF OnDisk, Old
  <2>4. FilesAfterAnswer'
    BY <2>1, <2>3, AllFed DEF FilesAfterAnswer, CuesOf, Subtitles, arguments
  <2> QED BY <2>2, <2>3, <2>4 DEF OnDisk, Before
<1>4. CASE WriteSubtitles
  <2>1. /\ stage = "subtitles" /\ UNCHANGED <<chunks, next, parsed>>
    BY <1>4 DEF WriteSubtitles, input
  <2>2. CASE WriteFile(Subtitles, CuesOf(chunks), "flush")
    <3>1. /\ disk' = [p \in Paths |-> disk'[p]]
          /\ \A p \in Paths : p # Subtitles => disk'[p] = disk[p]
          /\ stage' \in {"exit", "flush"} /\ (lost => lost')
      <4>1. disk = [p \in Paths |-> disk[p]] /\ "flush" # "exit"
        BY DEF OnDisk
      <4> QED BY <2>2, <4>1, OneFile, Zenon
    <3>2. \A p \in Paths \ {Subtitles} : disk'[p].state = "torn" => lost'
      BY <2>1, <3>1 DEF OnDisk
    <3>3. FilesAfterAnswer'
      BY <2>1, <3>2, AllFed DEF FilesAfterAnswer, CuesOf, Subtitles, arguments
    <3> QED BY <3>1, <3>3 DEF OnDisk, Before
  <2>3. CASE UNCHANGED <<disk, lost>> /\ stage' = "flush"
    BY <2>1, <2>3 DEF OnDisk, FilesAfterAnswer, CuesOf, Subtitles, arguments, Before
  <2> QED BY <1>4, <2>2, <2>3 DEF WriteSubtitles, GoTo, Subtitles
<1>5. CASE Flush \/ UNCHANGED vars
  <2>1. /\ UNCHANGED <<disk, lost, chunks, next, parsed>>
        /\ stage' = stage \/ stage' = "exit"
    BY <1>5 DEF Flush, Leave, vars, input
  <2> QED BY <2>1 DEF OnDisk, FilesAfterAnswer, CuesOf, Subtitles, arguments, Before
<1> QED BY <1>2, <1>3, <1>4, <1>5 DEF Next

LEMMA OnDiskInvariant == Spec => []OnDisk
<1>1. ASSUME Init PROVE OnDisk
  BY <1>1 DEF Init, OnDisk, FilesAfterAnswer
<1>2. ASSUME Reason, Fed, OnDisk, [Next]_vars PROVE OnDisk'
  BY <1>2, StepOnDisk
<1> QED BY <1>1, <1>2, ReasonInvariant, FedInvariant, PTL DEF Spec

\* No file is touched before the whole answer was routed and its boundaries
\* accepted, and the subtitles never stand beside a media file that is known to
\* be torn.
THEOREM FilesComeAfterTheAnswer == Spec => []FilesAfterAnswer
<1>1. ASSUME OnDisk PROVE FilesAfterAnswer
  BY <1>1 DEF OnDisk
<1> QED BY <1>1, OnDiskInvariant, PTL

-----------------------------------------------------------------------------
(* The output.                                                             *)

LEMMA RangeAppend ==
  ASSUME NEW T, NEW s \in Seq(T), NEW m \in T
  PROVE  Range(Append(s, m)) = Range(s) \cup {m}
<1>1. DOMAIN Append(s, m) = 1..(Len(s) + 1) /\ DOMAIN s = 1..Len(s) /\ Len(s) \in Nat
  OBVIOUS
<1>2. Append(s, m)[Len(s) + 1] = m /\ \A i \in 1..Len(s) : Append(s, m)[i] = s[i]
  OBVIOUS
<1>3. ASSUME NEW x \in Range(Append(s, m)) PROVE x \in Range(s) \cup {m}
  <2>1. PICK i \in 1..(Len(s) + 1) : x = Append(s, m)[i]
    BY <1>1, <1>3 DEF Range
  <2>2. i \in 1..Len(s) \/ i = Len(s) + 1
    BY <1>1
  <2> QED BY <1>1, <1>2, <2>1, <2>2 DEF Range
<1>4. ASSUME NEW x \in Range(s) PROVE x \in Range(Append(s, m))
  <2>1. PICK i \in 1..Len(s) : x = s[i]
    BY <1>1, <1>4 DEF Range
  <2>2. i \in 1..(Len(s) + 1) /\ x = Append(s, m)[i]
    BY <1>1, <1>2, <2>1
  <2> QED BY <1>1, <2>2 DEF Range
<1>5. m \in Range(Append(s, m))
  <2>1. Len(s) + 1 \in 1..(Len(s) + 1)
    BY <1>1
  <2> QED BY <1>1, <1>2, <2>1 DEF Range
<1> QED BY <1>3, <1>4, <1>5

\* The audio the routing loop has passed.
Passed == {i \in AudioOf(chunks) : i < next}

\* stdout during the routing loop and after it.
Routing ==
  /\ out \in Seq(Nat)
  /\ Beginning(out, AudioOf(chunks))
  /\ Range(out) \subseteq Passed
  /\ media_to_file => out = <<>>
  /\ ~media_to_file /\ ~lost => Range(out) = Passed

Synthesizing == {"load", "confirm"} \cup Output
AfterAnswer == {"route", "media", "subtitles", "flush"}

\* Inductive: what the line asks for, what is spoken, and stdout.
Spoken ==
  /\ stage # "parse" /\ parsed.action = "synthesize" => InputsGiven(edge_tts, arguments)
  /\ stage \in Synthesizing => parsed.action = "synthesize"
  /\ stage \in {"confirm"} \cup Output => text \in TextGiven
  /\ stage \in AfterAnswer => asked \in TextGiven
  /\ out_bad => lost
  /\ stage \in Before \cup {"route"} => (lost => out_bad)
  /\ stage \in Before => out = <<>> /\ srt = {}
  /\ stage \in AfterAnswer => Routing

\* Inductive: the files, and the cues on stderr, stage by stage.
Written ==
  /\ stage \in {"subtitles", "flush"} /\ media_to_file =>
       /\ arguments["write_media"] \in Paths
       /\ (~lost /\ (stage = "flush" => arguments["write_media"] # Subtitles)) =>
            disk[arguments["write_media"]] = Holding(AudioOf(chunks))
  /\ stage \in {"route", "media", "subtitles"} => srt = {}
  /\ stage = "flush" =>
       /\ Subtitles \in Paths /\ ~lost => disk[Subtitles] = Holding(CuesOf(chunks))
       /\ srt = IF Subtitles = "-" THEN CuesOf(chunks) ELSE {}

\* The parser hands on a line to be spoken only with one input named.
LEMMA OneInput ==
  ASSUME NEW line, do_parse(edge_tts, line).action = "synthesize"
  PROVE  InputsGiven(edge_tts, do_parse(edge_tts, line).arguments)
<1> DEFINE first == SelectInSeq(line, LAMBDA t : MessageOf(edge_tts, t) # Absent)
           loop == Loop(edge_tts, line)
<1>1. MessageOf(edge_tts, line[first]) # "synthesize"
  BY DEF MessageOf, edge_tts, Absent
<1>2. Refused.action # "synthesize"
  BY DEF Refused
<1>3. \A action, args : Accepted(action, args).action = action /\ Accepted(action, args).arguments = args
  BY DEF Accepted
<1> HIDE DEF first, loop
<1>4. do_parse(edge_tts, line) =
        CASE first # 0 -> Accepted(MessageOf(edge_tts, line[first]), DefaultArguments)
          [] first = 0 /\ ~loop.failed /\ InputsGiven(edge_tts, loop.arguments) ->
               Accepted(IF loop.arguments["list_voices"] = Set
                          THEN "list_voices" ELSE edge_tts.action, loop.arguments)
          [] OTHER -> Refused
  BY DEF do_parse, first, loop
<1>5. CASE first # 0
  BY <1>1, <1>3, <1>4, <1>5
<1>6. CASE first = 0 /\ ~loop.failed /\ InputsGiven(edge_tts, loop.arguments)
  BY <1>3, <1>4, <1>6
<1>7. CASE first = 0 /\ ~(~loop.failed /\ InputsGiven(edge_tts, loop.arguments))
  BY <1>2, <1>4, <1>7
<1> QED BY <1>5, <1>6, <1>7

\* What a write to stdout does to the loop's output.
LEMMA WriteOutRouting ==
  ASSUME Fed, Routing, next \in AudioOf(chunks), ~media_to_file, out_bad <=> lost,
         WriteOut(next), next' = next + 1, UNCHANGED <<chunks, parsed>>
  PROVE  Routing' /\ (out_bad' <=> lost')
<1>1. /\ next \in Nat /\ AudioOf(chunks) \subseteq Nat /\ UNCHANGED media_to_file
      /\ AudioOf(chunks)' = AudioOf(chunks)
  BY DEF Fed, AudioOf, media_to_file, arguments
<1>2. Passed' = Passed \cup {next}
  BY <1>1 DEF Passed
<1>3. CASE ~out_bad /\ out' = Append(out, next) /\ UNCHANGED <<out_bad, lost>>
  <2>1. out \in Seq(Nat) /\ \A q \in Range(out) : q \in Nat /\ q < next
    BY <1>1 DEF Routing, Passed
  <2>2. Range(out') = Range(out) \cup {next} /\ out' \in Seq(Nat)
    BY <1>1, <1>3, <2>1, RangeAppend
  <2>3. ASSUME NEW i \in DOMAIN out', NEW j \in DOMAIN out', i < j PROVE out'[i] < out'[j]
    <3>1. i \in 1..(Len(out) + 1) /\ j \in 1..(Len(out) + 1) /\ Len(out) \in Nat
      BY <1>3, <2>1
    <3>2. i \in DOMAIN out /\ out'[i] = out[i] /\ out[i] \in Range(out)
      BY <1>3, <2>1, <2>3, <3>1 DEF Range
    <3>3. CASE j = Len(out) + 1
      BY <1>3, <2>1, <3>2, <3>3
    <3>4. CASE j # Len(out) + 1
      <4>1. j \in DOMAIN out /\ out'[j] = out[j]
        BY <1>3, <2>1, <3>1, <3>4
      <4> QED BY <2>3, <3>2, <4>1 DEF Routing, Beginning
    <3> QED BY <3>3, <3>4
  <2>4. ~lost => Range(out) = Passed
    BY DEF Routing
  <2>5. ASSUME NEW p \in AudioOf(chunks), NEW q \in Range(out'), p < q PROVE p \in Range(out')
    <3>1. CASE q \in Range(out)
      BY <2>2, <2>5, <3>1 DEF Routing, Beginning
    <3>2. CASE q = next
      BY <1>3, <2>2, <2>4, <2>5, <3>2 DEF Passed
    <3> QED BY <2>2, <3>1, <3>2
  <2> QED BY <1>1, <1>2, <1>3, <2>2, <2>3, <2>4, <2>5 DEF Routing, Beginning
<1>4. CASE out_bad' = TRUE /\ lost' = TRUE /\ UNCHANGED out
  BY <1>1, <1>2, <1>4 DEF Routing, Beginning
<1> QED BY <1>3, <1>4 DEF WriteOut


\* The loader takes the text the line names.
LEMMA LoadsText ==
  ASSUME InputsGiven(edge_tts, arguments), Load, stage' # "exit"
  PROVE  text' \in TextGiven
<1>1. PICK o \in {"text", "file", "list_voices"} :
        arguments[o] # Absent /\ \A p \in {"text", "file", "list_voices"} \ {o} : arguments[p] = Absent
  BY DEF InputsGiven, edge_tts
<1>2. arguments["text"] = Absent \/ arguments["file"] = Absent
  BY <1>1
<1>3. \/ arguments["text"] # Absent /\ text' = arguments["text"]
      \/ arguments["file"] = "-" /\ text' \in {"stdin", "cut"}
      \/ arguments["file"] \notin {Absent, "-"} /\ text' = arguments["file"]
  BY DEF Load, LoadFile, Fail, Abort, Leave
<1>4. Absent # "-"
  BY DEF Absent
<1> QED BY <1>2, <1>3, <1>4 DEF TextGiven

LEMMA StepSpoken ==
  ASSUME Fed, Fed', Asked, Reason, Spoken, [Next]_vars
  PROVE  Spoken'
<1> USE DEF Spoken
<1>1. CASE Parse
  <2>1. /\ stage = "parse" /\ stage' \in {"dispatch", "exit"}
        /\ UNCHANGED <<out, out_bad, lost, srt>> /\ parsed' = do_parse(edge_tts, tokens)
    BY <1>1 DEF Parse, GoTo, Fail, Leave
  <2>2. parsed'.action = "synthesize" => InputsGiven(edge_tts, parsed'.arguments)
    BY <2>1, OneInput
  <2> QED BY <2>1, <2>2 DEF Before, Synthesizing, AfterAnswer, Output, arguments
<1>2. CASE Dispatch
  <2>1. /\ stage = "dispatch" /\ UNCHANGED <<parsed, srt>>
    BY <1>2 DEF Dispatch, input
  <2>2. CASE stage' = "exit"
    <3>1. out_bad' => lost'
      BY <1>2, <2>1, <2>2 DEF Dispatch, DispatchError, WriteOut, GoTo
    <3> QED BY <2>1, <2>2, <3>1 DEF Before, Synthesizing, AfterAnswer, Output, arguments
  <2>3. CASE stage' # "exit"
    <3>1. UNCHANGED <<out, out_bad, lost>> /\ stage' \in {"voices", "load"}
          /\ (stage' = "load" => parsed.action = "synthesize")
      BY <1>2, <2>3 DEF Dispatch, DispatchError, GoTo, Fail, Leave
    <3> QED BY <2>1, <3>1 DEF Before, Synthesizing, AfterAnswer, Output, arguments
  <2> QED BY <2>2, <2>3
<1>3. CASE DispatchListVoices
  <2>1. stage' = "exit" /\ stage = "voices" /\ UNCHANGED parsed /\ (out_bad' => lost')
    BY <1>3 DEF DispatchListVoices, WriteOut, Fail, Abort, Leave, input
  <2> QED BY <2>1 DEF Before, Synthesizing, AfterAnswer, Output, arguments
<1>4. CASE Load
  <2>1. /\ stage = "load" /\ stage' \in {"confirm", "exit"}
        /\ UNCHANGED <<parsed, out, out_bad, lost, srt>>
    BY <1>4 DEF Load, LoadFile, GoTo, Fail, Abort, Leave
  <2>2. stage' = "confirm" => text' \in TextGiven /\ TextGiven' = TextGiven
    BY <1>4, <2>1, LoadsText DEF Synthesizing, TextGiven, arguments
  <2> QED BY <2>1, <2>2 DEF Before, Synthesizing, AfterAnswer, Output, arguments
<1>5. CASE Confirm
  <2>1. /\ stage = "confirm" /\ stage' \in {"synthesize", "exit"}
        /\ UNCHANGED <<parsed, text, out, out_bad, lost, srt>>
    BY <1>5 DEF Confirm, GoTo, Leave
  <2> QED BY <2>1 DEF Before, Synthesizing, AfterAnswer, Output, arguments, TextGiven
<1>6. CASE Synthesize
  <2>1. /\ stage = "synthesize" /\ stage' \in {"route", "exit"} /\ asked' = text
        /\ UNCHANGED <<parsed, text, next, out, out_bad, lost, srt>>
    BY <1>6 DEF Synthesize, GoTo, Fail, Abort, Leave
  <2>2. out = <<>> /\ next = 1
    BY <2>1 DEF Before, Fed
  <2>3. Routing'
    <3>1. Passed' = {}
      <4>1. ASSUME NEW i \in DOMAIN chunks' PROVE i \in Nat /\ i >= 1
        BY DEF Fed
      <4> QED BY <2>1, <2>2, <4>1 DEF Passed, AudioOf
    <3> QED BY <2>1, <2>2, <3>1 DEF Routing, Beginning, Range
  <2> QED BY <2>1, <2>2, <2>3 DEF Before, Synthesizing, AfterAnswer, Output, arguments, TextGiven
<1>7. CASE Route
  <2>1. /\ stage = "route" /\ stage' \in {"route", "exit"} /\ next <= Len(chunks)
        /\ next' = next + 1 /\ UNCHANGED <<parsed, text, asked, chunks, srt>>
    BY <1>7 DEF Route, GoTo, Fail, Leave, input
  <2>2. Routing /\ (out_bad <=> lost)
    BY <2>1 DEF AfterAnswer
  <2>3. next \in DOMAIN chunks /\ next \in Nat
    <3>1. next \in Nat /\ next >= 1 /\ Len(chunks) \in Nat
      BY DEF Fed
    <3> QED BY <2>1, <3>1 DEF Fed
  <2>4. Routing' /\ (out_bad' <=> lost')
    <3>1. CASE UNCHANGED <<out, out_bad, lost>> /\ (IsBoundary(chunks[next]) \/ media_to_file)
      <4>1. IsBoundary(chunks[next]) => Passed' = Passed
        BY <2>1, <2>3 DEF Passed, AudioOf, Fed
      <4>2. Passed \subseteq Passed'
        BY <2>1, <2>3 DEF Passed, AudioOf, Fed
      <4>3. media_to_file' = media_to_file /\ AudioOf(chunks)' = AudioOf(chunks)
        BY <2>1 DEF media_to_file, arguments, AudioOf
      <4> QED BY <2>2, <3>1, <4>1, <4>2, <4>3 DEF Routing
    <3>2. CASE ~IsBoundary(chunks[next]) /\ ~media_to_file /\ WriteOut(next)
      <4>1. next \in AudioOf(chunks)
        BY <2>3, <3>2 DEF AudioOf
      <4> QED BY <2>1, <2>2, <3>2, <4>1, WriteOutRouting
    <3> QED BY <1>7, <3>1, <3>2 DEF Route
  <2> QED BY <2>1, <2>4 DEF Before, Synthesizing, AfterAnswer, Output, arguments, TextGiven
<1>8. CASE Routed \/ WriteMedia \/ WriteSubtitles \/ Flush
  <2>1. /\ stage \in AfterAnswer /\ stage' \in {"media", "subtitles", "flush", "exit"}
        /\ UNCHANGED <<parsed, text, asked, chunks, next, out, out_bad>> /\ (lost => lost')
    BY <1>8 DEF Routed, WriteMedia, WriteSubtitles, WriteFile, Flush, GoTo, Fail, Leave, input,
                AfterAnswer
  <2>2. Routing'
    BY <2>1 DEF Routing, Passed, AudioOf, media_to_file, arguments
  <2> QED BY <2>1, <2>2 DEF Before, Synthesizing, AfterAnswer, Output, arguments, TextGiven
<1>9. CASE UNCHANGED vars
  BY <1>9 DEF vars, input, Before, Synthesizing, AfterAnswer, Output, arguments, TextGiven, Routing,
              Passed, AudioOf, media_to_file
<1> QED BY <1>1, <1>2, <1>3, <1>4, <1>5, <1>6, <1>7, <1>8, <1>9 DEF Next

\* What writing one file does to the disk when nothing goes wrong unnoticed.
LEMMA FileWritten ==
  ASSUME disk = [p \in Paths |-> disk[p]], NEW path, NEW places, NEW after,
         after # "exit", WriteFile(path, places, after), stage' # "exit"
  PROVE  /\ path \in Paths /\ stage' = after
         /\ ~lost' => ~lost /\ disk'[path] = Holding(places)
         /\ \A p \in Paths : p # path => disk'[p] = disk[p]
<1>1. CASE path \in Paths /\ disk' = [disk EXCEPT ![path] = Holding(places)]
           /\ GoTo(after) /\ UNCHANGED lost
  BY <1>1 DEF GoTo
<1>2. CASE path \in Paths /\ disk' = [disk EXCEPT ![path] = Torn] /\ lost' = TRUE /\ GoTo(after)
  BY <1>2 DEF GoTo
<1> QED BY <1>1, <1>2 DEF WriteFile, Fail, Leave

LEMMA StepWritten ==
  ASSUME Fed, Asked, Reason, OnDisk, Spoken, Written, [Next]_vars
  PROVE  Written'
<1> USE DEF Written
<1>1. CASE stage' \notin {"route", "media", "subtitles", "flush"}
  BY <1>1
<1>2. CASE Synthesize
  <2>1. stage' \in {"route", "exit"} /\ stage = "synthesize" /\ UNCHANGED srt
    BY <1>2 DEF Synthesize, GoTo, Fail, Abort, Leave
  <2> QED BY <2>1 DEF Spoken, Before
<1>3. CASE Route \/ UNCHANGED vars
  <2>1. /\ UNCHANGED <<srt, disk, chunks, parsed>>
        /\ \/ stage = "route" /\ stage' \in {"route", "exit"}
           \/ stage' = stage /\ UNCHANGED lost
    BY <1>3 DEF Route, GoTo, Fail, Leave, vars, input
  <2> QED BY <2>1 DEF media_to_file, arguments, Subtitles, CuesOf, AudioOf
<1>4. CASE Routed
  <2>1. /\ stage' = IF media_to_file THEN "media" ELSE "subtitles"
        /\ UNCHANGED <<srt, parsed>> /\ stage = "route"
    BY <1>4 DEF Routed, GoTo, input
  <2>2. media_to_file' <=> media_to_file
    BY <2>1 DEF media_to_file, arguments
  <2> QED BY <2>1, <2>2
<1>5. CASE WriteMedia /\ stage' # "exit"
  <2> DEFINE media == arguments["write_media"]
  <2>1. /\ stage = "media" /\ UNCHANGED <<chunks, parsed, srt>>
        /\ WriteFile(media, AudioOf(chunks), "subtitles")
    BY <1>5 DEF WriteMedia, input
  <2>2. /\ media \in Paths /\ stage' = "subtitles"
        /\ ~lost' => disk'[media] = Holding(AudioOf(chunks))
    <3>1. disk = [p \in Paths |-> disk[p]] /\ "subtitles" # "exit"
      BY DEF OnDisk
    <3> HIDE DEF media
    <3> QED BY <1>5, <2>1, <3>1, FileWritten, Zenon
  <2>3. media' = media /\ AudioOf(chunks)' = AudioOf(chunks)
    BY <2>1 DEF arguments, AudioOf
  <2> QED BY <2>1, <2>2, <2>3
<1>6. CASE WriteSubtitles /\ stage' # "exit"
  <2> DEFINE media == arguments["write_media"]
  <2>1. stage = "subtitles" /\ UNCHANGED <<chunks, parsed>> /\ srt = {}
    BY <1>6 DEF WriteSubtitles, input
  <2>2. /\ media' = media /\ AudioOf(chunks)' = AudioOf(chunks) /\ CuesOf(chunks)' = CuesOf(chunks)
        /\ Subtitles' = Subtitles /\ (media_to_file' <=> media_to_file)
    BY <2>1 DEF arguments, AudioOf, CuesOf, Subtitles, media_to_file
  <2>3. CASE srt_to_file /\ WriteFile(Subtitles, CuesOf(chunks), "flush") /\ UNCHANGED srt
    <3>1. /\ Subtitles \in Paths /\ stage' = "flush"
          /\ ~lost' => ~lost /\ disk'[Subtitles] = Holding(CuesOf(chunks))
          /\ \A p \in Paths : p # Subtitles => disk'[p] = disk[p]
      <4>1. disk = [p \in Paths |-> disk[p]] /\ "flush" # "exit"
        BY DEF OnDisk
      <4> QED BY <1>6, <2>3, <4>1, FileWritten, Zenon
    <3>2. Subtitles # "-"
      BY <3>1 DEF Paths
    <3>3. srt' = IF Subtitles' = "-" THEN CuesOf(chunks)' ELSE {}
      BY <2>1, <2>2, <2>3, <3>2
    <3>4. media_to_file => /\ media \in Paths
                           /\ ~lost => disk[media] = Holding(AudioOf(chunks))
      BY <2>1
    <3> QED BY <2>2, <3>1, <3>3, <3>4
  <2>4. CASE srt_to_stderr /\ srt' = CuesOf(chunks) /\ GoTo("flush") /\ UNCHANGED <<disk, lost>>
    <3>1. Subtitles = "-" /\ stage' = "flush" /\ Subtitles \notin Paths
      BY <2>4 DEF srt_to_stderr, Subtitles, GoTo, Paths
    <3> QED BY <2>1, <2>2, <2>4, <3>1
  <2>5. CASE ~srt_to_file /\ ~srt_to_stderr /\ GoTo("flush") /\ UNCHANGED <<disk, srt, lost>>
    <3>1. Subtitles # "-" /\ stage' = "flush" /\ Subtitles \notin Paths
      BY <2>5 DEF srt_to_stderr, srt_to_file, Subtitles, GoTo, Paths, Absent
    <3> QED BY <2>1, <2>2, <2>5, <3>1
  <2> QED BY <1>6, <2>3, <2>4, <2>5 DEF WriteSubtitles, Subtitles
<1>7. CASE Parse \/ Dispatch \/ DispatchListVoices \/ Load \/ Confirm \/ Flush
  <2>1. stage' \notin {"route", "media", "subtitles", "flush"}
    BY <1>7 DEF Parse, Dispatch, DispatchError, DispatchListVoices, Load, LoadFile, Confirm, Flush, GoTo,
                Fail, Abort, Leave
  <2> QED BY <1>1, <2>1
<1> QED BY <1>1, <1>2, <1>3, <1>4, <1>5, <1>6, <1>7 DEF Next

\* stdout after any step.
LEMMA StepStdout ==
  ASSUME Fed, Asked, Reason, Spoken, Spoken', Reason', StdoutIsAudio, [Next]_vars
  PROVE  StdoutIsAudio'
<1> USE DEF StdoutIsAudio
<1>1. ASSUME out' = <<>> PROVE StdoutIsAudio'
  BY <1>1 DEF Beginning, Range
<1>2. CASE stage' \in Before
  BY <1>1, <1>2 DEF Spoken
<1>3. CASE stage' \in AfterAnswer
  BY <1>3 DEF Spoken, Routing
<1>4. CASE stage' = "exit" /\ stage \in Before
  <2>1. out = <<>>
    BY <1>4 DEF Spoken
  <2>2. CASE out' = out
    BY <1>1, <2>1, <2>2
  <2>3. CASE out' # out
    <3>1. /\ parsed'.action # "synthesize"
          /\ \E item : out' = Append(out, item)
      BY <1>4, <2>3 DEF Next, vars, input, Before, Parse, Dispatch, DispatchError, DispatchListVoices, Load, LoadFile,
         Confirm, Synthesize, Route, Routed, WriteMedia, WriteSubtitles, Flush, WriteOut, Asked
    <3>2. Len(out') = 1
      BY <2>1, <3>1
    <3> QED BY <3>1, <3>2
  <2> QED BY <2>2, <2>3
<1>5. CASE stage' = "exit" /\ stage \in AfterAnswer
  <2>1. UNCHANGED <<chunks, out>>
    BY <1>5 DEF Next, vars, AfterAnswer, Parse, Dispatch, DispatchListVoices, Load, LoadFile,
         Confirm, Synthesize, Route, Routed, WriteMedia, WriteSubtitles, Flush, GoTo
  <2> QED BY <1>5, <2>1 DEF Spoken, Routing, AudioOf
<1>6. CASE stage = "exit"
  <2>1. UNCHANGED <<chunks, out, parsed>>
    BY <1>6 DEF Next, vars, input, Parse, Dispatch, DispatchListVoices, Load, LoadFile,
         Confirm, Synthesize, Route, Routed, WriteMedia, WriteSubtitles, Flush
  <2> QED BY <2>1 DEF AudioOf
<1>7. /\ stage \in Before \cup AfterAnswer \cup {"exit"}
      /\ stage' \in Before \cup AfterAnswer \cup {"exit"}
  BY DEF Reason, Before, AfterAnswer, Output
<1> QED BY <1>2, <1>3, <1>4, <1>5, <1>6, <1>7

\* When the program leaves after its last step, all of the output is in place.
LEMMA FlushDelivers ==
  ASSUME Fed, Spoken, Written, stage = "flush"
  PROVE  ~lost =>
           /\ asked \in TextGiven
           /\ LET media == arguments["write_media"]
              IN  IF media \in Paths
                  THEN /\ out = <<>>
                       /\ media # Subtitles => disk[media] = Holding(AudioOf(chunks))
                  ELSE Beginning(out, AudioOf(chunks)) /\ Range(out) = AudioOf(chunks)
           /\ Subtitles \in Paths => disk[Subtitles] = Holding(CuesOf(chunks))
           /\ srt = IF Subtitles = "-" THEN CuesOf(chunks) ELSE {}
<1>1. asked \in TextGiven /\ Routing
  BY DEF Spoken, AfterAnswer
<1>2. Passed = AudioOf(chunks)
  BY DEF Passed, AudioOf, Fed
<1>3. arguments["write_media"] \in Paths <=> media_to_file
  BY DEF Written, media_to_file, Paths, Absent
<1>4. /\ ~lost /\ Subtitles \in Paths => disk[Subtitles] = Holding(CuesOf(chunks))
      /\ srt = IF Subtitles = "-" THEN CuesOf(chunks) ELSE {}
  BY DEF Written
<1>5. /\ arguments["write_media"] \in Paths => out = <<>>
      /\ arguments["write_media"] \notin Paths /\ ~lost =>
           Beginning(out, AudioOf(chunks)) /\ Range(out) = AudioOf(chunks)
  BY <1>1, <1>2, <1>3 DEF Routing
<1>6. arguments["write_media"] \in Paths /\ ~lost /\ arguments["write_media"] # Subtitles =>
        disk[arguments["write_media"]] = Holding(AudioOf(chunks))
  BY <1>3 DEF Written
<1> QED BY <1>1, <1>4, <1>5, <1>6

LEMMA StepDelivered ==
  ASSUME Fed, Asked, Reason, Reason', Spoken, Written, OutputDelivered, [Next]_vars
  PROVE  OutputDelivered'
<1>1. CASE stage' # "exit"
  <2>1. exit' = NoExit
    BY <1>1 DEF Reason
  <2> QED BY <2>1 DEF OutputDelivered, NoExit
<1>2. CASE stage = "exit"
  <2>1. UNCHANGED vars
    BY <1>2 DEF Next, Parse, Dispatch, DispatchListVoices, Load, LoadFile,
         Confirm, Synthesize, Route, Routed, WriteMedia, WriteSubtitles, Flush
  <2> QED BY <2>1 DEF OutputDelivered, vars, input, TextGiven, arguments, Subtitles, AudioOf, CuesOf
<1>3. CASE stage' = "exit" /\ stage \notin {"exit", "flush"}
  <2>1. exit' = 0 => asked' = Absent
    <3>1. CASE stage \in {"parse", "dispatch", "voices", "load", "confirm"}
      <4>1. asked = Absent
        BY <3>1 DEF Asked
      <4>2. asked' = asked
        BY <3>1 DEF Next, vars, input, Parse, Dispatch, DispatchListVoices, Load, LoadFile,
         Confirm, Synthesize, Route, Routed, WriteMedia, WriteSubtitles, Flush
      <4> QED BY <4>1, <4>2
    <3>2. CASE stage \in {"synthesize", "route", "media", "subtitles"}
      <4>1. exit = NoExit
        BY <3>2 DEF Reason
      <4>2. Fail(1) \/ Abort
        BY <1>3, <3>2 DEF Next, vars, Parse, Dispatch, DispatchListVoices, Load, LoadFile, GoTo,
         Confirm, Synthesize, Route, Routed, WriteMedia, WriteSubtitles, WriteFile, Flush
      <4> QED BY <4>1, <4>2 DEF Fail, Abort, Leave, Aborted
    <3> QED BY <1>3, <3>1, <3>2 DEF Reason, Output
  <2> QED BY <2>1 DEF OutputDelivered
<1>4. CASE stage' = "exit" /\ stage = "flush"
  <2>1. UNCHANGED <<input, chunks, next, out, out_bad, disk, srt, lost>>
    BY <1>4 DEF Next, vars, Parse, Dispatch, DispatchListVoices, Load, LoadFile,
         Confirm, Synthesize, Route, Routed, WriteMedia, WriteSubtitles, Flush
  <2>2. UNCHANGED <<asked, TextGiven, arguments, Subtitles, AudioOf(chunks), CuesOf(chunks)>>
    BY <2>1 DEF input, TextGiven, arguments, Subtitles, AudioOf, CuesOf
  <2> QED BY <1>4, <2>1, <2>2, FlushDelivers DEF OutputDelivered
<1> QED BY <1>1, <1>2, <1>3, <1>4

LEMMA SpokenInvariant == Spec => []Spoken
<1>1. ASSUME Init PROVE Spoken
  <2>1. stage = "parse" /\ out = <<>> /\ srt = {} /\ out_bad = FALSE /\ lost = FALSE
    BY <1>1 DEF Init
  <2> QED BY <2>1 DEF Spoken, Synthesizing, Output, AfterAnswer
<1>2. ASSUME Fed, Fed', Asked, Reason, Spoken, [Next]_vars PROVE Spoken'
  BY <1>2, StepSpoken
<1> QED BY <1>1, <1>2, ReasonInvariant, FedInvariant, AskedInvariant, PTL DEF Spec

LEMMA WrittenInvariant == Spec => []Written
<1>1. ASSUME Init PROVE Written
  BY <1>1 DEF Init, Written
<1>2. ASSUME Fed, Asked, Reason, OnDisk, Spoken, Written, [Next]_vars PROVE Written'
  BY <1>2, StepWritten
<1> QED BY <1>1, <1>2, ReasonInvariant, FedInvariant, AskedInvariant, OnDiskInvariant,
           SpokenInvariant, PTL DEF Spec

\* For every command line, every answer and every way the output can fail: a
\* run that ends with 0 spoke the text it was given and left all of the output
\* at its place, unless a stream lost some of it unnoticed; any other run shows
\* one error, or was aborted before the first of it (EdgeTtsCommandDispatcher.cpp:117-231).
THEOREM OutputIsThereOrAnError == Spec => []OutputOrError
<1>1. ASSUME Init PROVE OutputDelivered
  BY <1>1 DEF Init, OutputDelivered, NoExit
<1>2. ASSUME Fed, Asked, Reason, Reason', Spoken, Written, OutputDelivered, [Next]_vars
      PROVE  OutputDelivered'
  BY <1>2, StepDelivered
<1>3. ASSUME OutputDelivered, ExitExplained PROVE OutputOrError
  BY <1>3 DEF OutputOrError
<1> QED BY <1>1, <1>2, <1>3, ReasonInvariant, FedInvariant, AskedInvariant, SpokenInvariant,
           WrittenInvariant, EveryExitExplained, PTL DEF Spec

\* For every command line and answer, what an error leaves behind is a
\* beginning of the right output: stdout holds the first pieces of audio in
\* order, and no file is touched before the answer was accepted
\* (EdgeTtsCommandDispatcher.cpp:176-227).
THEOREM OutputIsABeginning == Spec => []OutputBegun
<1>1. ASSUME Init PROVE StdoutIsAudio
  BY <1>1 DEF Init, StdoutIsAudio, Beginning, Range
<1>2. ASSUME Fed, Asked, Reason, Reason', Spoken, Spoken', StdoutIsAudio, [Next]_vars
      PROVE  StdoutIsAudio'
  BY <1>2, StepStdout
<1>3. ASSUME StdoutIsAudio, FilesAfterAnswer PROVE OutputBegun
  BY <1>3 DEF OutputBegun
<1> QED BY <1>1, <1>2, <1>3, ReasonInvariant, FedInvariant, AskedInvariant, SpokenInvariant,
           FilesComeAfterTheAnswer, PTL DEF Spec


-----------------------------------------------------------------------------
(* Induction over the natural numbers, and what a loop computes.           *)

LEMMA Induction ==
  ASSUME NEW S, 0 \in S, \A k \in Nat : k \in S => k + 1 \in S
  PROVE  \A k \in Nat : k \in S
<1> DEFINE I == Nat \ S
<1>1. SUFFICES ASSUME I # {} PROVE FALSE
  OBVIOUS
<1>2. PICK k \in I : \A j \in I : <<j, k>> \notin OpToRel(<, Nat)
  BY <1>1, NatLessThanWellFounded, WFMin, Zenon
<1>3. k \in Nat /\ k # 0
  OBVIOUS
<1>4. k - 1 \in Nat /\ <<k - 1, k>> \in OpToRel(<, Nat)
  BY <1>3 DEF OpToRel
<1>5. k - 1 \in S
  BY <1>2, <1>4
<1>6. (k - 1) + 1 \in S
  BY <1>4, <1>5
<1> QED BY <1>3, <1>6

\* g holds the values of a loop of n rounds that starts with d.
Runs(g, n, d, step) == g[0] = d /\ \A k \in 0..(n - 1) : g[k + 1] = step[<<k, g[k]>>]

LEMMA RunExists ==
  ASSUME NEW n \in Nat, NEW D, NEW d \in D, NEW step \in [(0..(n - 1)) \X D -> D]
  PROVE  \E g \in [0..n -> D] : Runs(g, n, d, step)
<1> DEFINE S == {m \in Nat : m <= n => \E g \in [0..m -> D] : Runs(g, m, d, step)}
<1>1. 0 \in S
  <2> DEFINE g == [k \in 0..0 |-> d]
  <2>1. g \in [0..0 -> D] /\ Runs(g, 0, d, step)
    BY DEF Runs
  <2> HIDE DEF g
  <2> QED BY <2>1
<1>2. ASSUME NEW m \in Nat, m \in S PROVE m + 1 \in S
  <2>1. SUFFICES ASSUME m + 1 <= n
                 PROVE  \E h \in [0..(m + 1) -> D] : Runs(h, m + 1, d, step)
    OBVIOUS
  <2>2. m <= n
    BY <2>1
  <2>3. PICK g \in [0..m -> D] : Runs(g, m, d, step)
    BY <1>2, <2>2
  <2> DEFINE h == [k \in 0..(m + 1) |-> IF k = m + 1 THEN step[<<m, g[m]>>] ELSE g[k]]
  <2>4. m \in 0..(n - 1) /\ g[m] \in D
    BY <2>1
  <2>5. step[<<m, g[m]>>] \in D
    BY <2>4
  <2>6. h \in [0..(m + 1) -> D]
    BY <2>5
  <2>7. \A k \in 0..m : h[k] = g[k]
    OBVIOUS
  <2>8. h[m + 1] = step[<<m, g[m]>>]
    OBVIOUS
  <2> HIDE DEF h
  <2>9. h[0] = d
    BY <2>3, <2>7 DEF Runs
  <2>10. ASSUME NEW k \in 0..m PROVE h[k + 1] = step[<<k, h[k]>>]
    <3>1. CASE k = m
      BY <2>7, <2>8, <3>1
    <3>2. CASE k # m
      <4>1. k \in 0..(m - 1) /\ k + 1 \in 0..m
        BY <3>2
      <4>2. g[k + 1] = step[<<k, g[k]>>]
        BY <2>3, <4>1 DEF Runs
      <4> QED BY <2>7, <4>1, <4>2
    <3> QED BY <3>1, <3>2
  <2>11. Runs(h, m + 1, d, step)
    <3>1. 0..((m + 1) - 1) = 0..m
      OBVIOUS
    <3> QED BY <2>9, <2>10, <3>1 DEF Runs
  <2> QED BY <2>6, <2>11
<1> HIDE DEF S
<1>3. n \in S
  BY <1>1, <1>2, Induction
<1> QED BY <1>3 DEF S

-----------------------------------------------------------------------------
(* The command line: the loop of do_parse against what a line says.        *)

\* The values the members may hold.
ValueIn(line) == {Absent, Set} \cup {line[k].attached : k \in DOMAIN line}

LoopState(line) ==
  [i : 1..(Len(line) + 1), failed : BOOLEAN, arguments : [Option -> ValueIn(line)]]

\* The value of the option at place k, attached to it or in the next token.
ValueOf(line, k) == IF line[k].attached = Absent THEN line[k + 1].attached ELSE line[k].attached

\* What WellFormed says of one token.
WellPlaced(program, line, i) ==
  /\ \/ line[i] \in program.flags
     \/ /\ OptionOf(program, line[i]) # Absent
        /\ line[i].attached = Absent => i < Len(line) /\ line[i + 1].form = "word"
     \/ /\ line[i].form = "word" /\ i > 1
        /\ OptionOf(program, line[i - 1]) # Absent /\ line[i - 1].attached = Absent
  /\ OptionOf(program, line[i]) = "proxy" => "url" \in {line[i].attached} \cup
       (IF line[i].attached = Absent THEN {line[i + 1].attached} ELSE {})

\* v is the value of the last o before place i, Absent if there is none.
LatestIs(program, line, i, o, v) ==
  \/ v = Absent /\ \A k \in 1..(i - 1) : OptionOf(program, line[k]) # o
  \/ /\ v # Absent
     /\ \E m \in 1..(i - 1) :
          /\ OptionOf(program, line[m]) = o /\ v = ValueOf(line, m)
          /\ \A k \in 1..(i - 1) : OptionOf(program, line[k]) = o => k <= m

\* The arguments hold what the tokens before place i say.
HoldsSoFar(program, line, i, args) ==
  /\ \A o \in program.values : LatestIs(program, line, i, o, args[o])
  /\ args[program.flag] = IF \E k \in 1..(i - 1) : line[k] \in program.flags THEN Set ELSE Absent
  /\ \A o \in Option \ (program.values \cup {program.flag}) : args[o] = Absent

\* The loop after n rounds.
RoundIs(program, line, loop, n) ==
  /\ loop \in LoopState(line)
  /\ loop.failed = FALSE =>
       /\ loop.i > n \/ loop.i = Len(line) + 1
       /\ \A k \in 1..(loop.i - 1) : WellPlaced(program, line, k)
       /\ loop.i > 1 => \/ OptionOf(program, line[loop.i - 1]) = Absent
                        \/ line[loop.i - 1].attached # Absent
       /\ HoldsSoFar(program, line, loop.i, loop.arguments)
  /\ loop.failed = TRUE => loop.i \in DOMAIN line /\ ~WellPlaced(program, line, loop.i)

LEMMA ShortNames == \A name \in DOMAIN ShortName : ShortName[name] \in {"text", "file", "voice"}
<1>1. DOMAIN ShortName = {"t", "f", "v"}
  BY DEF ShortName
<1>2. ShortName["t"] = "text" /\ ShortName["f"] = "file" /\ ShortName["v"] = "voice"
  BY DEF ShortName
<1> QED BY <1>1, <1>2

\* The tables of options.
LEMMA ProgramFacts ==
  ASSUME NEW program \in {edge_tts, edge_playback}
  PROVE  /\ program.values \cup {program.flag} \subseteq Option
         /\ Absent \notin program.values /\ program.flag \notin program.values
         /\ \A t : OptionOf(program, t) \in program.values \cup {Absent}
         /\ \A t \in program.flags : OptionOf(program, t) = Absent /\ t.form # "word"
         /\ \A t : t.form = "word" => OptionOf(program, t) = Absent
         /\ program.inputs \subseteq program.values \cup {program.flag}
<1>1. CASE program = edge_tts
  <2>1. /\ program.values \cup {program.flag} \subseteq Option
        /\ Absent \notin program.values /\ program.flag \notin program.values
        /\ program.inputs \subseteq program.values \cup {program.flag}
    BY <1>1 DEF edge_tts, Option, Configuration, Absent
  <2>2. ASSUME NEW t PROVE OptionOf(program, t) \in program.values \cup {Absent}
    BY <1>1, ShortNames DEF edge_tts, Configuration, OptionOf
  <2>3. \A t \in program.flags : OptionOf(program, t) = Absent /\ t.form # "word"
    BY <1>1 DEF edge_tts, OptionOf, ShortName, Absent, Long, Short, Configuration
  <2>4. \A t : t.form = "word" => OptionOf(program, t) = Absent
    BY DEF OptionOf
  <2> QED BY <2>1, <2>2, <2>3, <2>4
<1>2. CASE program = edge_playback
  <2>1. /\ program.values \cup {program.flag} \subseteq Option
        /\ Absent \notin program.values /\ program.flag \notin program.values
        /\ program.inputs \subseteq program.values \cup {program.flag}
    BY <1>2 DEF edge_tts, edge_playback, Option, Configuration, Absent
  <2>2. ASSUME NEW t PROVE OptionOf(program, t) \in program.values \cup {Absent}
    BY <1>2, ShortNames DEF edge_playback, Configuration, OptionOf
  <2>3. \A t \in program.flags : OptionOf(program, t) = Absent /\ t.form # "word"
    BY <1>2 DEF edge_playback, OptionOf, ShortName, Absent, Long, Short, Configuration
  <2>4. \A t : t.form = "word" => OptionOf(program, t) = Absent
    BY DEF OptionOf
  <2> QED BY <2>1, <2>2, <2>3, <2>4
<1> QED BY <1>1, <1>2

\* One round of the loop that has tokens left, by what the token is.
LEMMA IterationCases ==
  ASSUME NEW program \in {edge_tts, edge_playback}, NEW line \in Seq(Token),
         NEW loop \in LoopState(line), loop.failed = FALSE, loop.i \in DOMAIN line,
         NEW it, it = Iteration(program, line, loop)
  PROVE  LET t == line[loop.i]
             o == OptionOf(program, t)
             v == ValueAt(line, loop.i)
         IN  \/ /\ t \in program.flags
                /\ it = [i |-> loop.i + 1, failed |-> FALSE,
                         arguments |-> [loop.arguments EXCEPT ![program.flag] = Set]]
             \/ /\ t \notin program.flags /\ o # Absent /\ Valid(o, v)
                /\ it = [i |-> loop.i + (IF t.attached = Absent THEN 2 ELSE 1), failed |-> FALSE,
                         arguments |-> [loop.arguments EXCEPT ![o] = v]]
             \/ /\ t \notin program.flags /\ ~(o # Absent /\ Valid(o, v))
                /\ it = [i |-> loop.i, failed |-> TRUE, arguments |-> loop.arguments]
<1> DEFINE t == line[loop.i]
           o == OptionOf(program, t)
           v == ValueAt(line, loop.i)
<1>1. /\ loop.i \in Nat /\ loop.i <= Len(line) /\ Len(line) \in Nat
      /\ loop = [i |-> loop.i, failed |-> FALSE, arguments |-> loop.arguments]
  BY DEF LoopState
<1>2. it = CASE t \in program.flags ->
                  [loop EXCEPT !.i = @ + 1, !.arguments = Store(@, program.flag, Set)]
             [] t \notin program.flags /\ o # Absent /\ Valid(o, v) ->
                  [loop EXCEPT !.i = @ + (IF t.attached = Absent THEN 2 ELSE 1),
                               !.arguments = Store(@, o, v)]
             [] OTHER -> [loop EXCEPT !.failed = TRUE]
  BY <1>1 DEF Iteration
<1> HIDE DEF t, o, v
<1>3. CASE t \in program.flags
  BY <1>1, <1>2, <1>3 DEF Store, t
<1>4. CASE t \notin program.flags /\ o # Absent /\ Valid(o, v)
  <2>1. it = [loop EXCEPT !.i = @ + (IF t.attached = Absent THEN 2 ELSE 1),
                          !.arguments = Store(@, o, v)]
    BY <1>2, <1>4
  <2>2. it = [i |-> loop.i + (IF t.attached = Absent THEN 2 ELSE 1), failed |-> FALSE,
              arguments |-> [loop.arguments EXCEPT ![o] = v]]
    BY <1>1, <2>1 DEF Store
  <2> QED BY <1>4, <2>2 DEF t, o, v
<1>5. CASE t \notin program.flags /\ ~(o # Absent /\ Valid(o, v))
  BY <1>1, <1>2, <1>5 DEF t, o, v
<1> QED BY <1>3, <1>4, <1>5

\* A value that was found is the option's own.
LEMMA ValueFound ==
  ASSUME NEW line \in Seq(Token), NEW i \in DOMAIN line, ValueAt(line, i) # Absent
  PROVE  /\ ValueAt(line, i) = ValueOf(line, i) /\ ValueAt(line, i) \in ValueIn(line)
         /\ line[i].attached = Absent =>
              i < Len(line) /\ line[i + 1].form = "word" /\ i + 1 \in DOMAIN line
<1>1. i \in Nat /\ Len(line) \in Nat /\ i >= 1 /\ i <= Len(line)
  OBVIOUS
<1>2. CASE line[i].attached # Absent
  BY <1>2 DEF ValueAt, ValueOf, ValueIn
<1>3. CASE line[i].attached = Absent
  <2>1. HasNextValue(line, i) /\ ValueAt(line, i) = line[i + 1].attached
    BY <1>3 DEF ValueAt
  <2>2. i < Len(line) /\ line[i + 1].form = "word" /\ i + 1 \in DOMAIN line
    BY <1>1, <2>1 DEF HasNextValue, is_option_token
  <2> QED BY <1>3, <2>1, <2>2 DEF ValueOf, ValueIn
<1> QED BY <1>2, <1>3

LEMMA IterationType ==
  ASSUME NEW program \in {edge_tts, edge_playback}, NEW line \in Seq(Token),
         NEW loop \in LoopState(line)
  PROVE  Iteration(program, line, loop) \in LoopState(line)
<1> DEFINE it == Iteration(program, line, loop)
           t == line[loop.i]
           o == OptionOf(program, t)
           v == ValueAt(line, loop.i)
<1>1. CASE loop.i > Len(line) \/ loop.failed
  BY <1>1 DEF Iteration
<1>2. CASE ~(loop.i > Len(line) \/ loop.failed)
  <2>1. /\ loop.failed = FALSE /\ loop.i \in DOMAIN line /\ loop.i \in Nat /\ Len(line) \in Nat
        /\ loop.arguments \in [Option -> ValueIn(line)] /\ loop.i <= Len(line) /\ loop.i >= 1
    BY <1>2 DEF LoopState
  <2>2. \/ /\ t \in program.flags
           /\ it = [i |-> loop.i + 1, failed |-> FALSE,
                    arguments |-> [loop.arguments EXCEPT ![program.flag] = Set]]
        \/ /\ o # Absent /\ Valid(o, v)
           /\ it = [i |-> loop.i + (IF t.attached = Absent THEN 2 ELSE 1), failed |-> FALSE,
                    arguments |-> [loop.arguments EXCEPT ![o] = v]]
        \/ it = [i |-> loop.i, failed |-> TRUE, arguments |-> loop.arguments]
    BY <2>1, IterationCases
  <2> HIDE DEF it, o, v
  <2>3. CASE it = [i |-> loop.i + 1, failed |-> FALSE,
                   arguments |-> [loop.arguments EXCEPT ![program.flag] = Set]]
    <3>1. [loop.arguments EXCEPT ![program.flag] = Set] \in [Option -> ValueIn(line)]
      BY <2>1 DEF ValueIn
    <3>2. loop.i + 1 \in 1..(Len(line) + 1)
      BY <2>1
    <3> QED BY <2>3, <3>1, <3>2 DEF LoopState, it
  <2>4. CASE /\ o # Absent /\ Valid(o, v)
             /\ it = [i |-> loop.i + (IF t.attached = Absent THEN 2 ELSE 1), failed |-> FALSE,
                      arguments |-> [loop.arguments EXCEPT ![o] = v]]
    <3>1. v \in ValueIn(line) /\ (t.attached = Absent => loop.i < Len(line))
      BY <2>1, <2>4, ValueFound DEF Valid, v
    <3>2. [loop.arguments EXCEPT ![o] = v] \in [Option -> ValueIn(line)]
      BY <2>1, <3>1
    <3>3. loop.i + (IF t.attached = Absent THEN 2 ELSE 1) \in 1..(Len(line) + 1)
      BY <2>1, <3>1
    <3> QED BY <2>4, <3>2, <3>3 DEF LoopState, it
  <2>5. CASE it = [i |-> loop.i, failed |-> TRUE, arguments |-> loop.arguments]
    <3>1. loop.i \in 1..(Len(line) + 1)
      BY <2>1
    <3> QED BY <2>1, <2>5, <3>1 DEF LoopState, it
  <2> QED BY <2>2, <2>3, <2>4, <2>5 DEF it
<1> QED BY <1>1, <1>2

\* One more token, and it is not o.
LEMMA LatestKept ==
  ASSUME NEW program, NEW line \in Seq(Token), NEW i \in DOMAIN line, NEW o, NEW v,
         LatestIs(program, line, i, o, v), OptionOf(program, line[i]) # o
  PROVE  LatestIs(program, line, i + 1, o, v)
<1>1. i \in Nat /\ \A k \in 1..((i + 1) - 1) : k \in 1..(i - 1) \/ k = i
  OBVIOUS
<1>2. CASE v = Absent /\ \A k \in 1..(i - 1) : OptionOf(program, line[k]) # o
  BY <1>1, <1>2 DEF LatestIs
<1>3. CASE v # Absent
  <2>1. PICK m \in 1..(i - 1) :
          /\ OptionOf(program, line[m]) = o /\ v = ValueOf(line, m)
          /\ \A k \in 1..(i - 1) : OptionOf(program, line[k]) = o => k <= m
    BY <1>3 DEF LatestIs
  <2>2. m \in 1..((i + 1) - 1)
    BY <1>1
  <2>3. \A k \in 1..((i + 1) - 1) : OptionOf(program, line[k]) = o => k <= m
    BY <1>1, <2>1
  <2> QED BY <1>3, <2>1, <2>2, <2>3 DEF LatestIs
<1> QED BY <1>2, <1>3 DEF LatestIs

\* One more token, and it is o.
LEMMA LatestNew ==
  ASSUME NEW program, NEW line \in Seq(Token), NEW i \in DOMAIN line, NEW o, NEW v,
         v # Absent, OptionOf(program, line[i]) = o, v = ValueOf(line, i)
  PROVE  LatestIs(program, line, i + 1, o, v)
<1>1. /\ i \in Nat /\ i \in 1..((i + 1) - 1)
      /\ \A k \in 1..((i + 1) - 1) : k <= i
  OBVIOUS
<1> QED BY <1>1 DEF LatestIs

\* A word, or a token nobody knows, adds nothing.
LEMMA HoldsKept ==
  ASSUME NEW program \in {edge_tts, edge_playback}, NEW line \in Seq(Token),
         NEW i \in DOMAIN line, NEW args, HoldsSoFar(program, line, i, args),
         line[i].form = "word"
  PROVE  HoldsSoFar(program, line, i + 1, args)
<1>1. /\ OptionOf(program, line[i]) = Absent /\ Absent \notin program.values
      /\ line[i] \notin program.flags
  BY ProgramFacts
<1>2. ASSUME NEW o \in program.values PROVE LatestIs(program, line, i + 1, o, args[o])
  <2>1. LatestIs(program, line, i, o, args[o])
    BY DEF HoldsSoFar
  <2>2. OptionOf(program, line[i]) # o
    BY <1>1
  <2> QED BY <2>1, <2>2, LatestKept
<1>3. (\E k \in 1..((i + 1) - 1) : line[k] \in program.flags)
        <=> (\E k \in 1..(i - 1) : line[k] \in program.flags)
  <2>1. /\ i \in Nat /\ \A k \in 1..((i + 1) - 1) : k \in 1..(i - 1) \/ k = i
        /\ \A k \in 1..(i - 1) : k \in 1..((i + 1) - 1)
    OBVIOUS
  <2> QED BY <1>1, <2>1
<1> QED BY <1>2, <1>3 DEF HoldsSoFar

\* A flag is set.
LEMMA HoldsFlag ==
  ASSUME NEW program \in {edge_tts, edge_playback}, NEW line \in Seq(Token),
         NEW i \in DOMAIN line, NEW args \in [Option -> ValueIn(line)],
         HoldsSoFar(program, line, i, args), line[i] \in program.flags
  PROVE  HoldsSoFar(program, line, i + 1, [args EXCEPT ![program.flag] = Set])
<1> DEFINE new == [args EXCEPT ![program.flag] = Set]
<1>1. /\ OptionOf(program, line[i]) = Absent /\ Absent \notin program.values
      /\ program.flag \notin program.values /\ program.values \cup {program.flag} \subseteq Option
  BY ProgramFacts
<1>2. /\ new[program.flag] = Set
      /\ \A o \in Option : o # program.flag => new[o] = args[o]
  BY <1>1
<1> HIDE DEF new
<1>3. ASSUME NEW o \in program.values PROVE LatestIs(program, line, i + 1, o, new[o])
  <2>1. LatestIs(program, line, i, o, args[o]) /\ new[o] = args[o]
    BY <1>1, <1>2 DEF HoldsSoFar
  <2>2. OptionOf(program, line[i]) # o
    BY <1>1
  <2> QED BY <2>1, <2>2, LatestKept
<1>4. \E k \in 1..((i + 1) - 1) : line[k] \in program.flags
  <2>1. i \in 1..((i + 1) - 1)
    OBVIOUS
  <2> QED BY <2>1
<1>5. \A o \in Option \ (program.values \cup {program.flag}) : new[o] = Absent
  BY <1>2 DEF HoldsSoFar
<1>6. HoldsSoFar(program, line, i + 1, new)
  BY <1>2, <1>3, <1>4, <1>5 DEF HoldsSoFar
<1> QED BY <1>6 DEF new

\* An option gets its value.
LEMMA HoldsOption ==
  ASSUME NEW program \in {edge_tts, edge_playback}, NEW line \in Seq(Token),
         NEW i \in DOMAIN line, NEW args \in [Option -> ValueIn(line)],
         HoldsSoFar(program, line, i, args), line[i] \notin program.flags,
         NEW option, option = OptionOf(program, line[i]), option # Absent,
         NEW v, v = ValueOf(line, i), v # Absent
  PROVE  HoldsSoFar(program, line, i + 1, [args EXCEPT ![option] = v])
<1> DEFINE new == [args EXCEPT ![option] = v]
<1>1. /\ option \in program.values /\ Absent \notin program.values
      /\ program.flag \notin program.values /\ program.values \cup {program.flag} \subseteq Option
  BY ProgramFacts
<1>2. /\ new[option] = v
      /\ \A o \in Option : o # option => new[o] = args[o]
  BY <1>1
<1> HIDE DEF new
<1>3. ASSUME NEW o \in program.values PROVE LatestIs(program, line, i + 1, o, new[o])
  <2>1. CASE o = option
    BY <1>2, <2>1, LatestNew
  <2>2. CASE o # option
    <3>1. LatestIs(program, line, i, o, args[o]) /\ new[o] = args[o]
      BY <1>1, <1>2, <2>2 DEF HoldsSoFar
    <3> QED BY <2>2, <3>1, LatestKept
  <2> QED BY <2>1, <2>2
<1>4. (\E k \in 1..((i + 1) - 1) : line[k] \in program.flags)
        <=> (\E k \in 1..(i - 1) : line[k] \in program.flags)
  <2>1. /\ i \in Nat /\ \A k \in 1..((i + 1) - 1) : k \in 1..(i - 1) \/ k = i
        /\ \A k \in 1..(i - 1) : k \in 1..((i + 1) - 1)
    OBVIOUS
  <2> QED BY <2>1
<1>5. new[program.flag] = args[program.flag]
  BY <1>1, <1>2
<1>6. \A o \in Option \ (program.values \cup {program.flag}) : new[o] = Absent
  BY <1>1, <1>2 DEF HoldsSoFar
<1>7. HoldsSoFar(program, line, i + 1, new)
  BY <1>3, <1>4, <1>5, <1>6 DEF HoldsSoFar
<1> QED BY <1>7 DEF new

\* The loop does not stop at a token that is well placed.
LEMMA BadToken ==
  ASSUME NEW program \in {edge_tts, edge_playback}, NEW line \in Seq(Token),
         NEW i \in DOMAIN line, line[i] \notin program.flags,
         ~(/\ OptionOf(program, line[i]) # Absent
           /\ Valid(OptionOf(program, line[i]), ValueAt(line, i))),
         i > 1 => \/ OptionOf(program, line[i - 1]) = Absent
                  \/ line[i - 1].attached # Absent
  PROVE  ~WellPlaced(program, line, i)
<1> DEFINE o == OptionOf(program, line[i])
           v == ValueAt(line, i)
<1>1. SUFFICES ASSUME WellPlaced(program, line, i) PROVE FALSE
  OBVIOUS
<1>2. o # Absent /\ (line[i].attached = Absent => i < Len(line) /\ line[i + 1].form = "word")
  BY <1>1 DEF WellPlaced
<1>3. i + 1 \in DOMAIN line => (line[i + 1].form = "word" => line[i + 1].attached # Absent)
  BY DEF Token
<1>4. v = ValueOf(line, i) /\ v # Absent
  <2>1. CASE line[i].attached # Absent
    BY <2>1 DEF ValueAt, ValueOf
  <2>2. CASE line[i].attached = Absent
    <3>1. i + 1 \in DOMAIN line /\ HasNextValue(line, i)
      BY <1>2, <2>2 DEF HasNextValue, is_option_token
    <3> QED BY <1>2, <1>3, <2>2, <3>1 DEF ValueAt, ValueOf
  <2> QED BY <2>1, <2>2
<1>5. o = "proxy" /\ v # "url"
  BY <1>2, <1>4 DEF Valid
<1>6. "url" \in {line[i].attached} \cup
        (IF line[i].attached = Absent THEN {line[i + 1].attached} ELSE {})
  BY <1>1, <1>5 DEF WellPlaced
<1>7. Absent # "url"
  BY DEF Absent
<1> QED BY <1>4, <1>5, <1>6, <1>7 DEF ValueOf

LEMMA RoundStep ==
  ASSUME NEW program \in {edge_tts, edge_playback}, NEW line \in Seq(Token),
         NEW loop, NEW n \in Nat, RoundIs(program, line, loop, n)
  PROVE  RoundIs(program, line, Iteration(program, line, loop), n + 1)
<1> DEFINE it == Iteration(program, line, loop)
           t == line[loop.i]
           o == OptionOf(program, t)
           v == ValueAt(line, loop.i)
           args == loop.arguments
<1>1. loop \in LoopState(line) /\ Len(line) \in Nat
  BY DEF RoundIs
<1>2. it \in LoopState(line)
  BY <1>1, IterationType
<1>3. /\ loop.i \in Nat /\ loop.i >= 1 /\ loop.i <= Len(line) + 1 /\ loop.failed \in BOOLEAN
      /\ args \in [Option -> ValueIn(line)]
  BY <1>1 DEF LoopState
<1>4. CASE loop.i > Len(line) \/ loop.failed
  <2>1. it = loop
    BY <1>4 DEF Iteration
  <2>2. loop.failed = FALSE => loop.i = Len(line) + 1
    BY <1>3, <1>4
  <2> HIDE DEF it
  <2> QED BY <2>1, <2>2 DEF RoundIs, it
<1>5. CASE ~(loop.i > Len(line) \/ loop.failed)
  <2>1. /\ loop.failed = FALSE /\ loop.i \in DOMAIN line /\ loop.i <= Len(line)
        /\ loop.i > n
    BY <1>3, <1>5 DEF RoundIs
  <2>2. /\ \A k \in 1..(loop.i - 1) : WellPlaced(program, line, k)
        /\ loop.i > 1 => \/ OptionOf(program, line[loop.i - 1]) = Absent
                         \/ line[loop.i - 1].attached # Absent
        /\ HoldsSoFar(program, line, loop.i, args)
    BY <2>1 DEF RoundIs
  <2>3. \/ /\ t \in program.flags
           /\ it = [i |-> loop.i + 1, failed |-> FALSE,
                    arguments |-> [args EXCEPT ![program.flag] = Set]]
        \/ /\ t \notin program.flags /\ o # Absent /\ Valid(o, v)
           /\ it = [i |-> loop.i + (IF t.attached = Absent THEN 2 ELSE 1), failed |-> FALSE,
                    arguments |-> [args EXCEPT ![o] = v]]
        \/ /\ t \notin program.flags /\ ~(o # Absent /\ Valid(o, v))
           /\ it = [i |-> loop.i, failed |-> TRUE, arguments |-> args]
    BY <1>1, <2>1, IterationCases
  <2>4. \A k \in 1..loop.i : k \in 1..(loop.i - 1) \/ k = loop.i
    BY <1>3
  <2> HIDE DEF it, o, v, args
  <2>5. CASE /\ t \in program.flags
             /\ it = [i |-> loop.i + 1, failed |-> FALSE,
                      arguments |-> [args EXCEPT ![program.flag] = Set]]
    <3>1. HoldsSoFar(program, line, loop.i + 1, [args EXCEPT ![program.flag] = Set])
      BY <1>3, <2>1, <2>2, <2>5, HoldsFlag
    <3>2. o = Absent
      BY <2>5, ProgramFacts DEF o
    <3>3. WellPlaced(program, line, loop.i)
      BY <2>5, <3>2 DEF WellPlaced, o, Absent
    <3>4. it.i = loop.i + 1 /\ it.failed = FALSE /\ (it.i - 1 = loop.i) /\ it.i > n + 1
      BY <1>3, <2>1, <2>5
    <3>5. \A k \in 1..(it.i - 1) : WellPlaced(program, line, k)
      BY <2>2, <2>4, <3>3, <3>4
    <3>6. HoldsSoFar(program, line, it.i, it.arguments)
      BY <2>5, <3>1, <3>4
    <3> QED BY <1>2, <3>2, <3>4, <3>5, <3>6 DEF RoundIs, it, o
  <2>6. CASE /\ t \notin program.flags /\ o # Absent /\ Valid(o, v)
             /\ it = [i |-> loop.i + (IF t.attached = Absent THEN 2 ELSE 1), failed |-> FALSE,
                      arguments |-> [args EXCEPT ![o] = v]]
    <3>1. v = ValueOf(line, loop.i) /\ v # Absent
          /\ (t.attached = Absent => /\ loop.i < Len(line) /\ line[loop.i + 1].form = "word"
                                     /\ loop.i + 1 \in DOMAIN line)
      BY <2>1, <2>6, ValueFound DEF Valid, v
    <3>2. HoldsSoFar(program, line, loop.i + 1, [args EXCEPT ![o] = v])
      BY <1>3, <2>1, <2>2, <2>6, <3>1, HoldsOption DEF o
    <3>3. WellPlaced(program, line, loop.i)
      BY <2>6, <3>1 DEF WellPlaced, o, Valid, ValueOf
    <3>4. it.failed = FALSE /\ it.arguments = [args EXCEPT ![o] = v]
      BY <2>6
    <3>5. CASE t.attached # Absent
      <4>1. it.i = loop.i + 1 /\ it.i - 1 = loop.i /\ it.i > n + 1
        BY <1>3, <2>1, <2>6, <3>5
      <4>2. \A k \in 1..(it.i - 1) : WellPlaced(program, line, k)
        BY <2>2, <2>4, <3>3, <4>1
      <4> QED BY <1>2, <3>2, <3>4, <3>5, <4>1, <4>2 DEF RoundIs, it
    <3>6. CASE t.attached = Absent
      <4>1. it.i = loop.i + 2 /\ it.i - 1 = loop.i + 1 /\ it.i > n + 1 /\ (loop.i + 1) - 1 = loop.i
            /\ loop.i + 1 > 1 /\ (loop.i + 1) + 1 = loop.i + 2
        BY <1>3, <2>1, <2>6, <3>6
      <4>2. HoldsSoFar(program, line, loop.i + 2, [args EXCEPT ![o] = v])
        BY <3>1, <3>2, <3>6, <4>1, HoldsKept
      <4>3. OptionOf(program, line[loop.i + 1]) = Absent
        BY <3>1, <3>6, ProgramFacts
      <4>4. WellPlaced(program, line, loop.i + 1)
        BY <2>6, <3>1, <3>6, <4>1, <4>3 DEF WellPlaced, o, Absent
      <4>5. \A k \in 1..(loop.i + 1) : k \in 1..(loop.i - 1) \/ k = loop.i \/ k = loop.i + 1
        BY <1>3
      <4>6. \A k \in 1..(it.i - 1) : WellPlaced(program, line, k)
        BY <2>2, <3>3, <4>1, <4>4, <4>5
      <4> QED BY <1>2, <3>4, <4>1, <4>2, <4>3, <4>6 DEF RoundIs, it
    <3> QED BY <3>5, <3>6
  <2>7. CASE /\ t \notin program.flags /\ ~(o # Absent /\ Valid(o, v))
             /\ it = [i |-> loop.i, failed |-> TRUE, arguments |-> args]
    <3>1. ~WellPlaced(program, line, loop.i)
      BY <2>1, <2>2, <2>7, BadToken DEF o, v
    <3>2. it.i = loop.i /\ it.failed = TRUE
      BY <2>7
    <3> QED BY <1>2, <2>1, <3>1, <3>2 DEF RoundIs, it
  <2> QED BY <2>3, <2>5, <2>6, <2>7
<1> QED BY <1>4, <1>5

\* The loop of do_parse exists, round by round.
LEMMA LoopRounds ==
  ASSUME NEW program \in {edge_tts, edge_playback}, NEW line \in Seq(Token)
  PROVE  \E after : /\ after = [n \in 0..Len(line) |->
                          IF n = 0 THEN Start ELSE Iteration(program, line, after[n - 1])]
                    /\ Loop(program, line) = after[Len(line)]
<1> DEFINE D == LoopState(line)
           N == Len(line)
           step == [p \in (0..(N - 1)) \X D |-> Iteration(program, line, p[2])]
<1>1. step \in [(0..(N - 1)) \X D -> D]
  <2>1. ASSUME NEW p \in (0..(N - 1)) \X D PROVE Iteration(program, line, p[2]) \in D
    <3>1. p[2] \in D
      OBVIOUS
    <3> QED BY <3>1, IterationType
  <2> HIDE DEF D
  <2> QED BY <2>1
<1>2. Start \in D /\ N \in Nat
  <2>1. DefaultArguments \in [Option -> ValueIn(line)]
    BY DEF DefaultArguments, ValueIn
  <2>2. 1 \in 1..(Len(line) + 1)
    OBVIOUS
  <2> QED BY <2>1, <2>2 DEF Start, LoopState
<1>3. PICK g \in [0..N -> D] : Runs(g, N, Start, step)
  <2> HIDE DEF step, D, N
  <2> QED BY <1>1, <1>2, RunExists
<1>4. ASSUME NEW n \in 0..N
      PROVE  g[n] = IF n = 0 THEN Start ELSE Iteration(program, line, g[n - 1])
  <2>1. CASE n = 0
    BY <1>3, <2>1 DEF Runs
  <2>2. CASE n # 0
    <3>1. n - 1 \in 0..(N - 1) /\ (n - 1) + 1 = n /\ n - 1 \in 0..N
      BY <1>2, <2>2
    <3>2. g[n - 1] \in D /\ g[n] = step[<<n - 1, g[n - 1]>>]
      BY <1>3, <3>1 DEF Runs
    <3>3. step[<<n - 1, g[n - 1]>>] = Iteration(program, line, g[n - 1])
      <4> HIDE DEF D, N
      <4> QED BY <3>1, <3>2
    <3> QED BY <2>2, <3>2, <3>3
  <2> QED BY <2>1, <2>2
<1>5. g = [n \in 0..N |-> IF n = 0 THEN Start ELSE Iteration(program, line, g[n - 1])]
  <2>1. g = [n \in 0..N |-> g[n]]
    OBVIOUS
  <2> HIDE DEF N
  <2> QED BY <1>4, <2>1
<1>6. \E after : after = [n \in 0..Len(line) |->
         IF n = 0 THEN Start ELSE Iteration(program, line, after[n - 1])]
  BY <1>5
<1> DEFINE a == CHOOSE after : after = [n \in 0..Len(line) |->
                  IF n = 0 THEN Start ELSE Iteration(program, line, after[n - 1])]
<1>7. a = [n \in 0..Len(line) |-> IF n = 0 THEN Start ELSE Iteration(program, line, a[n - 1])]
  BY <1>6
<1>8. Loop(program, line) = a[Len(line)]
  BY DEF Loop
<1> HIDE DEF a
<1> QED BY <1>7, <1>8

LEMMA LoopIsRound ==
  ASSUME NEW program \in {edge_tts, edge_playback}, NEW line \in Seq(Token)
  PROVE  RoundIs(program, line, Loop(program, line), Len(line))
<1>1. PICK after : /\ after = [n \in 0..Len(line) |->
                         IF n = 0 THEN Start ELSE Iteration(program, line, after[n - 1])]
                   /\ Loop(program, line) = after[Len(line)]
  BY LoopRounds
<1>2. Len(line) \in Nat
  OBVIOUS
<1> DEFINE S == {n \in Nat : n <= Len(line) => RoundIs(program, line, after[n], n)}
<1>3. 0 \in S
  <2>1. after[0] = Start
    BY <1>1, <1>2
  <2>2. Start \in LoopState(line) /\ Start.i = 1 /\ Start.failed = FALSE
        /\ Start.arguments = DefaultArguments
    <3>1. DefaultArguments \in [Option -> ValueIn(line)]
      BY DEF DefaultArguments, ValueIn
    <3>2. 1 \in 1..(Len(line) + 1)
      BY <1>2
    <3> QED BY <3>1, <3>2 DEF Start, LoopState
  <2>3. \A o \in Option : DefaultArguments[o] = Absent
    BY DEF DefaultArguments
  <2>4. 1..(1 - 1) = {}
    OBVIOUS
  <2>5. HoldsSoFar(program, line, 1, DefaultArguments)
    BY <2>3, <2>4, ProgramFacts DEF HoldsSoFar, LatestIs
  <2>6. RoundIs(program, line, Start, 0)
    BY <2>2, <2>4, <2>5 DEF RoundIs
  <2> QED BY <2>1, <2>6
<1>4. ASSUME NEW n \in Nat, n \in S PROVE n + 1 \in S
  <2>1. SUFFICES ASSUME n + 1 <= Len(line) PROVE RoundIs(program, line, after[n + 1], n + 1)
    OBVIOUS
  <2>2. RoundIs(program, line, after[n], n)
    BY <1>2, <1>4, <2>1
  <2>3. n + 1 \in 0..Len(line) /\ n + 1 # 0 /\ (n + 1) - 1 = n
    BY <1>2, <2>1
  <2>4. after[n + 1] = Iteration(program, line, after[n])
    BY <1>1, <2>3
  <2> QED BY <2>2, <2>4, RoundStep
<1> HIDE DEF S
<1>5. Len(line) \in S
  <2>1. \A n \in Nat : n \in S
    BY <1>3, <1>4, Induction
  <2> QED BY <1>2, <2>1
<1> QED BY <1>1, <1>5 DEF S

LEMMA WellFormedIs ==
  ASSUME NEW program, NEW line
  PROVE  WellFormed(program, line) <=> \A k \in DOMAIN line : WellPlaced(program, line, k)
BY DEF WellFormed, WellPlaced

\* The last value, by its place.
LEMMA LatestIsLast ==
  ASSUME NEW program, NEW line \in Seq(Token), NEW o, NEW v,
         LatestIs(program, line, Len(line) + 1, o, v)
  PROVE  v = LastValue(program, line, o)
<1> DEFINE places == {i \in DOMAIN line : OptionOf(program, line[i]) = o}
           last == Max(places)
<1>1. /\ Len(line) \in Nat /\ 1..((Len(line) + 1) - 1) = DOMAIN line
  OBVIOUS
<1>2. LastValue(program, line, o) =
        CASE places = {} -> Absent
          [] places # {} /\ line[last].attached = Absent -> line[last + 1].attached
          [] OTHER -> line[last].attached
  BY DEF LastValue
<1>3. CASE v = Absent /\ \A k \in DOMAIN line : OptionOf(program, line[k]) # o
  <2>1. places = {}
    BY <1>3
  <2> HIDE DEF places
  <2> QED BY <1>2, <1>3, <2>1
<1>4. CASE \E m \in DOMAIN line :
              /\ OptionOf(program, line[m]) = o /\ v = ValueOf(line, m)
              /\ \A k \in DOMAIN line : OptionOf(program, line[k]) = o => k <= m
  <2>1. PICK m \in DOMAIN line :
              /\ OptionOf(program, line[m]) = o /\ v = ValueOf(line, m)
              /\ \A k \in DOMAIN line : OptionOf(program, line[k]) = o => k <= m
    BY <1>4
  <2>2. m \in places /\ places \subseteq Nat /\ \A k \in places : k <= m
    BY <2>1
  <2> HIDE DEF places
  <2>3. last = m
    <3>1. \E x \in places : \A y \in places : x >= y
      BY <2>2
    <3>2. last \in places /\ \A y \in places : last >= y
      BY <3>1 DEF Max
    <3>3. last \in Nat /\ m \in Nat /\ last >= m /\ last <= m
      BY <2>2, <3>2
    <3> QED BY <3>3
  <2> HIDE DEF last
  <2>4. places # {}
    BY <2>2
  <2>5. CASE line[m].attached = Absent
    BY <1>2, <2>1, <2>3, <2>4, <2>5 DEF ValueOf
  <2>6. CASE line[m].attached # Absent
    BY <1>2, <2>1, <2>3, <2>4, <2>6 DEF ValueOf
  <2> QED BY <2>5, <2>6
<1>5. \/ v = Absent /\ \A k \in DOMAIN line : OptionOf(program, line[k]) # o
      \/ \E m \in DOMAIN line :
              /\ OptionOf(program, line[m]) = o /\ v = ValueOf(line, m)
              /\ \A k \in DOMAIN line : OptionOf(program, line[k]) = o => k <= m
  BY <1>1 DEF LatestIs
<1> QED BY <1>3, <1>4, <1>5

\* The members as a line leaves them.
Reads(program, line, args) ==
  /\ args \in [Option -> ValueIn(line)]
  /\ \A o \in program.values : args[o] = LastValue(program, line, o)
  /\ \A o \in program.values :
       args[o] = Absent => \A k \in DOMAIN line : OptionOf(program, line[k]) # o
  /\ args[program.flag] = IF Flagged(program, line) THEN Set ELSE Absent
  /\ \A o \in Option \ (program.values \cup {program.flag}) : args[o] = Absent

\* The loop fails exactly on the lines that are not well formed.
LEMMA LoopReads ==
  ASSUME NEW program \in {edge_tts, edge_playback}, NEW line \in Seq(Token),
         NEW loop, loop = Loop(program, line)
  PROVE  /\ loop.failed \in BOOLEAN
         /\ loop.failed = FALSE <=> WellFormed(program, line)
         /\ loop.failed = FALSE => Reads(program, line, loop.arguments)
<1>1. RoundIs(program, line, loop, Len(line))
  BY LoopIsRound
<1>2. /\ loop \in LoopState(line) /\ Len(line) \in Nat /\ loop.failed \in BOOLEAN
      /\ loop.i \in 1..(Len(line) + 1) /\ loop.arguments \in [Option -> ValueIn(line)]
  BY <1>1 DEF RoundIs, LoopState
<1>3. CASE loop.failed = FALSE
  <2>1. /\ loop.i > Len(line) \/ loop.i = Len(line) + 1
        /\ \A k \in 1..(loop.i - 1) : WellPlaced(program, line, k)
        /\ HoldsSoFar(program, line, loop.i, loop.arguments)
    BY <1>1, <1>3 DEF RoundIs
  <2>2. loop.i = Len(line) + 1 /\ DOMAIN line = 1..((Len(line) + 1) - 1)
    BY <1>2, <2>1
  <2>3. WellFormed(program, line)
    BY <2>1, <2>2, WellFormedIs
  <2>4. HoldsSoFar(program, line, Len(line) + 1, loop.arguments)
    BY <2>1, <2>2
  <2>5. ASSUME NEW o \in program.values
        PROVE  /\ loop.arguments[o] = LastValue(program, line, o)
               /\ loop.arguments[o] = Absent =>
                    \A k \in DOMAIN line : OptionOf(program, line[k]) # o
    <3>1. LatestIs(program, line, Len(line) + 1, o, loop.arguments[o])
      BY <2>4 DEF HoldsSoFar
    <3>2. loop.arguments[o] = LastValue(program, line, o)
      BY <3>1, LatestIsLast
    <3>3. loop.arguments[o] = Absent => \A k \in DOMAIN line : OptionOf(program, line[k]) # o
      BY <2>2, <3>1 DEF LatestIs
    <3> QED BY <3>2, <3>3
  <2>6. Flagged(program, line) <=> \E k \in 1..((Len(line) + 1) - 1) : line[k] \in program.flags
    BY <2>2 DEF Flagged
  <2>7. /\ loop.arguments[program.flag] = IF Flagged(program, line) THEN Set ELSE Absent
        /\ \A o \in Option \ (program.values \cup {program.flag}) : loop.arguments[o] = Absent
    BY <2>4, <2>6 DEF HoldsSoFar
  <2>8. Reads(program, line, loop.arguments)
    BY <1>2, <2>5, <2>7 DEF Reads
  <2> QED BY <1>2, <1>3, <2>3, <2>8
<1>4. CASE loop.failed = TRUE
  <2>1. loop.i \in DOMAIN line /\ ~WellPlaced(program, line, loop.i)
    BY <1>1, <1>4 DEF RoundIs
  <2>2. ~WellFormed(program, line)
    BY <2>1, WellFormedIs
  <2> QED BY <1>2, <1>4, <2>2
<1> QED BY <1>2, <1>3, <1>4

\* Some token asks for help or the version.
Asks(program, line) == \E i \in DOMAIN line : MessageOf(program, line[i]) # Absent

\* What do_parse answers.
LEMMA ParseAnswers ==
  ASSUME NEW program \in {edge_tts, edge_playback}, NEW line \in Seq(Token),
         NEW args, args = Loop(program, line).arguments,
         NEW answer, answer = do_parse(program, line)
  PROVE  /\ Asks(program, line) => answer.action \in {"help", "version"}
         /\ ~Asks(program, line) /\ ~WellFormed(program, line) => answer = Refused
         /\ ~Asks(program, line) /\ ~InputsGiven(program, args) => answer = Refused
         /\ ~Asks(program, line) /\ WellFormed(program, line) /\ InputsGiven(program, args) =>
              answer = Accepted(IF args["list_voices"] = Set
                                  THEN "list_voices" ELSE program.action, args)
<1> DEFINE first == SelectInSeq(line, LAMBDA t : MessageOf(program, t) # Absent)
           loop == Loop(program, line)
<1>1. answer =
        CASE first # 0 -> Accepted(MessageOf(program, line[first]), DefaultArguments)
          [] first = 0 /\ ~loop.failed /\ InputsGiven(program, loop.arguments) ->
               Accepted(IF loop.arguments["list_voices"] = Set
                          THEN "list_voices" ELSE program.action, loop.arguments)
          [] OTHER -> Refused
  BY DEF do_parse
<1>2. /\ Asks(program, line) => first \in DOMAIN line /\ MessageOf(program, line[first]) # Absent
      /\ ~Asks(program, line) => first = 0
  <2> DEFINE I == {i \in 1..Len(line) : MessageOf(program, line[i]) # Absent}
  <2>1. first = IF I # {} THEN Min(I) ELSE 0
    BY DEF SelectInSeq
  <2>2. I # {} <=> Asks(program, line)
    BY DEF Asks
  <2>3. I \subseteq Nat /\ I \subseteq DOMAIN line
    OBVIOUS
  <2>4. I # {} => Min(I) \in I
    <3>1. SUFFICES ASSUME I # {} PROVE \E x \in I : \A y \in I : x <= y
      BY DEF Min
    <3>2. PICK x \in I : \A y \in I : <<y, x>> \notin OpToRel(<, Nat)
      BY <2>3, <3>1, NatLessThanWellFounded, WFMin, Zenon
    <3> HIDE DEF I
    <3>3. \A y \in I : ~(y < x) /\ y \in Nat
      BY <2>3, <3>2 DEF OpToRel
    <3> QED BY <2>3, <3>3
  <2>5. \A i \in I : MessageOf(program, line[i]) # Absent
    OBVIOUS
  <2> HIDE DEF I, first
  <2> QED BY <2>1, <2>2, <2>3, <2>4, <2>5
<1>3. /\ loop.failed \in BOOLEAN /\ (loop.failed = FALSE <=> WellFormed(program, line))
  BY LoopReads
<1>4. \A t : MessageOf(program, t) \in {Absent, "help", "version"}
  BY DEF MessageOf, edge_tts, edge_playback
<1> HIDE DEF first, loop
<1>5. ASSUME Asks(program, line) PROVE answer.action \in {"help", "version"}
  <2>1. first # 0
    BY <1>2, <1>5
  <2>2. answer = Accepted(MessageOf(program, line[first]), DefaultArguments)
    BY <1>1, <2>1
  <2>3. answer.action = MessageOf(program, line[first])
    BY <2>2 DEF Accepted
  <2> QED BY <1>2, <1>4, <1>5, <2>3
<1>6. ASSUME ~Asks(program, line) PROVE
         /\ ~WellFormed(program, line) => answer = Refused
         /\ ~InputsGiven(program, args) => answer = Refused
         /\ WellFormed(program, line) /\ InputsGiven(program, args) =>
              answer = Accepted(IF args["list_voices"] = Set
                                  THEN "list_voices" ELSE program.action, args)
  <2>1. first = 0 /\ args = loop.arguments
    BY <1>2, <1>6 DEF loop
  <2>2. answer = IF WellFormed(program, line) /\ InputsGiven(program, args)
                 THEN Accepted(IF args["list_voices"] = Set
                                  THEN "list_voices" ELSE program.action, args)
                 ELSE Refused
    BY <1>1, <1>3, <2>1, Zenon
  <2> QED BY <2>2
<1> QED BY <1>5, <1>6

\* Exactly one input was given, in the words of the code and of the property.
LEMMA InputsAreGiven ==
  ASSUME NEW program \in {edge_tts, edge_playback}, NEW line \in Seq(Token),
         NEW args, Reads(program, line, args)
  PROVE  InputsGiven(program, args) <=> Cardinality(Given(program, line)) = 1
<1> DEFINE G == {o \in program.inputs : args[o] # Absent}
<1>1. IsFiniteSet(program.inputs)
  <2>1. IsFiniteSet({"text"} \cup {"file"}) /\ IsFiniteSet(({"text"} \cup {"file"}) \cup {"list_voices"})
    <3>1. IsFiniteSet({"text"} \cup {"file"})
      BY FS_Singleton, FS_AddElement
    <3> QED BY <3>1, FS_AddElement
  <2>2. /\ edge_tts.inputs = ({"text"} \cup {"file"}) \cup {"list_voices"}
        /\ edge_playback.inputs = {"text"} \cup {"file"}
    BY DEF edge_tts, edge_playback
  <2> QED BY <2>1, <2>2
<1>2. G = Given(program, line)
  <2>1. /\ program.inputs \subseteq program.values \cup {program.flag}
        /\ program.flag \notin program.values
    BY ProgramFacts
  <2>2. args[program.flag] # Absent <=> Flagged(program, line)
    <3>1. Set # Absent
      BY DEF Set, Absent
    <3> QED BY <3>1 DEF Reads
  <2>3. \A o \in program.values : args[o] = LastValue(program, line, o)
    BY DEF Reads
  <2> QED BY <2>1, <2>2, <2>3 DEF Given
<1>3. IsFiniteSet(G)
  BY <1>1, FS_Subset
<1>4. InputsGiven(program, args) <=> \E x : G = {x}
  <2>1. ASSUME InputsGiven(program, args) PROVE \E x : G = {x}
    <3>1. PICK o \in program.inputs :
            args[o] # Absent /\ \A p \in program.inputs \ {o} : args[p] = Absent
      BY <2>1 DEF InputsGiven
    <3>2. G = {o}
      BY <3>1
    <3> QED BY <3>2
  <2>2. ASSUME NEW x, G = {x} PROVE InputsGiven(program, args)
    <3>1. x \in G /\ \A p \in program.inputs \ {x} : p \notin G
      BY <2>2
    <3> QED BY <3>1 DEF InputsGiven
  <2> QED BY <2>1, <2>2
<1> HIDE DEF G
<1>5. Cardinality(G) = 1 <=> \E x : G = {x}
  BY <1>3, FS_Singleton
<1> QED BY <1>2, <1>4, <1>5

LEMMA LineRead ==
  ASSUME NEW program \in {edge_tts, edge_playback}, NEW line \in Seq(Token),
         ~Asks(program, line)
  PROVE  LET result == do_parse(program, line)
         IN  /\ result.exit_code = 0 <=>
                  WellFormed(program, line) /\ Cardinality(Given(program, line)) = 1
             /\ result.exit_code = 0 =>
                  \A o \in program.values : result.arguments[o] = LastValue(program, line, o)
<1> DEFINE result == do_parse(program, line)
           loop == Loop(program, line)
           args == loop.arguments
<1>1. /\ ~WellFormed(program, line) => result = Refused
      /\ ~InputsGiven(program, args) => result = Refused
      /\ WellFormed(program, line) /\ InputsGiven(program, args) =>
           result = Accepted(IF args["list_voices"] = Set
                               THEN "list_voices" ELSE program.action, args)
  BY ParseAnswers
<1>2. WellFormed(program, line) => Reads(program, line, args)
  BY LoopReads
<1> HIDE DEF result, loop
<1>3. CASE WellFormed(program, line) /\ InputsGiven(program, args)
  <2>1. result.exit_code = 0 /\ result.arguments = args
    BY <1>1, <1>3 DEF Accepted
  <2>2. Reads(program, line, args)
    BY <1>2, <1>3
  <2>3. Cardinality(Given(program, line)) = 1
    BY <1>3, <2>2, InputsAreGiven
  <2>4. \A o \in program.values : result.arguments[o] = LastValue(program, line, o)
    BY <2>1, <2>2 DEF Reads
  <2> QED BY <1>3, <2>1, <2>3, <2>4 DEF result
<1>4. CASE ~(WellFormed(program, line) /\ InputsGiven(program, args))
  <2>1. result.exit_code = 2
    BY <1>1, <1>4 DEF Refused
  <2>2. ~(WellFormed(program, line) /\ Cardinality(Given(program, line)) = 1)
    <3>1. WellFormed(program, line) => (InputsGiven(program, args) <=> Cardinality(Given(program, line)) = 1)
      BY <1>2, InputsAreGiven
    <3> QED BY <1>4, <3>1
  <2> QED BY <2>1, <2>2 DEF result
<1> QED BY <1>3, <1>4

-----------------------------------------------------------------------------
(* The two parsers on one line.                                            *)

\* Without an option or a flag of one program only, both read a token alike.
Common(line) ==
  \A k \in DOMAIN line :
    /\ line[k] \notin edge_tts.flags /\ line[k] \notin edge_playback.flags
    /\ OptionOf(edge_tts, line[k]) \notin {"write_media", "write_subtitles"}

LEMMA OptionsAgree ==
  ASSUME NEW t, OptionOf(edge_tts, t) \notin {"write_media", "write_subtitles"}
  PROVE  OptionOf(edge_tts, t) = OptionOf(edge_playback, t)
<1>1. /\ edge_tts.values = edge_playback.values \cup {"write_media", "write_subtitles"}
      /\ edge_playback.values \subseteq edge_tts.values
  BY DEF edge_tts, edge_playback, Configuration
<1>2. CASE t.form = "long"
  BY <1>1, <1>2 DEF OptionOf
<1>3. CASE t.form # "long"
  BY <1>3 DEF OptionOf
<1> QED BY <1>2, <1>3

LEMMA CommonLine ==
  ASSUME NEW line \in Seq(Token), Common(line)
  PROVE  /\ WellFormed(edge_tts, line) <=> WellFormed(edge_playback, line)
         /\ \A o : LastValue(edge_tts, line, o) = LastValue(edge_playback, line, o)
         /\ ~Flagged(edge_tts, line) /\ ~Flagged(edge_playback, line)
<1>1. ASSUME NEW k \in DOMAIN line
      PROVE  OptionOf(edge_tts, line[k]) = OptionOf(edge_playback, line[k])
  BY OptionsAgree DEF Common
<1>2. \A k \in DOMAIN line : k > 1 => k - 1 \in DOMAIN line
  OBVIOUS
<1>3. WellFormed(edge_tts, line) <=> WellFormed(edge_playback, line)
  <2>1. ASSUME NEW k \in DOMAIN line
        PROVE  WellPlaced(edge_tts, line, k) <=> WellPlaced(edge_playback, line, k)
    BY <1>1, <1>2 DEF WellPlaced, Common
  <2> QED BY <2>1, WellFormedIs
<1>4. ASSUME NEW o PROVE LastValue(edge_tts, line, o) = LastValue(edge_playback, line, o)
  <2>1. {i \in DOMAIN line : OptionOf(edge_tts, line[i]) = o}
          = {i \in DOMAIN line : OptionOf(edge_playback, line[i]) = o}
    BY <1>1
  <2> QED BY <2>1 DEF LastValue
<1>5. ~Flagged(edge_tts, line) /\ ~Flagged(edge_playback, line)
  BY DEF Flagged, Common
<1> QED BY <1>3, <1>4, <1>5

\* The same members, and the same inputs among them.
LEMMA CommonArguments ==
  ASSUME NEW line \in Seq(Token), Common(line), NEW a, NEW b,
         Reads(edge_tts, line, a), Reads(edge_playback, line, b)
  PROVE  /\ a = b /\ a["list_voices"] = Absent
         /\ InputsGiven(edge_tts, a) <=> InputsGiven(edge_playback, a)
<1>1. /\ edge_tts.values = edge_playback.values \cup {"write_media", "write_subtitles"}
      /\ edge_tts.flag = "list_voices" /\ edge_playback.flag = "mpv"
      /\ Option = edge_tts.values \cup {"list_voices", "mpv"}
      /\ \A o \in {"write_media", "write_subtitles", "list_voices"} : o \notin edge_playback.values
      /\ \A o \in {"mpv", "list_voices"} : o \notin edge_tts.values
      /\ edge_tts.inputs = {"text", "file", "list_voices"}
      /\ edge_playback.inputs = {"text", "file"}
  BY DEF edge_tts, edge_playback, Option, Configuration
<1>2. /\ \A o : LastValue(edge_tts, line, o) = LastValue(edge_playback, line, o)
      /\ ~Flagged(edge_tts, line) /\ ~Flagged(edge_playback, line)
  BY CommonLine
<1>3. a["list_voices"] = Absent /\ b["mpv"] = Absent
  BY <1>1, <1>2 DEF Reads
<1>4. a["mpv"] = Absent /\ b["list_voices"] = Absent
  BY <1>1 DEF Reads
<1>5. \A o \in edge_playback.values : a[o] = b[o]
  BY <1>1, <1>2 DEF Reads
<1>6. ASSUME NEW o \in {"write_media", "write_subtitles"} PROVE a[o] = Absent /\ b[o] = Absent
  <2>1. b[o] = Absent
    BY <1>1 DEF Reads
  <2>2. {i \in DOMAIN line : OptionOf(edge_tts, line[i]) = o} = {}
    BY DEF Common
  <2>3. LastValue(edge_tts, line, o) = Absent
    BY <2>2 DEF LastValue
  <2> QED BY <1>1, <2>1, <2>3 DEF Reads
<1>7. a = b
  <2>1. \A o \in Option : a[o] = b[o]
    BY <1>1, <1>3, <1>4, <1>5, <1>6
  <2>2. a \in [Option -> ValueIn(line)] /\ b \in [Option -> ValueIn(line)]
    BY DEF Reads
  <2> QED BY <2>1, <2>2
<1>8. InputsGiven(edge_tts, a) <=> InputsGiven(edge_playback, a)
  BY <1>1, <1>3 DEF InputsGiven
<1> QED BY <1>3, <1>7, <1>8

\* A line that both may be given: what one makes of it, the other does.
LEMMA CommonAnswers ==
  ASSUME NEW line \in Seq(Token), Common(line), WellFormed(edge_tts, line),
         ~Asks(edge_tts, line), ~Asks(edge_playback, line)
  PROVE  LET speak == do_parse(edge_tts, line)
             play == do_parse(edge_playback, line)
         IN  \/ speak = Refused /\ play = Refused
             \/ \E a : speak = Accepted("synthesize", a) /\ play = Accepted("play", a)
<1> DEFINE a == Loop(edge_tts, line).arguments
           b == Loop(edge_playback, line).arguments
<1>1. WellFormed(edge_playback, line)
  BY CommonLine
<1>2. Reads(edge_tts, line, a) /\ Reads(edge_playback, line, b)
  BY <1>1, LoopReads
<1>3. /\ a = b /\ a["list_voices"] = Absent
      /\ InputsGiven(edge_tts, a) <=> InputsGiven(edge_playback, a)
  BY <1>2, CommonArguments
<1>4. /\ Absent # Set /\ edge_tts.action = "synthesize" /\ edge_playback.action = "play"
  BY DEF Absent, Set, edge_tts, edge_playback
<1>5. CASE InputsGiven(edge_tts, a)
  <2>1. do_parse(edge_tts, line) = Accepted("synthesize", a)
    BY <1>3, <1>4, <1>5, ParseAnswers
  <2>2. do_parse(edge_playback, line) = Accepted("play", a)
    BY <1>1, <1>3, <1>4, <1>5, ParseAnswers
  <2> QED BY <2>1, <2>2
<1>6. CASE ~InputsGiven(edge_tts, a)
  <2>1. do_parse(edge_tts, line) = Refused
    BY <1>6, ParseAnswers
  <2>2. do_parse(edge_playback, line) = Refused
    BY <1>3, <1>6, ParseAnswers
  <2> QED BY <2>1, <2>2
<1> QED BY <1>5, <1>6

\* What edge-playback plays, edge-tts would speak.
LEMMA PlayedIsSpoken ==
  ASSUME NEW line \in Seq(Token), NEW play, play = do_parse(edge_playback, line),
         play.action = "play", play.arguments["mpv"] = Absent
  PROVE  do_parse(edge_tts, line) = [play EXCEPT !.action = "synthesize"]
<1> DEFINE b == Loop(edge_playback, line).arguments
<1>1. ~Asks(edge_playback, line) /\ WellFormed(edge_playback, line)
  <2>1. ~Asks(edge_playback, line)
    BY ParseAnswers
  <2>2. play # Refused
    BY DEF Refused
  <2> QED BY <2>1, <2>2, ParseAnswers
<1>2. play.arguments = b
  <2>1. InputsGiven(edge_playback, b)
    <3>1. play # Refused
      BY DEF Refused
    <3> QED BY <1>1, <3>1, ParseAnswers
  <2>2. \E x : play = Accepted(x, b)
    BY <1>1, <2>1, ParseAnswers
  <2> QED BY <2>2 DEF Accepted
<1>3. Reads(edge_playback, line, b)
  BY <1>1, LoopReads
<1>4. ~Flagged(edge_playback, line)
  <2>1. edge_playback.flag = "mpv" /\ Set # Absent
    BY DEF edge_playback, Set, Absent
  <2> QED BY <1>2, <1>3, <2>1 DEF Reads
<1>5. ASSUME NEW k \in DOMAIN line
      PROVE  line[k].form = "word" \/ OptionOf(edge_playback, line[k]) # Absent
  <2>1. WellPlaced(edge_playback, line, k)
    BY <1>1, WellFormedIs
  <2>2. line[k] \notin edge_playback.flags
    BY <1>4 DEF Flagged
  <2> QED BY <2>1, <2>2 DEF WellPlaced
<1>6. /\ \A t \in edge_tts.flags : t.form # "word" /\ OptionOf(edge_playback, t) = Absent
      /\ \A t : OptionOf(edge_tts, t) \in {"write_media", "write_subtitles"} =>
           t.form # "word" /\ OptionOf(edge_playback, t) = Absent
      /\ \A t : MessageOf(edge_tts, t) # Absent =>
           \/ MessageOf(edge_playback, t) # Absent
           \/ t.form # "word" /\ OptionOf(edge_playback, t) = Absent
  <2>1. \A t \in edge_tts.flags : t.form # "word" /\ OptionOf(edge_playback, t) = Absent
    BY DEF edge_tts, edge_playback, OptionOf, ShortName, Absent, Long, Short, Configuration
  <2>2. ASSUME NEW t, OptionOf(edge_tts, t) \in {"write_media", "write_subtitles"}
        PROVE  t.form # "word" /\ OptionOf(edge_playback, t) = Absent
    <3>1. t.form = "long" /\ t.name \in {"write_media", "write_subtitles"}
      BY <2>2, ShortNames DEF OptionOf, Absent
    <3>2. t.name \notin edge_playback.values
      BY <3>1 DEF edge_playback, Configuration
    <3> QED BY <3>1, <3>2 DEF OptionOf
  <2>3. ASSUME NEW t, MessageOf(edge_tts, t) # Absent, MessageOf(edge_playback, t) = Absent
        PROVE  t.form # "word" /\ OptionOf(edge_playback, t) = Absent
    <3>1. /\ edge_tts.messages = {"help", "version"} /\ edge_playback.messages = {"help"}
          /\ "version" \notin edge_playback.values /\ Absent # "help"
      BY DEF edge_tts, edge_playback, Configuration, Absent
    <3>2. t.attached = Absent
      BY <2>3 DEF MessageOf
    <3>3. ~(t.form = "short" /\ t.name = "h")
      BY <2>3, <3>1, <3>2 DEF MessageOf
    <3>4. t.form = "long" /\ t.name \in {"help", "version"}
      BY <2>3, <3>1, <3>2, <3>3 DEF MessageOf
    <3>5. t.name # "help"
      BY <2>3, <3>1, <3>2, <3>4 DEF MessageOf
    <3>6. t.name = "version"
      BY <3>4, <3>5
    <3> QED BY <3>1, <3>4, <3>6 DEF OptionOf
  <2> QED BY <2>1, <2>2, <2>3
<1>7. Common(line)
  <2>1. \A k \in DOMAIN line : line[k] \notin edge_playback.flags
    BY <1>4 DEF Flagged
  <2> QED BY <1>5, <1>6, <2>1 DEF Common
<1>8. ~Asks(edge_tts, line)
  BY <1>1, <1>5, <1>6 DEF Asks
<1>9. WellFormed(edge_tts, line)
  BY <1>1, <1>7, CommonLine
<1>10. \E a : do_parse(edge_tts, line) = Accepted("synthesize", a) /\ play = Accepted("play", a)
  <2>1. play # Refused
    BY DEF Refused
  <2> QED BY <1>1, <1>7, <1>8, <1>9, <2>1, CommonAnswers
<1> QED BY <1>10 DEF Accepted

\* What edge-tts speaks without a file, edge-playback would play.
LEMMA SpokenIsPlayed ==
  ASSUME NEW line \in Seq(Token), NEW speak, speak = do_parse(edge_tts, line),
         speak.action = "synthesize", speak.arguments["write_media"] = Absent,
         speak.arguments["write_subtitles"] = Absent
  PROVE  do_parse(edge_playback, line) = [speak EXCEPT !.action = "play"]
<1> DEFINE a == Loop(edge_tts, line).arguments
<1>1. ~Asks(edge_tts, line) /\ WellFormed(edge_tts, line) /\ InputsGiven(edge_tts, a)
  <2>1. ~Asks(edge_tts, line)
    BY ParseAnswers
  <2>2. speak # Refused
    BY DEF Refused
  <2> QED BY <2>1, <2>2, ParseAnswers
<1>2. speak = Accepted(IF a["list_voices"] = Set THEN "list_voices" ELSE edge_tts.action, a)
  BY <1>1, ParseAnswers
<1>3. speak.arguments = a /\ a["list_voices"] # Set
  <2>1. speak.arguments = a
    BY <1>2 DEF Accepted
  <2>2. CASE a["list_voices"] = Set
    <3>1. speak.action = "list_voices"
      BY <1>2, <2>2 DEF Accepted
    <3> QED BY <3>1
  <2> QED BY <2>1, <2>2
<1>4. Reads(edge_tts, line, a)
  BY <1>1, LoopReads
<1>5. ~Flagged(edge_tts, line)
  <2>1. edge_tts.flag = "list_voices"
    BY DEF edge_tts
  <2> QED BY <1>3, <1>4, <2>1 DEF Reads
<1>6. \A k \in DOMAIN line : OptionOf(edge_tts, line[k]) \notin {"write_media", "write_subtitles"}
  <2>1. {"write_media", "write_subtitles"} \subseteq edge_tts.values
    BY DEF edge_tts
  <2> QED BY <1>3, <1>4, <2>1 DEF Reads
<1>7. /\ \A t \in edge_playback.flags : t.form # "word" /\ OptionOf(edge_tts, t) = Absent
      /\ \A t : MessageOf(edge_playback, t) # Absent => MessageOf(edge_tts, t) # Absent
  <2>1. \A t \in edge_playback.flags : t.form # "word" /\ OptionOf(edge_tts, t) = Absent
    BY DEF edge_tts, edge_playback, OptionOf, ShortName, Absent, Long, Short, Configuration
  <2>2. \A t : MessageOf(edge_playback, t) # Absent => MessageOf(edge_tts, t) # Absent
    BY DEF MessageOf, edge_tts, edge_playback, Absent
  <2> QED BY <2>1, <2>2
<1>8. ASSUME NEW k \in DOMAIN line
      PROVE  line[k].form = "word" \/ OptionOf(edge_tts, line[k]) # Absent
  <2>1. WellPlaced(edge_tts, line, k)
    BY <1>1, WellFormedIs
  <2>2. line[k] \notin edge_tts.flags
    BY <1>5 DEF Flagged
  <2> QED BY <2>1, <2>2 DEF WellPlaced
<1>9. Common(line)
  <2>1. \A k \in DOMAIN line : line[k] \notin edge_tts.flags
    BY <1>5 DEF Flagged
  <2>2. \A k \in DOMAIN line : line[k] \notin edge_playback.flags
    BY <1>7, <1>8
  <2> QED BY <1>6, <2>1, <2>2 DEF Common
<1>10. ~Asks(edge_playback, line)
  BY <1>1, <1>7 DEF Asks
<1>11. \E x : speak = Accepted("synthesize", x) /\ do_parse(edge_playback, line) = Accepted("play", x)
  <2>1. speak # Refused
    BY DEF Refused
  <2> QED BY <1>1, <1>9, <1>10, <2>1, CommonAnswers
<1> QED BY <1>11 DEF Accepted

\* While the line is parsed it is one the program was started with.
Typed == stage = "parse" => tokens \in Seq(Token)

LEMMA TypedIsKept == Spec => []Typed
<1>1. Init => Typed
  BY LinesAssumption DEF Init, Typed
<1>2. Typed /\ [Next]_vars => Typed'
  <2> SUFFICES ASSUME Typed, [Next]_vars PROVE Typed'
    OBVIOUS
  <2>1. CASE UNCHANGED vars
    BY <2>1 DEF vars, input, Typed
  <2>2. CASE Next
    <3>1. stage' # "parse"
      <4>1. Parse => stage' # "parse"
        BY DEF Parse, GoTo, Fail, Leave
      <4>2. Dispatch => stage' # "parse"
        BY DEF Dispatch, DispatchError, GoTo, Fail, Leave
      <4>3. DispatchListVoices \/ Load \/ Confirm \/ Synthesize => stage' # "parse"
        BY DEF DispatchListVoices, Load, LoadFile, Confirm, Synthesize, GoTo, Fail, Abort, Leave
      <4>4. Route \/ Routed => stage' # "parse"
        BY DEF Route, Routed, GoTo, Fail, Leave
      <4>5. WriteMedia \/ WriteSubtitles \/ Flush => stage' # "parse"
        BY DEF WriteMedia, WriteSubtitles, Flush, WriteFile, GoTo, Fail, Leave
      <4> QED BY <2>2, <4>1, <4>2, <4>3, <4>4, <4>5 DEF Next
    <3> QED BY <3>1 DEF Typed
  <2> QED BY <2>1, <2>2
<1> QED BY <1>1, <1>2, PTL DEF Spec

\* Every line a user may type is accepted by either parser exactly if it is well
\* formed and names one input, each option gets the value of its last place, and
\* a line without the options of one program only means the same to both
\* (EdgeTtsArgumentParser.cpp:60-276, PlaybackArgumentParser.cpp:40-228).
THEOREM LinesAreReadAsWritten == Spec => []LinesMeanTheSame
<1>1. Typed => LinesMeanTheSame
  <2> SUFFICES ASSUME Typed, stage = "parse" PROVE LinesMeanTheSame
    BY DEF LinesMeanTheSame, ParsedAsWritten, PlaybackSubset
  <2>1. tokens \in Seq(Token)
    BY DEF Typed
  <2>2. ParsedAsWritten
    BY <2>1, LineRead DEF ParsedAsWritten, Asks
  <2>3. PlaybackSubset
    BY <2>1, PlayedIsSpoken, SpokenIsPlayed DEF PlaybackSubset
  <2> QED BY <2>2, <2>3 DEF LinesMeanTheSame
<1> QED BY <1>1, TypedIsKept, PTL
=============================================================================
