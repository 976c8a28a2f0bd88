------------------------------ MODULE Playback ------------------------------
(***************************************************************************)
(* edge-playback: the dispatcher that synthesises into a temporary file    *)
(* and plays it with ffplay, on top of ProcessRunner.                      *)
(*                                                                         *)
(* What save() leaves on the disk is taken from SpeechSynthesizer: the     *)
(* media file first, then the subtitles, each absent, torn or whole.       *)
(***************************************************************************)
EXTENDS ProcessRunner, Sequences, SequencesExt

CONSTANTS
  Paths           \* values of PATH: sequences of directories, "" for an empty segment

ASSUME PathsAssumption == \A p \in Paths : p \in Seq(STRING)

VARIABLES
  step,       \* where dispatch() is
  action,     \* what the parser made of the command line
  keep_temp,  \* EDGE_PLAYBACK_KEEP_TEMP is set
  named,      \* the files temp_provider_ gave a path for
  disk,       \* the two temporary files
  guarded,    \* the files the TempGuard removes; {} while there is none
  ffplay,     \* the directory find_on_path() found ffplay in, or NoDir
  error,      \* something was printed to stderr
  exit        \* exit code of the process, or NoExit

playbackVars == <<step, action, keep_temp, named, disk, guarded, ffplay, error, exit>>
vars == <<runnerVars, playbackVars>>

Files == {"mp3", "srt"}
NoDir == "none"
NoExit == -1
Aborted == 134  \* the status a shell shows for a process that SIGABRT ended

\* find_on_path: the first directory named on PATH that holds the program.
find_on_path(path_env, dirs) ==
  LET i == SelectInSeq(path_env, LAMBDA d : d # "" /\ d \in dirs)
  IN  IF i = 0 THEN NoDir ELSE path_env[i]

Directories == (UNION {{p[i] : i \in DOMAIN p} : p \in Paths}) \ {""}

Init ==
  /\ RunnerInit
  /\ step = "dispatch" /\ action = "none" /\ keep_temp \in BOOLEAN /\ named = {}
  /\ disk = [f \in Files |-> "absent"]
  /\ guarded = {} /\ ffplay = NoDir
  /\ error = FALSE /\ exit = NoExit

-----------------------------------------------------------------------------
(* The dispatcher.                                                         *)

\* The destructor of the TempGuard, if there is one, runs on the way out.
Leave(code) ==
  /\ step' = "exit" /\ exit' = code
  /\ disk' = [f \in Files |-> IF f \in guarded /\ ~keep_temp THEN "absent" ELSE disk[f]]
  /\ guarded' = {}

Complain(code) == error' = TRUE /\ Leave(code)

\* An exception that nobody catches: std::terminate() runs no destructor and
\* prints no message of the program's own.
Abort ==
  /\ step' = "exit" /\ exit' = Aborted /\ guarded' = {}
  /\ UNCHANGED <<disk, error>>

\* The parser's verdict; a command line with --mpv is refused.
dispatch ==
  /\ step = "dispatch"
  /\ action' \in {"help", "error", "play"}
  /\ \/ action' = "help" /\ Leave(0) /\ UNCHANGED error
     \/ action' = "error" /\ Complain(2)
     \/ action' = "play" /\ Complain(1)
     \/ action' = "play" /\ step' = "load" /\ UNCHANGED <<disk, guarded, error, exit>>
  /\ UNCHANGED <<keep_temp, named, ffplay, runnerVars>>

\* The input is there, or it is a directory or a file that cannot be opened; its
\* status or its bytes cannot be read, which throws.
load_playback ==
  /\ step = "load"
  /\ \/ step' = "temps" /\ UNCHANGED <<disk, guarded, error, exit>>
     \/ Complain(1)
     \/ Abort
  /\ UNCHANGED <<action, keep_temp, named, ffplay, runnerVars>>

\* Mutant: the guard knows only the media file.
temp_files_Mp3Guarded ==
  /\ step = "temps"
  /\ \/ named' = {} /\ (Complain(1) \/ Abort)
     \/ /\ named' \in {{"mp3"}, Files} /\ guarded' = {"mp3"}
        /\ step' = "save" /\ UNCHANGED <<disk, error, exit>>
  /\ UNCHANGED <<action, keep_temp, ffplay, runnerVars>>

\* The provider of main() throws where there is no directory for temporary
\* files; another one may return no path.
temp_files ==
  /\ step = "temps"
  /\ \/ named' = {} /\ (Complain(1) \/ Abort)
     \/ /\ named' \in {{"mp3"}, Files} /\ guarded' = named'
        /\ step' = "save" /\ UNCHANGED <<disk, error, exit>>
  /\ UNCHANGED <<action, keep_temp, ffplay, runnerVars>>

\* save() keeps its promise (SavedMeansWritten of SpeechSynthesizer): it fails unless
\* every file is whole.  What it can leave: the contents of the files it got to, the last one torn
\* when writing it failed.
Failed(d) == \E f \in named : d[f] # "whole"
InOrder(d) == d["srt"] # "absent" => d["mp3"] = "whole"
Saved == {d \in [Files -> {"absent", "torn", "whole"}] :
            InOrder(d) /\ \A f \in Files \ named : d[f] = "absent"}

\* Mutant: the result of save() is not looked at.
save_Unchecked ==
  /\ step = "save" /\ step' = "find"
  /\ disk' \in Saved
  /\ UNCHANGED <<action, keep_temp, named, guarded, ffplay, error, exit, runnerVars>>

save ==
  /\ step = "save"
  /\ disk' \in Saved
  /\ step' = IF Failed(disk') THEN "unsaved" ELSE "find"
  /\ UNCHANGED <<action, keep_temp, named, guarded, ffplay, error, exit, runnerVars>>

\* A number in the metadata that no double holds throws what its parser does not
\* catch, before save() has opened a file.
save_throws ==
  /\ step = "save" /\ Abort
  /\ UNCHANGED <<action, keep_temp, named, ffplay, runnerVars>>

save_failed ==
  /\ step = "unsaved" /\ Complain(1)
  /\ UNCHANGED <<action, keep_temp, named, ffplay, runnerVars>>

\* play_mp3: discovery, run(), and its verdict.
find_ffplay ==
  /\ step = "find"
  /\ \E path_env \in Paths, dirs \in SUBSET Directories : ffplay' = find_on_path(path_env, dirs)
  /\ IF ffplay' = NoDir
       THEN Complain(1) /\ UNCHANGED runnerVars
       ELSE step' = "play" /\ Call /\ UNCHANGED <<disk, guarded, error, exit>>
  /\ UNCHANGED <<action, keep_temp, named>>

\* Mutant: a child that ran is a success.
Played_AnyCode == outcome.kind = "ok"

Played == outcome.kind = "ok" /\ outcome.exit_code = 0

play_mp3 ==
  /\ step = "play" /\ main = "done"
  /\ \/ Played /\ Leave(0) /\ UNCHANGED error
     \/ ~Played /\ Complain(1)
  /\ UNCHANGED <<action, keep_temp, named, ffplay, runnerVars>>

Dispatcher ==
  \/ dispatch \/ load_playback \/ temp_files \/ save \/ save_throws \/ save_failed
  \/ find_ffplay \/ play_mp3

Next == Dispatcher \/ (Run /\ UNCHANGED playbackVars)

\* The process is scheduled and save() returns.
Spec == Init /\ [][Next]_vars /\ WF_vars(Dispatcher) /\ RunnerFairness

-----------------------------------------------------------------------------
(* Properties.                                                             *)

TypeOK ==
  /\ RunnerTypeOK
  /\ step \in {"dispatch", "load", "temps", "save", "unsaved", "find", "play", "exit"}
  /\ action \in {"none", "help", "error", "play"} /\ keep_temp \in BOOLEAN
  /\ named \in {{}, {"mp3"}, Files}
  /\ disk \in [Files -> {"absent", "torn", "whole"}]
  /\ guarded \subseteq Files /\ ffplay \in Directories \union {NoDir}
  /\ error \in BOOLEAN /\ exit \in {NoExit, 0, 1, 2, Aborted}

\* No temporary file outlives the process unless the user asked for it,
\* whichever step failed; and what the user asked to keep is not removed
\* (TempGuard, PlaybackCommandDispatcher.cpp:124-137).
TempFilesCleared ==
  step = "exit" =>
    /\ ~keep_temp => \A f \in Files : disk[f] = "absent"
    /\ keep_temp /\ exit = 0 => \A f \in named : disk[f] = "whole"

\* As long as ffplay lives it finds a complete media file: it is not started
\* on a torn one, and the file is not removed under it.
PlayedIsWhole == child \in {"setup", "running"} => disk["mp3"] = "whole"

\* Exit code 0 means that the text was played to its end by a child that says so,
\* or that help was asked for; 1 and 2 come with an error, and any other status
\* is that of a program aborted before there was a file or a child.
ExitZeroMeansPlayed ==
  step = "exit" =>
    /\ exit \in {1, 2} <=> error
    /\ exit = 0 /\ action = "play" =>
         child = "reaped" /\ status = 0 /\ \A s \in Streams : owed[s] = 0
    /\ exit \notin {0, 1, 2} =>
         action = "play" /\ child = "none" /\ \A f \in Files : disk[f] = "absent"

\* A file that could not be made whole is not played, and what was not played
\* to the end is an error, or an abort that leaves nothing (PlaybackCommandDispatcher.cpp:139-153,
\* FfmpegAudioConverter.cpp:13-37).
PlayedOrReported == PlayedIsWhole /\ ExitZeroMeansPlayed
=============================================================================
