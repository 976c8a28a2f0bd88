--------------------------- MODULE PlaybackProofs ----------------------------
(***************************************************************************)
(* Proofs about ProcessRunner and Playback, for pipes, buffers and outputs *)
(* of any size and any PATH.                                               *)
(***************************************************************************)
EXTENDS Playback, WellFoundedInduction, TLAPS

AllEnds == {End(s, side) : s \in Streams, side \in {"read", "write"}}
WriteEnds == {End(s, "write") : s \in Streams}
ReadEnds == {End(s, "read") : s \in Streams}

\* A step of run(), of its drainer or its child, or none.
RunnerStep == Call \/ Run \/ UNCHANGED runnerVars

LEMMA EveryStep ==
  ASSUME [Next]_vars
  PROVE  RunnerStep
BY DEF Next, Dispatcher, dispatch, load_playback, temp_files, save, save_throws, save_failed,
       find_ffplay, play_mp3, vars, RunnerStep

-----------------------------------------------------------------------------
(* The descriptors, the drainer and the child.                             *)

\* Which ends are open, and that each has an armed closer, follows from where
\* run() is.
Descriptors ==
  /\ closers = fds
  /\ main \in {"idle", "pipe_out", "done"} => fds = {}
  /\ main = "pipe_err" => fds = Ends("stdout")
  /\ main \in {"fork", "close_writes"} => fds = AllEnds
  /\ main \in {"spawn", "drain", "join", "wait"} => fds = ReadEnds

Thread == drainer # "none" <=> main \in {"drain", "join"}

ChildLives ==
  /\ main \in {"idle", "pipe_out", "pipe_err", "fork"} => child = "none"
  /\ main \in {"close_writes", "spawn", "drain", "join", "wait"} =>
       child \in {"setup", "running", "exited"}
  /\ main = "done" => child \in {"none", "reaped"}
  /\ child = "setup" => childFds = AllEnds
  /\ child = "running" => childFds = WriteEnds
  /\ child \notin {"setup", "running"} => childFds = {}

\* The control state, without the bytes.
ControlOK ==
  /\ main \in {"idle", "pipe_out", "pipe_err", "fork", "close_writes", "spawn", "drain",
               "join", "wait", "done"}
  /\ drainer \in {"none", "draining", "finished"}
  /\ child \in {"none", "setup", "running", "exited", "reaped"}
  /\ status \in ExitCodes \union {Killed, SetupFailed, NotExecuted}
  /\ outcome.kind \in {"none", "ok", "external_process_failed"}
  /\ reaping \in BOOLEAN

Control == ControlOK /\ Descriptors /\ Thread /\ ChildLives

LEMMA StepControl ==
  ASSUME Control, RunnerStep
  PROVE  Control'
<1> USE DEF Control, ControlOK, Descriptors, Thread, ChildLives
<1>1. CASE Call
  BY <1>1 DEF Call
<1>2. ASSUME NEW s \in Streams, MakePipe(s) PROVE Control'
  <2>1. CASE Return(Fail)
    BY <1>2, <2>1 DEF MakePipe, Return, Fail, NoOutcome
  <2>2. CASE ~Return(Fail)
    <3>1. CASE s = "stdout"
      BY <1>2, <2>2, <3>1 DEF MakePipe, NextPc
    <3>2. CASE s = "stderr"
      BY <1>2, <2>2, <3>2 DEF MakePipe, NextPc, Ends, AllEnds, Streams
    <3> QED BY <3>1, <3>2 DEF Streams
  <2> QED BY <2>1, <2>2
<1>3. CASE Fork
  <2>1. CASE Return(Fail)
    BY <1>3, <2>1 DEF Fork, Return, Fail, NoOutcome
  <2>2. CASE ~Return(Fail)
    BY <1>3, <2>2 DEF Fork
  <2> QED BY <2>1, <2>2
<1>4. CASE CloseWrites
  <2>1. AllEnds \ WriteEnds = ReadEnds
    BY DEF AllEnds, WriteEnds, ReadEnds, Streams, End
  <2> QED BY <1>4, <2>1 DEF CloseWrites, CloseNow, WriteEnds
<1>5. CASE Spawn \/ Join
  BY <1>5 DEF Spawn, Join
<1>6. CASE DrainStdout \/ DrainStderr
  BY <1>6 DEF DrainStdout, DrainStderr
<1>7. CASE Wait
  <2>1. Fail.kind = "external_process_failed" /\ Captured.kind = "ok"
    BY DEF Fail, NoOutcome, Captured
  <2> QED BY <1>7, <2>1 DEF Wait, Return
<1>8. CASE SetUp
  BY <1>8 DEF SetUp, Exit, WriteEnds
<1>9. ASSUME NEW s \in Streams, Write(s) PROVE Control'
  BY <1>9 DEF Write
<1>10. CASE Finish \/ Die
  BY <1>10 DEF Finish, Die, Exit
<1>11. CASE UNCHANGED runnerVars
  BY <1>11 DEF runnerVars
<1> QED
  BY <1>1, <1>2, <1>3, <1>4, <1>5, <1>6, <1>7, <1>8, <1>9, <1>10, <1>11
     DEF RunnerStep, Run, CallingThread, Child

LEMMA ControlInvariant == Spec => []Control
<1>1. ASSUME Init PROVE Control
  BY <1>1 DEF Init, RunnerInit, NoOutcome, ExitCodes, Control, ControlOK, Descriptors, Thread,
              ChildLives
<1>2. ASSUME Control, [Next]_vars PROVE Control'
  BY <1>2, EveryStep, StepControl
<1> QED BY <1>1, <1>2, PTL DEF Spec

\* run() leaves no descriptor, no thread and no child behind on any way out,
\* and no closer is armed for an end that is closed.
THEOREM NothingIsLeftOpen == Spec => []NothingLeftOpen
<1>1. ASSUME Control PROVE NothingLeftOpen
  <2>1. End("stderr", "read") \in ReadEnds
    BY DEF ReadEnds, Streams
  <2> QED BY <1>1, <2>1 DEF Control, ControlOK, Descriptors, Thread, ChildLives, NothingLeftOpen
<1> QED BY <1>1, ControlInvariant, PTL

-----------------------------------------------------------------------------
(* The bytes.                                                              *)

Counters == [Streams -> Nat]

CountersOK == pipe \in Counters /\ owed \in Counters /\ read \in Counters /\ written \in Counters

\* Every byte written is in the pipe or was read, and the child never writes
\* more than it meant to.
Ledger ==
  /\ CountersOK
  /\ \A s \in Streams : /\ written[s] = read[s] + pipe[s]
                        /\ written[s] + owed[s] <= MaxOutput
                        /\ pipe[s] <= Capacity
  /\ child \in {"none", "setup"} => \A s \in Streams : written[s] = 0 /\ owed[s] = 0

\* One read() moves bytes from a pipe to its reader.
LEMMA TakeMoves ==
  ASSUME NEW s \in Streams, Take(s), Ledger
  PROVE  /\ pipe' \in Counters /\ read' \in Counters
         /\ \A t \in Streams : pipe'[t] <= pipe[t] /\ read'[t] + pipe'[t] = read[t] + pipe[t]
<1> DEFINE n == IF pipe[s] < BufferSize THEN pipe[s] ELSE BufferSize
<1>1. /\ pipe' = [pipe EXCEPT ![s] = @ - n] /\ read' = [read EXCEPT ![s] = @ + n]
  BY DEF Take
<1>2. n \in Nat /\ n <= pipe[s]
  BY PipeAssumption DEF Ledger, CountersOK, Counters
<1> HIDE DEF n
<1> QED BY <1>1, <1>2 DEF Ledger, CountersOK, Counters

LEMMA StepLedger ==
  ASSUME Control, Ledger, RunnerStep
  PROVE  Ledger'
<1>1. CASE UNCHANGED <<child, pipe, owed, read, written>>
  BY <1>1 DEF Ledger, CountersOK
<1>2. ASSUME NEW s \in Streams, Take(s), UNCHANGED <<child, owed, written>> PROVE Ledger'
  <2>1. /\ pipe' \in Counters /\ read' \in Counters
        /\ \A t \in Streams : pipe'[t] <= pipe[t] /\ read'[t] + pipe'[t] = read[t] + pipe[t]
    BY <1>2, TakeMoves
  <2>2. ASSUME NEW t \in Streams
        PROVE  written'[t] = read'[t] + pipe'[t] /\ pipe'[t] <= Capacity
    BY <1>2, <2>1, PipeAssumption DEF Ledger, CountersOK, Counters
  <2> QED BY <1>2, <2>1, <2>2 DEF Ledger, CountersOK
<1>3. CASE DrainStdout
  BY <1>1, <1>2, <1>3 DEF DrainStdout, DrainEnds, Streams
<1>4. CASE DrainStderr
  BY <1>1, <1>2, <1>4 DEF DrainStderr, DrainEnds, Streams
<1>5. CASE Fork
  <2>1. UNCHANGED <<pipe, owed, read, written>> /\ child = "none" /\ child' \in {"setup", child}
    BY <1>5 DEF Fork, Control, ChildLives
  <2> QED BY <2>1 DEF Ledger, CountersOK
<1>6. CASE SetUp
  <2>1. /\ UNCHANGED <<pipe, read, written>> /\ child = "setup" /\ child' \in {"running", "exited"}
        /\ owed' = owed \/ owed' \in [Streams -> 0..MaxOutput]
    BY <1>6 DEF SetUp, Exit
  <2>2. \A s \in Streams : written[s] = 0 /\ owed[s] = 0
    BY <2>1 DEF Ledger
  <2>3. owed' \in Counters /\ \A s \in Streams : owed'[s] <= MaxOutput
    <3>1. CASE owed' = owed
      BY <3>1, <2>2, PipeAssumption DEF Ledger, CountersOK, Counters
    <3>2. CASE owed' \in [Streams -> 0..MaxOutput]
      BY <3>2, PipeAssumption DEF Counters
    <3> QED BY <2>1, <3>1, <3>2
  <2>4. \A s \in Streams : written'[s] + owed'[s] <= MaxOutput
    BY <2>1, <2>2, <2>3, PipeAssumption DEF Counters
  <2> QED BY <2>1, <2>3, <2>4 DEF Ledger, CountersOK
<1>7. ASSUME NEW s \in Streams, Write(s) PROVE Ledger'
  <2>1. /\ owed[s] > 0 /\ pipe[s] < Capacity /\ child = "running"
        /\ owed' = [owed EXCEPT ![s] = @ - 1] /\ pipe' = [pipe EXCEPT ![s] = @ + 1]
        /\ written' = [written EXCEPT ![s] = @ + 1] /\ UNCHANGED <<child, read>>
    BY <1>7 DEF Write
  <2>2. CountersOK'
    BY <2>1 DEF Ledger, CountersOK, Counters
  <2>3. ASSUME NEW t \in Streams
        PROVE  /\ written'[t] = read'[t] + pipe'[t] /\ written'[t] + owed'[t] <= MaxOutput
               /\ pipe'[t] <= Capacity
    BY <2>1, PipeAssumption DEF Ledger, CountersOK, Counters
  <2> QED BY <2>1, <2>2, <2>3 DEF Ledger
<1>8. CASE Finish \/ Die
  <2>1. /\ UNCHANGED <<pipe, read, owed, written>> /\ child' = "exited"
    BY <1>8 DEF Finish, Die, Exit
  <2> QED BY <2>1 DEF Ledger, CountersOK
<1>9. CASE Wait
  <2>1. /\ UNCHANGED <<pipe, read, owed, written>> /\ child' = "reaped"
    BY <1>9 DEF Wait
  <2> QED BY <2>1 DEF Ledger, CountersOK
<1>10. CASE Call \/ (\E s \in Streams : MakePipe(s)) \/ CloseWrites \/ Spawn \/ Join
  BY <1>10, <1>1 DEF Call, MakePipe, CloseWrites, Spawn, Join
<1>11. CASE UNCHANGED runnerVars
  BY <1>11, <1>1 DEF runnerVars
<1> QED
  BY <1>3, <1>4, <1>5, <1>6, <1>7, <1>8, <1>9, <1>10, <1>11
     DEF RunnerStep, Run, CallingThread, Child

LEMMA LedgerInvariant == Spec => []Ledger
<1>1. ASSUME Init PROVE Ledger
  BY <1>1, PipeAssumption DEF Init, RunnerInit, Ledger, CountersOK, Counters
<1>2. ASSUME Control, Ledger, [Next]_vars PROVE Ledger'
  BY <1>2, EveryStep, StepLedger
<1> QED BY <1>1, <1>2, ControlInvariant, PTL DEF Spec

LEMMA RunnerTyped ==
  ASSUME Control, Ledger
  PROVE  RunnerTypeOK
<1>1. \A s \in Streams : /\ pipe[s] \in 0..Capacity /\ owed[s] \in 0..MaxOutput
                         /\ read[s] \in 0..MaxOutput /\ written[s] \in 0..MaxOutput
  BY PipeAssumption DEF Ledger, CountersOK, Counters
<1>2. /\ pipe \in [Streams -> 0..Capacity] /\ owed \in [Streams -> 0..MaxOutput]
      /\ read \in [Streams -> 0..MaxOutput] /\ written \in [Streams -> 0..MaxOutput]
  BY <1>1 DEF Ledger, CountersOK, Counters
<1>3. UNION {Ends(s) : s \in Streams} = AllEnds
  BY DEF Ends, AllEnds, Streams
<1>4. /\ fds \subseteq AllEnds /\ closers \subseteq AllEnds /\ childFds \subseteq AllEnds
  <2>1. ReadEnds \subseteq AllEnds /\ WriteEnds \subseteq AllEnds /\ Ends("stdout") \subseteq AllEnds
    BY DEF Ends, AllEnds, ReadEnds, WriteEnds, Streams
  <2> QED BY <2>1 DEF Control, ControlOK, Descriptors, ChildLives
<1> QED BY <1>2, <1>3, <1>4 DEF RunnerTypeOK, Control, ControlOK

-----------------------------------------------------------------------------
(* The result.                                                             *)

\* A child that ends with 0 wrote all it meant to write.
OwesNothing ==
  child \in {"exited", "reaped"} /\ status = 0 => \A s \in Streams : owed[s] = 0

LEMMA StepOwes ==
  ASSUME Control, OwesNothing, RunnerStep
  PROVE  OwesNothing'
<1> USE DEF OwesNothing
<1>1. CASE UNCHANGED <<child, owed, status>>
  BY <1>1
<1>2. CASE Fork
  BY <1>2 DEF Fork
<1>3. CASE SetUp
  BY <1>3 DEF SetUp, Exit, SetupFailed, NotExecuted
<1>4. CASE Finish
  BY <1>4 DEF Finish, Exit
<1>5. CASE Die
  BY <1>5 DEF Die, Exit, Killed
<1>6. ASSUME NEW s \in Streams, Write(s) PROVE OwesNothing'
  BY <1>6 DEF Write
<1>7. CASE Wait
  BY <1>7 DEF Wait
<1>8. CASE Call \/ (\E s \in Streams : MakePipe(s)) \/ CloseWrites \/ Spawn \/ Join
  BY <1>8, <1>1 DEF Call, MakePipe, CloseWrites, Spawn, Join
<1>9. CASE DrainStdout \/ DrainStderr \/ UNCHANGED runnerVars
  BY <1>9, <1>1 DEF DrainStdout, DrainStderr, runnerVars
<1> QED
  BY <1>2, <1>3, <1>4, <1>5, <1>6, <1>7, <1>8, <1>9
     DEF RunnerStep, Run, CallingThread, Child

LEMMA OwesInvariant == Spec => []OwesNothing
<1>1. ASSUME Init PROVE OwesNothing
  BY <1>1 DEF Init, RunnerInit, OwesNothing
<1>2. ASSUME Control, OwesNothing, [Next]_vars PROVE OwesNothing'
  BY <1>2, EveryStep, StepOwes
<1> QED BY <1>1, <1>2, ControlInvariant, PTL DEF Spec

\* A success is reported at the end and says what was read and seen.
Truthful == outcome.kind = "ok" => main = "done" /\ child = "reaped" /\ outcome = Captured

LEMMA StepTruthful ==
  ASSUME Control, Truthful, RunnerStep
  PROVE  Truthful'
<1>0. Fail.kind = "external_process_failed" /\ (main = "done" => child \in {"none", "reaped"})
  BY DEF Fail, NoOutcome, Control, ChildLives
<1>1. CASE UNCHANGED <<main, child, outcome, status, read>>
  BY <1>1 DEF Truthful, Captured
<1>2. CASE main # "done" /\ UNCHANGED outcome
  BY <1>2 DEF Truthful
<1>3. ASSUME NEW s \in Streams, MakePipe(s) PROVE Truthful'
  <2>1. main # "done" /\ (UNCHANGED outcome \/ outcome' = Fail)
    BY <1>3 DEF MakePipe, Return
  <2> QED BY <1>0, <2>1 DEF Truthful
<1>4. CASE Fork
  <2>1. main # "done" /\ (UNCHANGED outcome \/ outcome' = Fail)
    BY <1>4 DEF Fork, Return
  <2> QED BY <1>0, <2>1 DEF Truthful
<1>5. CASE Wait
  <2>1. /\ main' = "done" /\ child' = "reaped" /\ (outcome' = Captured \/ outcome' = Fail)
        /\ UNCHANGED <<status, read>>
    BY <1>5 DEF Wait, Return
  <2> QED BY <1>0, <2>1 DEF Truthful, Captured
<1>6. CASE Call \/ CloseWrites \/ Spawn \/ Join \/ DrainStdout
  BY <1>2, <1>6 DEF Call, CloseWrites, Spawn, Join, DrainStdout
<1>7. CASE DrainStderr
  BY <1>2, <1>7 DEF DrainStderr, Control, Thread
<1>8. CASE SetUp \/ Finish \/ Die
  BY <1>0, <1>2, <1>8 DEF SetUp, Finish, Die
<1>9. ASSUME NEW s \in Streams, Write(s) PROVE Truthful'
  BY <1>1, <1>9 DEF Write
<1>10. CASE UNCHANGED runnerVars
  BY <1>1, <1>10 DEF runnerVars
<1> QED
  BY <1>3, <1>4, <1>5, <1>6, <1>7, <1>8, <1>9, <1>10
     DEF RunnerStep, Run, CallingThread, Child

LEMMA TruthfulInvariant == Spec => []Truthful
<1>1. ASSUME Init PROVE Truthful
  BY <1>1 DEF Init, RunnerInit, NoOutcome, Truthful
<1>2. ASSUME Control, Truthful, [Next]_vars PROVE Truthful'
  BY <1>2, EveryStep, StepTruthful
<1> QED BY <1>1, <1>2, ControlInvariant, PTL DEF Spec

\* A loop that ended at the end of a pipe, not at a signal, has read all: the
\* child is gone and nothing is left in the pipe.
Drained ==
  /\ drainer = "finished" => child = "exited" /\ pipe["stderr"] = 0
  /\ main = "join" => child = "exited" /\ pipe["stdout"] = 0
  /\ main = "wait" => child = "exited" /\ \A s \in Streams : pipe[s] = 0
  /\ outcome.kind = "ok" => \A s \in Streams : pipe[s] = 0

\* The write end of a pipe is open as long as the child runs.
LEMMA EndMeansGone ==
  ASSUME ~SignalsArrive, Control, main \in {"drain", "join"}, NEW s \in Streams, DrainEnds(s)
  PROVE  child = "exited" /\ pipe[s] = 0 /\ UNCHANGED pipe
<1>1. pipe[s] = 0 /\ End(s, "write") \notin childFds /\ UNCHANGED pipe
  BY DEF DrainEnds, Interrupted, EndOfFile
<1>2. End(s, "write") \in WriteEnds /\ End(s, "write") \in AllEnds
  BY DEF WriteEnds, AllEnds
<1> QED BY <1>1, <1>2 DEF Control, ChildLives

LEMMA StepDrained ==
  ASSUME ~SignalsArrive, Control, Ledger, Truthful, Drained, RunnerStep
  PROVE  Drained'
<1> USE DEF Drained, Control, ChildLives, Thread
<1>1. CASE UNCHANGED <<main, drainer, child, outcome, pipe>>
  BY <1>1
<1>2. CASE Call \/ CloseWrites \/ Spawn
  BY <1>2 DEF Call, CloseWrites, Spawn
<1>3. ASSUME NEW s \in Streams, MakePipe(s) PROVE Drained'
  <2>1. /\ main \notin {"drain", "join", "wait", "done"} /\ main' \notin {"join", "wait"}
        /\ UNCHANGED <<drainer, child, pipe>> /\ (UNCHANGED outcome \/ outcome' = Fail)
    BY <1>3 DEF MakePipe, Return, NextPc
  <2> QED BY <2>1 DEF Fail, NoOutcome, Truthful
<1>4. CASE Fork
  <2>1. /\ main = "fork" /\ main' \notin {"join", "wait"}
        /\ UNCHANGED <<drainer, pipe>> /\ (UNCHANGED outcome \/ outcome' = Fail)
    BY <1>4 DEF Fork, Return
  <2> QED BY <2>1 DEF Fail, NoOutcome, Truthful
<1>5. CASE DrainStdout
  <2>1. main = "drain" /\ UNCHANGED <<drainer, child, outcome>> /\ outcome.kind # "ok"
    BY <1>5 DEF DrainStdout, Truthful
  <2>2. CASE Take("stdout") /\ UNCHANGED main
    <3>1. pipe'["stderr"] = pipe["stderr"]
      BY <2>2 DEF Take, Ledger, CountersOK, Counters, Streams
    <3> QED BY <2>1, <2>2, <3>1
  <2>3. CASE DrainEnds("stdout") /\ main' = "join"
    BY <2>1, <2>3, EndMeansGone DEF Streams
  <2> QED BY <1>5, <2>2, <2>3 DEF DrainStdout
<1>6. CASE DrainStderr
  <2>1. /\ main \in {"drain", "join"} /\ drainer = "draining"
        /\ UNCHANGED <<main, child, outcome>> /\ outcome.kind # "ok"
    BY <1>6 DEF DrainStderr, Truthful
  <2>2. CASE Take("stderr") /\ UNCHANGED drainer
    <3>1. pipe'["stdout"] = pipe["stdout"]
      BY <2>2 DEF Take, Ledger, CountersOK, Counters, Streams
    <3> QED BY <2>1, <2>2, <3>1
  <2>3. CASE DrainEnds("stderr") /\ drainer' = "finished"
    BY <2>1, <2>3, EndMeansGone DEF Streams
  <2> QED BY <1>6, <2>2, <2>3 DEF DrainStderr
<1>7. CASE Join
  BY <1>7 DEF Join, Streams
<1>8. CASE Wait
  BY <1>8 DEF Wait, Return
<1>9. CASE SetUp \/ Finish \/ Die
  BY <1>9 DEF SetUp, Finish, Die, Exit
<1>10. ASSUME NEW s \in Streams, Write(s) PROVE Drained'
  BY <1>10 DEF Write, Truthful
<1>11. CASE UNCHANGED runnerVars
  BY <1>1, <1>11 DEF runnerVars
<1> QED
  BY <1>2, <1>3, <1>4, <1>5, <1>6, <1>7, <1>8, <1>9, <1>10, <1>11
     DEF RunnerStep, Run, CallingThread, Child

\* Where no signal interrupts a read(), what run() reports is what the child
\* did: every byte it wrote to either stream, and its exit code.
THEOREM ResultIsTheChild ==
  ASSUME ~SignalsArrive
  PROVE  Spec => []ResultIsTheChilds
<1>1. ASSUME Init PROVE Drained
  BY <1>1 DEF Init, RunnerInit, NoOutcome, Drained
<1>2. ASSUME Control, Ledger, Truthful, Drained, [Next]_vars PROVE Drained'
  BY <1>2, EveryStep, StepDrained
<1>3. ASSUME Ledger, Truthful, Drained PROVE ResultIsTheChilds
  <2>1. SUFFICES ASSUME outcome.kind = "ok" PROVE ResultIsTheChilds
    BY DEF ResultIsTheChilds
  <2>2. \A s \in Streams : written[s] = read[s]
    BY <1>3, <2>1 DEF Ledger, CountersOK, Counters, Drained
  <2>3. outcome = Captured
    BY <1>3, <2>1 DEF Truthful
  <2> QED BY <2>2, <2>3 DEF Captured, NoOutcome, ResultIsTheChilds, Streams
<1> QED BY <1>1, <1>2, <1>3, ControlInvariant, LedgerInvariant, TruthfulInvariant, PTL DEF Spec

-----------------------------------------------------------------------------
(* The dispatcher.                                                         *)

Asleep == step \in {"dispatch", "load", "temps", "save", "unsaved", "find"}

\* run() is called in the step "play", once, and has ended when that is left.
InStep ==
  /\ Asleep \/ step \in {"play", "exit"}
  /\ Asleep => main = "idle"
  /\ step = "play" => main # "idle"
  /\ step = "exit" => main \in {"idle", "done"}

\* Nothing of run() takes a step before it is called or after it returned.
LEMMA RunIsAwake ==
  ASSUME Control, Run
  PROVE  main \notin {"idle", "done"} /\ main' # "idle"
<1> USE DEF Control, ChildLives, Thread
<1>1. ASSUME NEW s \in Streams, MakePipe(s) PROVE main \notin {"idle", "done"} /\ main' # "idle"
  BY <1>1 DEF MakePipe, Return, NextPc
<1>2. CASE Fork \/ Wait
  BY <1>2 DEF Fork, Wait, Return
<1>3. CASE CloseWrites \/ Spawn \/ DrainStdout \/ Join \/ DrainStderr
  BY <1>3 DEF CloseWrites, Spawn, DrainStdout, Join, DrainStderr
<1>4. CASE SetUp \/ Finish \/ Die
  BY <1>4 DEF SetUp, Finish, Die
<1>5. ASSUME NEW s \in Streams, Write(s) PROVE main \notin {"idle", "done"} /\ main' # "idle"
  BY <1>5 DEF Write
<1> QED BY <1>1, <1>2, <1>3, <1>4, <1>5 DEF Run, CallingThread, Child

LEMMA StepInStep ==
  ASSUME Control, InStep, [Next]_vars
  PROVE  InStep'
<1> USE DEF InStep, Asleep
<1>1. CASE Run /\ UNCHANGED playbackVars
  BY <1>1, RunIsAwake DEF playbackVars
<1>2. CASE dispatch \/ load_playback \/ temp_files \/ save \/ save_throws \/ save_failed
  BY <1>2 DEF dispatch, load_playback, temp_files, save, save_throws, save_failed, Complain,
              Abort, Leave, runnerVars
<1>3. CASE find_ffplay
  BY <1>3 DEF find_ffplay, Complain, Leave, Call, runnerVars
<1>4. CASE play_mp3
  BY <1>4 DEF play_mp3, Complain, Leave, runnerVars
<1>5. CASE UNCHANGED vars
  BY <1>5 DEF vars, playbackVars, runnerVars
<1> QED BY <1>1, <1>2, <1>3, <1>4, <1>5 DEF Next, Dispatcher

LEMMA InStepInvariant == Spec => []InStep
<1>1. ASSUME Init PROVE InStep
  BY <1>1 DEF Init, RunnerInit, InStep, Asleep
<1>2. ASSUME Control, InStep, [Next]_vars PROVE InStep'
  BY <1>2, StepInStep
<1> QED BY <1>1, <1>2, ControlInvariant, PTL DEF Spec

\* Which of the temporary files there are, and who answers for them.
Temporary ==
  /\ disk \in [Files -> {"absent", "torn", "whole"}]
  /\ named \in {{}, {"mp3"}, Files} /\ keep_temp \in BOOLEAN
  /\ step \in {"dispatch", "load", "temps"} => named = {} /\ guarded = {}
  /\ step \in {"save", "unsaved", "find", "play"} => guarded = named /\ named # {}
  /\ step # "exit" => \A f \in Files \ guarded : disk[f] = "absent"
  /\ step = "save" => \A f \in Files : disk[f] = "absent"
  /\ step \in {"find", "play"} => \A f \in named : disk[f] = "whole"
  /\ step = "exit" => guarded = {}

NoFile == \A f \in Files : disk[f] = "absent"

\* The verdict: an exit code only at the end, and what stands behind it.
Verdict ==
  /\ action \in {"none", "help", "error", "play"}
  /\ error \in BOOLEAN /\ exit \in {NoExit, 0, 1, 2, Aborted}
  /\ step # "exit" => exit = NoExit /\ ~error
  /\ step = "exit" => exit # NoExit /\ (exit \in {1, 2} <=> error)
  /\ step \notin {"dispatch", "exit"} => action = "play"
  /\ exit = 0 /\ action = "play" => Played
  /\ exit = Aborted => action = "play" /\ child = "none" /\ NoFile

\* The guard removes what it knows of, unless the user keeps it.
LEMMA LeaveClears ==
  ASSUME Temporary, step # "exit", NEW code, Leave(code)
  PROVE  /\ step' = "exit" /\ exit' = code /\ guarded' = {}
         /\ disk' \in [Files -> {"absent", "torn", "whole"}]
         /\ ~keep_temp => \A f \in Files : disk'[f] = "absent"
         /\ keep_temp => disk' = disk
BY DEF Temporary, Leave

\* An exception gets out of dispatch() only before there is a file.
LEMMA AbortLeavesNothing ==
  ASSUME Temporary, step \in {"load", "temps", "save"}, Abort
  PROVE  /\ step' = "exit" /\ exit' = Aborted /\ guarded' = {} /\ UNCHANGED <<disk, error>>
         /\ NoFile /\ NoFile'
BY DEF Temporary, Abort, NoFile

LEMMA StepTemporary ==
  ASSUME Temporary, InStep, [Next]_vars
  PROVE  Temporary'
<1>1. CASE Run /\ UNCHANGED playbackVars
  BY <1>1 DEF playbackVars, Temporary
<1>2. ASSUME step # "exit", NEW code, Leave(code), named' \in {{}, {"mp3"}, Files}, UNCHANGED keep_temp
      PROVE  Temporary'
  BY <1>2, LeaveClears DEF Temporary
<1>0. ASSUME step \in {"load", "temps", "save"}, Abort, named' \in {{}, {"mp3"}, Files},
             UNCHANGED keep_temp
      PROVE  Temporary'
  BY <1>0, AbortLeavesNothing DEF Temporary
<1>3. CASE dispatch \/ load_playback
  <2>1. CASE UNCHANGED <<disk, guarded>> /\ step' # "exit"
    BY <1>3, <2>1 DEF dispatch, load_playback, Complain, Abort, Leave, Temporary
  <2>2. CASE \E code \in {0, 1, 2} : Leave(code)
    BY <1>2, <1>3, <2>2 DEF dispatch, load_playback, Temporary
  <2>3. CASE load_playback /\ Abort
    BY <1>0, <2>3 DEF load_playback, Temporary
  <2> QED BY <1>3, <2>1, <2>2, <2>3 DEF dispatch, load_playback, Complain
<1>4. CASE temp_files
  <2>1. CASE named' = {} /\ Complain(1)
    BY <1>2, <1>4, <2>1 DEF temp_files, Complain
  <2>2. CASE named' \in {{"mp3"}, Files} /\ guarded' = named' /\ step' = "save" /\ UNCHANGED disk
    BY <1>4, <2>2 DEF temp_files, Temporary, Files
  <2>3. CASE named' = {} /\ Abort
    BY <1>0, <1>4, <2>3 DEF temp_files
  <2> QED BY <1>4, <2>1, <2>2, <2>3 DEF temp_files
<1>5. CASE save
  <2>1. /\ step = "save" /\ step' \in {"unsaved", "find"} /\ disk' \in Saved
        /\ step' = "find" => ~Failed(disk') /\ UNCHANGED <<named, guarded, keep_temp>>
    BY <1>5 DEF save
  <2>2. /\ disk' \in [Files -> {"absent", "torn", "whole"}]
        /\ \A f \in Files \ named : disk'[f] = "absent"
        /\ step' = "find" => \A f \in named : disk'[f] = "whole"
    BY <2>1 DEF Saved, Failed
  <2>3. UNCHANGED <<named, guarded, keep_temp>>
    BY <1>5 DEF save
  <2> QED BY <2>1, <2>2, <2>3 DEF Temporary
<1>6. CASE save_throws \/ save_failed
  BY <1>0, <1>2, <1>6 DEF save_throws, save_failed, Complain, Temporary
<1>7. CASE find_ffplay
  <2>1. CASE Complain(1)
    BY <1>2, <1>7, <2>1 DEF find_ffplay, Complain, Temporary
  <2>2. CASE step' = "play" /\ UNCHANGED <<disk, guarded>>
    BY <1>7, <2>2 DEF find_ffplay, Temporary
  <2> QED BY <1>7, <2>1, <2>2 DEF find_ffplay
<1>8. CASE play_mp3
  BY <1>2, <1>8 DEF play_mp3, Complain, Temporary
<1>9. CASE UNCHANGED vars
  BY <1>9 DEF vars, playbackVars, Temporary
<1> QED
  BY <1>1, <1>3, <1>4, <1>5, <1>6, <1>7, <1>8, <1>9 DEF Next, Dispatcher

LEMMA TemporaryInvariant == Spec => []Temporary
<1>1. ASSUME Init PROVE Temporary
  BY <1>1 DEF Init, Temporary
<1>2. ASSUME Temporary, InStep, [Next]_vars PROVE Temporary'
  BY <1>2, StepTemporary
<1> QED BY <1>1, <1>2, InStepInvariant, PTL DEF Spec

LEMMA ComplainEnds ==
  ASSUME NEW code \in {1, 2}, Complain(code)
  PROVE  /\ step' = "exit" /\ error' = TRUE
         /\ exit' \in {1, 2} /\ exit' \notin {0, NoExit, Aborted}
BY DEF Complain, Leave, NoExit, Aborted

LEMMA StepVerdict ==
  ASSUME Control, InStep, Temporary, Verdict, [Next]_vars
  PROVE  Verdict'
<1> USE DEF Verdict
<1>1. CASE Run /\ UNCHANGED playbackVars
  <2>1. step # "exit"
    BY <1>1, EveryStep, RunIsAwake DEF InStep, Asleep
  <2> QED BY <1>1, <2>1 DEF playbackVars, NoExit, Aborted
<1>2. CASE dispatch
  <2>1. CASE action' = "help" /\ Leave(0) /\ UNCHANGED error
    BY <1>2, <2>1 DEF dispatch, Leave, NoExit, Aborted
  <2>2. CASE action' \in {"error", "play"} /\ (Complain(1) \/ Complain(2))
    <3>1. /\ step' = "exit" /\ error' = TRUE
          /\ exit' \in {1, 2} /\ exit' \notin {0, NoExit, Aborted}
      BY <2>2, ComplainEnds
    <3> QED BY <2>2, <3>1
  <2>3. CASE action' = "play" /\ step' = "load" /\ UNCHANGED <<error, exit>>
    BY <1>2, <2>3 DEF dispatch, NoExit, Aborted
  <2> QED BY <1>2, <2>1, <2>2, <2>3 DEF dispatch
<1>3. CASE (load_playback \/ temp_files \/ save \/ save_failed \/ find_ffplay) /\ ~Abort
  <2>1. /\ step \in {"load", "temps", "save", "unsaved", "find"} /\ UNCHANGED action
        /\ \/ Complain(1)
           \/ step' \in {"temps", "save", "unsaved", "find", "play"} /\ UNCHANGED <<error, exit>>
    BY <1>3 DEF load_playback, temp_files, save, save_failed, find_ffplay
  <2>2. CASE Complain(1)
    <3>1. /\ step' = "exit" /\ error' = TRUE
          /\ exit' \in {1, 2} /\ exit' \notin {0, NoExit, Aborted}
      BY <2>2, ComplainEnds
    <3> QED BY <2>1, <3>1
  <2>3. CASE ~Complain(1)
    BY <2>1, <2>3 DEF NoExit, Aborted
  <2> QED BY <2>2, <2>3
<1>4. CASE play_mp3
  <2>1. step = "play" /\ UNCHANGED <<action, outcome>>
    BY <1>4 DEF play_mp3, runnerVars
  <2>2. CASE Played /\ Leave(0) /\ UNCHANGED error
    BY <2>1, <2>2 DEF Leave, Played, NoExit, Aborted
  <2>3. CASE Complain(1)
    BY <2>1, <2>3 DEF Complain, Leave, NoExit, Aborted
  <2> QED BY <1>4, <2>2, <2>3 DEF play_mp3
<1>5. CASE (load_playback \/ temp_files \/ save_throws) /\ Abort
  <2>1. step \in {"load", "temps", "save"} /\ UNCHANGED <<action, child, main>>
    BY <1>5 DEF load_playback, temp_files, save_throws, runnerVars
  <2>2. child = "none"
    BY <2>1 DEF InStep, Asleep, Control, ChildLives
  <2>3. step' = "exit" /\ exit' = Aborted /\ error' = error /\ NoFile'
    BY <1>5, <2>1, AbortLeavesNothing
  <2> QED BY <2>1, <2>2, <2>3 DEF NoExit, Aborted
<1>6. CASE (save \/ save_failed \/ find_ffplay) /\ Abort
  BY <1>6 DEF save, save_failed, find_ffplay, Abort, Complain, Leave, Aborted
<1>7. CASE UNCHANGED vars
  BY <1>7 DEF vars, playbackVars, runnerVars, Played, NoFile
<1> QED BY <1>1, <1>2, <1>3, <1>4, <1>5, <1>6, <1>7 DEF Next, Dispatcher, save_throws

LEMMA VerdictInvariant == Spec => []Verdict
<1>1. ASSUME Init PROVE Verdict
  <2>1. action = "none" /\ error = FALSE /\ exit = NoExit /\ step = "dispatch"
    BY <1>1 DEF Init
  <2>2. NoExit # 0 /\ NoExit # Aborted
    BY DEF NoExit, Aborted
  <2> QED BY <2>1, <2>2 DEF Verdict
<1>2. ASSUME Control, InStep, Temporary, Verdict, [Next]_vars PROVE Verdict'
  BY <1>2, StepVerdict
<1> QED BY <1>1, <1>2, ControlInvariant, InStepInvariant, TemporaryInvariant, PTL DEF Spec

LEMMA StepCleared ==
  ASSUME Temporary, InStep, Verdict, TempFilesCleared, [Next]_vars
  PROVE  TempFilesCleared'
<1>1. CASE Run /\ UNCHANGED playbackVars
  BY <1>1 DEF playbackVars, TempFilesCleared
<1>2. CASE step' # "exit"
  BY <1>2 DEF TempFilesCleared
<1>3. ASSUME step # "exit", NEW code \in {1, 2}, Leave(code), UNCHANGED <<keep_temp>>
      PROVE  TempFilesCleared'
  BY <1>3, LeaveClears DEF TempFilesCleared
<1>4. CASE dispatch /\ step' = "exit"
  <2>1. CASE Leave(0)
    BY <1>4, <2>1, LeaveClears DEF dispatch, Temporary, TempFilesCleared
  <2>2. CASE Complain(1) \/ Complain(2)
    BY <1>3, <1>4, <2>2 DEF dispatch, Complain
  <2> QED BY <1>4, <2>1, <2>2 DEF dispatch
<1>5. CASE /\ load_playback \/ temp_files \/ save \/ save_throws \/ save_failed \/ find_ffplay
           /\ step' = "exit"
  <2>1. CASE Complain(1)
    <3>1. step # "exit" /\ UNCHANGED keep_temp
      BY <1>5 DEF load_playback, temp_files, save, save_throws, save_failed, find_ffplay
    <3> QED BY <1>3, <2>1, <3>1 DEF Complain
  <2>2. CASE step \in {"load", "temps", "save"} /\ Abort
    BY <2>2, AbortLeavesNothing DEF TempFilesCleared, NoFile, Aborted
  <2> QED
    BY <1>5, <2>1, <2>2
       DEF load_playback, temp_files, save, save_throws, save_failed, find_ffplay
<1>6. CASE play_mp3
  <2>1. step = "play" /\ UNCHANGED <<keep_temp, named>>
    BY <1>6 DEF play_mp3
  <2>2. CASE Leave(0)
    BY <2>1, <2>2, LeaveClears DEF Temporary, TempFilesCleared
  <2>3. CASE Complain(1)
    BY <1>3, <2>1, <2>3 DEF Complain
  <2> QED BY <1>6, <2>2, <2>3 DEF play_mp3
<1>7. CASE UNCHANGED vars
  BY <1>7 DEF vars, playbackVars, TempFilesCleared
<1> QED
  BY <1>1, <1>2, <1>4, <1>5, <1>6, <1>7 DEF Next, Dispatcher

\* No temporary file outlives the process unless the user asked for it, and
\* what the user asked to keep is kept whole.
THEOREM TempFilesAreCleared == Spec => []TempFilesCleared
<1>1. ASSUME Init PROVE TempFilesCleared
  BY <1>1 DEF Init, TempFilesCleared
<1>2. ASSUME Temporary, InStep, Verdict, TempFilesCleared, [Next]_vars PROVE TempFilesCleared'
  BY <1>2, StepCleared
<1> QED BY <1>1, <1>2, TemporaryInvariant, InStepInvariant, VerdictInvariant, PTL DEF Spec

\* ffplay only ever sees a whole file, exit code 0 means that it played it to
\* its end, 1 and 2 mean that an error was printed, and a program that ends in
\* any other way leaves no file and started no child.
THEOREM PlayedOrReportedAlways == Spec => []PlayedOrReported
<1>1. ASSUME Control, InStep, Temporary PROVE PlayedIsWhole
  <2>1. child \in {"setup", "running"} => step = "play"
    BY <1>1 DEF Control, ControlOK, ChildLives, InStep, Asleep
  <2> QED BY <1>1, <2>1 DEF Temporary, PlayedIsWhole, Files
<1>2. ASSUME Control, Truthful, OwesNothing, InStep, Verdict PROVE ExitZeroMeansPlayed
  <2>1. ASSUME Played PROVE child = "reaped" /\ status = 0 /\ \A s \in Streams : owed[s] = 0
    <3>1. main = "done" /\ outcome = Captured /\ outcome.exit_code = 0
      BY <1>2, <2>1 DEF Played, Truthful
    <3>2. status = 0
      BY <3>1 DEF Captured
    <3> QED BY <1>2, <2>1, <3>2 DEF Played, Truthful, OwesNothing
  <2> QED BY <1>2, <2>1 DEF Verdict, ExitZeroMeansPlayed, NoFile, NoExit
<1> QED
  BY <1>1, <1>2, ControlInvariant, TruthfulInvariant, OwesInvariant, InStepInvariant,
     TemporaryInvariant, VerdictInvariant, PTL DEF PlayedOrReported

-----------------------------------------------------------------------------
(* The type invariant.                                                     *)

LEMMA LeastOf ==
  ASSUME NEW I \in SUBSET Nat, I # {}
  PROVE  Min(I) \in I
<1>1. PICK k \in I : \A j \in I : <<j, k>> \notin OpToRel(<, Nat)
  BY NatLessThanWellFounded, WFMin, Zenon
<1>2. \A i, j \in Nat : i < j => <<i, j>> \in OpToRel(<, Nat)
  BY DEF OpToRel
<1>3. ASSUME NEW j \in I PROVE k <= j
  <2>1. ~(j < k)
    BY <1>1, <1>2, Zenon
  <2> QED BY <2>1
<1> QED BY <1>3 DEF Min

\* find_on_path() names a directory of PATH that is not empty, or none.
LEMMA FoundOnPath ==
  ASSUME NEW path_env \in Paths, NEW dirs
  PROVE  find_on_path(path_env, dirs) \in Directories \union {NoDir}
<1> DEFINE I == {i \in 1..Len(path_env) : path_env[i] # "" /\ path_env[i] \in dirs}
<1>0. path_env \in Seq(STRING) /\ Len(path_env) \in Nat /\ DOMAIN path_env = 1..Len(path_env)
  <2>1. path_env \in Seq(STRING)
    BY PathsAssumption, Zenon
  <2> QED BY <2>1
<1>1. SelectInSeq(path_env, LAMBDA d : d # "" /\ d \in dirs) = IF I # {} THEN Min(I) ELSE 0
  BY DEF SelectInSeq
<1>2. CASE I = {}
  BY <1>1, <1>2 DEF find_on_path
<1>3. CASE I # {}
  <2>1. Min(I) \in I
    <3>1. I \in SUBSET Nat
      <4>1. \A i \in I : i \in 1..Len(path_env)
        BY Zenon
      <4>2. \A i \in 1..Len(path_env) : i \in Nat
        BY <1>0
      <4> QED BY <4>1, <4>2, Zenon
    <3> HIDE DEF I
    <3> QED BY <1>3, <3>1, LeastOf
  <2>2. Min(I) \in 1..Len(path_env) /\ path_env[Min(I)] # ""
    BY <2>1
  <2>3. path_env[Min(I)] \in Directories
    <3>1. Min(I) \in DOMAIN path_env
      BY <2>2, <1>0
    <3>2. path_env[Min(I)] \in {path_env[i] : i \in DOMAIN path_env}
      BY <3>1
    <3>3. {path_env[i] : i \in DOMAIN path_env} \in {{p[i] : i \in DOMAIN p} : p \in Paths}
      OBVIOUS
    <3> HIDE DEF I
    <3>4. path_env[Min(I)] \in UNION {{p[i] : i \in DOMAIN p} : p \in Paths}
      BY <3>2, <3>3, Zenon
    <3>5. path_env[Min(I)] \notin {""}
      BY <2>2
    <3> QED BY <3>4, <3>5, Zenon DEF Directories
  <2> QED BY <1>1, <1>3, <2>2, <2>3 DEF find_on_path
<1> QED BY <1>2, <1>3

Found == ffplay \in Directories \union {NoDir}

LEMMA FoundInvariant == Spec => []Found
<1>1. ASSUME Init PROVE Found
  BY <1>1 DEF Init, Found
<1>2. ASSUME Found, [Next]_vars PROVE Found'
  <2>1. CASE find_ffplay
    BY <2>1, FoundOnPath DEF find_ffplay, Found
  <2>2. CASE ~find_ffplay
    BY <1>2, <2>2 DEF Next, Dispatcher, dispatch, load_playback, temp_files, save,
                      save_throws, save_failed, play_mp3, vars, playbackVars, Found
  <2> QED BY <2>1, <2>2
<1> QED BY <1>1, <1>2, PTL DEF Spec

\* The type invariant of the dispatcher and of the runner below it.
THEOREM TypeCorrect == Spec => []TypeOK
<1>1. ASSUME Control, Ledger, InStep, Temporary, Verdict, Found
      PROVE  TypeOK
  <2>1. step \in {"dispatch", "load", "temps", "save", "unsaved", "find", "play", "exit"}
    BY <1>1 DEF InStep, Asleep
  <2>2. guarded \subseteq Files
    BY <1>1, <2>1 DEF Temporary, Files
  <2> QED BY <1>1, <2>1, <2>2, RunnerTyped DEF TypeOK, Temporary, Verdict, Found
<1> QED
  BY <1>1, ControlInvariant, LedgerInvariant, InStepInvariant, TemporaryInvariant,
     VerdictInvariant, FoundInvariant, PTL

=============================================================================
