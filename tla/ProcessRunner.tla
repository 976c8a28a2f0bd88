--------------------------- MODULE ProcessRunner ----------------------------
(***************************************************************************)
(* ProcessRunner::run(): one child process whose stdout and stderr are     *)
(* captured through two pipes.                                             *)
(*                                                                         *)
(* Four things take steps: the calling thread, the thread that drains      *)
(* stderr, the child, and the kernel's signals.  Bytes are counted, not    *)
(* told apart: a pipe holds so many, the child still owes so many.         *)
(***************************************************************************)
EXTENDS Integers

CONSTANTS
  Capacity,       \* bytes a pipe holds
  BufferSize,     \* bytes one read() takes: char buf[4096]
  MaxOutput,      \* bound: bytes the child writes to one stream
  SignalsArrive   \* a handler without SA_RESTART may interrupt a read()

ASSUME PipeAssumption ==
  /\ Capacity \in Nat \ {0} /\ BufferSize \in Nat \ {0} /\ MaxOutput \in Nat
  /\ SignalsArrive \in BOOLEAN

VARIABLES
  main,       \* where run() is
  drainer,    \* the stderr thread: "none" when it is not joinable
  fds,        \* pipe ends the calling process has open
  closers,    \* pipe ends an armed FdCloser will close
  child,      \* the child process
  childFds,   \* pipe ends the child has open, under any descriptor
  pipe,       \* bytes in each pipe
  owed,       \* bytes the child still is to write
  read,       \* bytes drained from each pipe
  status,     \* what waitpid() would report: exit code, or Killed
  outcome,    \* what run() returned
  reaping,    \* environment: SIGCHLD is ignored, children vanish by themselves
  written     \* history: bytes the child wrote

runnerVars == <<main, drainer, fds, closers, child, childFds, pipe, owed, read, status,
                outcome, reaping, written>>

Streams == {"stdout", "stderr"}
End(s, side) == <<s, side>>
Ends(s) == {End(s, "read"), End(s, "write")}

Killed == -1          \* also the exit_code reported for it
SetupFailed == 126
NotExecuted == 127
ExitCodes == {0, 1}   \* of the program itself: success, any failure

NoOutcome == [kind |-> "none", exit_code |-> 0, stdout |-> 0, stderr |-> 0]
Fail == [NoOutcome EXCEPT !.kind = "external_process_failed"]
Captured == [kind |-> "ok", exit_code |-> status, stdout |-> read["stdout"],
             stderr |-> read["stderr"]]

RunnerInit ==
  /\ main = "idle" /\ drainer = "none"
  /\ fds = {} /\ closers = {}
  /\ child = "none" /\ childFds = {}
  /\ pipe = [s \in Streams |-> 0] /\ owed = [s \in Streams |-> 0]
  /\ read = [s \in Streams |-> 0] /\ written = [s \in Streams |-> 0]
  /\ status = 0 /\ outcome = NoOutcome
  /\ reaping \in BOOLEAN

\* The destructors of the closers run on every way out.
Return(result) ==
  /\ main' = "done" /\ outcome' = result
  /\ fds' = fds \ closers /\ closers' = {}

-----------------------------------------------------------------------------
(* The calling thread, up to the fork.                                     *)

Call ==
  /\ main = "idle" /\ main' = "pipe_out"
  /\ UNCHANGED <<drainer, fds, closers, child, childFds, pipe, owed, read, status, outcome,
                 reaping, written>>

NextPc == [pipe_out |-> "pipe_err", pipe_err |-> "fork"]

MakePipe(s) ==
  /\ main = IF s = "stdout" THEN "pipe_out" ELSE "pipe_err"
  /\ \/ /\ fds' = fds \union Ends(s) /\ closers' = closers \union Ends(s)
        /\ main' = NextPc[main]
        /\ UNCHANGED outcome
     \/ Return(Fail)
  /\ UNCHANGED <<drainer, child, childFds, pipe, owed, read, status, reaping, written>>

Fork ==
  /\ main = "fork"
  /\ \/ /\ main' = "close_writes" /\ child' = "setup" /\ childFds' = fds
        /\ UNCHANGED <<fds, closers, outcome>>
     \/ Return(Fail) /\ UNCHANGED <<child, childFds>>
  /\ UNCHANGED <<drainer, pipe, owed, read, status, reaping, written>>

-----------------------------------------------------------------------------
(* The child.                                                              *)

Exit(code) ==
  /\ child' = "exited" /\ childFds' = {} /\ status' = code
  /\ UNCHANGED owed

\* close() of the read ends, dup2() of the write ends, execvp().  The program
\* that starts means to write owed[s] bytes to stream s.
SetUp ==
  /\ child = "setup"
  /\ \/ Exit(SetupFailed)
     \/ Exit(NotExecuted)
     \/ /\ child' = "running" /\ childFds' = {End(s, "write") : s \in Streams}
        /\ owed' \in [Streams -> 0..MaxOutput]
        /\ UNCHANGED status
  /\ UNCHANGED <<main, drainer, fds, closers, pipe, read, outcome, reaping, written>>

\* write() blocks while the pipe is full.
Write(s) ==
  /\ child = "running" /\ owed[s] > 0 /\ pipe[s] < Capacity
  /\ owed' = [owed EXCEPT ![s] = @ - 1]
  /\ pipe' = [pipe EXCEPT ![s] = @ + 1]
  /\ written' = [written EXCEPT ![s] = @ + 1]
  /\ UNCHANGED <<main, drainer, fds, closers, child, childFds, read, status, outcome, reaping>>

Finish ==
  /\ child = "running" /\ \A s \in Streams : owed[s] = 0
  /\ \E code \in ExitCodes : Exit(code)
  /\ UNCHANGED <<main, drainer, fds, closers, pipe, read, outcome, reaping, written>>

\* By a signal, at any moment.
Die ==
  /\ child \in {"setup", "running"} /\ Exit(Killed)
  /\ UNCHANGED <<main, drainer, fds, closers, pipe, read, outcome, reaping, written>>

Child == SetUp \/ Finish \/ \E s \in Streams : Write(s)

-----------------------------------------------------------------------------
(* The calling thread and the drainer, after the fork.                     *)

\* Mutant: closed, but the closer stays armed.
CloseNow_NotDisarmed(ends) == fds' = fds \ ends /\ UNCHANGED closers

CloseNow(ends) == fds' = fds \ ends /\ closers' = closers \ ends

CloseWrites ==
  /\ main = "close_writes" /\ main' = "spawn"
  /\ CloseNow({End(s, "write") : s \in Streams})
  /\ UNCHANGED <<drainer, child, childFds, pipe, owed, read, status, outcome, reaping, written>>

Spawn ==
  /\ main = "spawn" /\ main' = "drain" /\ drainer' = "draining"
  /\ UNCHANGED <<fds, closers, child, childFds, pipe, owed, read, status, outcome, reaping,
                 written>>

EndOfFile(s) == pipe[s] = 0 /\ End(s, "write") \notin fds \union childFds

Interrupted(s) == SignalsArrive /\ pipe[s] = 0 /\ ~EndOfFile(s)

\* One read() that returns data.
Take(s) ==
  /\ pipe[s] > 0
  /\ LET n == IF pipe[s] < BufferSize THEN pipe[s] ELSE BufferSize
     IN  /\ pipe' = [pipe EXCEPT ![s] = @ - n]
         /\ read' = [read EXCEPT ![s] = @ + n]

\* The loop ends when read() returns 0 or -1, whatever errno is.
DrainEnds(s) == (EndOfFile(s) \/ Interrupted(s)) /\ UNCHANGED <<pipe, read>>

DrainStdout ==
  /\ main = "drain"
  /\ \/ Take("stdout") /\ UNCHANGED main
     \/ DrainEnds("stdout") /\ main' = "join"
  /\ UNCHANGED <<drainer, fds, closers, child, childFds, owed, status, outcome, reaping, written>>

\* Mutant: stderr is drained only when stdout has ended.
DrainStderr_AfterStdout ==
  /\ drainer = "draining" /\ main = "join"
  /\ \/ Take("stderr") /\ UNCHANGED drainer
     \/ DrainEnds("stderr") /\ drainer' = "finished"
  /\ UNCHANGED <<main, fds, closers, child, childFds, owed, status, outcome, reaping, written>>

DrainStderr ==
  /\ drainer = "draining"
  /\ \/ Take("stderr") /\ UNCHANGED drainer
     \/ DrainEnds("stderr") /\ drainer' = "finished"
  /\ UNCHANGED <<main, fds, closers, child, childFds, owed, status, outcome, reaping, written>>

\* Mutant: the thread is detached.
Join_Detached ==
  /\ main = "join" /\ main' = "wait"
  /\ UNCHANGED <<drainer, fds, closers, child, childFds, pipe, owed, read, status, outcome,
                 reaping, written>>

Join ==
  /\ main = "join" /\ drainer = "finished"
  /\ main' = "wait" /\ drainer' = "none"
  /\ UNCHANGED <<fds, closers, child, childFds, pipe, owed, read, status, outcome, reaping,
                 written>>

\* waitpid(), repeated on EINTR.  Where children vanish by themselves it waits
\* for the end of the child and then fails with ECHILD.
Wait ==
  /\ main = "wait" /\ child = "exited" /\ child' = "reaped"
  /\ Return(IF reaping THEN Fail ELSE Captured)
  /\ UNCHANGED <<drainer, childFds, pipe, owed, read, status, reaping, written>>

CallingThread ==
  \/ \E s \in Streams : MakePipe(s)
  \/ Fork \/ CloseWrites \/ Spawn \/ DrainStdout \/ Join \/ Wait

Run == CallingThread \/ DrainStderr \/ Child \/ Die

\* The threads are scheduled; a program that can go on goes on.  Signals need
\* not come, and Die is one.
RunnerFairness == WF_runnerVars(CallingThread) /\ WF_runnerVars(DrainStderr) /\ WF_runnerVars(Child)

-----------------------------------------------------------------------------
(* Properties.                                                             *)

RunnerTypeOK ==
  /\ main \in {"idle", "pipe_out", "pipe_err", "fork", "close_writes", "spawn", "drain",
               "join", "wait", "done"}
  /\ drainer \in {"none", "draining", "finished"}
  /\ child \in {"none", "setup", "running", "exited", "reaped"}
  /\ fds \subseteq UNION {Ends(s) : s \in Streams}
  /\ closers \subseteq UNION {Ends(s) : s \in Streams}
  /\ childFds \subseteq UNION {Ends(s) : s \in Streams}
  /\ pipe \in [Streams -> 0..Capacity] /\ owed \in [Streams -> 0..MaxOutput]
  /\ read \in [Streams -> 0..MaxOutput] /\ written \in [Streams -> 0..MaxOutput]
  /\ status \in ExitCodes \union {Killed, SetupFailed, NotExecuted}
  /\ outcome.kind \in {"none", "ok", "external_process_failed"} /\ reaping \in BOOLEAN

\* However run() returns, it leaves no descriptor open, no thread and no child
\* behind; and no closer closes an end that is not open any more, whose number
\* could be another file's by then (FdCloser, ProcessRunner.cpp:42-49).
NothingLeftOpen ==
  /\ closers \subseteq fds
  /\ main = "done" => fds = {} /\ drainer = "none" /\ child \in {"none", "reaped"}
  /\ drainer = "draining" => End("stderr", "read") \in fds

\* What run() reports is what the child did: every byte it wrote to either
\* stream, and its own exit code ("stdout and stderr are captured and returned
\* in ProcessResult", ProcessRunner.hpp:56).
ResultIsTheChilds ==
  outcome.kind = "ok" =>
    /\ outcome.exit_code = status
    /\ outcome.stdout = written["stdout"] /\ outcome.stderr = written["stderr"]

\* run() comes back although either pipe may fill up at any time: parent and
\* child never wait for each other for ever (ProcessRunner.cpp:118-128).
RunReturns == (main # "idle") ~> (main = "done")
=============================================================================
