---------------------------- MODULE FrameStream -----------------------------
(***************************************************************************)
(* What IWebSocketClient::receive() promises: the items of the current     *)
(* connection, each once, in the order they came in; a timeout only when   *)
(* there is none to give.                                                  *)
(***************************************************************************)
EXTENDS Naturals, Sequences

CONSTANT Item

VARIABLES
  arrived,    \* items of the current connection
  taken,      \* those receive() has returned
  answer      \* result of the last call

vars == <<arrived, taken, answer>>

Silence == [op |-> "receive", code |-> "timeout"]

Connect == arrived' = <<>> /\ taken' = <<>> /\ answer'.op = "connect"

Arrive == (\E i \in Item : arrived' = Append(arrived, i)) /\ UNCHANGED <<taken, answer>>

Take ==
  /\ Len(taken) < Len(arrived)
  /\ taken' = Append(taken, arrived[Len(taken) + 1])
  /\ answer'.op = "receive" /\ answer' # Silence
  /\ UNCHANGED arrived

GiveUp ==
  /\ taken = arrived
  /\ answer' = Silence
  /\ UNCHANGED <<arrived, taken>>

\* The other calls say nothing about the items.
Other == answer'.op # "receive" /\ UNCHANGED <<arrived, taken>>

Init == arrived = <<>> /\ taken = <<>> /\ answer.op = "none"

Next == Connect \/ Arrive \/ Take \/ GiveUp \/ Other

Spec == Init /\ [][Next]_vars
=============================================================================
