---------------------- MODULE SynthesisSessionPromise -----------------------
(***************************************************************************)
(* SynthesisSession against its abstract specification.                    *)
(***************************************************************************)
EXTENDS SynthesisSession, Functions

\* The audio and boundary messages the frames of the service carry.
Speech ==
  {m \in UNION {Range(parse_incoming(frame).msgs) : frame \in Frames} :
     m.kind \in {"audio", "boundary"}}

\* The session implements the promise of Synthesis: every audio and boundary
\* message in the order received, boundaries on one time line, or a justified
\* error and nothing (SynthesisSession.cpp:138-225; SynthesisSession.hpp:66-79).
Promise == INSTANCE Synthesis
  WITH Message <- Speech, speaking <- chunk, outcome <- result

KeepsPromise == Promise!Spec
=============================================================================
