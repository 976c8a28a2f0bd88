------------------------ MODULE MCSpeechSynthesizer ------------------------
(***************************************************************************)
(* Values of the constants of SpeechSynthesizer for TLC: answers with both *)
(* kinds of boundaries, with one of them, with a word before time zero,    *)
(* and with audio alone.                                                   *)
(***************************************************************************)
EXTENDS SpeechSynthesizer

SomeAnswers ==
  {<<"audio">>, <<"word", "audio", "word">>, <<"audio", "sentence", "audio">>,
   <<"word", "sentence", "audio">>, <<"audio", "early">>}

AllListeners == SUBSET Callbacks
=============================================================================
