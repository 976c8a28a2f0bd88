---------------------------- MODULE MCPlayback ------------------------------
(***************************************************************************)
(* Playback with a PATH that names two directories, the first of them      *)
(* after an empty segment, and an empty PATH.                              *)
(***************************************************************************)
EXTENDS Playback

MCPaths == {<<>>, <<"", "bin", "local">>}
=============================================================================
