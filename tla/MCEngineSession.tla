-------------------------- MODULE MCEngineSession --------------------------
(* Instances of EngineSession for TLC; see the .cfg files. *)
EXTENDS EngineSession
=============================================================================
