---------------------------- MODULE MCNiSession ----------------------------
(* Instances of NiSession for TLC; see the .cfg files. *)
EXTENDS NiSession
=============================================================================
