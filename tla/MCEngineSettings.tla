--------------------------- MODULE MCEngineSettings ---------------------------
(* EngineSettings with interchangeable servers. *)
EXTENDS EngineSettings, TLC

Interchangeable == Permutations(Hosts)
===============================================================================
