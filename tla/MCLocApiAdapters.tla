-------------------------- MODULE MCLocApiAdapters --------------------------
(* Instances of LocApiAdapters for TLC; see the .cfg files. *)
EXTENDS LocApiAdapters, TLC

\* Adapters differ in their masks only, and each has every mask at the start.
Interchangeable == Permutations(Adapters)

\* Nothing is promised once two owners have changed the array at once.
Uncrossed == ~crossed
=============================================================================
