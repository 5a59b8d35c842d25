----------------------------- MODULE MCLocTimer -----------------------------
(* A small instance of LocTimer for TLC. *)
EXTENDS LocTimer
CONSTANTS c1, c2
=============================================================================
