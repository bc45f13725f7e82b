---------------------------- MODULE MCInputQueue ----------------------------
(* Instance of InputQueue for TLC. *)
EXTENDS InputQueue
=============================================================================
