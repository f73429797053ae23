---------------------------- MODULE MCGameTimers ----------------------------
(* Instances of GameTimers for TLC. *)
EXTENDS GameTimers

===========================================================================
