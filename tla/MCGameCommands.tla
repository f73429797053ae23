-------------------------- MODULE MCGameCommands --------------------------
(* Two concurrent executions of the command pipeline of one game.          *)
EXTENDS GameCommands, TLC

(* Sound for the invariant runs only.                                      *)
Symmetry == Permutations(Procs)

===========================================================================
