--------------------------- MODULE MCGameEngine ---------------------------
(***************************************************************************)
(* Boards for the model checking of GameEngine.                            *)
(***************************************************************************)
EXTENDS GameEngine, TLC

(* An airport: ownable, without buildings.                                 *)
AirportBoard ==
    1 :> [kind |-> "airport", set |-> None, price |-> 2, rents |-> <<1>>,
          houseCost |-> 0, mortgage |-> 1]

(* A set of two properties.                                                *)
Brown == [kind |-> "property", set |-> "brown", price |-> 2,
          rents |-> (0 :> 1 @@ 1 :> 2 @@ 2 :> 3), houseCost |-> 2, mortgage |-> 1]
SetBoard == 1 :> Brown @@ 2 :> Brown
===========================================================================
