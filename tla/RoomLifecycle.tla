--------------------------- MODULE RoomLifecycle ---------------------------
(***************************************************************************)
(* What the lobby promises, without requests, transactions or jobs: a room *)
(* is opened by one user, waits, may start, and closes once and for all;   *)
(* a user is in at most one open room at a time, enters only a waiting     *)
(* room, and is released when the room closes.  RoomLobby implements it.   *)
(***************************************************************************)
CONSTANTS Users, Rooms, Nowhere

VARIABLES
    status,     \* of each room: unused, waiting, active or closed
    where       \* the open room each user is in, or Nowhere

vars == <<status, where>>

Open(u, r) ==
    /\ status[r] = "unused"
    /\ where[u] = Nowhere
    /\ status' = [status EXCEPT ![r] = "waiting"]
    /\ where' = [where EXCEPT ![u] = r]

Enter(u, r) ==
    /\ status[r] = "waiting"
    /\ where[u] = Nowhere
    /\ where' = [where EXCEPT ![u] = r]
    /\ UNCHANGED status

Leave(u) ==
    /\ where[u] # Nowhere
    /\ where' = [where EXCEPT ![u] = Nowhere]
    /\ UNCHANGED status

(* Somebody is in the room, and nobody moves while it starts.              *)
Start(r) ==
    /\ status[r] = "waiting"
    /\ \E u \in Users : where[u] = r
    /\ status' = [status EXCEPT ![r] = "active"]
    /\ UNCHANGED where

(* One statement may close several rooms (the sweep of waiting rooms).     *)
Close(S) ==
    /\ S # {}
    /\ \A r \in S : status[r] \in {"waiting", "active"}
    /\ status' = [r \in Rooms |-> IF r \in S THEN "closed" ELSE status[r]]
    /\ where' = [u \in Users |-> IF where[u] \in S THEN Nowhere ELSE where[u]]

Init ==
    /\ status = [r \in Rooms |-> "unused"]
    /\ where = [u \in Users |-> Nowhere]

Next ==
    \/ \E u \in Users, r \in Rooms : Open(u, r) \/ Enter(u, r)
    \/ \E u \in Users : Leave(u)
    \/ \E r \in Rooms : Start(r)
    \/ \E S \in SUBSET Rooms : Close(S)

Spec == Init /\ [][Next]_vars
============================================================================
