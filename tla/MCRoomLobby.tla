---------------------------- MODULE MCRoomLobby ----------------------------
(* Two users and two concurrent requests beside the game worker.           *)
EXTENDS RoomLobby, TLC

Symmetry == Permutations(Users) \cup Permutations(Rooms) \cup Permutations(Requests)

(* A state reached by a create, joins and a start: every user is seated in *)
(* every room, bots fill the table, and the game's jobs are queued.  A run *)
(* that also begins here needs fewer requests to see the players leave.    *)
HasStarted ==
    /\ room = [r \in Rooms |-> "active"]
    /\ \E s \in [Seats -> Users \cup {Bot}] :
          /\ \A u \in Users : \E n \in Seats : s[n] = u
          /\ \A n \in Seats : s[n] = Bot <=> n > Cardinality(Users)
          /\ seat = [r \in Rooms |-> s]
          /\ host = [r \in Rooms |-> s[1]]
          /\ engine = [r \in Rooms |->
                [phase |-> "playing", roster |-> s, solvent |-> Seats]]
    /\ spectators = [r \in Rooms |-> {}]
    /\ game = [r \in Rooms |-> "active"]
    /\ aged = {} /\ expired = {}
    /\ waitingJobs = Rooms /\ turnJobs = Rooms /\ expiryJobs = Rooms
    /\ lock = [u \in Users |-> None]
    /\ req = [p \in Procs |-> Idle]
    /\ served = 1
    /\ faults = 0

FairSpecFromStart == (Init \/ HasStarted) /\ [][Next]_vars /\ Fairness
============================================================================
