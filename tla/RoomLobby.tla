----------------------------- MODULE RoomLobby -----------------------------
(***************************************************************************)
(* The lobby (src/src/rooms): concurrent requests that create, join, leave,*)
(* spectate and start rooms, the compensation of a start that fails, the   *)
(* expiry of waiting rooms, and the jobs and the watchdog that close the   *)
(* games behind active rooms.                                              *)
(*                                                                         *)
(* A request is a sequence of steps; each database transaction, each game  *)
(* command and each read made outside a transaction is one step, so that   *)
(* the steps of other requests come between them.  Joining and creating    *)
(* hold the user's advisory lock over two steps.  A request may die, or    *)
(* throw, between any two of its steps.                                    *)
(*                                                                         *)
(* A game is abstracted to its roster (the players of the start), to the   *)
(* seats that are still solvent and to whether the engine has finished it. *)
(* How a command is committed, logged, snapshotted and recovered is the    *)
(* subject of GameCommands.                                                *)
(***************************************************************************)
EXTENDS Naturals, FiniteSets

CONSTANTS
    Users,
    Rooms,
    Requests,        \* requests being served by the API processes
    Worker,          \* the process of game commands, game jobs and the watchdog
    None,
    Bot,
    MaxSeats,        \* ROOM_MAX_PLAYERS
    MinRanked,       \* ROOM_MIN_RANKED_HUMANS
    MaxSpectators,   \* ROOM_MAX_SPECTATORS
    Offered,         \* the kinds of request users make
    MaxRequests,     \* bound on the requests served
    MaxFaults        \* bound on steps that fail or processes that die

ASSUME LobbyConstants ==
    /\ MaxSeats \in Nat \ {0}
    /\ {MinRanked, MaxSpectators, MaxRequests, MaxFaults} \subseteq Nat
    /\ Worker \notin Requests
    /\ None \notin Users \cup Rooms \cup Requests \cup {Worker, Bot}
    /\ Bot \notin Users

Procs == Requests \cup {Worker}
Seats == 1..MaxSeats

VARIABLES
    room,          \* rooms.status
    host,          \* rooms.host_user_id
    seat,          \* the joined room_players row of each seat
    spectators,    \* the room_spectators rows without left_at
    aged,          \* rooms created WAITING_ROOM_EXPIRY_MS ago or earlier
    waitingJobs,   \* waiting-room-expiry jobs in the rooms queue
    game,          \* games.status of the room's game
    engine,        \* the recoverable engine state of that game
    expired,       \* games past their expires_at
    turnJobs,      \* games with a turn timer or bot job in the game queue
    expiryJobs,    \* games with an expiry job in the game queue
    lock,          \* holder of pg_advisory_xact_lock('active-room:<user>')
    req,           \* the locals of each process
    served,        \* requests so far
    faults

rows == <<room, host, seat, game>>
queues == <<waitingJobs, turnJobs, expiryJobs>>
clock == <<aged, expired>>
vars == <<rows, spectators, engine, queues, clock, lock, req, served, faults>>

Open == {"waiting", "active"}     \* ACTIVE_ROOM_STATUSES
Occupants == Users \cup {None, Bot}
Engines == [phase : {"none", "playing", "finished"},
            roster : [Seats -> Occupants], solvent : SUBSET Seats]
PCs == {"idle", "lock", "insert", "schedule", "hostLeave", "leave", "lastHuman",
        "abandon", "forfeit", "declare", "free", "byTime", "finalize", "repair",
        "spectate", "setupTurn", "setupExpiry", "compensate"}
Ops == {"create", "join", "leave", "spectate", "start", "expiryJob", "worker"}
Reqs == [pc : PCs, op : Ops, user : Users \cup {None}, room : Rooms \cup {None},
         game : Rooms \cup {None}]

Idle == [pc |-> "idle", op |-> "worker", user |-> None, room |-> None, game |-> None]
Vacant == [n \in Seats |-> None]
NoGame == [phase |-> "none", roster |-> Vacant, solvent |-> {}]

TypeOK ==
    /\ room \in [Rooms -> {"unused", "waiting", "active", "finished", "cancelled"}]
    /\ host \in [Rooms -> Users \cup {None}]
    /\ seat \in [Rooms -> [Seats -> Occupants]]
    /\ spectators \in [Rooms -> SUBSET Users]
    /\ game \in [Rooms -> {"none", "active", "finished", "cancelled"}]
    /\ engine \in [Rooms -> Engines]
    /\ {aged, waitingJobs, expired, turnJobs, expiryJobs} \subseteq SUBSET Rooms
    /\ lock \in [Users -> Requests \cup {None}]
    /\ req \in [Procs -> Reqs]
    /\ served \in 0..MaxRequests
    /\ faults \in 0..MaxFaults

Init ==
    /\ room = [r \in Rooms |-> "unused"]
    /\ host = [r \in Rooms |-> None]
    /\ seat = [r \in Rooms |-> Vacant]
    /\ spectators = [r \in Rooms |-> {}]
    /\ game = [r \in Rooms |-> "none"]
    /\ engine = [r \in Rooms |-> NoGame]
    /\ aged = {} /\ waitingJobs = {} /\ expired = {} /\ turnJobs = {} /\ expiryJobs = {}
    /\ lock = [u \in Users |-> None]
    /\ req = [p \in Procs |-> Idle]
    /\ served = 0
    /\ faults = 0

---------------------------------------------------------------------------
(* Queries *)

(* findJoinedPlayer *)
Joined(u, r) == \E n \in Seats : seat[r][n] = u

(* countJoinedHumanPlayers *)
Humans(r) == {n \in Seats : seat[r][n] \in Users}

(* findActiveRoomForUser *)
OpenRooms(u) == {r \in Rooms : room[r] \in Open /\ Joined(u, r)}

(* isExpiredWaitingRoom *)
ExpiredWaiting(r) == room[r] = "waiting" /\ r \in aged

(* leaveRoom of the repository: the joined row of the user becomes left.   *)
Without(u, r) == [n \in Seats |-> IF seat[r][n] = u THEN None ELSE seat[r][n]]

(* findFirstFreeSeat *)
FreeSeats(r) == {n \in Seats : seat[r][n] = None}
FirstFree(n, r) == n \in FreeSeats(r) /\ \A m \in FreeSeats(r) : n <= m

(* finalizeExpiredRoomGame has something to finish: the active game of the *)
(* room is past its end.                                                   *)
Overdue(r) == game[r] = "active" /\ r \in expired

---------------------------------------------------------------------------
(* Control of a process *)

At(p, where) == req[p].pc = where
Goto(p, where) == req' = [req EXCEPT ![p].pc = where]
End(p) == req' = [req EXCEPT ![p] = Idle]
Begin(p, where, op, u, r, g) ==
    req' = [req EXCEPT ![p] = [pc |-> where, op |-> op, user |-> u, room |-> r, game |-> g]]

Arrive(p, op) ==
    /\ At(p, "idle")
    /\ op \in Offered
    /\ served < MaxRequests
    /\ served' = served + 1

(* finalizeExpiredRoomGame: an engine state already finished is only       *)
(* finalized, any other gets the finish_game_by_time command.              *)
ExpiryStep(g) == IF engine[g].phase = "finished" THEN "repair" ELSE "byTime"

---------------------------------------------------------------------------
(* Create and join *)

(* finalizeExpiredActiveRoomForUser: the reads before the transaction.     *)
Enter(p, u, op, r) ==
    /\ Arrive(p, op)
    /\ (op = "join") = (r \in Rooms)
    /\ LET late == {g \in OpenRooms(u) : Overdue(g)}
       IN  IF late = {} THEN Begin(p, "lock", op, u, r, None)
           ELSE \E g \in late : Begin(p, ExpiryStep(g), op, u, r, g)
    /\ UNCHANGED <<rows, spectators, engine, queues, clock, lock, faults>>

(* Mutant: the advisory lock is not taken.                                 *)
LockMembershipFree(p) ==
    /\ At(p, "lock")
    /\ IF OpenRooms(req[p].user) = {} THEN Goto(p, "insert") ELSE End(p)
    /\ UNCHANGED <<rows, spectators, engine, queues, clock, lock, served, faults>>

(* The transaction begins: lockActiveRoomMembershipForUser, then           *)
(* ensureUserHasNoActiveRoom, which rolls back when the user has a room.   *)
LockMembership(p) ==
    /\ At(p, "lock")
    /\ lock[req[p].user] = None
    /\ IF OpenRooms(req[p].user) = {}
       THEN /\ Goto(p, "insert")
            /\ lock' = [lock EXCEPT ![req[p].user] = p]
       ELSE End(p) /\ UNCHANGED lock
    /\ UNCHANGED <<rows, spectators, engine, queues, clock, served, faults>>

Unlock(u) == lock' = [lock EXCEPT ![u] = None]

(* createRoom: the room and its host in seat one, committed.               *)
CreateRoom(p, r) ==
    /\ At(p, "insert") /\ req[p].op = "create"
    /\ room[r] = "unused"
    /\ room' = [room EXCEPT ![r] = "waiting"]
    /\ host' = [host EXCEPT ![r] = req[p].user]
    /\ seat' = [seat EXCEPT ![r][1] = req[p].user]
    /\ req' = [req EXCEPT ![p].pc = "schedule", ![p].room = r]
    /\ Unlock(req[p].user)
    /\ UNCHANGED <<spectators, game, engine, queues, clock, served, faults>>

(* scheduleWaitingRoomExpiry: a queue error is logged and swallowed.       *)
ScheduleWaitingRoomExpiry(p) ==
    /\ At(p, "schedule")
    /\ waitingJobs' = waitingJobs \cup {req[p].room}
    /\ End(p)
    /\ UNCHANGED <<rows, spectators, engine, turnJobs, expiryJobs, clock, lock, served, faults>>

(* Mutant: only the status read before the lock is trusted, so that a room *)
(* which has started meanwhile is still entered.                           *)
JoinRoomUnchecked(p) ==
    LET r == req[p].room  u == req[p].user
    IN  /\ At(p, "insert") /\ req[p].op = "join"
        /\ IF room[r] \in Open /\ FreeSeats(r) # {}
           THEN \E n \in Seats : FirstFree(n, r) /\ seat' = [seat EXCEPT ![r][n] = u]
           ELSE UNCHANGED seat
        /\ End(p)
        /\ Unlock(u)
        /\ UNCHANGED <<room, host, game, spectators, engine, queues, clock, served, faults>>

(* joinRoom under the row lock: the first free seat of a waiting room that *)
(* has not expired, or an error; the transaction ends either way.          *)
JoinRoom(p) ==
    LET r == req[p].room  u == req[p].user
    IN  /\ At(p, "insert") /\ req[p].op = "join"
        /\ IF room[r] = "waiting" /\ ~ExpiredWaiting(r) /\ FreeSeats(r) # {}
           THEN \E n \in Seats : FirstFree(n, r) /\ seat' = [seat EXCEPT ![r][n] = u]
           ELSE UNCHANGED seat
        /\ End(p)
        /\ Unlock(u)
        /\ UNCHANGED <<room, host, game, spectators, engine, queues, clock, served, faults>>

---------------------------------------------------------------------------
(* Leave *)

(* leaveRoom, the reads before its transactions: the room, and the joined  *)
(* row of the user.                                                        *)
LeaveRoom(p, u, r) ==
    /\ Arrive(p, "leave")
    /\ Joined(u, r)
    /\ Begin(p, IF host[r] = u /\ room[r] = "waiting" THEN "hostLeave" ELSE "leave",
             "leave", u, r, r)
    /\ UNCHANGED <<rows, spectators, engine, queues, clock, lock, faults>>

(* A spectator who leaves, or stopSpectatingRoom: endSpectatorSession.     *)
EndSpectatorSession(u, r) ==
    /\ u \in spectators[r]
    /\ spectators' = [spectators EXCEPT ![r] = @ \ {u}]
    /\ UNCHANGED <<rows, engine, queues, clock, lock, req, served, faults>>

(* The host's transaction: leave, and cancelRoom WHERE status = 'waiting'. *)
(* The status that chose this branch was read before it.                   *)
HostLeaves(p) ==
    LET r == req[p].room  u == req[p].user
    IN  /\ At(p, "hostLeave")
        /\ seat' = [seat EXCEPT ![r] = Without(u, r)]
        /\ room' = IF room[r] = "waiting" THEN [room EXCEPT ![r] = "cancelled"] ELSE room
        /\ End(p)
        /\ UNCHANGED <<host, game, spectators, engine, queues, clock, lock, served, faults>>

(* Mutant: the status read before the lock decides, so that a player who   *)
(* leaves while the room starts goes without forfeiting.                   *)
LeaveTransactionUnlocked(p) ==
    /\ At(p, "leave")
    /\ seat' = [seat EXCEPT ![req[p].room] = Without(req[p].user, req[p].room)]
    /\ End(p)
    /\ UNCHANGED <<room, host, game, spectators, engine, queues, clock, lock, served, faults>>

(* The transaction under the row lock: the last human of an active game    *)
(* finishes it, another human forfeits, and the seat is freed afterwards;  *)
(* with no active game the seat is freed at once.                          *)
LeaveTransaction(p) ==
    LET r == req[p].room
    IN  /\ At(p, "leave")
        /\ IF room[r] = "active" /\ game[r] = "active"
           THEN /\ Goto(p, IF Cardinality(Humans(r)) <= 1 THEN "lastHuman" ELSE "forfeit")
                /\ UNCHANGED seat
           ELSE /\ seat' = [seat EXCEPT ![r] = Without(req[p].user, r)]
                /\ End(p)
        /\ UNCHANGED <<room, host, game, spectators, engine, queues, clock, lock, served, faults>>

(* finalizeRoomAfterLastHumanLeft: the state it reads.                     *)
LastHuman(p) ==
    /\ At(p, "lastHuman")
    /\ Goto(p, IF engine[req[p].game].phase = "finished" THEN "finalize" ELSE "abandon")
    /\ UNCHANGED <<rows, spectators, engine, queues, clock, lock, served, faults>>

(* isRoomPlayerBankruptInGame: a player who is bankrupt already does not   *)
(* forfeit.                                                                *)
ForfeitRead(p) ==
    LET e == engine[req[p].game]
    IN  /\ At(p, "forfeit")
        /\ Goto(p, IF \E n \in e.solvent : e.roster[n] = req[p].user
                   THEN "declare" ELSE "free")
        /\ UNCHANGED <<rows, spectators, engine, queues, clock, lock, served, faults>>

(* The second transaction of a leave frees the seat.                       *)
FreeSeat(p) ==
    /\ At(p, "free")
    /\ seat' = [seat EXCEPT ![req[p].room] = Without(req[p].user, req[p].room)]
    /\ End(p)
    /\ UNCHANGED <<room, host, game, spectators, engine, queues, clock, lock, served, faults>>

---------------------------------------------------------------------------
(* Game commands, as the lobby uses them *)

(* The engine after the seats in B go bankrupt: over when one seat or no   *)
(* human is left, and finished by any command once the game's time is up.  *)
Bankrupt(g, B) ==
    LET left == engine[g].solvent \ B
        decided == \/ Cardinality(left) <= 1
                   \/ \A n \in left : engine[g].roster[n] \notin Users
    IN  IF g \in expired THEN [engine[g] EXCEPT !.phase = "finished"]
        ELSE [engine[g] EXCEPT !.solvent = left,
                 !.phase = IF decided THEN "finished" ELSE "playing"]

Finish(g) == engine' = [engine EXCEPT ![g].phase = "finished"]

(* declare_bankruptcy of the leaving player; the engine rejects it in a    *)
(* finished game and for a bankrupt player, and the leave fails.           *)
DeclareBankruptcy(p) ==
    LET g == req[p].game
        mine == {n \in engine[g].solvent : engine[g].roster[n] = req[p].user}
        next == Bankrupt(g, mine)
    IN  /\ At(p, "declare")
        /\ IF engine[g].phase = "playing" /\ (mine # {} \/ g \in expired)
           THEN /\ engine' = [engine EXCEPT ![g] = next]
                /\ Goto(p, IF next.phase = "finished" THEN "finalize" ELSE "free")
           ELSE End(p) /\ UNCHANGED engine
        /\ UNCHANGED <<rows, spectators, queues, clock, lock, served, faults>>

(* finish_game_after_last_human_left; rejected in a finished game.         *)
AbandonGame(p) ==
    /\ At(p, "abandon")
    /\ IF engine[req[p].game].phase = "playing"
       THEN Finish(req[p].game) /\ Goto(p, "finalize")
       ELSE End(p) /\ UNCHANGED engine
    /\ UNCHANGED <<rows, spectators, queues, clock, lock, served, faults>>

(* finish_game_by_time; when it is rejected, the state is read again and a *)
(* finished game is finalized.                                             *)
FinishByTime(p) ==
    /\ At(p, "byTime")
    /\ IF engine[req[p].game].phase = "playing"
       THEN Finish(req[p].game) /\ Goto(p, "finalize")
       ELSE Goto(p, "repair") /\ UNCHANGED engine
    /\ UNCHANGED <<rows, spectators, queues, clock, lock, served, faults>>

(* What the request goes on to once the game is finalized.                 *)
Resume(p) ==
    CASE req[p].op \in {"create", "join"} -> Goto(p, "lock")
      [] req[p].op = "leave"              -> Goto(p, "free")
      [] OTHER                            -> End(p)

(* finalizeFinishedGame: saveFinishedGame updates the game and room rows   *)
(* whatever their status is.                                               *)
FinalizeGame(p) ==
    LET g == req[p].game
    IN  /\ At(p, "finalize") \/ At(p, "repair")
        /\ game' = [game EXCEPT ![g] = "finished"]
        /\ room' = [room EXCEPT ![g] = "finished"]
        /\ Resume(p)
        /\ UNCHANGED <<host, seat, spectators, engine, queues, clock, lock, served, faults>>

(* A finalization that fails inside finish_game_by_time is repeated once.  *)
FinalizeFails(p) ==
    /\ At(p, "finalize")
    /\ req[p].op \in {"create", "join", "spectate", "expiryJob"}
    /\ faults < MaxFaults
    /\ faults' = faults + 1
    /\ Goto(p, "repair")
    /\ UNCHANGED <<rows, spectators, engine, queues, clock, lock, served>>

---------------------------------------------------------------------------
(* Spectate *)

(* spectateRoom, the reads: the status, the expired game to finish first,  *)
(* the user's own seat and current session.                                *)
SpectateRoom(p, u, r) ==
    /\ Arrive(p, "spectate")
    /\ room[r] \in Open /\ ~ExpiredWaiting(r)
    /\ IF room[r] = "active" /\ Overdue(r)
       THEN Begin(p, ExpiryStep(r), "spectate", u, r, r)
       ELSE /\ ~Joined(u, r) /\ u \notin spectators[r]
            /\ Begin(p, "spectate", "spectate", u, r, None)
    /\ UNCHANGED <<rows, spectators, engine, queues, clock, lock, faults>>

(* The transaction under the row lock: status and limit again.             *)
CreateSpectator(p) ==
    LET r == req[p].room
    IN  /\ At(p, "spectate")
        /\ spectators' =
              IF /\ room[r] \in Open /\ ~ExpiredWaiting(r)
                 /\ Cardinality(spectators[r]) < MaxSpectators
              THEN [spectators EXCEPT ![r] = @ \cup {req[p].user}]
              ELSE spectators
        /\ End(p)
        /\ UNCHANGED <<rows, engine, queues, clock, lock, served, faults>>

---------------------------------------------------------------------------
(* Start *)

(* The table a game starts with: bots fill the free seats of a casual one. *)
Table(r) ==
    IF Cardinality(Humans(r)) >= MinRanked THEN seat[r]
    ELSE [n \in Seats |-> IF seat[r][n] = None THEN Bot ELSE seat[r][n]]

(* startRoom, its one transaction: bots, the room, the game row and the    *)
(* start snapshot.  It does not ask whether the waiting room has expired.  *)
StartRoom(p, u, r) ==
    /\ Arrive(p, "start")
    /\ room[r] = "waiting" /\ host[r] = u /\ Joined(u, r)
    /\ seat' = [seat EXCEPT ![r] = Table(r)]
    /\ room' = [room EXCEPT ![r] = "active"]
    /\ game' = [game EXCEPT ![r] = "active"]
    /\ engine' = [engine EXCEPT ![r] =
          [phase |-> "playing", roster |-> Table(r),
           solvent |-> {n \in Seats : Table(r)[n] # None}]]
    /\ Begin(p, "setupTurn", "start", u, r, r)
    /\ UNCHANGED <<host, spectators, queues, clock, lock, faults>>

(* The live state is set and the turn timer queued, then the expiry job.   *)
SetupTurn(p) ==
    /\ At(p, "setupTurn")
    /\ turnJobs' = turnJobs \cup {req[p].game}
    /\ Goto(p, "setupExpiry")
    /\ UNCHANGED <<rows, spectators, engine, waitingJobs, expiryJobs, clock, lock, served, faults>>

SetupExpiry(p) ==
    /\ At(p, "setupExpiry")
    /\ expiryJobs' = expiryJobs \cup {req[p].game}
    /\ End(p)
    /\ UNCHANGED <<rows, spectators, engine, waitingJobs, turnJobs, clock, lock, served, faults>>

(* One of them fails; a turn timer that was queued stays queued.           *)
SetupFails(p) ==
    /\ At(p, "setupTurn") \/ At(p, "setupExpiry")
    /\ faults < MaxFaults
    /\ faults' = faults + 1
    /\ Goto(p, "compensate")
    /\ UNCHANGED <<rows, spectators, engine, queues, clock, lock, served>>

(* Mutant: the compensation puts both rows back instead of closing them.   *)
CancelStartedGameReopens(p) ==
    LET r == req[p].room
    IN  /\ At(p, "compensate")
        /\ game' = IF game[r] = "active" THEN [game EXCEPT ![r] = "waiting"] ELSE game
        /\ room' = IF room[r] = "active" THEN [room EXCEPT ![r] = "waiting"] ELSE room
        /\ End(p)
        /\ UNCHANGED <<host, seat, spectators, engine, queues, clock, lock, served, faults>>

(* cancelStartedGameAfterSetupFailure: each row WHERE status = 'active'.   *)
(* The live state is deleted, but the start snapshot still recovers it.    *)
CancelStartedGame(p) ==
    LET r == req[p].room
    IN  /\ At(p, "compensate")
        /\ game' = IF game[r] = "active" THEN [game EXCEPT ![r] = "cancelled"] ELSE game
        /\ room' = IF room[r] = "active" THEN [room EXCEPT ![r] = "cancelled"] ELSE room
        /\ End(p)
        /\ UNCHANGED <<host, seat, spectators, engine, queues, clock, lock, served, faults>>

---------------------------------------------------------------------------
(* Expiry of waiting rooms *)

Cancel(S) == room' = [r \in Rooms |-> IF r \in S THEN "cancelled" ELSE room[r]]

(* Mutant: the job cancels the room whatever its status is.                *)
ExpireAnyRoom(r) ==
    /\ r \in waitingJobs /\ r \in aged
    /\ Cancel({r})
    /\ waitingJobs' = waitingJobs \ {r}
    /\ UNCHANGED <<host, seat, game, spectators, engine, turnJobs, expiryJobs, clock, lock, req, served, faults>>

(* The job of one room, due an hour after its creation.                    *)
ExpireWaitingRoom(r) ==
    /\ r \in waitingJobs /\ r \in aged
    /\ Cancel({r} \cap {q \in Rooms : room[q] = "waiting"})
    /\ waitingJobs' = waitingJobs \ {r}
    /\ UNCHANGED <<host, seat, game, spectators, engine, turnJobs, expiryJobs, clock, lock, req, served, faults>>

(* Mutant: the sweep is left to the rooms whose own job is queued.         *)
ExpireQueuedRooms ==
    LET due == {r \in waitingJobs : ExpiredWaiting(r)}
    IN  /\ due # {}
        /\ Cancel(due)
        /\ UNCHANGED <<host, seat, game, spectators, engine, queues, clock, lock, req, served, faults>>

(* The repeated sweep over every waiting room created before the cutoff.   *)
ExpireWaitingRooms ==
    LET due == {r \in Rooms : ExpiredWaiting(r)}
    IN  /\ due # {}
        /\ Cancel(due)
        /\ UNCHANGED <<host, seat, game, spectators, engine, queues, clock, lock, req, served, faults>>

Age(r) ==
    /\ room[r] = "waiting" /\ r \notin aged
    /\ aged' = aged \cup {r}
    /\ UNCHANGED <<rows, spectators, engine, queues, expired, lock, req, served, faults>>

TimeUp(r) ==
    /\ engine[r].phase = "playing" \/ game[r] = "active"
    /\ r \notin expired
    /\ expired' = expired \cup {r}
    /\ UNCHANGED <<rows, spectators, engine, queues, aged, lock, req, served, faults>>

---------------------------------------------------------------------------
(* Games behind active rooms *)

(* A command of a player, a bot or a timer that bankrupts seat n.  A job   *)
(* still queued for a cancelled game recovers its state and plays on.      *)
GameCommand(r, n) ==
    LET next == Bankrupt(r, {n})
    IN  /\ At(Worker, "idle")
        /\ engine[r].phase = "playing" /\ n \in engine[r].solvent
        /\ game[r] = "active" \/ r \in turnJobs
        /\ engine' = [engine EXCEPT ![r] = next]
        /\ IF next.phase = "finished"
           THEN Begin(Worker, "finalize", "worker", None, None, r)
           ELSE UNCHANGED req
        /\ UNCHANGED <<rows, spectators, queues, clock, lock, served, faults>>

(* GameProcessor: the expiry job.                                          *)
RunExpiryJob(r) ==
    /\ At(Worker, "idle")
    /\ r \in expiryJobs \cap expired
    /\ expiryJobs' = expiryJobs \ {r}
    /\ Begin(Worker, ExpiryStep(r), "expiryJob", None, None, r)
    /\ UNCHANGED <<rows, spectators, engine, waitingJobs, turnJobs, clock, lock, served, faults>>

(* hasNoActiveHumanPlayers, or no joined human in the room.                *)
NobodyPlays(r) ==
    \/ Humans(r) = {}
    \/ \A n \in engine[r].solvent : engine[r].roster[n] \notin Users

(* scanActiveGames: a finished game whose result is missing is finalized   *)
(* when no human is left in the room or its time is up.                    *)
WatchdogFinalizes(r) ==
    /\ At(Worker, "idle")
    /\ game[r] = "active" /\ engine[r].phase = "finished"
    /\ Humans(r) = {} \/ r \in expired
    /\ Begin(Worker, "finalize", "worker", None, None, r)
    /\ UNCHANGED <<rows, spectators, engine, queues, clock, lock, served, faults>>

(* Mutant: the watchdog looks only at the solvency of the players, as it   *)
(* is in the state it recovered.                                           *)
WatchdogAbandonsBankrupt(r) ==
    /\ At(Worker, "idle")
    /\ game[r] = "active" /\ engine[r].phase = "playing"
    /\ \A n \in engine[r].solvent : engine[r].roster[n] \notin Users
    /\ Begin(Worker, "abandon", "worker", None, None, r)
    /\ UNCHANGED <<rows, spectators, engine, queues, clock, lock, served, faults>>

(* A game without an active human is finished as abandoned.                *)
WatchdogAbandons(r) ==
    /\ At(Worker, "idle")
    /\ game[r] = "active" /\ engine[r].phase = "playing" /\ NobodyPlays(r)
    /\ Begin(Worker, "abandon", "worker", None, None, r)
    /\ UNCHANGED <<rows, spectators, engine, queues, clock, lock, served, faults>>

(* For any other game the missing jobs are queued again.                   *)
WatchdogQueues(r) ==
    /\ At(Worker, "idle")
    /\ game[r] = "active" /\ engine[r].phase = "playing" /\ ~NobodyPlays(r)
    /\ IF r \in expired
       THEN expiryJobs' = expiryJobs \cup {r} /\ UNCHANGED turnJobs
       ELSE turnJobs' = turnJobs \cup {r} /\ UNCHANGED expiryJobs
    /\ UNCHANGED <<rows, spectators, engine, waitingJobs, clock, lock, req, served, faults>>

---------------------------------------------------------------------------
(* A process dies or an uncaught error ends its request; a transaction it  *)
(* was in is rolled back and its advisory lock released.                   *)
Abort(p) ==
    /\ ~At(p, "idle")
    /\ faults < MaxFaults
    /\ faults' = faults + 1
    /\ lock' = [u \in Users |-> IF lock[u] = p THEN None ELSE lock[u]]
    /\ End(p)
    /\ UNCHANGED <<rows, spectators, engine, queues, clock, served>>

(* The continuation of a request that has begun.                           *)
Step(p) ==
    \/ LockMembership(p) \/ (\E r \in Rooms : CreateRoom(p, r))
    \/ ScheduleWaitingRoomExpiry(p) \/ JoinRoom(p)
    \/ HostLeaves(p) \/ LeaveTransaction(p) \/ LastHuman(p) \/ ForfeitRead(p)
    \/ FreeSeat(p) \/ DeclareBankruptcy(p) \/ AbandonGame(p) \/ FinishByTime(p)
    \/ FinalizeGame(p) \/ CreateSpectator(p)
    \/ SetupTurn(p) \/ SetupExpiry(p) \/ CancelStartedGame(p)

Request(p, u) ==
    \/ Enter(p, u, "create", None)
    \/ \E r \in Rooms :
          \/ Enter(p, u, "join", r) \/ LeaveRoom(p, u, r)
          \/ SpectateRoom(p, u, r) \/ StartRoom(p, u, r)

Fault(p) == Abort(p) \/ FinalizeFails(p) \/ SetupFails(p)

Scan(r) == WatchdogFinalizes(r) \/ WatchdogAbandons(r) \/ WatchdogQueues(r)

Next ==
    \/ \E p \in Requests, u \in Users : Request(p, u)
    \/ \E p \in Procs : Step(p) \/ Fault(p)
    \/ \E r \in Rooms, n \in Seats : GameCommand(r, n)
    \/ \E u \in Users, r \in Rooms : EndSpectatorSession(u, r)
    \/ \E r \in Rooms : \/ ExpireWaitingRoom(r) \/ Age(r) \/ TimeUp(r)
                        \/ RunExpiryJob(r) \/ Scan(r)
    \/ ExpireWaitingRooms

(* Requests run to their end, the watchdog scans every active game again   *)
(* and again, an hour passes for every waiting room, and the hourly sweep  *)
(* runs.  Neither the expiry jobs of rooms nor the end of a game's time is *)
(* relied on.                                                              *)
Fairness ==
    /\ \A p \in Procs : WF_vars(Step(p))
    /\ \A r \in Rooms : /\ WF_vars(WatchdogFinalizes(r))
                        /\ WF_vars(WatchdogAbandons(r))
                        /\ WF_vars(Age(r))
    /\ WF_vars(ExpireWaitingRooms)

Spec == Init /\ [][Next]_vars
FairSpec == Spec /\ Fairness

---------------------------------------------------------------------------
(* Properties *)

(* A user is seated in at most one waiting or active room, however many    *)
(* create and join requests of the user run at once.                       *)
UserInOneRoom ==
    \A u \in Users : \A q, r \in OpenRooms(u) : q = r

(* Every human seated in an active room is a player of its game, at that   *)
(* seat: nobody slips in while the room starts or after it.                *)
SeatedArePlaying ==
    \A r \in Rooms : room[r] = "active" =>
        \A n \in Humans(r) : engine[r].roster[n] = seat[r][n]

(* The rows of a room and its game tell the same story: neither expiry,    *)
(* nor a leaving host, nor a failed start closes one without the other.    *)
RoomAndGameAgree ==
    \A r \in Rooms : (room[r] = "active") = (game[r] = "active")

(* A player who has left the room of a running game has forfeited; the one *)
(* exception is a host, whose leave chose its branch before the start.     *)
LeaversForfeit ==
    \A r \in Rooms : room[r] = "active" /\ engine[r].phase = "playing" =>
        \A n \in engine[r].solvent :
            engine[r].roster[n] \in Users \ {host[r]} => seat[r][n] = engine[r].roster[n]

(* The lobby as RoomLifecycle sees it: finished and cancelled rooms are    *)
(* both closed, and a user is in the open room where the user is seated.   *)
Status == [r \in Rooms |-> IF room[r] \in {"finished", "cancelled"}
                           THEN "closed" ELSE room[r]]
Where == [u \in Users |-> IF OpenRooms(u) = {} THEN None
                          ELSE CHOOSE r \in OpenRooms(u) : TRUE]

Lifecycle == INSTANCE RoomLifecycle WITH Nowhere <- None, status <- Status, where <- Where

(* Every step of the lobby is a step of RoomLifecycle or leaves it alone.  *)
ImplementsLifecycle == Lifecycle!Spec

(* A waiting room does not wait for ever, whether or not the job of its    *)
(* own was queued.                                                         *)
WaitingRoomsEnd ==
    \A r \in Rooms : (room[r] = "waiting") ~> (room[r] # "waiting")

(* An active room that no human is seated in is closed, although the last  *)
(* two humans may leave at once, each counting the other.                  *)
AbandonedGamesEnd ==
    \A r \in Rooms : (room[r] = "active" /\ Humans(r) = {}) ~> (room[r] # "active")
============================================================================
