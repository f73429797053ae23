-------------------------- MODULE RoomLobby_proofs --------------------------
(***************************************************************************)
(* Proofs of the safety properties of RoomLobby, and of its refinement of  *)
(* RoomLifecycle, for every set of users, rooms and requests.              *)
(***************************************************************************)
EXTENDS RoomLobby, FiniteSetTheorems, TLAPS

---------------------------------------------------------------------------
(* Type correctness *)

Members == {"create", "join"}
Closing == {"lastHuman", "abandon", "forfeit", "declare", "byTime", "finalize", "repair"}
Starting == {"setupTurn", "setupExpiry", "compensate"}

(* What a process carries depends on what it does: only requests of users  *)
(* take the membership lock, and whoever acts on a game has one.           *)
Carries(p, l) ==
    /\ l.op \in Members => l.user \in Users /\ p \in Requests
    /\ l.op = "join" => l.room \in Rooms
    /\ l.op \in {"leave", "spectate", "start"} => l.user \in Users /\ l.room \in Rooms
    /\ l.pc \in {"lock", "insert"} => l.op \in Members
    /\ l.pc = "schedule" => l.room \in Rooms
    /\ l.pc \in {"hostLeave", "leave", "lastHuman", "forfeit", "declare", "free"} => l.op = "leave"
    /\ l.pc = "spectate" => l.op = "spectate"
    /\ l.pc \in Starting => l.op = "start"
    /\ l.pc \in Closing \cup Starting \cup {"leave"} => l.game \in Rooms

Typed ==
    /\ TypeOK
    /\ \A p \in Procs : Carries(p, req[p])

Act(p) == Step(p) \/ Fault(p) \/ \E u \in Users : p \in Requests /\ Request(p, u)

WorkerAct ==
    \E r \in Rooms : \/ \E n \in Seats : GameCommand(r, n)
                     \/ RunExpiryJob(r) \/ Scan(r)

Env ==
    \/ \E u \in Users, r \in Rooms : EndSpectatorSession(u, r)
    \/ \E r \in Rooms : ExpireWaitingRoom(r) \/ Age(r) \/ TimeUp(r)
    \/ ExpireWaitingRooms

LEMMA NextActs ==
    Next <=> (\E p \in Procs : Act(p)) \/ WorkerAct \/ Env
BY DEF Next, Act, WorkerAct, Env, Procs

LEMMA IdleType == Idle \in Reqs /\ \A p : Carries(p, Idle)
BY DEF Idle, Reqs, PCs, Ops, Carries, Members, Closing, Starting

LEMMA InitTyped == Init => Typed
<1> SUFFICES ASSUME Init PROVE Typed
  OBVIOUS
<1>1. Vacant \in [Seats -> Occupants]
  BY DEF Vacant, Occupants
<1>2. NoGame \in Engines
  BY <1>1 DEF NoGame, Engines
<1>3. req \in [Procs -> Reqs] /\ \A p \in Procs : Carries(p, req[p])
  BY IdleType DEF Init
<1>4. served \in 0..MaxRequests /\ faults \in 0..MaxFaults
  BY LobbyConstants DEF Init
<1>5. TypeOK
  BY <1>1, <1>2, <1>3, <1>4 DEF Init, TypeOK
<1> QED BY <1>3, <1>5 DEF Typed

(* Ways of going on.                                                       *)
LEMMA GotoFacts ==
    ASSUME req \in [Procs -> Reqs], NEW p \in Procs, NEW where \in PCs, Goto(p, where)
    PROVE  /\ req' \in [Procs -> Reqs]
           /\ req'[p].pc = where /\ req'[p].op = req[p].op /\ req'[p].user = req[p].user
           /\ req'[p].room = req[p].room /\ req'[p].game = req[p].game
           /\ \A q \in Procs \ {p} : req'[q] = req[q]
BY DEF Goto, Reqs

LEMMA EndFacts ==
    ASSUME req \in [Procs -> Reqs], NEW p \in Procs, End(p)
    PROVE  /\ req' \in [Procs -> Reqs]
           /\ req'[p] = Idle
           /\ \A q \in Procs \ {p} : req'[q] = req[q]
BY IdleType DEF End

LEMMA BeginFacts ==
    ASSUME req \in [Procs -> Reqs], NEW p \in Procs, NEW where \in PCs, NEW op \in Ops,
           NEW u \in Users \cup {None}, NEW r \in Rooms \cup {None}, NEW g \in Rooms \cup {None},
           Begin(p, where, op, u, r, g)
    PROVE  /\ req' \in [Procs -> Reqs]
           /\ req'[p].pc = where /\ req'[p].op = op /\ req'[p].user = u
           /\ req'[p].room = r /\ req'[p].game = g
           /\ \A q \in Procs \ {p} : req'[q] = req[q]
BY DEF Begin, Reqs

LEMMA WorkerIsProc == Worker \in Procs /\ \A p \in Requests : p \in Procs
BY DEF Procs

(* Every step of a process leaves it locals that are well typed and        *)
(* complete, and leaves those of the others alone.                         *)
LEMMA ActLocals ==
    ASSUME Typed, NEW p \in Procs, Act(p)
    PROVE  /\ req' \in [Procs -> Reqs]
           /\ Carries(p, req'[p])
           /\ \A q \in Procs \ {p} : req'[q] = req[q]
<1> DEFINE Good == /\ req' \in [Procs -> Reqs]
                   /\ Carries(p, req'[p])
                   /\ \A q \in Procs \ {p} : req'[q] = req[q]
<1> SUFFICES Good
  OBVIOUS
<1>1. req \in [Procs -> Reqs] /\ Carries(p, req[p])
  BY DEF Typed, TypeOK
<1>2. ASSUME End(p) PROVE Good
  BY <1>1, <1>2, EndFacts, IdleType
<1>3. ASSUME NEW where \in PCs, Goto(p, where),
             where \in {"lock", "insert"} => req[p].op \in Members,
             where = "schedule" => req[p].room \in Rooms,
             where \in {"hostLeave", "leave", "lastHuman", "forfeit", "declare", "free"} =>
                req[p].op = "leave",
             where = "spectate" => req[p].op = "spectate",
             where \in Starting => req[p].op = "start",
             where \in Closing \cup Starting \cup {"leave"} => req[p].game \in Rooms
      PROVE  Good
  <2>1. /\ req' \in [Procs -> Reqs]
        /\ req'[p].pc = where /\ req'[p].op = req[p].op /\ req'[p].user = req[p].user
        /\ req'[p].room = req[p].room /\ req'[p].game = req[p].game
        /\ \A q \in Procs \ {p} : req'[q] = req[q]
    BY <1>1, <1>3, GotoFacts
  <2>2. Carries(p, req'[p])
    BY <1>1, <1>3, <2>1 DEF Carries
  <2> QED BY <2>1, <2>2
<1>4. ASSUME NEW where \in PCs, NEW op \in Ops, NEW u \in Users, NEW r \in Rooms \cup {None},
             NEW g \in Rooms \cup {None}, Begin(p, where, op, u, r, g), p \in Requests,
             op \in {"join", "leave", "spectate", "start"} => r \in Rooms,
             where \in {"lock", "insert"} => op \in Members,
             where = "schedule" => r \in Rooms,
             where \in {"hostLeave", "leave", "lastHuman", "forfeit", "declare", "free"} => op = "leave",
             where = "spectate" => op = "spectate",
             where \in Starting => op = "start",
             where \in Closing \cup Starting \cup {"leave"} => g \in Rooms
      PROVE  Good
  <2>1. /\ req' \in [Procs -> Reqs]
        /\ req'[p].pc = where /\ req'[p].op = op /\ req'[p].user = u
        /\ req'[p].room = r /\ req'[p].game = g
        /\ \A q \in Procs \ {p} : req'[q] = req[q]
    BY <1>1, <1>4, BeginFacts
  <2>2. Carries(p, req'[p])
    BY <1>4, <2>1 DEF Carries, Members
  <2> QED BY <2>1, <2>2
<1> HIDE DEF Good
<1> USE DEF PCs, Ops, Members, Closing, Starting
<1>5. ASSUME NEW u \in Users, p \in Requests, Request(p, u) PROVE Good
  <2>1. ASSUME NEW op \in Members, NEW r \in Rooms \cup {None}, Enter(p, u, op, r),
               op = "join" => r \in Rooms
        PROVE  Good
    <3>1. CASE Begin(p, "lock", op, u, r, None)
      BY <1>4, <1>5, <2>1, <3>1
    <3>2. ASSUME NEW g \in Rooms, Begin(p, ExpiryStep(g), op, u, r, g) PROVE Good
      BY <1>4, <1>5, <2>1, <3>2 DEF ExpiryStep
    <3> QED BY <2>1, <3>1, <3>2 DEF Enter, OpenRooms
  <2>2. ASSUME NEW r \in Rooms, LeaveRoom(p, u, r) PROVE Good
    <3>1. Begin(p, "hostLeave", "leave", u, r, r) \/ Begin(p, "leave", "leave", u, r, r)
      BY <2>2 DEF LeaveRoom
    <3>2. CASE Begin(p, "hostLeave", "leave", u, r, r)
      BY <1>4, <1>5, <3>2
    <3>3. CASE Begin(p, "leave", "leave", u, r, r)
      BY <1>4, <1>5, <3>3
    <3> QED BY <3>1, <3>2, <3>3
  <2>3. ASSUME NEW r \in Rooms, SpectateRoom(p, u, r) PROVE Good
    BY <1>4, <1>5, <2>3 DEF SpectateRoom, ExpiryStep
  <2>4. ASSUME NEW r \in Rooms, StartRoom(p, u, r) PROVE Good
    BY <1>4, <1>5, <2>4 DEF StartRoom
  <2> QED BY <1>5, <2>1, <2>2, <2>3, <2>4 DEF Request
<1>6. CASE LockMembership(p)
  BY <1>1, <1>2, <1>3, <1>6 DEF LockMembership, At, Carries
<1>7. ASSUME NEW r \in Rooms, CreateRoom(p, r) PROVE Good
  <2> DEFINE l == [[req[p] EXCEPT !.pc = "schedule"] EXCEPT !.room = r]
  <2>1. req' = [req EXCEPT ![p] = l]
    BY <1>7 DEF CreateRoom
  <2>3. /\ l \in Reqs /\ l.pc = "schedule" /\ l.op = req[p].op /\ l.user = req[p].user
        /\ l.room = r /\ l.game = req[p].game
    BY <1>1 DEF Reqs
  <2> HIDE DEF l
  <2>2. req' \in [Procs -> Reqs] /\ (\A q \in Procs \ {p} : req'[q] = req[q]) /\ req'[p] = l
    BY <1>1, <2>1, <2>3
  <2>4. Carries(p, req'[p])
    BY <1>1, <2>2, <2>3 DEF Carries
  <2> QED BY <2>2, <2>4 DEF Good
<1>8. CASE ScheduleWaitingRoomExpiry(p) \/ JoinRoom(p) \/ HostLeaves(p) \/ FreeSeat(p)
           \/ CreateSpectator(p) \/ SetupExpiry(p) \/ CancelStartedGame(p) \/ Abort(p)
  BY <1>2, <1>8 DEF ScheduleWaitingRoomExpiry, JoinRoom, HostLeaves, FreeSeat, CreateSpectator,
                    SetupExpiry, CancelStartedGame, Abort
<1>9. CASE LeaveTransaction(p)
  BY <1>1, <1>2, <1>3, <1>9 DEF LeaveTransaction, At, Carries
<1>10. CASE LastHuman(p)
  BY <1>1, <1>3, <1>10 DEF LastHuman, At, Carries
<1>11. CASE ForfeitRead(p)
  BY <1>1, <1>3, <1>11 DEF ForfeitRead, At, Carries
<1>12. CASE DeclareBankruptcy(p)
  <2>1. req[p].pc = "declare" /\ (End(p) \/ Goto(p, "finalize") \/ Goto(p, "free"))
    BY <1>12 DEF DeclareBankruptcy, At
  <2> QED BY <1>1, <1>2, <1>3, <2>1 DEF Carries
<1>13. CASE AbandonGame(p)
  BY <1>1, <1>2, <1>3, <1>13 DEF AbandonGame, At, Carries
<1>14. CASE FinishByTime(p)
  BY <1>1, <1>3, <1>14 DEF FinishByTime, At, Carries
<1>15. CASE FinalizeGame(p)
  <2>1. Resume(p)
    BY <1>15 DEF FinalizeGame
  <2> QED BY <1>1, <1>2, <1>3, <2>1 DEF Resume
<1>16. CASE SetupTurn(p)
  BY <1>1, <1>3, <1>16 DEF SetupTurn, At, Carries
<1>17. CASE FinalizeFails(p)
  BY <1>1, <1>3, <1>17 DEF FinalizeFails, At, Carries
<1>18. CASE SetupFails(p)
  BY <1>1, <1>3, <1>18 DEF SetupFails, At, Carries
<1> QED BY <1>5, <1>6, <1>7, <1>8, <1>9, <1>10, <1>11, <1>12, <1>13, <1>14, <1>15, <1>16, <1>17, <1>18
        DEF Act, Step, Fault

(* So do the steps of the game worker.                                     *)
LEMMA WorkerLocals ==
    ASSUME Typed, WorkerAct
    PROVE  \/ UNCHANGED req
           \/ /\ req' \in [Procs -> Reqs]
              /\ Carries(Worker, req'[Worker])
              /\ req'[Worker].pc \in Closing /\ req'[Worker].game \in Rooms
              /\ \A q \in Procs \ {Worker} : req'[q] = req[q]
<1> DEFINE Good == \/ UNCHANGED req
                   \/ /\ req' \in [Procs -> Reqs]
                      /\ Carries(Worker, req'[Worker])
                      /\ req'[Worker].pc \in Closing /\ req'[Worker].game \in Rooms
                      /\ \A q \in Procs \ {Worker} : req'[q] = req[q]
<1> SUFFICES Good
  OBVIOUS
<1>1. req \in [Procs -> Reqs]
  BY DEF Typed, TypeOK
<1>2. ASSUME NEW where \in {"finalize", "abandon", "byTime", "repair"}, NEW op \in {"worker", "expiryJob"},
             NEW r \in Rooms, Begin(Worker, where, op, None, None, r)
      PROVE  Good
  <2>1. /\ req' \in [Procs -> Reqs]
        /\ req'[Worker].pc = where /\ req'[Worker].op = op /\ req'[Worker].game = r
        /\ \A q \in Procs \ {Worker} : req'[q] = req[q]
    <3>1. where \in PCs /\ op \in Ops /\ Worker \in Procs
      BY WorkerIsProc DEF PCs, Ops
    <3>2. None \in Users \cup {None} /\ None \in Rooms \cup {None} /\ r \in Rooms \cup {None}
      OBVIOUS
    <3> QED BY <1>1, <1>2, <3>1, <3>2, BeginFacts
  <2>2. Carries(Worker, req'[Worker])
    BY <2>1 DEF Carries, Members, Closing, Starting
  <2> QED BY <2>1, <2>2 DEF Closing
<1> HIDE DEF Good
<1>3. PICK r \in Rooms : (\E n \in Seats : GameCommand(r, n)) \/ RunExpiryJob(r) \/ Scan(r)
  BY DEF WorkerAct
<1>4. ASSUME NEW n \in Seats, GameCommand(r, n) PROVE Good
  <2>1. Begin(Worker, "finalize", "worker", None, None, r) \/ UNCHANGED req
    BY <1>4 DEF GameCommand
  <2> QED BY <1>2, <2>1 DEF Good
<1>5. CASE RunExpiryJob(r)
  BY <1>2, <1>5 DEF RunExpiryJob, ExpiryStep
<1>6. CASE Scan(r)
  <2>1. \/ Begin(Worker, "finalize", "worker", None, None, r)
        \/ Begin(Worker, "abandon", "worker", None, None, r)
        \/ UNCHANGED req
    BY <1>6 DEF Scan, WatchdogFinalizes, WatchdogAbandons, WatchdogQueues
  <2> QED BY <1>2, <2>1 DEF Good
<1> QED BY <1>3, <1>4, <1>5, <1>6

---------------------------------------------------------------------------
(* What a step may do to the rows *)

(* A leave of the user has got past the game of the room.                  *)
Leaving(u, r) == \E p \in Procs : At(p, "free") /\ req[p].user = u /\ req[p].room = r

(* The user's seat in the room becomes free.                               *)
Vacates(u, r) ==
    /\ seat' = [seat EXCEPT ![r] = Without(u, r)]
    /\ room[r] = "active" /\ game[r] = "active" => Leaving(u, r)
    /\ UNCHANGED <<room, host, game>>

(* The rooms and their seats change in six ways only.                      *)
LEMMA RowsStep ==
    ASSUME Typed, Next
    PROVE  \/ UNCHANGED rows
           \/ \E p \in Requests, r \in Rooms : CreateRoom(p, r)
           \/ \E p \in Requests : JoinRoom(p)
           \/ \E p \in Procs : HostLeaves(p)
           \/ \E u \in Users, r \in Rooms : Vacates(u, r)
           \/ \E p \in Requests, u \in Users, r \in Rooms : StartRoom(p, u, r)
           \/ \E p \in Procs : FinalizeGame(p)
           \/ \E p \in Procs : CancelStartedGame(p)
           \/ \E r \in Rooms : ExpireWaitingRoom(r)
           \/ ExpireWaitingRooms
<1> DEFINE Good ==
           \/ UNCHANGED rows
           \/ \E p \in Requests, r \in Rooms : CreateRoom(p, r)
           \/ \E p \in Requests : JoinRoom(p)
           \/ \E p \in Procs : HostLeaves(p)
           \/ \E u \in Users, r \in Rooms : Vacates(u, r)
           \/ \E p \in Requests, u \in Users, r \in Rooms : StartRoom(p, u, r)
           \/ \E p \in Procs : FinalizeGame(p)
           \/ \E p \in Procs : CancelStartedGame(p)
           \/ \E r \in Rooms : ExpireWaitingRoom(r)
           \/ ExpireWaitingRooms
<1> SUFFICES Good
  OBVIOUS
<1>1. ASSUME NEW p \in Requests, NEW u \in Users, Request(p, u) PROVE Good
  BY <1>1 DEF Request, Enter, LeaveRoom, SpectateRoom
<1>2. ASSUME NEW p \in Procs, Step(p) PROVE Good
  <2>1. Carries(p, req[p])
    BY DEF Typed
  <2>2. CASE LockMembership(p) \/ ScheduleWaitingRoomExpiry(p) \/ LastHuman(p) \/ ForfeitRead(p)
             \/ AbandonGame(p) \/ FinishByTime(p) \/ CreateSpectator(p) \/ SetupTurn(p) \/ SetupExpiry(p)
    BY <2>2 DEF LockMembership, ScheduleWaitingRoomExpiry, LastHuman, ForfeitRead, AbandonGame,
                FinishByTime, CreateSpectator, SetupTurn, SetupExpiry
  <2>3. CASE DeclareBankruptcy(p)
    BY <2>3 DEF DeclareBankruptcy
  <2>4. ASSUME NEW r \in Rooms, CreateRoom(p, r) PROVE Good
    <3>1. p \in Requests
      BY <2>1, <2>4 DEF CreateRoom, At, Carries
    <3> QED BY <2>4, <3>1
  <2>5. CASE JoinRoom(p)
    <3>1. p \in Requests
      BY <2>1, <2>5 DEF JoinRoom, At, Carries
    <3> QED BY <2>5, <3>1
  <2>6. CASE LeaveTransaction(p)
    <3>1. req[p].user \in Users /\ req[p].room \in Rooms
      BY <2>1, <2>6 DEF LeaveTransaction, At, Carries
    <3>2. UNCHANGED rows \/ Vacates(req[p].user, req[p].room)
      BY <2>6 DEF LeaveTransaction, Vacates, rows
    <3> QED BY <3>1, <3>2
  <2>7. CASE FreeSeat(p)
    <3>1. req[p].user \in Users /\ req[p].room \in Rooms
      BY <2>1, <2>7 DEF FreeSeat, At, Carries
    <3>2. Vacates(req[p].user, req[p].room)
      BY <2>7 DEF FreeSeat, Vacates, Leaving
    <3> QED BY <3>1, <3>2
  <2>8. CASE HostLeaves(p) \/ FinalizeGame(p) \/ CancelStartedGame(p)
    BY <2>8
  <2> HIDE DEF Good
  <2> QED BY <1>2, <2>2, <2>3, <2>4, <2>5, <2>6, <2>7, <2>8 DEF Step
<1>3. ASSUME NEW p \in Procs, Fault(p) PROVE Good
  BY <1>3 DEF Fault, Abort, FinalizeFails, SetupFails
<1>4. ASSUME NEW r \in Rooms, NEW n \in Seats, GameCommand(r, n) PROVE Good
  BY <1>4 DEF GameCommand
<1>5. ASSUME NEW r \in Rooms, RunExpiryJob(r) \/ Scan(r) \/ Age(r) \/ TimeUp(r) PROVE Good
  BY <1>5 DEF RunExpiryJob, Scan, WatchdogFinalizes, WatchdogAbandons, WatchdogQueues, Age, TimeUp
<1>6. ASSUME NEW u \in Users, NEW r \in Rooms, EndSpectatorSession(u, r) PROVE Good
  BY <1>6 DEF EndSpectatorSession
<1> HIDE DEF Good
<1>7. ASSUME NEW r \in Rooms, ExpireWaitingRoom(r) PROVE Good
  BY <1>7 DEF Good
<1>8. CASE ExpireWaitingRooms
  BY <1>8 DEF Good
<1> QED BY <1>1, <1>2, <1>3, <1>4, <1>5, <1>6, <1>7, <1>8 DEF Next

(* Whoever goes bankrupt, the roster of the game stays what it was.        *)
LEMMA BankruptFacts ==
    ASSUME engine \in [Rooms -> Engines], NEW g \in Rooms, NEW B
    PROVE  /\ Bankrupt(g, B) \in Engines
           /\ Bankrupt(g, B).roster = engine[g].roster
           /\ Bankrupt(g, B).solvent \subseteq engine[g].solvent
           /\ Bankrupt(g, B).phase \in {"playing", "finished"}
BY DEF Bankrupt, Engines

LEMMA TableType ==
    ASSUME Typed, NEW r \in Rooms
    PROVE  /\ Table(r) \in [Seats -> Occupants]
           /\ \A n \in Seats : Table(r)[n] \in {seat[r][n], Bot}
           /\ \A n \in Seats : seat[r][n] # None => Table(r)[n] = seat[r][n]
BY DEF Typed, TypeOK, Table, Occupants

(* The engines change by the start of a game and by commands, which keep   *)
(* the roster.                                                             *)
LEMMA EngineStep ==
    ASSUME Typed, Next
    PROVE  /\ engine' \in [Rooms -> Engines]
           /\ \/ UNCHANGED engine
              \/ \E p \in Requests, u \in Users, r \in Rooms : StartRoom(p, u, r)
              \/ \E g \in Rooms :
                    /\ engine[g].phase = "playing"
                    /\ engine'[g].roster = engine[g].roster
                    /\ engine'[g].solvent \subseteq engine[g].solvent
                    /\ engine'[g].phase \in {"playing", "finished"}
                    /\ \A q \in Rooms \ {g} : engine'[q] = engine[q]
                    /\ UNCHANGED rows
<1> DEFINE Command(g) == /\ engine' \in [Rooms -> Engines]
                         /\ engine[g].phase = "playing"
                         /\ engine'[g].roster = engine[g].roster
                         /\ engine'[g].solvent \subseteq engine[g].solvent
                         /\ engine'[g].phase \in {"playing", "finished"}
                         /\ \A q \in Rooms \ {g} : engine'[q] = engine[q]
                         /\ UNCHANGED rows
           Good == \/ UNCHANGED engine
                   \/ /\ engine' \in [Rooms -> Engines]
                      /\ \E p \in Requests, u \in Users, r \in Rooms : StartRoom(p, u, r)
                   \/ \E g \in Rooms : Command(g)
<1>1. engine \in [Rooms -> Engines]
  BY DEF Typed, TypeOK
<1> SUFFICES Good
  BY <1>1
<1>2. ASSUME NEW g \in Rooms, NEW B, engine[g].phase = "playing", UNCHANGED rows,
             engine' = [engine EXCEPT ![g] = Bankrupt(g, B)]
      PROVE  Command(g)
  BY <1>1, <1>2, BankruptFacts
<1>3. ASSUME NEW g \in Rooms, engine[g].phase = "playing", UNCHANGED rows, Finish(g) PROVE Command(g)
  BY <1>1, <1>3 DEF Finish, Engines
<1>4. ASSUME NEW p \in Requests, NEW u \in Users, NEW r \in Rooms, StartRoom(p, u, r) PROVE Good
  <2> DEFINE e == [phase |-> "playing", roster |-> Table(r),
                   solvent |-> {n \in Seats : Table(r)[n] # None}]
  <2>1. e \in Engines
    BY TableType DEF Engines
  <2>2. engine' = [engine EXCEPT ![r] = e]
    BY <1>4 DEF StartRoom
  <2> HIDE DEF e
  <2>3. engine' \in [Rooms -> Engines]
    BY <1>1, <2>1, <2>2
  <2> QED BY <1>4, <2>3
<1> HIDE DEF Command
<1>5. ASSUME NEW p \in Requests, NEW u \in Users, Request(p, u) PROVE Good
  BY <1>4, <1>5 DEF Request, Enter, LeaveRoom, SpectateRoom
<1>6. ASSUME NEW p \in Procs, Step(p) PROVE Good
  <2>1. Carries(p, req[p])
    BY DEF Typed
  <2>2. CASE DeclareBankruptcy(p)
    <3>1. req[p].game \in Rooms
      BY <2>1, <2>2 DEF DeclareBankruptcy, At, Carries, Closing
    <3>2. UNCHANGED engine \/ \E B : /\ engine[req[p].game].phase = "playing" /\ UNCHANGED rows
                                     /\ engine' = [engine EXCEPT ![req[p].game] = Bankrupt(req[p].game, B)]
      BY <2>2 DEF DeclareBankruptcy
    <3> QED BY <1>2, <3>1, <3>2
  <2>3. CASE AbandonGame(p) \/ FinishByTime(p)
    <3>1. req[p].game \in Rooms
      BY <2>1, <2>3 DEF AbandonGame, FinishByTime, At, Carries, Closing
    <3>2. \/ UNCHANGED engine
          \/ engine[req[p].game].phase = "playing" /\ UNCHANGED rows /\ Finish(req[p].game)
      BY <2>3 DEF AbandonGame, FinishByTime
    <3> QED BY <1>3, <3>1, <3>2
  <2>4. CASE LockMembership(p) \/ ScheduleWaitingRoomExpiry(p) \/ JoinRoom(p) \/ HostLeaves(p)
             \/ LeaveTransaction(p) \/ LastHuman(p) \/ ForfeitRead(p) \/ FreeSeat(p)
    BY <2>4 DEF LockMembership, ScheduleWaitingRoomExpiry, JoinRoom, HostLeaves, LeaveTransaction,
                LastHuman, ForfeitRead, FreeSeat
  <2>5. CASE FinalizeGame(p) \/ CreateSpectator(p) \/ SetupTurn(p) \/ SetupExpiry(p) \/ CancelStartedGame(p)
             \/ \E r \in Rooms : CreateRoom(p, r)
    BY <2>5 DEF FinalizeGame, CreateSpectator, SetupTurn, SetupExpiry, CancelStartedGame, CreateRoom
  <2> QED BY <1>6, <2>2, <2>3, <2>4, <2>5 DEF Step
<1>7. ASSUME NEW p \in Procs, Fault(p) PROVE Good
  BY <1>7 DEF Fault, Abort, FinalizeFails, SetupFails
<1>8. ASSUME NEW r \in Rooms, NEW n \in Seats, GameCommand(r, n) PROVE Good
  <2>1. /\ engine[r].phase = "playing" /\ UNCHANGED rows
        /\ engine' = [engine EXCEPT ![r] = Bankrupt(r, {n})]
    BY <1>8 DEF GameCommand
  <2> QED BY <1>2, <2>1
<1>9. ASSUME NEW r \in Rooms, RunExpiryJob(r) \/ Scan(r) \/ Age(r) \/ TimeUp(r) \/ ExpireWaitingRoom(r)
      PROVE  Good
  BY <1>9 DEF RunExpiryJob, Scan, WatchdogFinalizes, WatchdogAbandons, WatchdogQueues, Age, TimeUp,
              ExpireWaitingRoom
<1>10. ASSUME NEW u \in Users, NEW r \in Rooms, EndSpectatorSession(u, r) PROVE Good
  BY <1>10 DEF EndSpectatorSession
<1>11. CASE ExpireWaitingRooms
  BY <1>11 DEF ExpireWaitingRooms
<1> HIDE DEF Good
<1> QED BY <1>5, <1>6, <1>7, <1>8, <1>9, <1>10, <1>11 DEF Next

(* The rows keep their types.                                              *)
LEMMA RowTypes ==
    ASSUME Typed, Next
    PROVE  /\ room' \in [Rooms -> {"unused", "waiting", "active", "finished", "cancelled"}]
           /\ host' \in [Rooms -> Users \cup {None}]
           /\ seat' \in [Rooms -> [Seats -> Occupants]]
           /\ game' \in [Rooms -> {"none", "active", "finished", "cancelled"}]
<1>1. /\ room \in [Rooms -> {"unused", "waiting", "active", "finished", "cancelled"}]
      /\ host \in [Rooms -> Users \cup {None}]
      /\ seat \in [Rooms -> [Seats -> Occupants]]
      /\ game \in [Rooms -> {"none", "active", "finished", "cancelled"}]
      /\ \A u \in Users : u \in Occupants
      /\ \A p \in Procs : Carries(p, req[p])
  BY DEF Typed, TypeOK, Occupants
<1>2. \A u, r : r \in Rooms => Without(u, r) \in [Seats -> Occupants]
  BY <1>1 DEF Without, Occupants
<1>3. CASE UNCHANGED rows
  BY <1>1, <1>3 DEF rows
<1>4. ASSUME NEW p \in Requests, NEW r \in Rooms, CreateRoom(p, r)
      PROVE  /\ room' \in [Rooms -> {"unused", "waiting", "active", "finished", "cancelled"}]
             /\ host' \in [Rooms -> Users \cup {None}] /\ seat' \in [Rooms -> [Seats -> Occupants]]
             /\ UNCHANGED game
  <2>1. req[p].user \in Users
    BY <1>1, <1>4, WorkerIsProc DEF CreateRoom, Carries, Members
  <2>2. seat' = [seat EXCEPT ![r] = [seat[r] EXCEPT ![1] = req[p].user]]
    BY <1>4 DEF CreateRoom
  <2>3. seat' \in [Rooms -> [Seats -> Occupants]]
    BY <1>1, <2>1, <2>2
  <2> QED BY <1>1, <1>4, <2>1, <2>3 DEF CreateRoom
<1>5. ASSUME NEW p \in Requests, JoinRoom(p)
      PROVE  UNCHANGED <<room, host, game>> /\ seat' \in [Rooms -> [Seats -> Occupants]]
  <2>1. req[p].user \in Users /\ req[p].room \in Rooms
    BY <1>1, <1>5, WorkerIsProc DEF JoinRoom, Carries, Members
  <2>2. \/ UNCHANGED seat
        \/ \E n \in Seats :
              seat' = [seat EXCEPT ![req[p].room] = [seat[req[p].room] EXCEPT ![n] = req[p].user]]
    BY <1>5 DEF JoinRoom
  <2>4. ASSUME NEW n \in Seats
        PROVE  [seat[req[p].room] EXCEPT ![n] = req[p].user] \in [Seats -> Occupants]
    BY <1>1, <2>1
  <2>3. seat' \in [Rooms -> [Seats -> Occupants]]
    BY <1>1, <2>2, <2>4
  <2> QED BY <1>5, <2>3 DEF JoinRoom
<1>6. ASSUME NEW p \in Procs, HostLeaves(p)
      PROVE  /\ room' \in [Rooms -> {"unused", "waiting", "active", "finished", "cancelled"}]
             /\ seat' \in [Rooms -> [Seats -> Occupants]] /\ UNCHANGED <<host, game>>
  <2>1. req[p].room \in Rooms
    BY <1>1, <1>6 DEF HostLeaves, At, Carries
  <2> QED BY <1>1, <1>2, <1>6, <2>1 DEF HostLeaves
<1>7. ASSUME NEW u \in Users, NEW r \in Rooms, Vacates(u, r)
      PROVE  UNCHANGED <<room, host, game>> /\ seat' \in [Rooms -> [Seats -> Occupants]]
  BY <1>1, <1>2, <1>7 DEF Vacates
<1>8. ASSUME NEW p \in Requests, NEW u \in Users, NEW r \in Rooms, StartRoom(p, u, r)
      PROVE  /\ room' \in [Rooms -> {"unused", "waiting", "active", "finished", "cancelled"}]
             /\ game' \in [Rooms -> {"none", "active", "finished", "cancelled"}]
             /\ seat' \in [Rooms -> [Seats -> Occupants]] /\ UNCHANGED host
  BY <1>1, <1>8, TableType DEF StartRoom
<1>9. ASSUME NEW p \in Procs, FinalizeGame(p) \/ CancelStartedGame(p)
      PROVE  /\ room' \in [Rooms -> {"unused", "waiting", "active", "finished", "cancelled"}]
             /\ game' \in [Rooms -> {"none", "active", "finished", "cancelled"}]
             /\ UNCHANGED <<seat, host>>
  BY <1>1, <1>9 DEF FinalizeGame, CancelStartedGame
<1>10. ASSUME ExpireWaitingRooms \/ \E r \in Rooms : ExpireWaitingRoom(r)
      PROVE  /\ room' \in [Rooms -> {"unused", "waiting", "active", "finished", "cancelled"}]
             /\ UNCHANGED <<seat, host, game>>
  BY <1>1, <1>10 DEF ExpireWaitingRooms, ExpireWaitingRoom, Cancel
<1> QED BY <1>1, <1>3, <1>4, <1>5, <1>6, <1>7, <1>8, <1>9, <1>10, RowsStep

(* So do the queues, the spectators, the locks and the counters.           *)
LEMMA OtherTypes ==
    ASSUME Typed, Next
    PROVE  /\ spectators' \in [Rooms -> SUBSET Users]
           /\ {aged', waitingJobs', expired', turnJobs', expiryJobs'} \subseteq SUBSET Rooms
           /\ lock' \in [Users -> Requests \cup {None}]
           /\ served' \in 0..MaxRequests
           /\ faults' \in 0..MaxFaults
<1> DEFINE Sets == {aged', waitingJobs', expired', turnJobs', expiryJobs'} \subseteq SUBSET Rooms
           Good == /\ spectators' \in [Rooms -> SUBSET Users]
                   /\ Sets
                   /\ lock' \in [Users -> Requests \cup {None}]
                   /\ served' \in 0..MaxRequests
                   /\ faults' \in 0..MaxFaults
<1> SUFFICES Good
  OBVIOUS
<1>1. /\ spectators \in [Rooms -> SUBSET Users]
      /\ aged \in SUBSET Rooms /\ waitingJobs \in SUBSET Rooms /\ expired \in SUBSET Rooms
      /\ turnJobs \in SUBSET Rooms /\ expiryJobs \in SUBSET Rooms
      /\ lock \in [Users -> Requests \cup {None}]
      /\ served \in 0..MaxRequests
      /\ faults \in 0..MaxFaults
      /\ \A p \in Procs : Carries(p, req[p])
  BY DEF Typed, TypeOK
<1> USE DEF queues, clock
<1>2. ASSUME NEW p, NEW op, Arrive(p, op) PROVE served' \in 0..MaxRequests
  BY <1>1, <1>2, LobbyConstants DEF Arrive
<1>3. ASSUME faults < MaxFaults, faults' = faults + 1 PROVE faults' \in 0..MaxFaults
  BY <1>1, <1>3, LobbyConstants
<1>4. ASSUME NEW p \in Requests, NEW u \in Users, Request(p, u) PROVE Good
  <2>1. UNCHANGED <<spectators, queues, clock, lock, faults>>
    BY <1>4 DEF Request, Enter, LeaveRoom, SpectateRoom, StartRoom
  <2>2. served' \in 0..MaxRequests
    BY <1>2, <1>4 DEF Request, Enter, LeaveRoom, SpectateRoom, StartRoom
  <2> QED BY <1>1, <2>1, <2>2
<1>5. ASSUME NEW p \in Procs, Step(p) PROVE Good
  <2>1. Carries(p, req[p])
    BY <1>1
  <2>2. CASE LockMembership(p)
    <3>1. p \in Requests /\ req[p].user \in Users
      BY <2>1, <2>2 DEF LockMembership, At, Carries, Members
    <3>2. lock' \in [Users -> Requests \cup {None}]
      BY <1>1, <2>2, <3>1 DEF LockMembership
    <3> QED BY <1>1, <2>2, <3>2 DEF LockMembership
  <2>3. ASSUME NEW r \in Rooms, CreateRoom(p, r) PROVE Good
    BY <1>1, <2>3 DEF CreateRoom, Unlock
  <2>4. CASE JoinRoom(p)
    BY <1>1, <2>4 DEF JoinRoom, Unlock
  <2>5. CASE ScheduleWaitingRoomExpiry(p)
    BY <1>1, <2>1, <2>5 DEF ScheduleWaitingRoomExpiry, At, Carries
  <2>6. CASE CreateSpectator(p)
    BY <1>1, <2>1, <2>6 DEF CreateSpectator, At, Carries
  <2>7. CASE SetupTurn(p) \/ SetupExpiry(p)
    <3>1. req[p].game \in Rooms
      BY <2>1, <2>7 DEF SetupTurn, SetupExpiry, At, Carries, Starting
    <3> QED BY <1>1, <2>7, <3>1 DEF SetupTurn, SetupExpiry
  <2>8. CASE HostLeaves(p) \/ LeaveTransaction(p) \/ LastHuman(p) \/ ForfeitRead(p) \/ FreeSeat(p)
             \/ AbandonGame(p) \/ FinishByTime(p) \/ FinalizeGame(p) \/ CancelStartedGame(p)
    BY <1>1, <2>8 DEF HostLeaves, LeaveTransaction, LastHuman, ForfeitRead, FreeSeat, AbandonGame,
                      FinishByTime, FinalizeGame, CancelStartedGame
  <2>9. CASE DeclareBankruptcy(p)
    BY <1>1, <2>9 DEF DeclareBankruptcy
  <2> QED BY <1>5, <2>2, <2>3, <2>4, <2>5, <2>6, <2>7, <2>8, <2>9 DEF Step
<1>6. ASSUME NEW p \in Procs, Fault(p) PROVE Good
  <2>1. faults < MaxFaults /\ faults' = faults + 1 /\ UNCHANGED <<spectators, queues, clock, served>>
    BY <1>6 DEF Fault, Abort, FinalizeFails, SetupFails
  <2>2. lock' \in [Users -> Requests \cup {None}]
    BY <1>1, <1>6 DEF Fault, Abort, FinalizeFails, SetupFails
  <2> QED BY <1>1, <1>3, <2>1, <2>2
<1>7. ASSUME NEW r \in Rooms, NEW n \in Seats, GameCommand(r, n) PROVE Good
  BY <1>1, <1>7 DEF GameCommand
<1>8. ASSUME NEW r \in Rooms, RunExpiryJob(r) \/ Scan(r) PROVE Good
  BY <1>1, <1>8 DEF RunExpiryJob, Scan, WatchdogFinalizes, WatchdogAbandons, WatchdogQueues
<1>9. ASSUME NEW r \in Rooms, Age(r) \/ TimeUp(r) \/ ExpireWaitingRoom(r) PROVE Good
  BY <1>1, <1>9 DEF Age, TimeUp, ExpireWaitingRoom
<1>10. ASSUME NEW u \in Users, NEW r \in Rooms, EndSpectatorSession(u, r) PROVE Good
  BY <1>1, <1>10 DEF EndSpectatorSession
<1>11. CASE ExpireWaitingRooms
  BY <1>1, <1>11 DEF ExpireWaitingRooms
<1> HIDE DEF Good
<1> QED BY <1>4, <1>5, <1>6, <1>7, <1>8, <1>9, <1>10, <1>11 DEF Next

(* Every process keeps what it carries.                                    *)
LEMMA LocalTypes ==
    ASSUME Typed, Next
    PROVE  req' \in [Procs -> Reqs] /\ \A p \in Procs : Carries(p, req'[p])
<1>1. req \in [Procs -> Reqs] /\ \A p \in Procs : Carries(p, req[p])
  BY DEF Typed, TypeOK
<1>2. CASE \E p \in Procs : Act(p)
  BY <1>1, <1>2, ActLocals
<1>3. CASE WorkerAct
  BY <1>1, <1>3, WorkerLocals
<1>4. CASE Env
  <2>1. UNCHANGED req
    BY <1>4 DEF Env, EndSpectatorSession, ExpireWaitingRoom, Age, TimeUp, ExpireWaitingRooms
  <2> QED BY <1>1, <2>1
<1> QED BY <1>2, <1>3, <1>4, NextActs

LEMMA NextTyped == Typed /\ [Next]_vars => Typed'
<1> SUFFICES ASSUME Typed, [Next]_vars PROVE Typed'
  OBVIOUS
<1>1. CASE Next
  <2>1. \A p \in Procs : Carries(p, req[p])'
    BY <1>1, LocalTypes DEF Carries
  <2> QED BY <1>1, <2>1, LocalTypes, RowTypes, OtherTypes, EngineStep DEF Typed, TypeOK
<1>2. CASE UNCHANGED vars
  BY <1>2 DEF vars, rows, queues, clock, Typed, TypeOK, Carries
<1> QED BY <1>1, <1>2

(* Rows, engines, queues and requests keep their types (src/src/rooms).    *)
THEOREM TypeCorrect == Spec => []TypeOK
<1>1. Typed => TypeOK
  BY DEF Typed
<1> QED BY <1>1, InitTyped, NextTyped, PTL DEF Spec

---------------------------------------------------------------------------
(* Rooms and their games *)

(* Only the start makes a room active, and its game with it; whatever      *)
(* closes one of an active pair closes the other.                          *)
LEMMA NextAgrees == Typed /\ RoomAndGameAgree /\ [Next]_vars => RoomAndGameAgree'
<1> SUFFICES ASSUME Typed, RoomAndGameAgree, [Next]_vars PROVE RoomAndGameAgree'
  OBVIOUS
<1>1. /\ room \in [Rooms -> {"unused", "waiting", "active", "finished", "cancelled"}]
      /\ game \in [Rooms -> {"none", "active", "finished", "cancelled"}]
      /\ \A p \in Procs : Carries(p, req[p])
  BY DEF Typed, TypeOK
<1> USE DEF RoomAndGameAgree
<1>2. CASE UNCHANGED rows \/ UNCHANGED vars
  BY <1>2 DEF rows, vars
<1>3. ASSUME NEW p \in Requests, NEW r \in Rooms, CreateRoom(p, r) PROVE RoomAndGameAgree'
  BY <1>1, <1>3 DEF CreateRoom
<1>4. ASSUME NEW p \in Requests, JoinRoom(p) PROVE RoomAndGameAgree'
  BY <1>4 DEF JoinRoom
<1>5. ASSUME NEW p \in Procs, HostLeaves(p) PROVE RoomAndGameAgree'
  BY <1>1, <1>5 DEF HostLeaves
<1>6. ASSUME NEW u \in Users, NEW r \in Rooms, Vacates(u, r) PROVE RoomAndGameAgree'
  BY <1>6 DEF Vacates
<1>7. ASSUME NEW p \in Requests, NEW u \in Users, NEW r \in Rooms, StartRoom(p, u, r)
      PROVE  RoomAndGameAgree'
  BY <1>1, <1>7 DEF StartRoom
<1>8. ASSUME NEW p \in Procs, FinalizeGame(p) PROVE RoomAndGameAgree'
  BY <1>1, <1>8 DEF FinalizeGame
<1>9. ASSUME NEW p \in Procs, CancelStartedGame(p) PROVE RoomAndGameAgree'
  BY <1>1, <1>9 DEF CancelStartedGame
<1>10. ASSUME ExpireWaitingRooms \/ \E r \in Rooms : ExpireWaitingRoom(r) PROVE RoomAndGameAgree'
  BY <1>1, <1>10 DEF ExpireWaitingRooms, ExpireWaitingRoom, ExpiredWaiting, Cancel
<1> HIDE DEF RoomAndGameAgree
<1> QED BY <1>2, <1>3, <1>4, <1>5, <1>6, <1>7, <1>8, <1>9, <1>10, RowsStep

(* A room is active exactly as long as its game is: startRoom, the expiry  *)
(* of waiting rooms, a leaving host, the compensation of a failed start    *)
(* and saveFinishedGame never part the two rows.                           *)
THEOREM RoomsAgree == Spec => []RoomAndGameAgree
<1>1. Init => RoomAndGameAgree
  BY DEF Init, RoomAndGameAgree
<1> QED BY <1>1, InitTyped, NextTyped, NextAgrees, PTL DEF Spec

LEMMA NextSeated == Typed /\ SeatedArePlaying /\ [Next]_vars => SeatedArePlaying'
<1> SUFFICES ASSUME Typed, SeatedArePlaying, [Next]_vars PROVE SeatedArePlaying'
  OBVIOUS
<1>1. /\ room \in [Rooms -> {"unused", "waiting", "active", "finished", "cancelled"}]
      /\ seat \in [Rooms -> [Seats -> Occupants]]
      /\ engine \in [Rooms -> Engines]
      /\ None \notin Users /\ Bot \notin Users
      /\ \A p \in Procs : Carries(p, req[p])
  BY LobbyConstants DEF Typed, TypeOK
<1>2. ASSUME \A r \in Rooms : room'[r] = "active" => room[r] = "active",
             \A r \in Rooms : room'[r] = "active" =>
                \A n \in Seats : seat'[r][n] \in {None, seat[r][n]},
             \A r \in Rooms : engine'[r].roster = engine[r].roster
      PROVE  SeatedArePlaying'
  BY <1>1, <1>2 DEF SeatedArePlaying, Humans
<1>3. ASSUME UNCHANGED engine, \A r \in Rooms : room'[r] = "active" => room[r] = "active",
             UNCHANGED seat
      PROVE  SeatedArePlaying'
  BY <1>2, <1>3
<1>4. CASE UNCHANGED rows
  <2>1. CASE \E p \in Requests, u \in Users, r \in Rooms : StartRoom(p, u, r)
    BY <1>1, <1>4, <2>1 DEF StartRoom, rows
  <2>2. CASE \A r \in Rooms : engine'[r].roster = engine[r].roster
    BY <1>2, <1>4, <2>2 DEF rows
  <2>3. CASE UNCHANGED vars
    BY <1>2, <2>3 DEF vars, rows
  <2>4. Next => \/ UNCHANGED engine
                \/ \E p \in Requests, u \in Users, r \in Rooms : StartRoom(p, u, r)
                \/ \A r \in Rooms : engine'[r].roster = engine[r].roster
    BY EngineStep
  <2> QED BY <2>1, <2>2, <2>3, <2>4
<1>5. ASSUME NEW p \in Requests, NEW r \in Rooms, CreateRoom(p, r) PROVE SeatedArePlaying'
  <2>1. UNCHANGED engine /\ room' = [room EXCEPT ![r] = "waiting"]
        /\ seat' = [seat EXCEPT ![r] = [seat[r] EXCEPT ![1] = req[p].user]]
    BY <1>5 DEF CreateRoom
  <2> QED BY <1>1, <1>2, <2>1
<1>6. ASSUME NEW p \in Requests, JoinRoom(p) PROVE SeatedArePlaying'
  <2> DEFINE r == req[p].room
  <2>1. /\ UNCHANGED <<engine, room>>
        /\ \/ UNCHANGED seat
           \/ /\ room[r] = "waiting"
              /\ \E n \in Seats : seat' = [seat EXCEPT ![r] = [seat[r] EXCEPT ![n] = req[p].user]]
    BY <1>6 DEF JoinRoom
  <2> QED BY <1>1, <1>2, <1>3, <2>1
<1>7. ASSUME NEW u, NEW r \in Rooms, seat' = [seat EXCEPT ![r] = Without(u, r)], UNCHANGED engine,
             \A q \in Rooms : room'[q] = "active" => room[q] = "active"
      PROVE  SeatedArePlaying'
  BY <1>1, <1>2, <1>7 DEF Without
<1>8. ASSUME NEW p \in Procs, HostLeaves(p) PROVE SeatedArePlaying'
  <2>1. req[p].room \in Rooms
    BY <1>1, <1>8 DEF HostLeaves, At, Carries
  <2>2. \A q \in Rooms : room'[q] = "active" => room[q] = "active"
    BY <1>1, <1>8 DEF HostLeaves
  <2> QED BY <1>7, <1>8, <2>1, <2>2 DEF HostLeaves
<1>9. ASSUME NEW u \in Users, NEW r \in Rooms, Vacates(u, r), UNCHANGED engine PROVE SeatedArePlaying'
  BY <1>7, <1>9 DEF Vacates
<1>10. ASSUME NEW p \in Requests, NEW u \in Users, NEW r \in Rooms, StartRoom(p, u, r)
      PROVE  SeatedArePlaying'
  <2> DEFINE e == [phase |-> "playing", roster |-> Table(r),
                   solvent |-> {n \in Seats : Table(r)[n] # None}]
  <2>1. /\ engine' = [engine EXCEPT ![r] = e] /\ room' = [room EXCEPT ![r] = "active"]
        /\ seat' = [seat EXCEPT ![r] = Table(r)]
    BY <1>10 DEF StartRoom
  <2>2. e.roster = Table(r)
    OBVIOUS
  <2> HIDE DEF e
  <2>3. engine'[r].roster = seat'[r]
    BY <1>1, <2>1, <2>2
  <2>4. \A q \in Rooms \ {r} : engine'[q] = engine[q] /\ room'[q] = room[q] /\ seat'[q] = seat[q]
    BY <1>1, <2>1
  <2> QED BY <2>3, <2>4 DEF SeatedArePlaying, Humans
<1>11. ASSUME NEW p \in Procs, FinalizeGame(p) \/ CancelStartedGame(p) PROVE SeatedArePlaying'
  BY <1>1, <1>3, <1>11 DEF FinalizeGame, CancelStartedGame
<1>12. ASSUME ExpireWaitingRooms \/ \E r \in Rooms : ExpireWaitingRoom(r) PROVE SeatedArePlaying'
  BY <1>1, <1>3, <1>12 DEF ExpireWaitingRooms, ExpireWaitingRoom, Cancel
<1>13. ASSUME NEW u \in Users, NEW r \in Rooms, Vacates(u, r), Next PROVE SeatedArePlaying'
  <2>1. CASE UNCHANGED engine
    BY <1>9, <1>13, <2>1
  <2>2. CASE UNCHANGED rows
    BY <1>4, <2>2
  <2> QED BY <1>10, <1>13, <2>1, <2>2, EngineStep
<1>14. CASE UNCHANGED vars
  BY <1>4, <1>14 DEF vars
<1> QED BY <1>4, <1>5, <1>6, <1>8, <1>10, <1>11, <1>12, <1>13, <1>14, RowsStep

(* Every human seated in an active room plays its game at that seat        *)
(* (joinRoom re-reads the status under the row lock, startRoom builds the  *)
(* roster from the rows it locks).                                         *)
THEOREM SeatedPlay == Spec => []SeatedArePlaying
<1>1. Init => SeatedArePlaying
  BY DEF Init, SeatedArePlaying
<1> QED BY <1>1, InitTyped, NextTyped, NextSeated, PTL DEF Spec

---------------------------------------------------------------------------
(* One room per user *)

(* A room nobody has created yet has no seats taken, no game and no jobs.  *)
Fresh ==
    \A r \in Rooms : room[r] = "unused" =>
        seat[r] = Vacant /\ engine[r].phase = "none" /\ r \notin expiryJobs

(* No process acts on the game of such a room.                             *)
GamesExist == \A p \in Procs : req[p].game \in Rooms => room[req[p].game] # "unused"

(* Whoever is about to insert a membership holds the user's lock and has   *)
(* seen that the user has no open room, which is still true.               *)
Inserting ==
    \A p \in Procs : At(p, "insert") => lock[req[p].user] = p /\ OpenRooms(req[p].user) = {}

LobbyInv == RoomAndGameAgree /\ Fresh /\ GamesExist /\ Inserting /\ UserInOneRoom

LEMMA InitLobby == Init => LobbyInv
<1> SUFFICES ASSUME Init PROVE LobbyInv
  OBVIOUS
<1>1. \A p \in Procs : req[p].pc = "idle" /\ req[p].game = None
  BY DEF Init, Idle
<1>2. \A r \in Rooms : room[r] = "unused" /\ game[r] = "none" /\ seat[r] = Vacant
                        /\ engine[r].phase = "none" /\ r \notin expiryJobs
  BY DEF Init, NoGame
<1>3. Fresh /\ RoomAndGameAgree
  BY <1>2 DEF Fresh, RoomAndGameAgree
<1>4. GamesExist /\ Inserting
  BY <1>1, LobbyConstants DEF GamesExist, Inserting, At
<1>5. UserInOneRoom
  BY <1>2 DEF UserInOneRoom, OpenRooms, Open
<1> QED BY <1>3, <1>4, <1>5 DEF LobbyInv

(* No room is un-created.                                                  *)
LEMMA UsedForGood ==
    ASSUME Typed, Next, NEW r \in Rooms, room[r] # "unused"
    PROVE  room'[r] # "unused"
<1>1. room \in [Rooms -> {"unused", "waiting", "active", "finished", "cancelled"}]
  BY DEF Typed, TypeOK
<1>2. CASE UNCHANGED room
  BY <1>2
<1>3. ASSUME NEW p, NEW q, CreateRoom(p, q) PROVE room'[r] # "unused"
  BY <1>1, <1>3 DEF CreateRoom
<1>4. ASSUME NEW p, HostLeaves(p) PROVE room'[r] # "unused"
  BY <1>1, <1>4 DEF HostLeaves
<1>5. ASSUME NEW p, NEW u, NEW q, StartRoom(p, u, q) PROVE room'[r] # "unused"
  BY <1>1, <1>5 DEF StartRoom
<1>6. ASSUME NEW p, FinalizeGame(p) \/ CancelStartedGame(p) PROVE room'[r] # "unused"
  BY <1>1, <1>6 DEF FinalizeGame, CancelStartedGame
<1>7. ASSUME ExpireWaitingRooms \/ \E q \in Rooms : ExpireWaitingRoom(q) PROVE room'[r] # "unused"
  BY <1>1, <1>7 DEF ExpireWaitingRooms, ExpireWaitingRoom, Cancel
<1>8. ASSUME NEW p, JoinRoom(p) PROVE UNCHANGED room
  BY <1>8 DEF JoinRoom
<1>9. ASSUME NEW u, NEW q, Vacates(u, q) PROVE UNCHANGED room
  BY <1>9 DEF Vacates
<1>10. UNCHANGED rows => UNCHANGED room
  BY DEF rows
<1> QED BY <1>2, <1>3, <1>4, <1>5, <1>6, <1>7, <1>8, <1>9, <1>10, RowsStep

(* The seats of a room that is not created stay vacant.                    *)
LEMMA VacantStays ==
    ASSUME Typed, Fresh, Next, NEW r \in Rooms, room'[r] = "unused"
    PROVE  seat'[r] = Vacant
<1>1. /\ room \in [Rooms -> {"unused", "waiting", "active", "finished", "cancelled"}]
      /\ seat \in [Rooms -> [Seats -> Occupants]]
      /\ \A p \in Procs : Carries(p, req[p])
  BY DEF Typed, TypeOK
<1>2. room[r] = "unused" /\ seat[r] = Vacant
  BY UsedForGood DEF Fresh
<1>3. CASE UNCHANGED seat
  BY <1>2, <1>3
<1>4. ASSUME NEW p, NEW q \in Rooms, CreateRoom(p, q) PROVE seat'[r] = seat[r]
  <2>1. /\ seat' = [seat EXCEPT ![q] = [seat[q] EXCEPT ![1] = req[p].user]]
        /\ room' = [room EXCEPT ![q] = "waiting"]
    BY <1>4 DEF CreateRoom
  <2> QED BY <1>1, <2>1
<1>5. ASSUME NEW p, JoinRoom(p) PROVE seat'[r] = seat[r]
  <2> DEFINE q == req[p].room
  <2>1. \/ UNCHANGED seat
        \/ /\ room[q] = "waiting"
           /\ \E n \in Seats : seat' = [seat EXCEPT ![q] = [seat[q] EXCEPT ![n] = req[p].user]]
    BY <1>5 DEF JoinRoom
  <2> QED BY <1>1, <1>2, <2>1
<1>6. ASSUME NEW u \in Users, NEW q, seat' = [seat EXCEPT ![q] = Without(u, q)] PROVE seat'[r] = Vacant
  <2>1. CASE q = r
    <3>1. Without(u, r) = Vacant
      BY <1>2, LobbyConstants DEF Without, Vacant
    <3> QED BY <1>1, <1>6, <2>1, <3>1
  <2>2. CASE q # r
    BY <1>1, <1>2, <1>6, <2>2
  <2> QED BY <2>1, <2>2
<1>7. ASSUME NEW p \in Procs, HostLeaves(p) PROVE seat'[r] = Vacant
  <2>1. req[p].user \in Users
    BY <1>1, <1>7 DEF HostLeaves, At, Carries
  <2> QED BY <1>6, <1>7, <2>1 DEF HostLeaves
<1>8. ASSUME NEW p, NEW u, NEW q, StartRoom(p, u, q) PROVE seat'[r] = seat[r]
  BY <1>1, <1>2, <1>8 DEF StartRoom
<1>9. ASSUME NEW p, FinalizeGame(p) \/ CancelStartedGame(p) PROVE UNCHANGED seat
  BY <1>9 DEF FinalizeGame, CancelStartedGame
<1>10. ASSUME ExpireWaitingRooms \/ \E q \in Rooms : ExpireWaitingRoom(q) PROVE UNCHANGED seat
  BY <1>10 DEF ExpireWaitingRooms, ExpireWaitingRoom
<1>11. UNCHANGED rows => UNCHANGED seat
  BY DEF rows
<1>12. ASSUME NEW u \in Users, NEW q \in Rooms, Vacates(u, q) PROVE seat'[r] = Vacant
  BY <1>6, <1>12 DEF Vacates
<1> QED BY <1>2, <1>3, <1>4, <1>5, <1>7, <1>8, <1>9, <1>10, <1>11, <1>12, RowsStep

(* A game is taken up only when its room exists.                           *)
LEMMA GamesTakenUp ==
    ASSUME Typed, RoomAndGameAgree, Fresh, GamesExist, Next, NEW p \in Procs, req'[p].game \in Rooms
    PROVE  room[req'[p].game] # "unused"
<1>1. /\ req \in [Procs -> Reqs] /\ \A q \in Procs : Carries(q, req[q])
      /\ seat \in [Rooms -> [Seats -> Occupants]]
      /\ None \notin Rooms /\ None \notin Users
  BY LobbyConstants DEF Typed, TypeOK
<1> DEFINE Good(q) == req'[q].game \in Rooms => room[req'[q].game] # "unused"
<1>2. ASSUME NEW q \in Procs, req'[q] = req[q] PROVE Good(q)
  BY <1>2 DEF GamesExist
<1>3. ASSUME NEW q \in Procs, End(q) PROVE Good(q)
  BY <1>1, <1>3, EndFacts DEF Idle
<1>4. ASSUME NEW q \in Procs, NEW where \in PCs, Goto(q, where) PROVE Good(q)
  BY <1>1, <1>4, GotoFacts DEF GamesExist
<1>5. ASSUME NEW q \in Procs, NEW where \in PCs, NEW op \in Ops, NEW u \in Users \cup {None},
             NEW r \in Rooms \cup {None}, NEW g \in Rooms \cup {None}, Begin(q, where, op, u, r, g),
             g \in Rooms => room[g] # "unused"
      PROVE  Good(q)
  BY <1>1, <1>5, BeginFacts
<1>6. \A r \in Rooms : /\ game[r] = "active" => room[r] # "unused"
                       /\ engine[r].phase = "playing" => room[r] # "unused"
                       /\ r \in expiryJobs => room[r] # "unused"
  BY DEF RoomAndGameAgree, Fresh
<1> HIDE DEF Good
<1> USE DEF PCs, Ops
<1>7. ASSUME NEW q \in Requests, NEW u \in Users, Request(q, u) PROVE Good(q)
  <2>1. q \in Procs
    BY WorkerIsProc
  <2>2. ASSUME NEW op \in {"create", "join"}, NEW r \in Rooms \cup {None}, Enter(q, u, op, r) PROVE Good(q)
    <3>1. CASE Begin(q, "lock", op, u, r, None)
      BY <1>1, <1>5, <2>1, <3>1
    <3>2. ASSUME NEW g \in OpenRooms(u), Begin(q, ExpiryStep(g), op, u, r, g) PROVE Good(q)
      <4>1. g \in Rooms /\ room[g] # "unused"
        BY DEF OpenRooms, Open
      <4> QED BY <1>5, <2>1, <3>2, <4>1 DEF ExpiryStep
    <3> QED BY <2>2, <3>1, <3>2 DEF Enter
  <2>3. ASSUME NEW r \in Rooms, LeaveRoom(q, u, r) PROVE Good(q)
    <3>1. room[r] # "unused"
      BY <1>1, <2>3 DEF LeaveRoom, Joined, Fresh, Vacant
    <3>2. Begin(q, "hostLeave", "leave", u, r, r) \/ Begin(q, "leave", "leave", u, r, r)
      BY <2>3 DEF LeaveRoom
    <3>3. CASE Begin(q, "hostLeave", "leave", u, r, r)
      BY <1>5, <2>1, <3>1, <3>3
    <3>4. CASE Begin(q, "leave", "leave", u, r, r)
      BY <1>5, <2>1, <3>1, <3>4
    <3> QED BY <3>2, <3>3, <3>4
  <2>4. ASSUME NEW r \in Rooms, SpectateRoom(q, u, r) PROVE Good(q)
    <3>1. room[r] # "unused"
      BY <2>4 DEF SpectateRoom, Open
    <3>2. \/ Begin(q, "repair", "spectate", u, r, r) \/ Begin(q, "byTime", "spectate", u, r, r)
          \/ Begin(q, "spectate", "spectate", u, r, None)
      BY <2>4 DEF SpectateRoom, ExpiryStep
    <3> QED BY <1>1, <1>5, <2>1, <3>1, <3>2
  <2>5. ASSUME NEW r \in Rooms, StartRoom(q, u, r) PROVE Good(q)
    BY <1>5, <2>1, <2>5 DEF StartRoom
  <2> QED BY <1>7, <2>2, <2>3, <2>4, <2>5 DEF Request
<1>8. ASSUME NEW q \in Procs, Step(q) PROVE Good(q)
  <2>1. CASE LockMembership(q) \/ LastHuman(q) \/ ForfeitRead(q) \/ SetupTurn(q)
    BY <1>3, <1>4, <2>1 DEF LockMembership, LastHuman, ForfeitRead, SetupTurn
  <2>2. CASE ScheduleWaitingRoomExpiry(q) \/ JoinRoom(q) \/ HostLeaves(q) \/ FreeSeat(q)
             \/ CreateSpectator(q) \/ SetupExpiry(q) \/ CancelStartedGame(q)
    BY <1>3, <2>2 DEF ScheduleWaitingRoomExpiry, JoinRoom, HostLeaves, FreeSeat, CreateSpectator,
                      SetupExpiry, CancelStartedGame
  <2>3. CASE LeaveTransaction(q)
    BY <1>3, <1>4, <2>3 DEF LeaveTransaction
  <2>4. CASE DeclareBankruptcy(q)
    <3>1. End(q) \/ Goto(q, "finalize") \/ Goto(q, "free")
      BY <2>4 DEF DeclareBankruptcy
    <3> QED BY <1>3, <1>4, <3>1
  <2>5. CASE AbandonGame(q) \/ FinishByTime(q)
    BY <1>3, <1>4, <2>5 DEF AbandonGame, FinishByTime
  <2>6. CASE FinalizeGame(q)
    BY <1>3, <1>4, <2>6 DEF FinalizeGame, Resume
  <2>7. ASSUME NEW r \in Rooms, CreateRoom(q, r) PROVE Good(q)
    <3> DEFINE l == [[req[q] EXCEPT !.pc = "schedule"] EXCEPT !.room = r]
    <3>1. req' = [req EXCEPT ![q] = l]
      BY <2>7 DEF CreateRoom
    <3>2. l.game = req[q].game
      BY <1>1 DEF Reqs
    <3> HIDE DEF l
    <3> QED BY <1>1, <3>1, <3>2 DEF Good, GamesExist
  <2> QED BY <1>8, <2>1, <2>2, <2>3, <2>4, <2>5, <2>6, <2>7 DEF Step
<1>9. ASSUME NEW q \in Procs, Fault(q) PROVE Good(q)
  BY <1>3, <1>4, <1>9 DEF Fault, Abort, FinalizeFails, SetupFails
<1>10. ASSUME WorkerAct PROVE Good(p)
  <2>1. PICK r \in Rooms : (\E n \in Seats : GameCommand(r, n)) \/ RunExpiryJob(r) \/ Scan(r)
    BY <1>10 DEF WorkerAct
  <2>2. CASE p # Worker
    BY <1>2, <1>10, <2>2, WorkerLocals
  <2>3. CASE UNCHANGED req
    BY <1>2, <2>3
  <2>4. ASSUME p = Worker, NEW where \in PCs, NEW op \in Ops, Begin(Worker, where, op, None, None, r),
               room[r] # "unused"
        PROVE  Good(p)
    <3>1. None \in Users \cup {None} /\ None \in Rooms \cup {None} /\ r \in Rooms \cup {None}
      OBVIOUS
    <3> QED BY <1>5, <2>4, <3>1
  <2>5. ASSUME NEW n \in Seats, GameCommand(r, n), p = Worker PROVE Good(p)
    <3>1. /\ room[r] # "unused"
          /\ Begin(Worker, "finalize", "worker", None, None, r) \/ UNCHANGED req
      BY <1>6, <2>5 DEF GameCommand
    <3> QED BY <2>3, <2>4, <2>5, <3>1
  <2>6. CASE RunExpiryJob(r) /\ p = Worker
    <3>1. room[r] # "unused"
      BY <1>6, <2>6 DEF RunExpiryJob
    <3> QED BY <2>4, <2>6, <3>1 DEF RunExpiryJob, ExpiryStep
  <2>7. CASE Scan(r) /\ p = Worker
    <3>1. /\ room[r] # "unused"
          /\ \/ Begin(Worker, "finalize", "worker", None, None, r)
             \/ Begin(Worker, "abandon", "worker", None, None, r)
             \/ UNCHANGED req
      BY <1>6, <2>7 DEF Scan, WatchdogFinalizes, WatchdogAbandons, WatchdogQueues
    <3> QED BY <2>3, <2>4, <2>7, <3>1
  <2> QED BY <2>1, <2>2, <2>5, <2>6, <2>7
<1>11. CASE Env
  <2>1. UNCHANGED req
    BY <1>11 DEF Env, EndSpectatorSession, ExpireWaitingRoom, Age, TimeUp, ExpireWaitingRooms
  <2> QED BY <1>2, <2>1 DEF Good
<1>12. ASSUME NEW q \in Procs, Act(q) PROVE Good(p)
  <2>1. CASE q = p
    BY <1>7, <1>8, <1>9, <1>12, <2>1 DEF Act
  <2>2. CASE q # p
    BY <1>2, <1>12, <2>2, ActLocals
  <2> QED BY <2>1, <2>2
<1> QED BY <1>10, <1>11, <1>12, NextActs DEF Good

(* Expiry jobs and running engines belong to rooms that exist.             *)
LEMMA FreshStays ==
    ASSUME Typed, RoomAndGameAgree, Fresh, GamesExist, Next
    PROVE  Fresh'
<1>1. /\ room \in [Rooms -> {"unused", "waiting", "active", "finished", "cancelled"}]
      /\ \A q \in Procs : Carries(q, req[q])
      /\ engine \in [Rooms -> Engines]
  BY DEF Typed, TypeOK
<1>2. expiryJobs' \subseteq {r \in Rooms : room[r] # "unused"}
  <2> DEFINE Good == expiryJobs' \subseteq {r \in Rooms : room[r] # "unused"}
  <2>1. expiryJobs \subseteq {r \in Rooms : room[r] # "unused"}
    BY DEF Typed, TypeOK, Fresh
  <2>2. expiryJobs' \subseteq expiryJobs => Good
    BY <2>1
  <2>3. ASSUME NEW q \in Procs, SetupExpiry(q) PROVE Good
    <3>1. req[q].game \in Rooms
      BY <1>1, <2>3 DEF SetupExpiry, At, Carries, Starting
    <3> QED BY <2>1, <2>3, <3>1 DEF SetupExpiry, GamesExist
  <2>4. ASSUME NEW r \in Rooms, WatchdogQueues(r) PROVE Good
    BY <1>1, <2>1, <2>4 DEF WatchdogQueues, RoomAndGameAgree
  <2> HIDE DEF Good
  <2> USE DEF queues
  <2>5. ASSUME NEW q \in Requests, NEW u \in Users, Request(q, u) PROVE UNCHANGED expiryJobs
    BY <2>5 DEF Request, Enter, LeaveRoom, SpectateRoom, StartRoom
  <2>6. ASSUME NEW q \in Procs, Step(q), ~SetupExpiry(q) PROVE UNCHANGED expiryJobs
    <3>1. CASE LockMembership(q) \/ ScheduleWaitingRoomExpiry(q) \/ JoinRoom(q) \/ HostLeaves(q)
               \/ LeaveTransaction(q) \/ LastHuman(q) \/ ForfeitRead(q) \/ FreeSeat(q)
               \/ \E r \in Rooms : CreateRoom(q, r)
      BY <3>1 DEF LockMembership, ScheduleWaitingRoomExpiry, JoinRoom, HostLeaves, LeaveTransaction,
                  LastHuman, ForfeitRead, FreeSeat, CreateRoom
    <3>2. CASE DeclareBankruptcy(q) \/ AbandonGame(q) \/ FinishByTime(q) \/ FinalizeGame(q)
               \/ CreateSpectator(q) \/ SetupTurn(q) \/ CancelStartedGame(q)
      BY <3>2 DEF DeclareBankruptcy, AbandonGame, FinishByTime, FinalizeGame, CreateSpectator,
                  SetupTurn, CancelStartedGame
    <3> QED BY <2>6, <3>1, <3>2 DEF Step
  <2>7. ASSUME NEW q \in Procs, Fault(q) PROVE UNCHANGED expiryJobs
    BY <2>7 DEF Fault, Abort, FinalizeFails, SetupFails
  <2>8. ASSUME NEW r \in Rooms, NEW n \in Seats, GameCommand(r, n) PROVE UNCHANGED expiryJobs
    BY <2>8 DEF GameCommand
  <2>9. ASSUME NEW r \in Rooms, RunExpiryJob(r) \/ WatchdogFinalizes(r) \/ WatchdogAbandons(r)
                                \/ Age(r) \/ TimeUp(r) \/ ExpireWaitingRoom(r)
        PROVE  expiryJobs' \subseteq expiryJobs
    BY <2>9 DEF RunExpiryJob, WatchdogFinalizes, WatchdogAbandons, Age, TimeUp, ExpireWaitingRoom
  <2>10. ASSUME NEW u \in Users, NEW r \in Rooms, EndSpectatorSession(u, r) PROVE UNCHANGED expiryJobs
    BY <2>10 DEF EndSpectatorSession
  <2>11. ExpireWaitingRooms => UNCHANGED expiryJobs
    BY DEF ExpireWaitingRooms
  <2>12. UNCHANGED expiryJobs => Good
    BY <2>2
  <2>13. ASSUME NEW q \in Procs, Step(q) PROVE Good
    BY <2>3, <2>6, <2>12, <2>13
  <2> QED BY <2>2, <2>4, <2>5, <2>7, <2>8, <2>9, <2>10, <2>11, <2>12, <2>13 DEF Next, Scan, Good
<1>3. ASSUME NEW r \in Rooms, room'[r] = "unused" PROVE engine'[r].phase = "none"
  <2>1. room[r] = "unused" /\ engine[r].phase = "none"
    BY <1>3, UsedForGood DEF Fresh
  <2>2. ASSUME NEW p, NEW u, NEW q \in Rooms, StartRoom(p, u, q) PROVE engine'[r] = engine[r]
    <3>1. room[q] = "waiting" /\ \E e : engine' = [engine EXCEPT ![q] = e]
      BY <2>2 DEF StartRoom
    <3> QED BY <1>1, <2>1, <3>1
  <2>3. ASSUME NEW g \in Rooms, engine[g].phase = "playing", \A q \in Rooms \ {g} : engine'[q] = engine[q]
        PROVE  engine'[r] = engine[r]
    BY <2>1, <2>3
  <2> QED BY <2>1, <2>2, <2>3, EngineStep
<1>4. ASSUME NEW r \in Rooms, room'[r] = "unused" PROVE r \notin expiryJobs'
  BY <1>2, <1>4, UsedForGood
<1> QED BY <1>3, <1>4, VacantStays DEF Fresh

(* Only createRoom and joinRoom seat a user, at a point where the user     *)
(* holds the lock; the seats other users have in open rooms only go away.  *)
Admits(p) == At(p, "insert") /\ (JoinRoom(p) \/ \E r \in Rooms : CreateRoom(p, r))

LEMMA MembershipStep ==
    ASSUME Typed, Fresh, Next
    PROVE  \/ \A u \in Users : OpenRooms(u)' \subseteq OpenRooms(u)
           \/ \E p \in Requests, w \in Users, r \in Rooms :
                 /\ Admits(p) /\ w = req[p].user
                 /\ OpenRooms(w)' \subseteq OpenRooms(w) \cup {r}
                 /\ \A u \in Users \ {w} : OpenRooms(u)' \subseteq OpenRooms(u)
<1>1. /\ room \in [Rooms -> {"unused", "waiting", "active", "finished", "cancelled"}]
      /\ seat \in [Rooms -> [Seats -> Occupants]]
      /\ None \notin Users /\ Bot \notin Users
      /\ \A p \in Procs : Carries(p, req[p])
  BY LobbyConstants DEF Typed, TypeOK
<1> DEFINE Shrinks == \A u \in Users : OpenRooms(u)' \subseteq OpenRooms(u)
           Grows == \E p \in Requests, w \in Users, r \in Rooms :
                 /\ Admits(p) /\ w = req[p].user
                 /\ OpenRooms(w)' \subseteq OpenRooms(w) \cup {r}
                 /\ \A u \in Users \ {w} : OpenRooms(u)' \subseteq OpenRooms(u)
<1>2. ASSUME \A r \in Rooms : room'[r] \in Open => room[r] \in Open,
             \A r \in Rooms : \A n \in Seats : seat'[r][n] \in {None, Bot, seat[r][n]}
      PROVE  Shrinks
  BY <1>1, <1>2 DEF OpenRooms, Joined
<1>3. ASSUME NEW p \in Requests, Admits(p), NEW w \in Users, w = req[p].user,
             NEW r \in Rooms, NEW n \in Seats,
             \A q \in Rooms \ {r} : room'[q] = room[q] /\ seat'[q] = seat[q],
             room'[r] \in Open,
             room[r] \in Open \/ \A m \in Seats : seat[r][m] = None,
             \A m \in Seats \ {n} : seat'[r][m] = seat[r][m], seat'[r][n] = w
      PROVE  Grows
  <2>1. OpenRooms(w)' \subseteq OpenRooms(w) \cup {r}
    BY <1>1, <1>3 DEF OpenRooms, Joined
  <2>2. \A u \in Users \ {w} : OpenRooms(u)' \subseteq OpenRooms(u)
    BY <1>1, <1>3 DEF OpenRooms, Joined
  <2> QED BY <1>3, <2>1, <2>2
<1> HIDE DEF Shrinks, Grows
<1>4. ASSUME UNCHANGED rows PROVE Shrinks
  BY <1>2, <1>4 DEF rows
<1>13. \A p \in Requests : At(p, "insert") => req[p].user \in Users
  BY <1>1, WorkerIsProc DEF At, Carries, Members
<1>5. ASSUME NEW p \in Requests, NEW r \in Rooms, CreateRoom(p, r) PROVE Grows
  <2>1. /\ seat' = [seat EXCEPT ![r] = [seat[r] EXCEPT ![1] = req[p].user]]
        /\ room' = [room EXCEPT ![r] = "waiting"]
        /\ room[r] = "unused"
        /\ Admits(p)
    BY <1>5 DEF CreateRoom, Admits
  <2>2. \A m \in Seats : seat[r][m] = None
    BY <2>1 DEF Fresh, Vacant
  <2>3. 1 \in Seats
    BY LobbyConstants DEF Seats
  <2>4. /\ \A q \in Rooms \ {r} : room'[q] = room[q] /\ seat'[q] = seat[q]
        /\ room'[r] \in Open
        /\ \A m \in Seats \ {1} : seat'[r][m] = seat[r][m]
        /\ seat'[r][1] = req[p].user
    BY <1>1, <2>1, <2>3 DEF Open
  <2>5. req[p].user \in Users
    BY <1>5, <1>13 DEF CreateRoom
  <2> QED BY <1>3, <2>1, <2>2, <2>3, <2>4, <2>5
<1>6. ASSUME NEW p \in Requests, JoinRoom(p) PROVE Shrinks \/ Grows
  <2> DEFINE r == req[p].room
  <2>1. r \in Rooms
    BY <1>1, <1>6, WorkerIsProc DEF JoinRoom, Carries
  <2>2. CASE UNCHANGED seat
    BY <1>2, <1>6, <2>2 DEF JoinRoom
  <2>3. ASSUME NEW n \in Seats, room[r] = "waiting", FirstFree(n, r),
               seat' = [seat EXCEPT ![r] = [seat[r] EXCEPT ![n] = req[p].user]]
        PROVE  Grows
    <3>1. Admits(p) /\ UNCHANGED room /\ req[p].user \in Users
      BY <1>6, <1>13 DEF JoinRoom, Admits
    <3> QED BY <1>1, <1>3, <2>1, <2>3, <3>1 DEF Open
  <2>4. \/ UNCHANGED seat
        \/ /\ room[r] = "waiting"
           /\ \E n \in Seats : /\ FirstFree(n, r)
                               /\ seat' = [seat EXCEPT ![r] = [seat[r] EXCEPT ![n] = req[p].user]]
    BY <1>6 DEF JoinRoom
  <2> QED BY <2>2, <2>3, <2>4
<1>7. ASSUME NEW u, NEW r \in Rooms, seat' = [seat EXCEPT ![r] = Without(u, r)],
             \A q \in Rooms : room'[q] \in Open => room[q] \in Open
      PROVE  Shrinks
  BY <1>1, <1>2, <1>7 DEF Without
<1>8. ASSUME NEW p \in Procs, HostLeaves(p) PROVE Shrinks
  <2>1. req[p].room \in Rooms
    BY <1>1, <1>8 DEF HostLeaves, At, Carries
  <2>2. \A q \in Rooms : room'[q] \in Open => room[q] \in Open
    BY <1>1, <1>8 DEF HostLeaves, Open
  <2> QED BY <1>7, <1>8, <2>1, <2>2 DEF HostLeaves
<1>9. ASSUME NEW u \in Users, NEW r \in Rooms, Vacates(u, r) PROVE Shrinks
  BY <1>7, <1>9 DEF Vacates
<1>10. ASSUME NEW p \in Requests, NEW u \in Users, NEW r \in Rooms, StartRoom(p, u, r) PROVE Shrinks
  <2>1. /\ room[r] = "waiting" /\ room' = [room EXCEPT ![r] = "active"]
        /\ seat' = [seat EXCEPT ![r] = Table(r)]
    BY <1>10 DEF StartRoom
  <2> QED BY <1>1, <1>2, <2>1, TableType DEF Open
<1>11. ASSUME NEW p \in Procs, FinalizeGame(p) \/ CancelStartedGame(p) PROVE Shrinks
  <2>1. UNCHANGED seat /\ \A q \in Rooms : room'[q] \in Open => room[q] \in Open
    BY <1>1, <1>11 DEF FinalizeGame, CancelStartedGame, Open
  <2> QED BY <1>2, <2>1
<1>12. ASSUME ExpireWaitingRooms \/ \E r \in Rooms : ExpireWaitingRoom(r) PROVE Shrinks
  <2>1. UNCHANGED seat /\ \A q \in Rooms : room'[q] \in Open => room[q] \in Open
    BY <1>1, <1>12 DEF ExpireWaitingRooms, ExpireWaitingRoom, Cancel, Open
  <2> QED BY <1>2, <2>1
<1> QED BY <1>4, <1>5, <1>6, <1>8, <1>9, <1>10, <1>11, <1>12, RowsStep DEF Shrinks, Grows

(* A membership lock is taken only when free, and released by its holder.  *)
LEMMA LockStep ==
    ASSUME Typed, Inserting, Next
    PROVE  \A u \in Users : \A q \in Procs : lock[u] = q /\ At(q, "insert")
              /\ req'[q] = req[q] => lock'[u] = q
<1>1. /\ lock \in [Users -> Requests \cup {None}] /\ None \notin Requests /\ None # Worker
      /\ req \in [Procs -> Reqs] /\ \A p \in Procs : Carries(p, req[p])
  BY LobbyConstants DEF Typed, TypeOK
<1> DEFINE Kept(u, q) == lock[u] = q /\ At(q, "insert") /\ req'[q] = req[q] => lock'[u] = q
<1> SUFFICES ASSUME NEW u \in Users, NEW q \in Procs PROVE Kept(u, q)
  OBVIOUS
<1>2. CASE UNCHANGED lock
  BY <1>2
<1>3. ASSUME NEW p \in Procs, LockMembership(p) PROVE Kept(u, q)
  <2>1. q # None
    BY <1>1 DEF Procs
  <2>2. \/ UNCHANGED lock
        \/ lock[req[p].user] = None /\ lock' = [lock EXCEPT ![req[p].user] = p]
    BY <1>3 DEF LockMembership
  <2> QED BY <1>1, <2>1, <2>2
<1>4. ASSUME NEW p \in Procs, JoinRoom(p) \/ \E r \in Rooms : CreateRoom(p, r) PROVE Kept(u, q)
  <2>1. At(p, "insert") /\ lock' = [lock EXCEPT ![req[p].user] = None]
    BY <1>4 DEF JoinRoom, CreateRoom, Unlock
  <2>2. lock[req[p].user] = p
    BY <2>1 DEF Inserting
  <2>3. req'[p].pc # "insert"
    <3>1. CASE JoinRoom(p)
      BY <1>1, <3>1, EndFacts DEF JoinRoom, Idle
    <3>2. ASSUME NEW r \in Rooms, CreateRoom(p, r) PROVE req'[p].pc # "insert"
      <4>1. req'[p] = [[req[p] EXCEPT !.pc = "schedule"] EXCEPT !.room = r]
        BY <1>1, <3>2 DEF CreateRoom
      <4> QED BY <1>1, <4>1 DEF Reqs
    <3> QED BY <1>4, <3>1, <3>2
  <2> QED BY <1>1, <2>1, <2>2, <2>3 DEF At
<1>5. ASSUME NEW p \in Procs, Abort(p) PROVE Kept(u, q)
  <2>1. req'[p].pc # "insert" /\ lock' = [v \in Users |-> IF lock[v] = p THEN None ELSE lock[v]]
    BY <1>1, <1>5, EndFacts DEF Abort, Idle
  <2> QED BY <2>1 DEF At
<1> HIDE DEF Kept
<1>6. ASSUME NEW p \in Requests, NEW v \in Users, Request(p, v) PROVE UNCHANGED lock
  BY <1>6 DEF Request, Enter, LeaveRoom, SpectateRoom, StartRoom
<1>7. ASSUME NEW p \in Procs, Step(p) PROVE Kept(u, q)
  <2>1. CASE ScheduleWaitingRoomExpiry(p) \/ HostLeaves(p) \/ LeaveTransaction(p) \/ LastHuman(p)
             \/ ForfeitRead(p) \/ FreeSeat(p) \/ DeclareBankruptcy(p) \/ AbandonGame(p)
    BY <1>2, <2>1 DEF ScheduleWaitingRoomExpiry, HostLeaves, LeaveTransaction, LastHuman, ForfeitRead,
                      FreeSeat, DeclareBankruptcy, AbandonGame
  <2>2. CASE FinishByTime(p) \/ FinalizeGame(p) \/ CreateSpectator(p) \/ SetupTurn(p) \/ SetupExpiry(p)
             \/ CancelStartedGame(p)
    BY <1>2, <2>2 DEF FinishByTime, FinalizeGame, CreateSpectator, SetupTurn, SetupExpiry, CancelStartedGame
  <2> QED BY <1>3, <1>4, <1>7, <2>1, <2>2 DEF Step
<1>8. ASSUME NEW p \in Procs, FinalizeFails(p) \/ SetupFails(p) PROVE UNCHANGED lock
  BY <1>8 DEF FinalizeFails, SetupFails
<1>9. ASSUME NEW r \in Rooms, NEW n \in Seats, GameCommand(r, n) PROVE UNCHANGED lock
  BY <1>9 DEF GameCommand
<1>10. ASSUME NEW r \in Rooms, RunExpiryJob(r) \/ Scan(r) \/ Age(r) \/ TimeUp(r) \/ ExpireWaitingRoom(r)
       PROVE  UNCHANGED lock
  BY <1>10 DEF RunExpiryJob, Scan, WatchdogFinalizes, WatchdogAbandons, WatchdogQueues, Age, TimeUp,
               ExpireWaitingRoom
<1>11. ASSUME NEW v \in Users, NEW r \in Rooms, EndSpectatorSession(v, r) PROVE UNCHANGED lock
  BY <1>11 DEF EndSpectatorSession
<1>12. ExpireWaitingRooms => UNCHANGED lock
  BY DEF ExpireWaitingRooms
<1> QED BY <1>2, <1>5, <1>6, <1>7, <1>8, <1>9, <1>10, <1>11, <1>12 DEF Next, Fault

(* A process comes to the insertion by taking the lock, in no other way.   *)
LEMMA InsertStep ==
    ASSUME Typed, Next, NEW p \in Procs, req'[p].pc = "insert"
    PROVE  \/ req'[p] = req[p]
           \/ /\ LockMembership(p) /\ OpenRooms(req[p].user) = {}
              /\ req'[p].user = req[p].user /\ lock'[req[p].user] = p
<1>1. /\ lock \in [Users -> Requests \cup {None}]
      /\ req \in [Procs -> Reqs] /\ \A q \in Procs : Carries(q, req[q])
  BY DEF Typed, TypeOK
<1> DEFINE Good == \/ req'[p].pc # "insert"
                   \/ req'[p] = req[p]
                   \/ /\ LockMembership(p) /\ OpenRooms(req[p].user) = {}
                      /\ req'[p].user = req[p].user /\ lock'[req[p].user] = p
<1> SUFFICES Good
  OBVIOUS
<1>2. ASSUME End(p) PROVE Good
  BY <1>1, <1>2, EndFacts DEF Idle
<1>3. ASSUME NEW where \in PCs \ {"insert"}, Goto(p, where) PROVE Good
  BY <1>1, <1>3, GotoFacts
<1>4. ASSUME NEW where \in PCs \ {"insert"}, NEW op, NEW u, NEW r, NEW g, Begin(p, where, op, u, r, g)
      PROVE  Good
  BY <1>1, <1>4 DEF Begin
<1>5. CASE LockMembership(p)
  <2>1. CASE End(p)
    BY <1>2, <2>1
  <2>2. CASE /\ OpenRooms(req[p].user) = {} /\ Goto(p, "insert")
             /\ lock' = [lock EXCEPT ![req[p].user] = p]
    <3>1. req[p].user \in Users
      BY <1>1, <1>5 DEF LockMembership, At, Carries, Members
    <3>2. req'[p].user = req[p].user
      BY <1>1, <2>2, GotoFacts DEF PCs
    <3> QED BY <1>1, <1>5, <2>2, <3>1, <3>2
  <2> QED BY <1>5, <2>1, <2>2 DEF LockMembership
<1>6. ASSUME NEW r \in Rooms, CreateRoom(p, r) PROVE Good
  <2>1. req'[p] = [[req[p] EXCEPT !.pc = "schedule"] EXCEPT !.room = r]
    BY <1>1, <1>6 DEF CreateRoom
  <2> QED BY <1>1, <2>1 DEF Reqs
<1>7. UNCHANGED req => Good
  OBVIOUS
<1> HIDE DEF Good
<1> USE DEF PCs
<1>8. ASSUME NEW u \in Users, Request(p, u) PROVE Good
  <2>1. ASSUME NEW op, NEW r, Enter(p, u, op, r) PROVE Good
    BY <1>4, <2>1 DEF Enter, ExpiryStep
  <2>2. ASSUME NEW r \in Rooms, LeaveRoom(p, u, r) PROVE Good
    <3>1. Begin(p, "hostLeave", "leave", u, r, r) \/ Begin(p, "leave", "leave", u, r, r)
      BY <2>2 DEF LeaveRoom
    <3> QED BY <1>4, <3>1
  <2>3. ASSUME NEW r \in Rooms, SpectateRoom(p, u, r) \/ StartRoom(p, u, r) PROVE Good
    BY <1>4, <2>3 DEF SpectateRoom, StartRoom, ExpiryStep
  <2> QED BY <1>8, <2>1, <2>2, <2>3 DEF Request
<1>9. CASE LastHuman(p) \/ ForfeitRead(p) \/ SetupTurn(p) \/ AbandonGame(p) \/ FinishByTime(p)
           \/ LeaveTransaction(p) \/ FinalizeFails(p) \/ SetupFails(p)
  BY <1>2, <1>3, <1>9 DEF LastHuman, ForfeitRead, SetupTurn, AbandonGame, FinishByTime, LeaveTransaction,
                          FinalizeFails, SetupFails
<1>10. CASE ScheduleWaitingRoomExpiry(p) \/ JoinRoom(p) \/ HostLeaves(p) \/ FreeSeat(p)
            \/ CreateSpectator(p) \/ SetupExpiry(p) \/ CancelStartedGame(p) \/ Abort(p)
  BY <1>2, <1>10 DEF ScheduleWaitingRoomExpiry, JoinRoom, HostLeaves, FreeSeat, CreateSpectator,
                     SetupExpiry, CancelStartedGame, Abort
<1>11. CASE DeclareBankruptcy(p)
  <2>1. End(p) \/ Goto(p, "finalize") \/ Goto(p, "free")
    BY <1>11 DEF DeclareBankruptcy
  <2> QED BY <1>2, <1>3, <2>1
<1>12. CASE FinalizeGame(p)
  BY <1>2, <1>3, <1>12 DEF FinalizeGame, Resume
<1>13. ASSUME NEW q \in Procs, Act(q) PROVE Good
  <2>1. CASE q = p
    BY <1>5, <1>6, <1>8, <1>9, <1>10, <1>11, <1>12, <1>13, <2>1 DEF Act, Step, Fault
  <2>2. CASE q # p
    BY <1>13, <2>2, ActLocals DEF Good
  <2> QED BY <2>1, <2>2
<1>14. CASE WorkerAct
  BY <1>14, WorkerLocals DEF Good, Closing
<1>15. CASE Env
  BY <1>7, <1>15 DEF Env, EndSpectatorSession, ExpireWaitingRoom, Age, TimeUp, ExpireWaitingRooms
<1> QED BY <1>13, <1>14, <1>15, NextActs

LEMMA NextLobby == Typed /\ LobbyInv /\ [Next]_vars => LobbyInv'
<1> SUFFICES ASSUME Typed, LobbyInv, [Next]_vars PROVE LobbyInv'
  OBVIOUS
<1>1. CASE UNCHANGED vars
  BY <1>1 DEF vars, rows, queues, LobbyInv, RoomAndGameAgree, Fresh, GamesExist, Inserting,
              UserInOneRoom, At, OpenRooms, Joined
<1>2. CASE Next
  <2>1. RoomAndGameAgree /\ Fresh /\ GamesExist /\ Inserting /\ UserInOneRoom
    BY DEF LobbyInv
  <2>2. RoomAndGameAgree'
    BY <2>1, NextAgrees
  <2>3. Fresh'
    BY <1>2, <2>1, FreshStays
  <2>4. GamesExist'
    BY <1>2, <2>1, GamesTakenUp, UsedForGood DEF GamesExist
  <2>5. \A p \in Procs : Carries(p, req[p]) /\ (At(p, "insert") => req[p].user \in Users)
    BY DEF Typed, Carries, At, Members
  <2>6. Inserting'
    <3> SUFFICES ASSUME NEW p \in Procs, req'[p].pc = "insert", NEW u, u = req'[p].user
                 PROVE  lock'[u] = p /\ OpenRooms(u)' = {}
      BY DEF Inserting, At, OpenRooms, Joined
    <3>1. CASE req'[p] = req[p]
      <4>1. At(p, "insert") /\ u \in Users /\ u = req[p].user /\ lock[u] = p /\ OpenRooms(u) = {}
        BY <2>1, <2>5, <3>1 DEF At, Inserting
      <4>2. lock'[u] = p
        BY <1>2, <2>1, <3>1, <4>1, LockStep
      <4>3. ASSUME NEW q \in Requests, Admits(q) PROVE req[q].user # u
        <5>1. q \in Procs /\ At(q, "insert") /\ lock[req[q].user] = q
          BY <2>1, <4>3, WorkerIsProc DEF Admits, Inserting
        <5>2. CASE q = p
          <6>1. lock' = [lock EXCEPT ![u] = None] /\ lock \in [Users -> Requests \cup {None}]
            BY <4>1, <4>3, <5>2 DEF Admits, JoinRoom, CreateRoom, Unlock, Typed, TypeOK
          <6> QED BY <4>1, <4>2, <4>3, <5>2, <6>1, LobbyConstants
        <5> QED BY <4>1, <5>1, <5>2
      <4>4. OpenRooms(u)' \subseteq OpenRooms(u)
        BY <1>2, <2>1, <4>1, <4>3, MembershipStep
      <4> QED BY <3>1, <4>1, <4>2, <4>4
    <3>2. CASE /\ LockMembership(p) /\ OpenRooms(req[p].user) = {}
               /\ req'[p].user = req[p].user /\ lock'[req[p].user] = p
      <4>2. UNCHANGED <<room, seat>>
        BY <3>2 DEF LockMembership, rows
      <4> QED BY <3>2, <4>2 DEF OpenRooms, Joined
    <3> QED BY <1>2, <3>1, <3>2, InsertStep
  <2>7. UserInOneRoom'
    <3>1. CASE \A u \in Users : OpenRooms(u)' \subseteq OpenRooms(u)
      BY <2>1, <3>1 DEF UserInOneRoom
    <3>2. ASSUME NEW p \in Requests, NEW w \in Users, NEW r \in Rooms, Admits(p), w = req[p].user,
                 OpenRooms(w)' \subseteq OpenRooms(w) \cup {r},
                 \A u \in Users \ {w} : OpenRooms(u)' \subseteq OpenRooms(u)
          PROVE  UserInOneRoom'
      <4>1. OpenRooms(w) = {}
        BY <2>1, <3>2, WorkerIsProc DEF Admits, Inserting
      <4> QED BY <2>1, <3>2, <4>1 DEF UserInOneRoom
    <3> QED BY <1>2, <2>1, <3>1, <3>2, MembershipStep
  <2> QED BY <2>2, <2>3, <2>4, <2>6, <2>7 DEF LobbyInv
<1> QED BY <1>1, <1>2

(* A user is seated in at most one open room, whatever requests of the     *)
(* user run at once: lockActiveRoomMembershipForUser and the check under   *)
(* it are enough, and nothing else seats anybody.                          *)
THEOREM OneRoomPerUser == Spec => []UserInOneRoom
<1>1. LobbyInv => UserInOneRoom
  BY DEF LobbyInv
<1> QED BY <1>1, InitTyped, NextTyped, InitLobby, NextLobby, PTL DEF Spec

---------------------------------------------------------------------------
(* Leaving players forfeit *)

(* The game of the room no longer counts on the user.                      *)
Gone(u, r) ==
    \/ room[r] # "active"
    \/ engine[r].phase = "finished"
    \/ \A n \in engine[r].solvent : engine[r].roster[n] # u

(* A leave that found a game, up to the step that frees the seat: the room *)
(* has started, and does not wait again.                                   *)
PastStart == {"lastHuman", "abandon", "forfeit", "declare", "finalize", "free"}

LeaverOf(l) ==
    l.op = "leave" =>
        /\ l.game = l.room /\ l.pc # "byTime"
        /\ l.pc = "hostLeave" => host[l.room] = l.user
        /\ l.pc \in PastStart => room[l.room] \notin {"unused", "waiting"}
        /\ l.pc = "free" => Gone(l.user, l.room)

(* Every leave frees the seat only when its user is out of the game.       *)
Leavers == \A p \in Procs : LeaverOf(req[p])

(* A room does not go back to waiting, and keeps its host.                 *)
LEMMA StartedForGood ==
    ASSUME Typed, Next, NEW r \in Rooms
    PROVE  /\ room[r] \notin {"unused", "waiting"} => room'[r] \notin {"unused", "waiting"}
           /\ room[r] \notin {"unused", "waiting"} /\ room'[r] = "active" => room[r] = "active"
           /\ room[r] # "unused" => host'[r] = host[r]
<1> DEFINE Good ==
           /\ room[r] \notin {"unused", "waiting"} => room'[r] \notin {"unused", "waiting"}
           /\ room[r] \notin {"unused", "waiting"} /\ room'[r] = "active" => room[r] = "active"
           /\ room[r] # "unused" => host'[r] = host[r]
<1> SUFFICES Good
  OBVIOUS
<1>1. /\ room \in [Rooms -> {"unused", "waiting", "active", "finished", "cancelled"}]
      /\ host \in [Rooms -> Users \cup {None}]
      /\ \A p \in Procs : Carries(p, req[p])
  BY DEF Typed, TypeOK
<1>2. ASSUME NEW p \in Requests, NEW q \in Rooms, CreateRoom(p, q) PROVE Good
  BY <1>1, <1>2 DEF CreateRoom
<1>3. ASSUME NEW p \in Requests, JoinRoom(p) PROVE Good
  BY <1>3 DEF JoinRoom
<1>4. ASSUME NEW p \in Procs, HostLeaves(p) PROVE Good
  BY <1>1, <1>4 DEF HostLeaves
<1>5. ASSUME NEW u \in Users, NEW q \in Rooms, Vacates(u, q) PROVE Good
  BY <1>5 DEF Vacates
<1>6. ASSUME NEW p \in Requests, NEW u \in Users, NEW q \in Rooms, StartRoom(p, u, q) PROVE Good
  BY <1>1, <1>6 DEF StartRoom
<1>7. ASSUME NEW p \in Procs, FinalizeGame(p) \/ CancelStartedGame(p) PROVE Good
  BY <1>1, <1>7 DEF FinalizeGame, CancelStartedGame
<1>8. ASSUME ExpireWaitingRooms \/ \E q \in Rooms : ExpireWaitingRoom(q) PROVE Good
  BY <1>1, <1>8 DEF ExpireWaitingRooms, ExpireWaitingRoom, Cancel
<1>9. CASE UNCHANGED rows
  BY <1>9 DEF rows
<1> HIDE DEF Good
<1> QED BY <1>2, <1>3, <1>4, <1>5, <1>6, <1>7, <1>8, <1>9, RowsStep

(* What a step does to the engine of a room that has started: the roster   *)
(* stays, nobody becomes solvent, and a finished game stays finished.      *)
LEMMA EngineOfStarted ==
    ASSUME Typed, Next, NEW r \in Rooms, room[r] \notin {"unused", "waiting"}
    PROVE  /\ engine'[r].roster = engine[r].roster
           /\ engine'[r].solvent \subseteq engine[r].solvent
           /\ engine[r].phase = "finished" => engine'[r].phase = "finished"
           /\ engine'[r].phase = "playing" => engine[r].phase = "playing"
<1>1. engine \in [Rooms -> Engines]
  BY DEF Typed, TypeOK
<1>2. ASSUME NEW p, NEW u, NEW q \in Rooms, StartRoom(p, u, q) PROVE engine'[r] = engine[r]
  <2>1. room[q] = "waiting" /\ \E e : engine' = [engine EXCEPT ![q] = e]
    BY <1>2 DEF StartRoom
  <2> QED BY <1>1, <2>1
<1> QED BY <1>2, EngineStep

LEMMA GoneStays ==
    ASSUME Typed, Next, NEW r \in Rooms, NEW u, room[r] \notin {"unused", "waiting"}, Gone(u, r)
    PROVE  Gone(u, r)'
BY StartedForGood, EngineOfStarted DEF Gone

LEMMA LeaverStays ==
    ASSUME Typed, GamesExist, Next, NEW p \in Procs, LeaverOf(req[p]), req'[p] = req[p]
    PROVE  LeaverOf(req[p])'
<1>1. PICK l : l = req[p]
  OBVIOUS
<1>2. Carries(p, l) /\ LeaverOf(l) /\ req'[p] = l
  BY <1>1 DEF Typed
<1>3. CASE l.op = "leave"
  <2>1. PICK r, u : r = l.room /\ u = l.user
    OBVIOUS
  <2>2. r \in Rooms /\ l.game = r /\ room[r] # "unused" /\ l.pc # "byTime"
    BY <1>1, <1>2, <1>3, <2>1 DEF Carries, LeaverOf, GamesExist
  <2>3. l.pc = "hostLeave" => host'[r] = u
    BY <1>2, <1>3, <2>1, <2>2, StartedForGood DEF LeaverOf
  <2>4. l.pc \in PastStart => room'[r] \notin {"unused", "waiting"}
    BY <1>2, <1>3, <2>1, <2>2, StartedForGood DEF LeaverOf
  <2>5. l.pc = "free" => Gone(u, r)'
    BY <1>2, <1>3, <2>1, <2>2, GoneStays DEF LeaverOf, PastStart
  <2>6. LeaverOf(l)'
    BY <2>1, <2>2, <2>3, <2>4, <2>5 DEF LeaverOf
  <2> QED BY <1>2, <2>6
<1> QED BY <1>2, <1>3 DEF LeaverOf

(* A leave reaches the step that frees the seat by three ways: its user    *)
(* was bankrupt already, was made bankrupt by the command it sent, or the  *)
(* game has been finalized.                                                *)
LEMMA LeaverMoves ==
    ASSUME Typed, RoomAndGameAgree, GamesExist, Next, NEW p \in Procs, LeaverOf(req[p]), Act(p)
    PROVE  LeaverOf(req[p])'
<1> DEFINE Good == LeaverOf(req[p])'
<1> SUFFICES Good
  OBVIOUS
<1>1. /\ req \in [Procs -> Reqs] /\ Carries(p, req[p]) /\ engine \in [Rooms -> Engines]
      /\ room \in [Rooms -> {"unused", "waiting", "active", "finished", "cancelled"}]
  BY DEF Typed, TypeOK
<1>2. ASSUME End(p) PROVE Good
  BY <1>1, <1>2, EndFacts DEF Idle, LeaverOf
<1>3. ASSUME NEW where \in PCs, Goto(p, where),
             req[p].op = "leave" =>
                 /\ where \notin {"hostLeave", "byTime"}
                 /\ where \in PastStart => room[req[p].room] \notin {"unused", "waiting"}
                 /\ where = "free" => Gone(req[p].user, req[p].room)'
      PROVE  Good
  <2>1. PICK l : l = req'[p]
    OBVIOUS
  <2>2. /\ l.pc = where /\ l.op = req[p].op /\ l.user = req[p].user
        /\ l.room = req[p].room /\ l.game = req[p].game
    BY <1>1, <1>3, <2>1, GotoFacts
  <2>3. CASE l.op = "leave"
    <3>1. PICK r, u : r = l.room /\ u = l.user
      OBVIOUS
    <3>2. r \in Rooms /\ l.game = r
      BY <1>1, <2>2, <2>3, <3>1 DEF Carries, LeaverOf
    <3>3. where \in PastStart => room'[r] \notin {"unused", "waiting"}
      BY <1>3, <2>2, <2>3, <3>1, <3>2, StartedForGood
    <3>4. where = "free" => Gone(u, r)'
      <4>1. req'[p].user = u /\ req'[p].room = r
        BY <2>1, <3>1
      <4> QED BY <1>3, <2>2, <2>3, <4>1
    <3>5. LeaverOf(l)'
      BY <1>3, <2>2, <2>3, <3>1, <3>2, <3>3, <3>4 DEF LeaverOf
    <3> QED BY <2>1, <3>5
  <2> QED BY <2>1, <2>3 DEF LeaverOf
<1> HIDE DEF Good
<1>4. ASSUME NEW u \in Users, p \in Requests, Request(p, u) PROVE Good
  <2>1. ASSUME NEW where \in PCs, NEW op \in Ops \ {"leave"}, NEW r \in Rooms \cup {None},
               NEW g \in Rooms \cup {None}, Begin(p, where, op, u, r, g)
        PROVE  Good
    <3>1. req'[p].op = op
      BY <1>1, <2>1, BeginFacts
    <3> QED BY <3>1 DEF LeaverOf, Good
  <2>2. ASSUME NEW r \in Rooms, LeaveRoom(p, u, r) PROVE Good
    <3>1. PICK where \in {"hostLeave", "leave"} :
            Begin(p, where, "leave", u, r, r) /\ (where = "hostLeave" => host[r] = u)
      BY <2>2 DEF LeaveRoom
    <3>2. req'[p].pc = where /\ req'[p].user = u /\ req'[p].room = r /\ req'[p].game = r
      BY <1>1, <3>1, BeginFacts DEF PCs, Ops
    <3>3. UNCHANGED host
      BY <2>2 DEF LeaveRoom, rows
    <3> QED BY <3>1, <3>2, <3>3 DEF LeaverOf, PastStart, Good
  <2>3. ASSUME NEW op \in {"create", "join"}, NEW r \in Rooms \cup {None}, Enter(p, u, op, r)
        PROVE  Good
    <3>1. CASE Begin(p, "lock", op, u, r, None)
      BY <2>1, <3>1 DEF PCs, Ops
    <3>2. ASSUME NEW g \in Rooms, Begin(p, ExpiryStep(g), op, u, r, g) PROVE Good
      BY <2>1, <3>2 DEF ExpiryStep, PCs, Ops
    <3> QED BY <2>3, <3>1, <3>2 DEF Enter, OpenRooms
  <2>4. ASSUME NEW r \in Rooms, SpectateRoom(p, u, r) PROVE Good
    <3>1. \/ Begin(p, "repair", "spectate", u, r, r) \/ Begin(p, "byTime", "spectate", u, r, r)
          \/ Begin(p, "spectate", "spectate", u, r, None)
      BY <2>4 DEF SpectateRoom, ExpiryStep
    <3> QED BY <2>1, <3>1 DEF PCs, Ops
  <2>5. ASSUME NEW r \in Rooms, StartRoom(p, u, r) PROVE Good
    BY <2>1, <2>5 DEF StartRoom, PCs, Ops
  <2> QED BY <1>4, <2>2, <2>3, <2>4, <2>5 DEF Request
<1>5. ASSUME NEW where \in PCs \ (PastStart \cup {"hostLeave", "byTime"}), Goto(p, where) PROVE Good
  BY <1>3, <1>5 DEF PastStart
<1>6. CASE LockMembership(p) \/ SetupTurn(p) \/ SetupFails(p)
  BY <1>2, <1>5, <1>6 DEF LockMembership, SetupTurn, SetupFails, PCs, PastStart
<1>7. CASE ScheduleWaitingRoomExpiry(p) \/ JoinRoom(p) \/ HostLeaves(p) \/ FreeSeat(p)
           \/ CreateSpectator(p) \/ SetupExpiry(p) \/ CancelStartedGame(p) \/ Abort(p)
  BY <1>2, <1>7 DEF ScheduleWaitingRoomExpiry, JoinRoom, HostLeaves, FreeSeat, CreateSpectator,
                    SetupExpiry, CancelStartedGame, Abort
<1>8. ASSUME NEW r \in Rooms, CreateRoom(p, r) PROVE Good
  <2> DEFINE l == [[req[p] EXCEPT !.pc = "schedule"] EXCEPT !.room = r]
  <2>1. req' = [req EXCEPT ![p] = l] /\ req[p].op = "create"
    BY <1>8 DEF CreateRoom
  <2>2. l.op = "create"
    BY <1>1, <2>1 DEF Reqs
  <2> HIDE DEF l
  <2> QED BY <1>1, <2>1, <2>2 DEF LeaverOf, Good
<1>9. CASE LeaveTransaction(p)
  <2>1. CASE /\ room[req[p].room] = "active"
             /\ Goto(p, "lastHuman") \/ Goto(p, "forfeit")
    BY <1>3, <2>1 DEF PCs
  <2> QED BY <1>2, <1>9, <2>1 DEF LeaveTransaction
<1>10. CASE LastHuman(p)
  <2>1. req[p].op = "leave" => room[req[p].room] \notin {"unused", "waiting"}
    BY <1>10 DEF LastHuman, At, LeaverOf, PastStart
  <2>2. Goto(p, "finalize") \/ Goto(p, "abandon")
    BY <1>10 DEF LastHuman
  <2> QED BY <1>3, <2>1, <2>2 DEF PCs
<1>11. CASE ForfeitRead(p)
  <2>1. req[p].op = "leave" =>
          req[p].game = req[p].room /\ room[req[p].room] \notin {"unused", "waiting"}
    BY <1>11 DEF ForfeitRead, At, LeaverOf, PastStart
  <2>2. CASE Goto(p, "declare")
    BY <1>3, <2>1, <2>2 DEF PCs
  <2>3. CASE /\ Goto(p, "free")
             /\ \A n \in engine[req[p].game].solvent :
                   engine[req[p].game].roster[n] # req[p].user
    <3>1. PICK r, u : r = req[p].room /\ u = req[p].user
      OBVIOUS
    <3>2. UNCHANGED <<room, engine>>
      BY <1>11 DEF ForfeitRead, rows
    <3>3. req[p].op = "leave" => Gone(u, r)
      BY <2>1, <2>3, <3>1 DEF Gone
    <3>4. req[p].op = "leave" => Gone(u, r)'
      BY <3>2, <3>3 DEF Gone
    <3>5. req[p].op = "leave" => Gone(req[p].user, req[p].room)'
      <4> QED BY <3>1, <3>4, <1>1, <2>3, GotoFacts DEF PCs
    <3> QED BY <1>3, <2>1, <2>3, <3>5 DEF PCs
  <2> QED BY <1>11, <2>2, <2>3 DEF ForfeitRead
<1>12. CASE DeclareBankruptcy(p)
  <2> DEFINE g == req[p].game
             mine == {n \in engine[g].solvent : engine[g].roster[n] = req[p].user}
             next == Bankrupt(g, mine)
  <2>1. g \in Rooms /\ (req[p].op = "leave" =>
          g = req[p].room /\ room[req[p].room] \notin {"unused", "waiting"})
    BY <1>1, <1>12 DEF DeclareBankruptcy, At, LeaverOf, PastStart, Carries, Closing
  <2>2. CASE /\ engine' = [engine EXCEPT ![g] = next]
             /\ Goto(p, IF next.phase = "finished" THEN "finalize" ELSE "free")
    <3>1. CASE Goto(p, "finalize")
      BY <1>3, <2>1, <3>1 DEF PCs
    <3>2. CASE next.phase # "finished" /\ Goto(p, "free")
      <4>1. next.solvent = engine[g].solvent \ mine /\ next.roster = engine[g].roster
        BY <1>1, <2>1, <3>2 DEF Bankrupt, Engines
      <4>2. PICK u, r : u = req[p].user /\ r = g
        OBVIOUS
      <4>3. engine'[r] = next
        BY <1>1, <2>1, <2>2, <4>2
      <4>4. \A n \in engine'[r].solvent : engine'[r].roster[n] # u
        <5> HIDE DEF next
        <5> QED BY <4>1, <4>2, <4>3
      <4>5. Gone(u, r)'
        BY <4>4 DEF Gone
      <4>6. req[p].op = "leave" => Gone(req[p].user, req[p].room)'
        BY <2>1, <4>2, <4>5, <1>1, <3>2, GotoFacts DEF PCs
      <4> QED BY <1>3, <2>1, <3>2, <4>6 DEF PCs
    <3> QED BY <2>2, <3>1, <3>2
  <2> QED BY <1>2, <1>12, <2>2 DEF DeclareBankruptcy
<1>13. CASE AbandonGame(p)
  <2>1. req[p].op = "leave" => room[req[p].room] \notin {"unused", "waiting"}
    BY <1>13 DEF AbandonGame, At, LeaverOf, PastStart
  <2>2. CASE Goto(p, "finalize")
    BY <1>3, <2>1, <2>2 DEF PCs
  <2> QED BY <1>2, <1>13, <2>2 DEF AbandonGame
<1>14. CASE FinishByTime(p)
  <2>1. CASE Goto(p, "repair")
    BY <1>5, <2>1 DEF PCs, PastStart
  <2>2. CASE Goto(p, "finalize") /\ engine[req[p].game].phase = "playing"
    <3>1. req[p].op = "leave" => FALSE
      BY <1>14 DEF FinishByTime, At, LeaverOf
    <3> QED BY <1>3, <2>2, <3>1 DEF PCs
  <2> QED BY <1>14, <2>1, <2>2 DEF FinishByTime
<1>15. CASE FinalizeGame(p)
  <2>1. CASE req[p].op = "leave"
    <3>1. PICK r, u : r = req[p].room /\ u = req[p].user
      OBVIOUS
    <3>2. r \in Rooms /\ req[p].game = r /\ room' = [room EXCEPT ![r] = "finished"]
      BY <1>1, <1>15, <2>1, <3>1 DEF FinalizeGame, Carries, LeaverOf
    <3>3. Gone(u, r)'
      BY <1>1, <3>2 DEF Gone
    <3>4. Goto(p, "free")
      BY <1>15, <2>1 DEF FinalizeGame, Resume
    <3>5. req'[p].pc = "free" /\ req'[p].op = "leave" /\ req'[p].user = u /\ req'[p].room = r
          /\ req'[p].game = r
      BY <1>1, <2>1, <3>1, <3>2, <3>4, GotoFacts DEF PCs
    <3>6. room'[r] = "finished"
      BY <1>1, <3>2
    <3>7. PICK l : l = req'[p]
      OBVIOUS
    <3>8. LeaverOf(l)'
      BY <3>3, <3>5, <3>6, <3>7 DEF LeaverOf
    <3> QED BY <3>7, <3>8 DEF Good
  <2>2. CASE req[p].op # "leave"
    <3>1. End(p) \/ Goto(p, "lock")
      BY <1>15, <2>2 DEF FinalizeGame, Resume
    <3> QED BY <1>2, <1>5, <3>1 DEF PCs, PastStart
  <2> QED BY <2>1, <2>2
<1>16. CASE FinalizeFails(p)
  BY <1>5, <1>16 DEF FinalizeFails, PCs, PastStart
<1> QED BY <1>4, <1>6, <1>7, <1>8, <1>9, <1>10, <1>11, <1>12, <1>13, <1>14, <1>15, <1>16
        DEF Act, Step, Fault

LEMMA NextLeavers ==
    ASSUME Typed, RoomAndGameAgree, GamesExist, Leavers, Next
    PROVE  Leavers'
<1> SUFFICES ASSUME NEW p \in Procs PROVE LeaverOf(req[p])'
  BY DEF Leavers
<1>1. LeaverOf(req[p])
  BY DEF Leavers
<1>2. CASE req'[p] = req[p]
  BY <1>1, <1>2, LeaverStays
<1>3. ASSUME NEW q \in Procs, Act(q) PROVE LeaverOf(req[p])'
  <2>1. CASE q = p
    BY <1>1, <1>3, <2>1, LeaverMoves
  <2>2. CASE q # p
    BY <1>2, <1>3, <2>2, ActLocals
  <2> QED BY <2>1, <2>2
<1>4. CASE Env
  <2>1. UNCHANGED req
    BY <1>4 DEF Env, EndSpectatorSession, ExpireWaitingRoom, Age, TimeUp, ExpireWaitingRooms
  <2> QED BY <1>2, <2>1
<1>5. CASE WorkerAct
  <2>1. PICK r \in Rooms : (\E n \in Seats : GameCommand(r, n)) \/ RunExpiryJob(r) \/ Scan(r)
    BY <1>5 DEF WorkerAct
  <2>2. \/ UNCHANGED req
        \/ \E where \in {"finalize", "abandon", "repair", "byTime"}, op \in {"worker", "expiryJob"} :
              Begin(Worker, where, op, None, None, r)
    BY <2>1 DEF GameCommand, RunExpiryJob, ExpiryStep, Scan, WatchdogFinalizes, WatchdogAbandons,
                WatchdogQueues
  <2>3. CASE p # Worker
    BY <1>2, <1>5, <2>3, WorkerLocals
  <2>4. CASE p = Worker
    <3>1. ASSUME NEW where \in {"finalize", "abandon", "repair", "byTime"},
                 NEW op \in {"worker", "expiryJob"}, Begin(Worker, where, op, None, None, r)
          PROVE  LeaverOf(req[p])'
      <4>1. req \in [Procs -> Reqs]
        BY DEF Typed, TypeOK
      <4>2. req'[p].op = op
        BY <2>4, <3>1, <4>1 DEF Begin
      <4> QED BY <4>2 DEF LeaverOf
    <3> QED BY <1>2, <2>2, <3>1
  <2> QED BY <2>3, <2>4
<1> QED BY <1>3, <1>4, <1>5, NextActs

LEMMA NextForfeit ==
    ASSUME Typed, RoomAndGameAgree, Leavers, LeaversForfeit, Next
    PROVE  LeaversForfeit'
<1> DEFINE Good == LeaversForfeit'
<1> SUFFICES Good
  OBVIOUS
<1>1. /\ room \in [Rooms -> {"unused", "waiting", "active", "finished", "cancelled"}]
      /\ seat \in [Rooms -> [Seats -> Occupants]] /\ host \in [Rooms -> Users \cup {None}]
      /\ engine \in [Rooms -> Engines]
      /\ \A p \in Procs : Carries(p, req[p])
  BY DEF Typed, TypeOK
<1>2. ASSUME NEW r \in Rooms, room[r] = "active", room'[r] = "active",
             engine'[r].phase = "playing", NEW n \in engine'[r].solvent,
             engine'[r].roster[n] \in Users \ {host'[r]}
      PROVE  /\ n \in Seats /\ engine[r].phase = "playing" /\ n \in engine[r].solvent
             /\ engine'[r].roster[n] = engine[r].roster[n] /\ host'[r] = host[r]
             /\ seat[r][n] = engine[r].roster[n]
  <2>1. engine[r] \in Engines /\ room[r] \notin {"unused", "waiting"}
    BY <1>1, <1>2
  <2>2. /\ engine'[r].roster = engine[r].roster /\ n \in engine[r].solvent
        /\ engine[r].phase = "playing" /\ host'[r] = host[r]
    BY <1>2, <2>1, EngineOfStarted, StartedForGood
  <2> QED BY <1>2, <2>1, <2>2 DEF LeaversForfeit, Engines
<1>3. ASSUME \A r \in Rooms : room'[r] = "active" => room[r] = "active" /\ seat'[r] = seat[r]
      PROVE  Good
  BY <1>2, <1>3 DEF LeaversForfeit
<1> HIDE DEF Good
<1>4. ASSUME NEW p \in Requests, NEW r \in Rooms, CreateRoom(p, r) PROVE Good
  <2>1. /\ room' = [room EXCEPT ![r] = "waiting"]
        /\ seat' = [seat EXCEPT ![r] = [seat[r] EXCEPT ![1] = req[p].user]]
    BY <1>4 DEF CreateRoom
  <2> QED BY <1>1, <1>3, <2>1
<1>5. ASSUME NEW p \in Requests, JoinRoom(p) PROVE Good
  <2> DEFINE r == req[p].room
  <2>1. /\ UNCHANGED room
        /\ \/ UNCHANGED seat
           \/ /\ room[r] = "waiting"
              /\ \E n \in Seats : seat' = [seat EXCEPT ![r] = [seat[r] EXCEPT ![n] = req[p].user]]
    BY <1>5 DEF JoinRoom
  <2> QED BY <1>1, <1>3, <2>1
<1>6. ASSUME NEW p \in Procs, HostLeaves(p) PROVE Good
  <2>1. PICK r, u : r = req[p].room /\ u = req[p].user
    OBVIOUS
  <2>2. r \in Rooms /\ u \in Users /\ host[r] = u
    BY <1>1, <1>6, <2>1 DEF HostLeaves, At, Carries, Leavers, LeaverOf
  <2>3. /\ seat' = [seat EXCEPT ![r] = Without(u, r)]
        /\ \A q \in Rooms : room'[q] = "active" => room[q] = "active"
    BY <1>1, <1>6, <2>1 DEF HostLeaves
  <2>4. SUFFICES ASSUME NEW q \in Rooms, room'[q] = "active", engine'[q].phase = "playing",
                        NEW n \in engine'[q].solvent, engine'[q].roster[n] \in Users \ {host'[q]}
                 PROVE  seat'[q][n] = engine'[q].roster[n]
    BY DEF Good, LeaversForfeit
  <2>5. /\ n \in Seats /\ seat[q][n] = engine[q].roster[n] /\ host'[q] = host[q]
        /\ engine'[q].roster[n] = engine[q].roster[n]
    BY <1>2, <2>3, <2>4
  <2>6. q = r => seat[q][n] # u
    BY <2>2, <2>4, <2>5
  <2>7. seat'[q][n] = seat[q][n]
    BY <1>1, <2>2, <2>3, <2>5, <2>6 DEF Without
  <2> QED BY <2>5, <2>7
<1>7. ASSUME NEW u \in Users, NEW r \in Rooms, Vacates(u, r) PROVE Good
  <2>1. /\ seat' = [seat EXCEPT ![r] = Without(u, r)] /\ UNCHANGED room
        /\ room[r] = "active" => Leaving(u, r)
    BY <1>7 DEF Vacates, RoomAndGameAgree
  <2>2. SUFFICES ASSUME NEW q \in Rooms, room'[q] = "active", engine'[q].phase = "playing",
                        NEW n \in engine'[q].solvent, engine'[q].roster[n] \in Users \ {host'[q]}
                 PROVE  seat'[q][n] = engine'[q].roster[n]
    BY DEF Good, LeaversForfeit
  <2>3. /\ n \in Seats /\ seat[q][n] = engine[q].roster[n] /\ engine[q].phase = "playing"
        /\ engine'[q].roster[n] = engine[q].roster[n] /\ n \in engine[q].solvent
    BY <1>2, <2>1, <2>2
  <2>4. q = r => seat[q][n] # u
    <3>1. CASE q = r
      <4>1. PICK p \in Procs : At(p, "free") /\ req[p].user = u /\ req[p].room = r
        BY <2>1, <2>2, <3>1 DEF Leaving
      <4>2. Gone(u, r)
        BY <1>1, <4>1 DEF Leavers, LeaverOf, At, Carries
      <4> QED BY <2>1, <2>2, <2>3, <3>1, <4>2 DEF Gone
    <3> QED BY <3>1
  <2>5. seat'[q][n] = seat[q][n]
    BY <1>1, <2>1, <2>3, <2>4 DEF Without
  <2> QED BY <2>3, <2>5
<1>8. ASSUME NEW p \in Requests, NEW u \in Users, NEW r \in Rooms, StartRoom(p, u, r) PROVE Good
  <2> DEFINE e == [phase |-> "playing", roster |-> Table(r),
                   solvent |-> {n \in Seats : Table(r)[n] # None}]
  <2>1. /\ engine' = [engine EXCEPT ![r] = e] /\ room' = [room EXCEPT ![r] = "active"]
        /\ seat' = [seat EXCEPT ![r] = Table(r)] /\ UNCHANGED host
    BY <1>8 DEF StartRoom
  <2>2. e.roster = Table(r)
    OBVIOUS
  <2> HIDE DEF e
  <2>3. engine'[r].roster = seat'[r]
    BY <1>1, <2>1, <2>2
  <2>4. \A q \in Rooms \ {r} : engine'[q] = engine[q] /\ room'[q] = room[q] /\ seat'[q] = seat[q]
    BY <1>1, <2>1
  <2> QED BY <2>1, <2>3, <2>4 DEF LeaversForfeit, Good
<1>9. ASSUME NEW p \in Procs, FinalizeGame(p) \/ CancelStartedGame(p) PROVE Good
  BY <1>1, <1>3, <1>9 DEF FinalizeGame, CancelStartedGame
<1>10. ASSUME ExpireWaitingRooms \/ \E r \in Rooms : ExpireWaitingRoom(r) PROVE Good
  BY <1>1, <1>3, <1>10 DEF ExpireWaitingRooms, ExpireWaitingRoom, Cancel
<1>11. CASE UNCHANGED rows
  BY <1>3, <1>11 DEF rows
<1> QED BY <1>4, <1>5, <1>6, <1>7, <1>8, <1>9, <1>10, <1>11, RowsStep

(* A human who has left the room of a running game is out of the game,     *)
(* whatever other requests, timers and expiries come between the two       *)
(* transactions of the leave; only a host whose leave chose its branch     *)
(* while the room was still waiting gets away.                             *)
THEOREM Forfeits == Spec => []LeaversForfeit
<1>1. Init => Leavers /\ LeaversForfeit
  BY DEF Init, Leavers, LeaverOf, Idle, LeaversForfeit
<1>2. Typed /\ LobbyInv /\ Leavers /\ LeaversForfeit /\ [Next]_vars => Leavers' /\ LeaversForfeit'
  <2>1. CASE Next
    BY <2>1, NextLeavers, NextForfeit DEF LobbyInv
  <2>2. CASE UNCHANGED vars
    <3>1. UNCHANGED <<room, host, seat, engine, req>>
      BY <2>2 DEF vars, rows
    <3>2. LeaversForfeit => LeaversForfeit'
      BY <3>1 DEF LeaversForfeit
    <3>3. \A l : LeaverOf(l) => LeaverOf(l)'
      BY <3>1 DEF LeaverOf, Gone
    <3> QED BY <3>1, <3>2, <3>3 DEF Leavers
  <2> QED BY <2>1, <2>2
<1>3. Spec => [](Typed /\ LobbyInv /\ Leavers /\ LeaversForfeit)
  BY <1>1, <1>2, InitTyped, NextTyped, InitLobby, NextLobby, PTL DEF Spec
<1> QED BY <1>3, PTL

---------------------------------------------------------------------------
(* Refinement of RoomLifecycle *)

(* What Where says of a user who is in at most one open room.              *)
LEMMA ChooseOnly ==
    ASSUME NEW O, O \in SUBSET Rooms, \A q, r \in O : q = r,
           NEW w, w = IF O = {} THEN None ELSE CHOOSE r \in O : TRUE
    PROVE  /\ w \in Rooms \cup {None}
           /\ w = None <=> O = {}
           /\ \A r \in Rooms : w = r <=> r \in O
<1>1. None \notin Rooms
  BY LobbyConstants
<1>2. CASE O = {}
  BY <1>1, <1>2
<1>3. CASE O # {}
  <2>1. w \in O
    BY <1>3
  <2> QED BY <1>1, <1>3, <2>1
<1> QED BY <1>2, <1>3

LEMMA WhereFacts ==
    ASSUME UserInOneRoom
    PROVE  /\ Where \in [Users -> Rooms \cup {None}]
           /\ \A u \in Users : /\ Where[u] = None <=> OpenRooms(u) = {}
                               /\ \A r \in Rooms : Where[u] = r <=> r \in OpenRooms(u)
<1>1. ASSUME NEW u \in Users
      PROVE  /\ Where[u] \in Rooms \cup {None}
             /\ Where[u] = None <=> OpenRooms(u) = {}
             /\ \A r \in Rooms : Where[u] = r <=> r \in OpenRooms(u)
  <2>1. Where[u] = IF OpenRooms(u) = {} THEN None ELSE CHOOSE r \in OpenRooms(u) : TRUE
    BY DEF Where
  <2>2. OpenRooms(u) \in SUBSET Rooms /\ \A q, r \in OpenRooms(u) : q = r
    BY DEF OpenRooms, UserInOneRoom
  <2> QED BY <2>1, <2>2, ChooseOnly
<1> QED BY <1>1 DEF Where

LEMMA WhereFactsNext ==
    ASSUME UserInOneRoom'
    PROVE  /\ Where' \in [Users -> Rooms \cup {None}]
           /\ \A u \in Users : /\ Where'[u] = None <=> OpenRooms(u)' = {}
                               /\ \A r \in Rooms : Where'[u] = r <=> r \in OpenRooms(u)'
<1>1. ASSUME NEW u \in Users
      PROVE  /\ Where'[u] \in Rooms \cup {None}
             /\ Where'[u] = None <=> OpenRooms(u)' = {}
             /\ \A r \in Rooms : Where'[u] = r <=> r \in OpenRooms(u)'
  <2>1. Where'[u] = IF OpenRooms(u)' = {} THEN None ELSE CHOOSE r \in OpenRooms(u)' : TRUE
    BY DEF Where
  <2>2. OpenRooms(u)' \in SUBSET Rooms /\ \A q, r \in OpenRooms(u)' : q = r
    BY DEF OpenRooms, UserInOneRoom
  <2> QED BY <2>1, <2>2, ChooseOnly
<1> QED BY <1>1 DEF Where

(* The moves of RoomLifecycle in terms of the rooms users are seated in.   *)
Stays(u) == OpenRooms(u)' = OpenRooms(u)

LEMMA SameWhere ==
    ASSUME UserInOneRoom, UserInOneRoom'
    PROVE  /\ \A u \in Users : Stays(u) => Where'[u] = Where[u]
           /\ (\A u \in Users : Stays(u)) => Where' = Where
<1>1. \A u \in Users : Stays(u) => Where'[u] = Where[u]
  BY DEF Stays, Where
<1>2. (\A u \in Users : Stays(u)) => Where' = Where
  BY <1>1, WhereFacts, WhereFactsNext
<1> QED BY <1>1, <1>2

LEMMA MovesIn ==
    ASSUME UserInOneRoom, UserInOneRoom', NEW w \in Users, NEW r \in Rooms,
           OpenRooms(w) = {}, r \in OpenRooms(w)', \A u \in Users \ {w} : Stays(u)
    PROVE  Where[w] = None /\ Where' = [Where EXCEPT ![w] = r]
<1>1. Where[w] = None /\ Where'[w] = r
  BY WhereFacts, WhereFactsNext
<1>2. \A u \in Users \ {w} : Where'[u] = Where[u]
  BY SameWhere
<1>3. Where \in [Users -> Rooms \cup {None}] /\ Where' \in [Users -> Rooms \cup {None}]
  BY WhereFacts, WhereFactsNext
<1> QED BY <1>1, <1>2, <1>3

LEMMA MovesOut ==
    ASSUME UserInOneRoom, UserInOneRoom', NEW w \in Users, NEW r \in Rooms,
           r \in OpenRooms(w), OpenRooms(w)' = {}, \A u \in Users \ {w} : Stays(u)
    PROVE  Where[w] # None /\ Where' = [Where EXCEPT ![w] = None]
<1>1. Where[w] # None /\ Where'[w] = None
  BY WhereFacts, WhereFactsNext
<1>2. \A u \in Users \ {w} : Where'[u] = Where[u]
  BY SameWhere
<1>3. Where \in [Users -> Rooms \cup {None}] /\ Where' \in [Users -> Rooms \cup {None}]
  BY WhereFacts, WhereFactsNext
<1> QED BY <1>1, <1>2, <1>3

(* Rooms of S close, and whoever was in one of them is out.                *)
LEMMA Closes ==
    ASSUME UserInOneRoom, UserInOneRoom', NEW S \in SUBSET Rooms,
           \A r \in S : room[r] \in Open /\ room'[r] \in {"finished", "cancelled"},
           \A r \in Rooms \ S : \/ room'[r] = room[r]
                                \/ {room[r], room'[r]} \subseteq {"finished", "cancelled"},
           \A u \in Users : OpenRooms(u)' = OpenRooms(u) \ S
    PROVE  [Lifecycle!Next]_<<Status, Where>>
<1>1. Where \in [Users -> Rooms \cup {None}] /\ Where' \in [Users -> Rooms \cup {None}]
  BY WhereFacts, WhereFactsNext
<1>2. Status' = [r \in Rooms |-> IF r \in S THEN "closed" ELSE Status[r]]
  BY DEF Status
<1>3. \A r \in S : Status[r] \in {"waiting", "active"}
  BY DEF Status, Open
<1>4. CASE S = {}
  <2>1. Where' = Where
    BY <1>4, SameWhere DEF Stays
  <2>2. Status' = Status
    BY <1>2, <1>4 DEF Status
  <2> QED BY <2>1, <2>2
<1>5. CASE S # {}
  <2>1. ASSUME NEW u \in Users PROVE Where'[u] = IF Where[u] \in S THEN None ELSE Where[u]
    <3>1. CASE Where[u] \in S
      <4>1. Where[u] \in OpenRooms(u)
        BY <3>1, WhereFacts
      <4>2. OpenRooms(u)' = {}
        BY <3>1, <4>1 DEF UserInOneRoom
      <4> QED BY <3>1, <4>2, WhereFactsNext
    <3>2. CASE Where[u] \notin S
      <4>1. OpenRooms(u)' = OpenRooms(u)
        BY <3>2, WhereFacts DEF OpenRooms
      <4> QED BY <3>2, <4>1, SameWhere DEF Stays
    <3> QED BY <3>1, <3>2
  <2>2. Where' = [u \in Users |-> IF Where[u] \in S THEN None ELSE Where[u]]
    BY <1>1, <2>1
  <2>3. Lifecycle!Close(S)
    BY <1>2, <1>3, <1>5, <2>2 DEF Lifecycle!Close
  <2> QED BY <2>3 DEF Lifecycle!Next
<1> QED BY <1>4, <1>5

LEMMA LifecycleStep ==
    ASSUME Typed, LobbyInv, Next, LobbyInv'
    PROVE  [Lifecycle!Next]_<<Status, Where>>
<1>1. /\ room \in [Rooms -> {"unused", "waiting", "active", "finished", "cancelled"}]
      /\ seat \in [Rooms -> [Seats -> Occupants]]
      /\ None \notin Users /\ Bot \notin Users
      /\ \A p \in Procs : Carries(p, req[p])
      /\ UserInOneRoom /\ UserInOneRoom' /\ Fresh /\ GamesExist /\ Inserting
  BY LobbyConstants DEF Typed, TypeOK, LobbyInv
<1> DEFINE Good == [Lifecycle!Next]_<<Status, Where>>
<1> SUFFICES Good
  OBVIOUS
<1> HIDE DEF Good
<1>2. ASSUME UNCHANGED room, \A u \in Users : Stays(u) PROVE Good
  BY <1>1, <1>2, SameWhere DEF Good, Status
<1>3. CASE UNCHANGED rows
  BY <1>2, <1>3 DEF rows, Stays, OpenRooms, Joined
<1>4. ASSUME NEW p \in Requests, NEW r \in Rooms, CreateRoom(p, r) PROVE Good
  <2>1. PICK w : w = req[p].user
    OBVIOUS
  <2>2. w \in Users /\ OpenRooms(w) = {}
    BY <1>1, <1>4, <2>1, WorkerIsProc DEF CreateRoom, Carries, Members, At, Inserting
  <2>3. /\ seat' = [seat EXCEPT ![r] = [seat[r] EXCEPT ![1] = w]]
        /\ room' = [room EXCEPT ![r] = "waiting"]
        /\ room[r] = "unused"
    BY <1>4, <2>1 DEF CreateRoom
  <2>4. 1 \in Seats /\ \A n \in Seats : seat[r][n] = None
    BY <1>1, <2>3, LobbyConstants DEF Seats, Fresh, Vacant
  <2>5. /\ \A q \in Rooms \ {r} : seat'[q] = seat[q] /\ room'[q] = room[q]
        /\ seat'[r][1] = w /\ \A n \in Seats \ {1} : seat'[r][n] = None
        /\ room'[r] = "waiting"
    BY <1>1, <2>3, <2>4
  <2>6. r \in OpenRooms(w)'
    BY <2>4, <2>5 DEF OpenRooms, Joined, Open
  <2>7. \A u \in Users \ {w} : Stays(u)
    BY <1>1, <2>3, <2>4, <2>5 DEF Stays, OpenRooms, Joined, Open
  <2>8. Where[w] = None /\ Where' = [Where EXCEPT ![w] = r]
    BY <1>1, <2>2, <2>6, <2>7, MovesIn
  <2>9. Status[r] = "unused" /\ Status' = [Status EXCEPT ![r] = "waiting"]
    BY <1>1, <2>3 DEF Status
  <2>10. Lifecycle!Open(w, r)
    BY <2>8, <2>9 DEF Lifecycle!Open
  <2> QED BY <2>2, <2>10 DEF Good, Lifecycle!Next
<1>5. ASSUME NEW p \in Requests, JoinRoom(p) PROVE Good
  <2>1. PICK w, r : w = req[p].user /\ r = req[p].room
    OBVIOUS
  <2>2. w \in Users /\ r \in Rooms /\ OpenRooms(w) = {} /\ UNCHANGED room
    BY <1>1, <1>5, <2>1, WorkerIsProc DEF JoinRoom, Carries, Members, At, Inserting
  <2>3. CASE UNCHANGED seat
    BY <1>2, <2>2, <2>3 DEF Stays, OpenRooms, Joined
  <2>4. ASSUME NEW n \in Seats, room[r] = "waiting", seat[r][n] = None,
               seat' = [seat EXCEPT ![r] = [seat[r] EXCEPT ![n] = w]]
        PROVE  Good
    <3>1. /\ \A q \in Rooms \ {r} : seat'[q] = seat[q]
          /\ seat'[r][n] = w /\ \A m \in Seats \ {n} : seat'[r][m] = seat[r][m]
      BY <1>1, <2>2, <2>4
    <3>2. r \in OpenRooms(w)'
      BY <2>2, <2>4, <3>1 DEF OpenRooms, Joined, Open
    <3>3. \A u \in Users \ {w} : Stays(u)
      BY <1>1, <2>2, <2>4, <3>1 DEF Stays, OpenRooms, Joined
    <3>4. Where[w] = None /\ Where' = [Where EXCEPT ![w] = r]
      BY <1>1, <2>2, <3>2, <3>3, MovesIn
    <3>5. Status[r] = "waiting" /\ Status' = Status
      BY <2>2, <2>4 DEF Status
    <3>6. Lifecycle!Enter(w, r)
      BY <3>4, <3>5 DEF Lifecycle!Enter
    <3> QED BY <2>2, <3>6 DEF Good, Lifecycle!Next
  <2>5. \/ UNCHANGED seat
        \/ /\ room[r] = "waiting"
           /\ \E n \in Seats : /\ seat[r][n] = None
                               /\ seat' = [seat EXCEPT ![r] = [seat[r] EXCEPT ![n] = w]]
    BY <1>5, <2>1 DEF JoinRoom, FirstFree, FreeSeats
  <2> QED BY <2>3, <2>4, <2>5
<1>6. ASSUME NEW w \in Users, NEW r \in Rooms, seat' = [seat EXCEPT ![r] = Without(w, r)]
      PROVE  /\ \A q \in Rooms \ {r} : seat'[q] = seat[q]
             /\ \A n \in Seats : seat'[r][n] = IF seat[r][n] = w THEN None ELSE seat[r][n]
  BY <1>1, <1>6 DEF Without
<1>7. ASSUME NEW w \in Users, NEW r \in Rooms, UNCHANGED room, seat' = [seat EXCEPT ![r] = Without(w, r)]
      PROVE  Good
  <2>5. /\ \A q \in Rooms \ {r} : seat'[q] = seat[q]
        /\ \A n \in Seats : seat'[r][n] = IF seat[r][n] = w THEN None ELSE seat[r][n]
    BY <1>6, <1>7
  <2>1. \A u \in Users \ {w} : Stays(u)
    <3> SUFFICES ASSUME NEW u \in Users \ {w} PROVE \A q \in Rooms : Joined(u, q)' <=> Joined(u, q)
      BY <1>7 DEF Stays, OpenRooms
    <3> QED BY <1>1, <2>5 DEF Joined
  <2>2. OpenRooms(w)' = OpenRooms(w) \ {r}
    <3>1. ~Joined(w, r)' /\ \A q \in Rooms \ {r} : Joined(w, q)' <=> Joined(w, q)
      BY <1>1, <2>5 DEF Joined
    <3> QED BY <1>7, <3>1 DEF OpenRooms
  <2>3. CASE r \notin OpenRooms(w)
    BY <1>2, <1>7, <2>1, <2>2, <2>3 DEF Stays
  <2>4. CASE r \in OpenRooms(w)
    <3>1. OpenRooms(w)' = {}
      BY <1>1, <2>2, <2>4 DEF UserInOneRoom
    <3>2. Where[w] # None /\ Where' = [Where EXCEPT ![w] = None]
      BY <1>1, <2>1, <2>4, <3>1, MovesOut
    <3>3. Status' = Status
      BY <1>7 DEF Status
    <3>4. Lifecycle!Leave(w)
      BY <3>2, <3>3 DEF Lifecycle!Leave
    <3> QED BY <3>4 DEF Good, Lifecycle!Next
  <2> QED BY <2>3, <2>4
<1>8. ASSUME NEW p \in Procs, HostLeaves(p) PROVE Good
  <2>1. PICK w, r : w = req[p].user /\ r = req[p].room
    OBVIOUS
  <2>2. w \in Users /\ r \in Rooms /\ seat' = [seat EXCEPT ![r] = Without(w, r)]
    BY <1>1, <1>8, <2>1 DEF HostLeaves, At, Carries
  <2>3. CASE UNCHANGED room
    BY <1>7, <2>2, <2>3
  <2>4. CASE room[r] = "waiting" /\ room' = [room EXCEPT ![r] = "cancelled"]
    <3>1. /\ room'[r] = "cancelled"
          /\ \A q \in Rooms \ {r} : room'[q] = room[q] /\ seat'[q] = seat[q]
      BY <1>1, <1>6, <2>2, <2>4
    <3>2. \A u \in Users : OpenRooms(u)' = OpenRooms(u) \ {r}
      BY <2>2, <3>1 DEF OpenRooms, Joined, Open
    <3>3. {r} \in SUBSET Rooms /\ room[r] \in Open
      BY <2>2, <2>4 DEF Open
    <3> QED BY <1>1, <3>1, <3>2, <3>3, Closes DEF Good
  <2> QED BY <1>8, <2>1, <2>3, <2>4 DEF HostLeaves
<1>9. ASSUME NEW u \in Users, NEW r \in Rooms, Vacates(u, r) PROVE Good
  BY <1>7, <1>9 DEF Vacates
<1>10. ASSUME NEW p \in Requests, NEW w \in Users, NEW r \in Rooms, StartRoom(p, w, r) PROVE Good
  <2>1. /\ room[r] = "waiting" /\ Joined(w, r) /\ room' = [room EXCEPT ![r] = "active"]
        /\ seat' = [seat EXCEPT ![r] = Table(r)]
    BY <1>10 DEF StartRoom
  <2>2. /\ \A q \in Rooms \ {r} : room'[q] = room[q] /\ seat'[q] = seat[q]
        /\ room'[r] = "active"
        /\ \A n \in Seats : seat[r][n] # None => seat'[r][n] = seat[r][n]
        /\ \A n \in Seats : seat'[r][n] \in {seat[r][n], Bot}
    BY <1>1, <2>1, TableType
  <2>3. \A u \in Users : Stays(u)
    BY <1>1, <2>1, <2>2 DEF Stays, OpenRooms, Joined, Open
  <2>4. Where' = Where
    BY <1>1, <2>3, SameWhere
  <2>5. Where[w] = r
    BY <1>1, <2>1, WhereFacts DEF OpenRooms, Open
  <2>6. Status[r] = "waiting" /\ Status' = [Status EXCEPT ![r] = "active"]
    BY <1>1, <2>1 DEF Status
  <2>7. Lifecycle!Start(r)
    BY <2>4, <2>5, <2>6 DEF Lifecycle!Start
  <2> QED BY <2>7 DEF Good, Lifecycle!Next
<1>11. ASSUME UNCHANGED seat, NEW S \in SUBSET Rooms,
              \A r \in S : room[r] \in Open /\ room'[r] \in {"finished", "cancelled"},
              \A r \in Rooms \ S : \/ room'[r] = room[r]
                                   \/ {room[r], room'[r]} \subseteq {"finished", "cancelled"}
       PROVE  Good
  <2>1. \A u \in Users : OpenRooms(u)' = OpenRooms(u) \ S
    BY <1>11 DEF OpenRooms, Joined, Open
  <2> QED BY <1>1, <1>11, <2>1, Closes DEF Good
<1>17. ASSUME UNCHANGED seat,
              \A r \in Rooms : \/ room'[r] = room[r]
                               \/ {room[r], room'[r]} \subseteq {"finished", "cancelled"}
       PROVE  Good
  <2>1. {} \in SUBSET Rooms
    OBVIOUS
  <2> QED BY <1>11, <1>17, <2>1
<1>12. ASSUME NEW p \in Procs, FinalizeGame(p) PROVE Good
  <2>1. PICK g : g = req[p].game
    OBVIOUS
  <2>2. g \in Rooms /\ room[g] # "unused"
    BY <1>1, <1>12, <2>1 DEF FinalizeGame, At, Carries, Closing, GamesExist
  <2>3. UNCHANGED seat /\ room' = [room EXCEPT ![g] = "finished"]
    BY <1>12, <2>1 DEF FinalizeGame
  <2>4. room'[g] = "finished" /\ \A q \in Rooms \ {g} : room'[q] = room[q]
    BY <1>1, <2>2, <2>3
  <2>5. CASE room[g] \in Open
    <3>1. {g} \in SUBSET Rooms
      BY <2>2
    <3>2. /\ \A r \in {g} : room[r] \in Open /\ room'[r] \in {"finished", "cancelled"}
          /\ \A r \in Rooms \ {g} : room'[r] = room[r]
      BY <2>4, <2>5
    <3> QED BY <1>11, <2>3, <3>1, <3>2
  <2>6. CASE room[g] \in {"finished", "cancelled"}
    <3>1. \A r \in Rooms : \/ room'[r] = room[r]
                           \/ {room[r], room'[r]} \subseteq {"finished", "cancelled"}
      BY <2>4, <2>6
    <3> QED BY <1>17, <2>3, <3>1
  <2> QED BY <1>1, <2>2, <2>5, <2>6 DEF Open
<1>13. ASSUME NEW p \in Procs, CancelStartedGame(p) PROVE Good
  <2>1. PICK r : r = req[p].room
    OBVIOUS
  <2>2. r \in Rooms /\ UNCHANGED seat
    BY <1>1, <1>13, <2>1 DEF CancelStartedGame, At, Carries, Starting
  <2>3. CASE UNCHANGED room
    BY <1>17, <2>2, <2>3
  <2>4. CASE room[r] = "active" /\ room' = [room EXCEPT ![r] = "cancelled"]
    <3>1. room'[r] = "cancelled" /\ room[r] \in Open /\ \A q \in Rooms \ {r} : room'[q] = room[q]
      BY <1>1, <2>2, <2>4 DEF Open
    <3>2. {r} \in SUBSET Rooms
      BY <2>2
    <3>3. /\ \A q \in {r} : room[q] \in Open /\ room'[q] \in {"finished", "cancelled"}
          /\ \A q \in Rooms \ {r} : room'[q] = room[q]
      BY <3>1
    <3> QED BY <1>11, <2>2, <3>2, <3>3
  <2> QED BY <1>13, <2>1, <2>3, <2>4 DEF CancelStartedGame
<1>14. ASSUME NEW S \in SUBSET Rooms, \A r \in S : room[r] = "waiting", Cancel(S), UNCHANGED seat PROVE Good
  <2>1. /\ \A r \in S : room[r] \in Open /\ room'[r] = "cancelled"
        /\ \A r \in Rooms \ S : room'[r] = room[r]
    BY <1>14 DEF Cancel, Open
  <2> QED BY <1>11, <1>14, <2>1
<1>15. ASSUME NEW r \in Rooms, ExpireWaitingRoom(r) PROVE Good
  BY <1>14, <1>15 DEF ExpireWaitingRoom
<1>16. ASSUME ExpireWaitingRooms PROVE Good
  BY <1>14, <1>16 DEF ExpireWaitingRooms, ExpiredWaiting
<1> QED BY <1>3, <1>4, <1>5, <1>8, <1>9, <1>10, <1>12, <1>13, <1>15, <1>16, RowsStep

(* The lobby implements RoomLifecycle: requests, jobs, sweeps, failed      *)
(* starts and crashes amount to rooms that open, start and close once, and *)
(* to users who are in one open room at a time.                            *)
THEOREM Refinement == Spec => ImplementsLifecycle
<1>1. Init => Lifecycle!Init
  <2> SUFFICES ASSUME Init PROVE Lifecycle!Init
    OBVIOUS
  <2>1. Status = [r \in Rooms |-> "unused"]
    BY DEF Init, Status
  <2>2. \A u \in Users : OpenRooms(u) = {}
    BY DEF Init, OpenRooms, Open
  <2>3. Where = [u \in Users |-> None]
    BY <2>2 DEF Where
  <2> QED BY <2>1, <2>3 DEF Lifecycle!Init
<1>2. Typed /\ LobbyInv /\ [Next]_vars /\ LobbyInv' => [Lifecycle!Next]_<<Status, Where>>
  <2>1. CASE UNCHANGED vars
    BY <2>1 DEF vars, rows, Status, Where, OpenRooms, Joined
  <2> QED BY <2>1, LifecycleStep
<1> QED BY <1>1, <1>2, InitTyped, NextTyped, InitLobby, NextLobby, PTL
        DEF Spec, ImplementsLifecycle, Lifecycle!Spec, Lifecycle!vars
============================================================================
