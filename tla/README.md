# LivePoly Server in TLA+

LivePoly Server is the backend of a multiplayer property-trading board game: a
NestJS application that keeps the live state of a game in Redis, everything that
must last in PostgreSQL, and its delayed work in a BullMQ queue. Several server
processes run side by side. This directory holds TLA+ models of the parts of the
server whose correctness depends on the order in which things happen (the game and
its rules, the rooms, the accounts, friends and notifications), the TLC
configurations that check them, and TLAPS proofs of every safety property the
configurations check.

All source paths below are relative to the repository.

## 1. The system

### 1.1 Components

| Component | State it keeps | Operations | Talks to |
|---|---|---|---|
| Game engine (`src/game/engine`) | none: pure functions on a `GameEngineState` | one per intent: roll, buy, decline, bid, pass, build, sell, mortgage, unmortgage, trade (propose, accept, reject, cancel), pay debt, resolve debt, bankruptcy, jail fine, jail card, end turn, finish | called by the commands |
| Commands (`src/game/commands`, `state`) | the live state, one Redis key per game | `executeIntent`: GET, engine, compare-and-set, then events, snapshot, results | engine, snapshots, events, results |
| Snapshots, recovery (`src/game/snapshots`, `recovery`) | `game_snapshots` | upsert after a command; restore the latest into Redis | commands, processor, watchdog |
| Events (`src/game/events`) | `game_events`, numbered per game | append under an advisory lock, list after a cursor | commands, clients |
| Results, stats, rating (`src/game/results`, `stats`) | `room_results`, `room_player_results`, `rating_history`, player stats | finalize a game in one transaction | commands, expiry job, watchdog |
| Turn timers (`src/game/timers`) | delayed jobs, one id per deadline | enqueue a turn timer or the expiry; decide what a timeout does | queue, engine |
| Processor (`src/game/jobs`) | none | bot turn, turn timeout, expiry, leaderboard refresh | commands, queues |
| Watchdog (`src/game/timers`) | a Redis lock for the scan | every 10 s: finish abandoned games, enqueue what is missing, act for an overdue bot | commands, queues, results |
| Bots (`src/game/bots`) | bot jobs | decide an intent for the bot that may act; enqueue its job | engine, queue |
| Realtime (`src/game/realtime`, `presence`) | sockets, presence keys | a player's commands, join, replay of missed events | commands, queues |
| Rooms (`src/rooms`) | `rooms`, `room_players`, spectators, waiting-room jobs | create, join, leave, spectate, invite, expire, start and its compensation | commands, timers, watchdog |
| Auth, OTP, users, admin (`src/auth`, `session`, `otp`, `users`, `admin`) | users, sessions, caches of sessions and token versions, one-time codes, a lock with a TTL | sign up, verify, log in, OAuth login, refresh, log out, reset, suspend, delete, restore, the guard | Redis, mail |
| Friends (`src/friends`) | friendships, a cached first page per user | send, accept, reject, cancel, remove, list | notifications |
| Notifications, outbox (`src/notifications`, `outbox`) | notifications, outbox events, publish jobs | create both in one transaction, claim, publish, mark, recover | queue, pub/sub |
| Leaderboards (`src/leaderboards`) | snapshots of ranks | refresh, notify the entries | notifications |
| Mail, storage, cache, rate limit, health, config | counters with a TTL, cache keys | I/O and wiring | |

`PROJECT.json` lists the same components with their sources and what is modelled
of each.

### 1.2 What is hard in it

* **Checks made too early.** A handler of the lobby reads the room, decides, and then opens
  its transactions; a room may start, close or empty in between. A login counts
  the sessions and inserts one in two statements, a refresh is let in by a cache.
* **Interleaving.** Any number of executions of `executeIntent` run for one game at
  once: sockets of several players, bot jobs, timer jobs, the expiry job, the watchdog,
  a player leaving the room. Nothing but the compare-and-set on the serialized state
  orders them, and everything after it (events, snapshot, results) is not ordered.
* **Loss and recovery.** The Redis key may vanish; whoever notices puts the latest
  snapshot back. Snapshots are written after the command, one per turn and type.
* **Partial failure.** Each step after the compare-and-set may fail or be cut off by
  a crash: no event, no snapshot, no result, no next job.
* **Time.** A timeout races the player's own command, a late expiry job meets a game
  that is already finished, a job is retried after it has done its work.
* **Progress.** A turn must end although nobody plays, whichever job was lost. The
  queue refuses a job whose id it remembers, even a completed one.
* **Two stores.** Session, token version and friend list exist in PostgreSQL and in Redis; a
  notification exists as a row, as an outbox event and as a job. Each pair is written
  by separate statements that may fail or be overtaken between them.
* **Long legal sequences.** Bankruptcy is allowed at any moment, in somebody else's
  auction, trade, debt or turn; buildings, mortgages and trades combine freely.

`PROJECT.json` lists these as hazards, each at the line where it bites, with the
properties that cover it or the reason why none does yet.

### 1.3 What makes each component correct

* Commands: no committed command is lost or applied twice; a finished game stays
  finished; every execution ends.
* Events: numbers without gap or duplicate, in the order of the commits.
* Recovery: replaces nothing that is in Redis.
* Results: applied once, complete, final.
* Engine: turn, phase and open records agree; somebody can always act; nobody is
  skipped; no sequence of trades and mortgages makes money; the intent a timeout
  issues is accepted.
* Timers, bots, watchdog: every turn ends, every game whose time is up is finished,
  a timeout meant for one state does not change another.
* Rooms: a user sits in one open room; whoever is seated in an active room plays its
  game; room and game open and close together; whoever leaves a running game
  forfeits it; no waiting room and no abandoned game stays for ever.
* Accounts: the limit of sessions holds; a refresh token is spent once; a revoked
  session stays revoked; suspension and deletion take every access token along.
* Friends and notifications: one friendship per pair, one announcement per acceptance, no
  stale list after an invalidation, every committed event published or known to be stuck.

## 2. Modules

```
EngineState <- EngineAssets <- EngineTurns <- GameEngine <- MCGameEngine
GameEngine, FiniteFacts <- GameEngine_proofs <- GameWealth_proofs
GameCommands <- GameCommands_proofs
GameCommands <- MCGameCommands
GameTimers   <- GameTimers_proofs
GameTimers   <- MCGameTimers
RoomLobby    <- RoomLobby_proofs       RoomLobby implements RoomLifecycle
RoomLobby    <- MCRoomLobby
Sessions     <- Sessions_proofs
Sessions     <- MCSessions
Outbox <- Social <- Social_proofs
Outbox <- Social <- MCSocial
```

The first three groups look at the same game at three depths. `GameEngine` has the rules
and one command at a time. `GameCommands` has the storage protocol and reduces the
rules to "the turn stays, advances, or the game ends". `GameTimers` has the scheduling
and uses what the other two establish: a command is one step (`GameCommands`), and
the phases follow one another as in `GameEngine`. `RoomLobby` stands above them: a game
is its roster, the seats still solvent and whether the engine has finished it.
`Social` composes its own requests with the publisher of `Outbox`: they share the notification,
event and job variables, and the steps of both interleave.

### 2.1 GameCommands

*State.* `live` is the Redis key, `None` when missing. `snapshots`, `eventRows`,
`gameStatus`, `result`, `ratings` and `statsCount` are the PostgreSQL rows of the game,
`eventLock` the advisory lock of `appendEvents`. `loc[p]` holds the control point
and the locals of the execution `p`: attempt number, `recovered` flag, state read,
state computed. A game state is its turn number, whether it is finished and the
set of executions whose effect it contains. That set makes two states with different
histories different, as their JSON texts are, and it is what the properties speak
about.

*Actions.* One per await. `ReadState`, `CasStored`, `CasChanged` and `CasMissing` are
`GameStateService.update`; `RecoverFind` and `RecoverRestore` are `recoverOrThrow` with
the SELECT and the unconditional SET apart; `LockEvents`, `ReadSequence`,
`InsertEvents` are the event transaction; `CreateSnapshot`; `FinalizeGame` is
`finalizeFinishedGame`: nothing for a state that is not finished, else one transaction of
`SaveFinishedGame` and `ApplyStats`. `JobGet` to `RepairDecide` are the expiry job
with its repair path. `AppendEventsFails`, `CreateSnapshotFails` (both swallowed
by the code), `FinalizeFails` (rethrown), `Crash`, `LoseLiveState` and `Expire` are the
environment. The kinds of commands differ in how the game may go on and with which
end reason it may end; `jail` stands for the two intents the engine accepts in a
finished game.

### 2.2 The engine

The engine's functions are operators from a state to a state, each with a predicate
that says when the function does not throw. `EngineState` has the record, derived
values (net worth, complete sets) and the money primitives; `EngineAssets` building,
mortgages, trades and the liquidation loop of `autoResolveDebt`; `EngineTurns` movement,
cards, jail, purchase, auction, debt, bankruptcy and the end of a turn. In
`GameEngine` the state is the single variable `game` and each intent of
`reduceGameEngineIntent` is an action.

Abstractions: players are seat numbers and tiles their rank on the board, so that
the code's sort orders are the order of numbers. A position is replaced by the set
of places where a roll may end (`Places`, `Rolls`), the order of a card pile by the set of cards
that may be drawn; both are choices a fair die and a shuffle can produce. Amounts
are small. The liquidation loop is a recursive function over the number of steps left.

### 2.3 GameTimers

*State.* `game` is the reduced state: phase, turn, whose turn, auction, doubles, open
offer, missed turns, and `key`, the name of the current deadline. `queue` is the set
of BullMQ jobs with status and number of tries; finished jobs stay, because their ids
do. `proc` says what each worker and the watchdog has decided and not yet executed.

*Actions.* `Claim`, `ReadBotJob`, `ReadTimerJob`, `ReadExpiryJob` are a worker up to its
decision; `ExecuteJob` and `RefuseJob` execute the intent on the state of that later
moment and schedule the next jobs; `Crash` stops a worker before its command or
between the command and the queue; the job is found stalled and runs again, or is
failed, which is what BullMQ does at the second stall (its default, `maxStalledCount` 1).
How often a job has stalled is not counted: both outcomes are open at every crash.
`PlayerCommand`, `JoinGame` and `LeaveRoom` are the clients, `Scan` and
`ExecuteOverdueBotAction` the watchdog. `Tick` passes the current deadline, `Expire` the
game's. Redis may refuse a queue operation (`lost`), which the code swallows.

Abstractions: a deadline is a name that is given anew where the code computes
a new `turnExpiresAt` or `bidExpiresAt`. The grace period of the watchdog is part of `Tick`.
Left out of the queue are jobs that cannot matter any more (`Matters`): timers of
an old deadline that no worker holds, and bot jobs that are over, since every add
removes those first. Not in this module: the branches of the watchdog that finalize
(they are in `RoomLobby`; `finalizeExpiredFinishedGame` is in `GameCommands`), and the loss
of the live state.

### 2.4 RoomLobby and RoomLifecycle

*State.* `room`, `host`, `seat`, `game` are the rows, `spectators` the sessions without
`left_at`; `engine` is the recoverable state of the room's game; `waitingJobs`, `turnJobs`,
`expiryJobs` the queued jobs; `aged` and `expired` say whose time has come; `lock` is
the advisory lock `active-room:<user>`; `req[p]` the control point and the locals of
a request or of the process that runs game commands, jobs and the watchdog.

*Actions.* Each transaction, each game command and each read outside a transaction is
a step. `Enter`, `LockMembership`, `CreateRoom` or `JoinRoom`, `ScheduleWaitingRoomExpiry` are
`createRoom` and `joinRoom`; `LeaveRoom` reads, then `HostLeaves`, or `LeaveTransaction` with
`LastHuman`, `AbandonGame`, `ForfeitRead`, `DeclareBankruptcy`, `FreeSeat`; `SpectateRoom`
and `CreateSpectator`, `EndSpectatorSession`; `StartRoom`, `SetupTurn`, `SetupExpiry`, `SetupFails`
and the compensation `CancelStartedGame`. `FinishByTime`, `FinalizeGame` and `FinalizeFails`
are the finalization of a game whose time is up, on the way of a create, join or
spectate and in the expiry job. `ExpireWaitingRoom` is a room's own job, `ExpireWaitingRooms` the
sweep. `GameCommand`, `RunExpiryJob`, `WatchdogFinalizes`, `WatchdogAbandons`, `WatchdogQueues`
are the game worker. `Abort` ends a request anywhere; its transaction rolls back and
its lock is released.

*Abstractions.* A room stands for itself and its one game. Room codes, listings and
settings are left out. The row lock of a room is held within one transaction, hence within
one step. A deleted live state is not distinguished from the snapshot that recovers it.

*RoomLifecycle* says what the lobby promises without requests, transactions or jobs:
a room opens with one user, is entered only while it waits, starts with somebody in
it, and closes once; a user is in at most one open room. The mapping takes finished
and cancelled rooms to "closed" (`Status`), and a user to the open room where the user
has a joined row (`Where`).

### 2.5 Sessions

*State.* One account: the `users` row, the `sessions` rows in the order of their creation,
the refresh tokens issued so far, the versions of the access tokens signed; in Redis
the cached sessions by token, the cached token version, the one-time codes and the lock
of `withLock`, whose TTL may run out under its holder (`lockLost`).

*Actions.* One per statement or Redis operation. `Login` and `OAuthLogin` lead through
`LockSessions`, `CountSessions`, `SelectOldest`, `InsertSession`, `EvictRevoked`, `StoreSession`,
`SetTokenVersion`, `SignAccessToken`; `Refresh` through `ReadUser`, `LockForRotation`, `RotateSession`, `DropRotated`
and the same end; `Logout`; `Signup`, `VerifyEmail`, `ForgotPassword`, `ResetPassword` with their codes;
`FindUserByUsername` and `UpdateUserStatus`, `FindDeletedUser` and `RestoreDeletedUser`, `DeleteMe`; `CanActivate`, `GuardReadsUser`,
`GuardSetsVersion` are the guard. `SessionExpires`, `KeyExpires`, `LockExpires` are time,
`Abort` an error or a crash at any point, with or without the release of the lock.
The operations of a `Promise.all` (`left`, `drop`) are steps in any order, and the request
goes on after the last one (`Settle`). The statements of a transaction are steps of their own
where another request's commit between them can be seen: the count, the choice of the oldest session
and the insertion of a login, the lookup and the update of an administrator. A suspension that finds
the account deleted since its lookup is refused, after it has revoked the sessions. The
update that revokes the oldest session commits with the insertion and is in that step.

*Abstractions.* Passwords, codes and hashes are compared correctly; a request that
fails such a comparison changes nothing and is not an action. Tokens are numbers,
given once. Other accounts share no state with this one.

### 2.6 Outbox and Social

`Outbox`: notification `n` and its event share a number. `ClaimById`, `PublishNotificationCreated`,
`MarkPublished`, `MarkFailed` are the publisher; `PublishFails`, `DatabaseFails`, `WorkerCrashes` its faults;
`RecoverEvent` is the recovery pass at the start of a worker for one event. A pass takes the
`RecoveryBatch` events that have been available longest; which they are is left open, and the fairness of
the pass says when an event is sure to be among them: unless the whole batch is taken by
events that no recovery can help (`Blocked`, their jobs are kept as failed). BullMQ is modelled from
how it is used: an id that exists is not added again, a failed job is kept, a job whose worker
stops is given to another worker once and failed the second time (`stalled`).

`Social`: `SendRequest` reads, `CreateFriendRequest` is the transaction with the unique pair;
`AcceptRequest` and `DeleteFriendship` (reject, cancel, remove) are conditional updates;
then `InvalidateFriendListCache` and `EnqueuePublishEvent`, each of which may never come.
`ListFriends`, `LookUpPage`, `LoadFriends`, `StorePage` are the cached first page. `getOrSet` looks up once
more under a lock of the page's key, and that is the look-up modelled; the lock itself is not, because it ends with
its ttl of ten seconds while a load may go on: any number of loads may run side by side in the
model, a superset of what the lock lets through. Requests of one process that join a load in flight get what a
look-up after its store gets.
`InviteToRoom` and the three statements of a leaderboard notification also feed the outbox.
Left out: deleted users, later pages, and the conditions an invite puts on the room.

## 3. Runs

| Run | Instance | Distinct states | Result |
|---|---|---|---|
| `commands` | Two executions of any kind, two losses of the key, one fault | 184,890 | holds |
| `commands_recovery` | One loss of the key, no fault | | violated |
| `engine_turns` | Three players, an airport, all card effects, five turns | 292,920 | holds |
| `engine_assets` | A human, a bot, a set of two properties | 346,708 | holds |
| `engine_timeout` | The instance of `engine_turns` | | violated |
| `timers` | A human and a bot, doubles, retries, a fault | 254,763 | holds |
| `timers_progress` | A turn of each, with an auction, a fault | 316,144 | holds |
| `timers_stale_job` | No fault | | violated |
| `rooms` | Two users, two rooms, two requests at once, four in all, a fault | 941,572 | holds |
| `rooms_progress` | One room of three seats, also begun in mid-game, a fault | 391,290 | holds |
| `sessions` | Two requests at once, four in all, a limit of one session | 737,330 | holds |
| `social` | Two users, two requests, a publisher, a fault, also begun with a delivery at its last attempt | 944,680 | holds |

### 3.1 The properties that hold

`commands`
* `LiveHoldsEveryCommit`: while Redis keeps the key, the live state has exactly the
  effects of the commands that were acknowledged by the compare-and-set.
* `LiveOnlyAdvances`: while Redis keeps the key, the turn never goes back and a finished
  game is not reopened.
* `EventSequenceDense`: sequence numbers are 1, 2, ... with writers that fail and crash.
* `StatsAppliedOnce`, `ResultIsComplete`: a game finalized by a command, by the expiry
  job and by its repair has its stats once, and never a result without them.
* `EveryExecutionEnds` (liveness): attempts, recovery and lock waits are bounded.

`engine_turns`
* `TurnHolderActive`, `NobodySkipped`: the turn belongs to a player still in the game
  and passes to the next such seat, through bankruptcies in any phase.
* `PhaseMatchesRecords`: the phase says which of pending tile, auction and debt is open.
* `AuctionOpen`: an open auction waits for somebody who has neither passed nor bid highest.
* `BankruptHoldNothing`: a bankrupt player has no tile and no card and is not in jail, whatever auction,
  trade or debt was open when it went bankrupt.
* `FreeCardsConserved`: a free card is in the deck or with one player.

`engine_assets`
* `NoMortgageBesideBuildings`: no set has both, also when a trade or a bankruptcy splits it.
* `NoMoneyPump`: total net worth grows only by a roll, an auction below the price
  or a bankruptcy.
* `BotsPayWhatTheyCan`: the liquidation loop bankrupts a bot only if all it may sell and
  mortgage does not cover the debt.

`timers`
* `TimerNotSpent`: the timer of the current deadline is never completed without effect.
  A completed id is refused by every later add, so such a turn could not time out any more.
* `MissedOncePerTurn`: doubles and retries do not count a turn as missed twice.

`timers_progress` (liveness)
* `TurnAdvances`: with players who do nothing, every turn ends.
* `ExpiryFinishes`: a game whose time is up is finished.

`rooms`
* `UserInOneRoom`: however many create and join requests of a user run at once.
* `SeatedArePlaying`: nobody slips into a room while it starts or after it.
* `RoomAndGameAgree`: neither expiry, nor a leaving host, nor a failed start closes one
  of the two rows without the other.
* `LeaversForfeit`: a player who has left a running game is bankrupt in it. The host is
  the exception: a host's leave chooses its branch before the start, and then
  gives up the seat of a game it remains a player of, until it misses its turns.
* `ImplementsLifecycle`: the refinement.

`rooms_progress` (liveness)
* `WaitingRoomsEnd`: without relying on the room's own expiry job, whose queueing is
  allowed to fail.
* `AbandonedGamesEnd`: two last humans who leave at once each count the other, so
  neither finishes the game; the watchdog does.

`sessions`
* `SessionLimit`: with the lock held, count and insert are one step to the others. After
  the lock's TTL has run out under a login the limit is not promised (`lockLost`).
* `TokenSpentOnce`: by the conditional update, not by the lock: it holds whatever becomes of the lock.
* `RevokedStaysRevoked`: cached entries outlive sessions, and the row is what counts.
* `TokensDieWithAccount`: every suspension, deletion and restoration raises the version, so no token
  signed before, nor one about to be signed, is good afterwards.

`social`
* `OneFriendshipPerPair`, `AcceptedAnnouncedOnce`: when two users ask each other at once, and when
  accepts meet cancellations and new requests.
* `PageCurrent`: the page the next reader gets is current or about to be invalidated. The
  first invalidation is the exception: a missing version key is read as 1 and
  the first INCR makes it 1.
* `DeliveredOrStuck` (liveness): an event whose request stopped before it was enqueued,
  or whose publishing failed, is published after the next start of a worker, unless
  it is in one of four dead ends: out of attempts, left in "processing" by a
  worker that died (the recovery searches only queued and failed events), with
  its job kept as failed under the id a new job would have, or never queued while events of the
  third kind fill the whole batch of the recovery. The second start, a delivery that has
  stalled before and is at its last attempt, lets one fault reach each of them.

Most passing runs also check a type invariant. For each property, `PROJECT.json` names a
mutant: a definition of the module that changes one mapped definition as a plausible
mistake in the code would, and with which TLC finds the property violated.

### 3.2 What the violated runs show

Each states a sentence of the repository; TLC's trace is a behaviour of the code.

1. `RestoreOnlyWhenMissing` (`commands_recovery`). Two executions find the key missing; one restores and
   commits; the other restores over it.
2. `TimeoutAccepted` (`engine_timeout`). The highest bidder of an auction goes bankrupt (leaves the
   room): the pass that would complete the auction is refused for lack of funds, and a
   pass is all the timeout can do; the auction stays open until another player outbids
   or the game expires. In the same way, when the creditor of an unpayable debt goes bankrupt,
   resolving the debt and declaring bankruptcy are both refused.
3. `StaleTimeoutHarmless` (`timers_stale_job`). The staleness guard is evaluated on a read before
   `executeIntent`; a player who acts in between, and stays in the phase, is rolled for
   although a fresh deadline was given.

Four smaller disagreements are visible in the models and have no run of their own:

* ARCHITECTURE.md:122 calls the stored events ordered. The compare-and-set and the append are separate
  (`game-commands.service.ts:551`), so of two commands the later may append first; the
  numbers are dense all the same (`EventSequenceDense`).
* ARCHITECTURE.md:73 calls the results finalized. The delayed expiry job stays in the queue when a game ends by
  bankruptcy, finds it finished (`game.processor.ts:274`) and upserts the result with
  `time_elapsed`; the stats are not applied again (`StatsAppliedOnce`).
* `game-turn-timer-policy.service.spec.ts:224` speaks of three missed turns.
  `>= maxConsecutiveMissedTurns - 1` (`game-turn-timer-policy.service.ts:121`) is right for the first
  timeout of a turn only; a later phase of the second missed turn already forfeits.
* ARCHITECTURE.md:60 has one leaderboard notification per user and bucket. It is searched,
  inserted and given its event in three statements (`notifications.service.ts:126`): the
  scheduled refresh and the one after a game may both insert one, and a refresh that stops
  before the event leaves a notification that is never pushed and that later ones take for done.

### 3.3 Bounds, and why they are enough

* `commands`: two executions and `MaxAttempts = 2` make every race between two read-write
  pairs and every exhaustion of the retries; two losses allow a loss during a recovery
  and one after it; one fault, at each step. `MaxTurn = 2` gives snapshots of the same
  and of different turns. The proofs remove these bounds from the safety properties.
* `engine_turns`: three players are needed for a bankrupt player between two others and
  for a third bidder; one tile makes one auction and one rent at a time, as in the
  code. Five turns include the two jail turns of `MaxJailTurns` and a wrap-around.
  `MaxCash` caps what is collected. The proofs are for all players, boards, amounts and bounds.
* `engine_assets`: two tiles are the smallest set with an even-building rule; `MaxHouses = 1`
  makes a hotel the second building. Two turns let each player roll once and manage
  in every phase of both turns. The proofs are for every board.
* `timers`: one worker and the watchdog are two concurrent processes, the players a third
  and fourth. `MaxExtra` bounds commands that keep the phase, which cash bounds in the
  game; `MaxBacklog` makes the others wait for the worker while a bot job is waiting;
  `MaxFaults = 1` is one lost set of queue operations or one crash, anywhere. The proofs of
  the safety properties allow any number of workers, commands and faults.
* `timers_progress` has two players. With three or more, finding 2 makes
  `TurnAdvances` false: the turn of a bankrupt highest bidder's auction ends with the game.

* `rooms`: two requests at once are every pair of handlers; four in all are two creates or
  a create, a join, a start and a leave, in any order and overlap. One fault fails
  a setup, a finalization or any request. Two seats make a full ranked table; with
  `MinRanked = 2` a lone host starts with a bot. Spectators do not touch the rows the properties
  speak of and are explored in `rooms_progress`.
* `rooms_progress` also begins in the middle of a game with two humans and a bot, so that
  its requests are left for the humans to leave. Requests are bounded, which does
  not help the liveness properties: no request is needed for them.
* `sessions`: a limit of one makes every second login evict; two requests at once are
  every pair of handlers, four in all are a sign-up or OAuth login and what three
  more requests do to the account. The proofs remove the bounds.
* `social`: two users are the pair of a friendship; the initial states are strangers without list
  versions and a pending request after earlier changes, its notification delivered or on its last attempt. So
  two requests meet everywhere. `RecoveryBatch = 1` (100 in the code) is a batch that one blocked
  event fills. The proofs of the safety properties remove the bounds.

Deadlock checking is off in every run, because every bounded behaviour ends: the executions
are over, the game is finished or the turn bound is reached. Liveness is what shows
that nothing stops before that.

### 3.4 Fairness

* `GameCommands`: weak fairness of each execution's own steps. A Node.js process that
  lives runs its pending continuations, and PostgreSQL grants a free lock. None for
  the start of a command, faults, losses and expiry.
* `GameTimers`: weak fairness of `Tick` (time passes), of each worker (BullMQ workers poll) and of the
  watchdog (an interval timer whose errors are caught). None for players, faults and
  `Expire`. A job that throws is retried `Attempts` times only.
* `RoomLobby`: weak fairness of each request's and the worker's next step, of the watchdog's
  finalization and abandonment of each game (an interval timer), of the hour that passes for a waiting
  room and of the hourly sweep (a repeated job). None for requests, faults,
  a room's own expiry job, the end of a game's time and the game commands.
* `Outbox`: weak fairness of the workers, of a retry's delay and of the recovery of an available
  event, as long as blocked events leave it a place in the batch: the others ahead of it are served or get a later
  `available_at`. The code recovers at the start of a worker, so this assumes that workers are
  started again and again, as deployments do.
* `GameEngine` and `Sessions` state safety only.

## 4. Proofs

Thirty-four theorems in seven modules: all the safety properties of the passing runs, the action
properties among them, and the refinement. Each holds for every value of the constants, under the
assumptions named in the modules that declare them: bounds are natural numbers (positive where zero
would mean nothing), `None`, the bot and the worker differ from the values they stand beside, and a
board has natural numbers for prices, rents, costs and mortgages.

### 4.1 GameCommands_proofs

| Theorem | States |
|---|---|
| `TypeCorrect` | `Spec => []TypeOK` |
| `NoLostUpdate` | `Spec => []LiveHoldsEveryCommit` |
| `LiveAdvances` | `Spec => LiveOnlyAdvances` |
| `DenseEventLog` | `Spec => []EventSequenceDense` |
| `StatsOnce` | `Spec => []StatsAppliedOnce` |
| `CompleteResults` | `Spec => []ResultIsComplete` |

The argument has four inductive invariants.

* `Typed` adds to `TypeOK` that the two tables are finite: the creation stamp of a snapshot
  and the next sequence number are taken from a cardinality.
* `Serial` is `LiveHoldsEveryCommit` with two facts without which it is not inductive.
  `UpdaterExtends`: between GET and compare-and-set the computed state is the state
  read plus the command's own effect, so if the comparison succeeds the stored state is
  the live one plus that effect. `NoEarlyRecovery`: as long as nothing was lost, nobody
  is on a path that ends in an unconditional SET. The second one is where finding 1
  enters: after a loss it fails, and so does the property.
  `LiveOnlyAdvances` follows from `Serial` step by step.
* `LogInv` is `EventSequenceDense` with `Numbering`: the execution that is between reading and
  inserting its number holds the lock, and its number is one more than the count of rows.
* `Finalization`: only finished states reach `FinalizeGame`; rating rows exist exactly when
  stats were applied, once; a persisted result has them.

Lemmas about operators (`OutcomeFacts`, `UpsertFacts`) and about what a step of an
execution does to its own and to the others' locals (`StepLocals`, `StepControl`) are
stated once and cited per action.

### 4.2 RoomLobby_proofs

| Theorem | States |
|---|---|
| `TypeCorrect` | `Spec => []TypeOK` |
| `RoomsAgree` | `Spec => []RoomAndGameAgree` |
| `SeatedPlay` | `Spec => []SeatedArePlaying` |
| `OneRoomPerUser` | `Spec => []UserInOneRoom` |
| `Forfeits` | `Spec => []LeaversForfeit` |
| `Refinement` | `Spec => ImplementsLifecycle` |

* `Typed` adds to `TypeOK` what a process carries at each control point (`Carries`): only users'
  requests take the membership lock, and whoever acts on a game has one.
* `RowsStep` and `EngineStep` classify the steps by what they do to the rows and to the engines; the
  invariants are then proved by these few cases. `RoomAndGameAgree` and `SeatedArePlaying` are
  inductive together with `Typed`.
* `LobbyInv` makes `UserInOneRoom` inductive. `Inserting`: whoever is about to insert a membership holds
  the user's lock, and the user still has no open room. It survives because the lock is
  taken only when free and given back by its holder (`LockStep`), because only a
  holder seats anybody (`MembershipStep`), and because the lock is the only way to
  the insertion (`InsertStep`). `Fresh` and `GamesExist`: rooms that are not yet created have no seats, game or jobs,
  and nobody acts on their games; without them a creation could find somebody seated,
  and a finalization could close a room that was never opened.
* `Leavers` makes `LeaversForfeit` inductive. A leave that found a game frees the seat only when its user is
  `Gone`: the room is no longer active, the engine has finished the game, or none of the user's seats is
  solvent. That is so because the step before declares the bankruptcy or sees that there
  is nothing to declare, and because none of the three is ever undone while the leave is on its way.
  `PastStart`: such a leave never acts on a room that waits.
* The refinement maps `CreateRoom` to `Open`, `JoinRoom` to `Enter`, a vacated seat to `Leave`,
  `StartRoom` to `Start`, and the leaving host, finalization, compensation and both expiries to `Close`
  of the rooms they close; every other step, and each of these when it changes
  nothing visible, is a stutter. `UserInOneRoom` is what makes `Where` a function of the rows (`WhereFacts`).

### 4.3 Sessions_proofs

| Theorem | States |
|---|---|
| `TypeCorrect` | `Spec => []TypeOK` |
| `RevokedForGood` | `Spec => RevokedStaysRevoked` |
| `RefreshSpendsOnce` | `Spec => []TokenSpentOnce` |
| `TokensDie` | `Spec => []TokensDieWithAccount` |
| `LimitKept` | `Spec => []SessionLimit` |

* `Typed` adds what a request carries, and that a session that exists has a token.
* `TokenInv`: a token a request presents was issued, and once a refresh has rotated its session
  no session has the old token any more; the row update compares the
  token, so a second refresh fails there.
* `VersionInv`: nobody holds a version beyond the account's, and who holds the current one read
  it from an account in order, which it still is.
* `LimitInv`: while the lock was never lost, whoever is in the locked section holds it, and a login
  about to insert has left room for its session.

### 4.4 Social_proofs

| Theorem | States |
|---|---|
| `TypeCorrect` | `Spec => []TypeOK` |
| `OneRowPerPair` | `Spec => []OneFriendshipPerPair` |
| `AnnouncedExactlyOnce` | `Spec => []AcceptedAnnouncedOnce` |
| `PagesCurrent` | `Spec => []PageCurrent` |

* `Typed` adds `JobsHeld` and what a request carries. `JobsHeld`: a busy worker has an active job that no other worker has;
  two workers on one job could count its attempts past the limit.
* `Indexed`: ids and pairs are unique, and an id is at most the number of friendships created so far.
* `Announced`: a pending friendship was never announced, an accepted one was, none twice, and none before it
  existed. The last part is needed because friendships are deleted and requested again: a new row has
  a new id, and no old announcement is about it.
* `PagesInv`: a cached page, and the rows a reader is about to cache, are `Trusted`: of an old version, current, or of a
  user whose invalidation is still to come (or was missed), or under the version that the first
  invalidation leaves as it is. No page and no reader has a version above the counter; else an
  increment could bring an old page back.

### 4.5 GameTimers_proofs

| Theorem | States |
|---|---|
| `TypeCorrect` | `Spec => []TypeOK` |
| `TimerAvailable` | `Spec => []TimerNotSpent` |
| `MissedTurns` | `Spec => []MissedOncePerTurn` |

The inductive invariant `Inv` has these parts.

* `Sound`: an auction has a bidder, and the turn of an unfinished game is with a player who is not
  bankrupt. `Counted`: a player has missed at most as many turns as the number of the last turn it
  missed, which is not in the future.
* `QueueOK`: ids are unique, and a job that waits or runs has attempts left. This makes a crash
  or a refusal put a job back instead of completing it without effect.
* `TimersOK`: a timer that no worker holds is one of the current deadline; while the game goes on the timer
  of the current deadline is not completed, and if it is active, the deadline has passed.
* `ProcsOK`: whatever a worker decided on the ground of a timer job is one of the intents of the
  timeout policy (`Decided`). With `Sound` this gives the core of `TimerAvailable`: a
  timer's decision on the deadline it was queued for either is refused, and the job is tried again, or gives
  the game a new deadline (`Moves`), so that the completed id is not one that a later turn needs.

`TypeOK` bounds neither the turn number nor the number of missed turns: with several workers that hold stale
jobs at once, the last commands may each still count, so no bound that follows from the
constants of one worker holds for all.

### 4.6 GameEngine_proofs

| Theorem | States |
|---|---|
| `TypeCorrect` | `Spec => []TypeOK` |
| `TurnHolder` | `Spec => []TurnHolderActive` |
| `PhasesAgree` | `Spec => []PhaseMatchesRecords` |
| `AuctionsOpen` | `Spec => []AuctionOpen` |
| `BankruptsHoldNothing` | `Spec => []BankruptHoldNothing` |
| `CardsConserved` | `Spec => []FreeCardsConserved` |
| `NoMixedSets` | `Spec => []NoMortgageBesideBuildings` |
| `TurnOrder` | `Spec => NobodySkipped` |

`Soundness` shows that the engine never leaves the sound states, and each theorem follows from one part of
`Sound`. Every function of the engine has a lemma with its name and "Facts": it takes a
sound state to a sound state, and leaves alone what it leaves alone (`SameTurn`, `Paid`, `Managed`,
`Recounted`). The lemmas follow the calls of the code from `Debit` up to `RollAndMove` and `AutoResolve`.

`Sound` has, besides the properties, what they need.

* `Penniless`: a bidder who has gone bankrupt in an auction has no cash. Without it a bankrupt
  player could win the auction and own a tile again.
* The turn to bid (`Bidding`) is with the first bidder left after the highest one. Without it a pass
  could hand the turn to the holder of the highest bid. `SeatAfterSkip` is the fact about seats behind it.
* Nobody owes itself (`Records`): a player's own estate never goes to that player at its bankruptcy.
* `Placed` says of pairs of players what `FreeCardsConserved` says by counting.
* `Bare`: a tile of the bank has no building and no mortgage.

`TurnOrder` uses `Passed`, which the lemmas about the end of a turn and of a player conclude beside soundness.

`FiniteFacts` has the induction: what holds of 0 and is passed on holds of all numbers, by a least
counterexample, stated for sets instead of predicates so that it can be cited. With it come the facts about `Min`
and `Max`, about the sums of `SumFunctionOnSet` (of which the prover knows only the
recursive definition), and the states of the loop of `autoResolveDebt` (`Raised`).

### 4.7 GameWealth_proofs

| Theorem | States |
|---|---|
| `NoPump` | `Spec => NoMoneyPump` |
| `BotsPay` | `Spec => BotsPayWhatTheyCan` |

* `WealthSplit`: the total net worth is the cash of all players plus the worth of all tiles that have an owner.
  Every function then has a lemma on what it adds: a payment to the bank takes, a transfer, a purchase, a sale
  of buildings, a mortgage and a trade change nothing, building and redeeming cost at least
  what they add. A purchase is neutral only because of `Bare`: a tile that came with buildings
  would be worth more than its price. Rolls, the last bid of an auction and bankruptcies are
  the steps `NoMoneyPump` allows.
* For `BotsPay`, one iteration of the liquidation loop leaves `Raisable` as it is: a building is sold for its
  value and changes no tile outside the debtor's; a mortgaged tile was one that counted. Each iteration that is
  not `Spent` uses up one of at most `(Hotel + 1) * Cardinality(Tiles)` buildings and mortgages (`LeftOver`),
  so the loop ends spent. A debtor who is then bankrupted has nothing to sell or to mortgage, and what it could raise
  is its cash, which is less than the debt.

### 4.8 Only model-checked

The liveness properties: `EveryExecutionEnds`, `TurnAdvances`, `ExpiryFinishes`, `WaitingRoomsEnd`,
`AbandonedGamesEnd` and `DeliveredOrStuck`. They hold under fairness, about which the prover cannot reason.
The three violated properties have no theorem, of course.

## 5. Not modelled

* Mail, object storage, health, configuration, logging, metrics: I/O without state of
  their own.
* The valuations by which a bot buys, bids and trades: a bot may take any of its options.
* The arithmetic of ratings and placements, and the ranking query of the leaderboards.
* Sockets, presence and the replay of missed events in the gateway: it delivers what
  the database and Redis hold, and no state of a game depends on it.
* Avatars and their clean-up jobs, profile updates, read flags, paging, the server-sent events: single
  statements, or I/O whose failure leaves an orphaned object.
* The OAuth state parameter and the exchange with the providers; rate limits (one atomic
  script each).

## 6. Plan

Done: `GameCommands`, the engine, `GameTimers`, `RoomLobby` with `RoomLifecycle`, `Sessions`, `Outbox` and
`Social`; proofs of all their safety properties. Next, in this order:

1. `TurnFlow`, an abstract specification of turns and phases that `GameEngine` and
   the reduced engine of `GameTimers` both refine, so that the reduction is checked and proved.
2. The composition of `GameCommands` and `GameTimers`: a snapshot restored with a deadline
   whose timer job is already completed.
3. The parts of the liveness arguments that are safety: the bounds on the attempts and the lock waits
   of an execution, and that a finished game stays finished for every process.
