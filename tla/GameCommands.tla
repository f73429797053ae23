--------------------------- MODULE GameCommands ---------------------------
(***************************************************************************)
(* The command pipeline of one game: concurrent executions of              *)
(* GameCommandsService.executeIntent (player commands, bot and timer jobs, *)
(* the expiry job) against the live state in Redis, the snapshot table,    *)
(* the event log and the result tables in PostgreSQL.                      *)
(*                                                                         *)
(* Every await of the code is a step boundary.  A game state is abstracted *)
(* to its turn number, whether it is finished, and the set of commands     *)
(* whose effect it contains: two states with different histories differ,   *)
(* as the serialized states that the compare-and-set script compares do.   *)
(***************************************************************************)
EXTENDS Naturals, FiniteSets

CONSTANTS
    Procs,        \* executions of executeIntent or of the expiry job
    MaxAttempts,  \* GAME_STATE.updateMaxAttempts
    MaxTurn,      \* bound on turn numbers
    MaxLosses,    \* bound on losses of the Redis key
    MaxFaults,    \* bound on failed writes and process crashes
    None          \* null

ASSUME AttemptsAssumption == MaxAttempts \in Nat \ {0}
ASSUME TurnAssumption == MaxTurn \in Nat \ {0}
ASSUME LossAssumption == MaxLosses \in Nat
ASSUME FaultAssumption == MaxFaults \in Nat

VARIABLES
    live,       \* the Redis key of the game: a state or None
    expired,    \* Date.now() >= state.expiresAt
    snapshots,  \* rows of game_snapshots
    eventRows,  \* rows of game_events
    eventLock,  \* holder of pg_advisory_xact_lock(hashtext(gameId))
    gameStatus, \* games.status (and rooms.status)
    result,     \* room_results.end_reason, or None when there is no row
    ratings,    \* rating_history rows of the room exist
    statsCount, \* how often updatePlayerStats ran for this room
    loc,        \* the control point and local variables of each execution
    committed,  \* ghost: executions whose compare-and-set succeeded
    losses,     \* losses of the Redis key so far
    faults      \* failed writes and crashes so far

log      == <<eventRows, eventLock>>
database == <<snapshots, gameStatus, result, ratings, statsCount>>
ghost    == <<committed, losses>>
vars     == <<live, expired, log, database, loc, ghost, faults>>

---------------------------------------------------------------------------
(* Types *)

Kinds == {"play", "bankruptcy", "abandon", "jail", "expiry"}
EndReasons == {"bankruptcy", "time_elapsed", "abandoned", "cancelled"}
GameState == [turn : 1..MaxTurn, finished : BOOLEAN, applied : SUBSET Procs]
SnapshotRow == [type : {"start", "turn", "final"}, turn : 1..MaxTurn,
                at : Nat, state : GameState]

ASSUME NoneAssumption == None \notin GameState \cup Procs \cup EndReasons

(* An event row carries its sequence number, the command that caused it    *)
(* and (ghost) the history of the state that command produced.             *)
EventRow == [seq : Nat, by : Procs, applied : SUBSET Procs]

Terminal == {"done", "failed", "crashed"}
PCs == {"idle", "jobGet", "jobFind", "jobRestore", "jobDecide",
        "read", "cas", "find", "restore",
        "lockEvents", "sequence", "insert", "snapshot", "finalize",
        "repairGet", "repairFind", "repairRestore", "repairDecide"} \cup Terminal

(* Locals: the intent's kind, the attempt of GameStateService.update, the  *)
(* recovered flag of executeIntentWithRecovery, the state read, the state  *)
(* and end reason the updater computed, the next sequence number.          *)
Locals == [pc : PCs, kind : Kinds, attempt : 1..MaxAttempts, recovered : BOOLEAN,
           seen : GameState, next : GameState, reason : EndReasons, seq : Nat]

InitialState == [turn |-> 1, finished |-> FALSE, applied |-> {}]

(* Locals of an execution that has not started, or that is over.           *)
Unused == [pc |-> "idle", kind |-> "play", attempt |-> 1, recovered |-> FALSE,
           seen |-> InitialState, next |-> InitialState,
           reason |-> "cancelled", seq |-> 0]

TypeOK ==
    /\ live \in GameState \cup {None}
    /\ expired \in BOOLEAN
    /\ snapshots \subseteq SnapshotRow
    /\ eventRows \subseteq EventRow
    /\ eventLock \in Procs \cup {None}
    /\ gameStatus \in {"active", "finished"}
    /\ result \in EndReasons \cup {None}
    /\ ratings \in BOOLEAN
    /\ statsCount \in Nat
    /\ loc \in [Procs -> Locals]
    /\ committed \subseteq Procs
    /\ losses \in 0..MaxLosses
    /\ faults \in 0..MaxFaults

---------------------------------------------------------------------------
(* RoomsGameService.startRoom has committed the game row and its start     *)
(* snapshot and has put the initial state into Redis.                      *)

Init ==
    /\ live = InitialState
    /\ expired = FALSE
    /\ snapshots = {[type |-> "start", turn |-> 1, at |-> 0, state |-> InitialState]}
    /\ eventRows = {}
    /\ eventLock = None
    /\ gameStatus = "active"
    /\ result = None
    /\ ratings = FALSE
    /\ statsCount = 0
    /\ loc = [p \in Procs |-> Unused]
    /\ committed = {}
    /\ losses = 0
    /\ faults = 0

---------------------------------------------------------------------------
(* The updater: getEffectiveIntentForCurrentTime, then                     *)
(* reduceGameEngineIntent.  An outcome is the next state with the end      *)
(* reason its events carry; an engine error is the absence of an outcome.  *)
(* The jail intents are the ones the engine accepts in a finished game.    *)

Outcome(s, t, fin, why, p) ==
    [state |-> [turn |-> t, finished |-> fin, applied |-> s.applied \cup {p}],
     reason |-> why]

Outcomes(s, k, p) ==
    LET later == {t \in {s.turn, s.turn + 1} : t <= MaxTurn}
        goesOn == {Outcome(s, t, FALSE, "cancelled", p) : t \in later}
        byTime == {Outcome(s, s.turn, TRUE, "time_elapsed", p)}
    IN  IF s.finished
        THEN IF k = "jail" THEN {Outcome(s, s.turn, TRUE, "cancelled", p)} ELSE {}
        ELSE IF expired THEN byTime
        ELSE CASE k = "play"       -> goesOn
               [] k = "bankruptcy" -> goesOn \cup {Outcome(s, s.turn, TRUE, "bankruptcy", p)}
               [] k = "abandon"    -> {Outcome(s, s.turn, TRUE, "abandoned", p)}
               [] k = "jail"       -> {Outcome(s, s.turn, FALSE, "cancelled", p)}
               [] k = "expiry"     -> {}

(* Engine errors: any intent in a finished game (a jail intent unless the  *)
(* current player is jailed); in an active one the phase, player and funds *)
(* checks, and GAME_NOT_EXPIRED.  finish_game_after_last_human_left and,   *)
(* once due, finish_game_by_time succeed in every active state.            *)
Rejects(s, k) == s.finished \/ (~expired /\ k # "abandon")

---------------------------------------------------------------------------
(* Snapshot table *)

(* GameSnapshotRepository.create: insert, or update the state of the row   *)
(* with the same type and turn number, whose created_at stays.             *)
SameKey(r, type, s) == r.type = type /\ r.turn = s.turn

Upsert(rows, type, s) ==
    IF \E r \in rows : SameKey(r, type, s)
    THEN {IF SameKey(r, type, s) THEN [r EXCEPT !.state = s] ELSE r : r \in rows}
    ELSE rows \cup {[type |-> type, turn |-> s.turn,
                     at |-> Cardinality(rows), state |-> s]}

(* findLatestByGameId: ORDER BY turn_number DESC, created_at DESC.         *)
IsLatest(r, rows) ==
    /\ r \in rows
    /\ \A q \in rows : q.turn < r.turn \/ (q.turn = r.turn /\ q.at <= r.at)

---------------------------------------------------------------------------
(* Control of one execution *)

At(p, where)   == loc[p].pc = where
Become(p, r)   == loc' = [loc EXCEPT ![p] = r]
Goto(p, where) == Become(p, [loc[p] EXCEPT !.pc = where])
End(p, where)  == Become(p, [Unused EXCEPT !.pc = where])

Invoke(p, k) ==
    /\ At(p, "idle")
    /\ Become(p, [loc[p] EXCEPT !.kind = k,
                                !.pc = IF k = "expiry" THEN "jobGet" ELSE "read"])
    /\ UNCHANGED <<live, expired, log, database, ghost, faults>>

---------------------------------------------------------------------------
(* GameStateService.update *)

(* Mutant: the recovered flag is ignored and update is retried for ever.   *)
StateMissingRetries(p) == Goto(p, "read")

(* NotFoundException: recover once, then give up.                          *)
StateMissing(p) == IF loc[p].recovered THEN End(p, "failed") ELSE Goto(p, "find")

(* GET and updater, without an await between them.                         *)
ReadState(p) ==
    /\ At(p, "read")
    /\ live # None
    /\ \E o \in Outcomes(live, loc[p].kind, p) :
          Become(p, [loc[p] EXCEPT !.pc = "cas", !.seen = live,
                                     !.next = o.state, !.reason = o.reason])
    /\ UNCHANGED <<live, expired, log, database, ghost, faults>>

(* A GAME_NOT_ACTIVE error sends the expiry job to its repair path.        *)
ReadRejected(p) ==
    /\ At(p, "read")
    /\ live # None
    /\ Rejects(live, loc[p].kind)
    /\ IF loc[p].kind = "expiry" /\ live.finished
       THEN Goto(p, "repairGet")
       ELSE End(p, "failed")
    /\ UNCHANGED <<live, expired, log, database, ghost, faults>>

ReadMissing(p) ==
    /\ At(p, "read")
    /\ live = None
    /\ StateMissing(p)
    /\ UNCHANGED <<live, expired, log, database, ghost, faults>>

(* Mutants: a plain SET; a comparison of the turn numbers only.            *)
CasMatchesAlways(p) == TRUE
CasMatchesTurn(p) == live.turn = loc[p].seen.turn

(* COMPARE_AND_SET_STATE_SCRIPT: -1 missing, 0 changed, 1 stored.          *)
CasMatches(p) == live = loc[p].seen

CasStored(p) ==
    /\ At(p, "cas")
    /\ live # None
    /\ CasMatches(p)
    /\ live' = loc[p].next
    /\ committed' = committed \cup {p}
    /\ Become(p, [Unused EXCEPT !.pc = "lockEvents", !.next = loc[p].next,
                                !.reason = loc[p].reason])
    /\ UNCHANGED <<expired, log, database, losses, faults>>

CasChanged(p) ==
    /\ At(p, "cas")
    /\ live # None
    /\ ~CasMatches(p)
    /\ IF loc[p].attempt < MaxAttempts
       THEN Become(p, [loc[p] EXCEPT !.attempt = @ + 1, !.pc = "read"])
       ELSE End(p, "failed")
    /\ UNCHANGED <<live, expired, log, database, ghost, faults>>

CasMissing(p) ==
    /\ At(p, "cas")
    /\ live = None
    /\ StateMissing(p)
    /\ UNCHANGED <<live, expired, log, database, ghost, faults>>

---------------------------------------------------------------------------
(* GameSnapshotService.restoreLatestSnapshot: SELECT, then an              *)
(* unconditional SET.  Used by recoverOrThrow and getOrRecover.            *)

FindSnapshot(p, from, to) ==
    /\ At(p, from)
    /\ \E r \in snapshots :
          /\ IsLatest(r, snapshots)
          /\ Become(p, [loc[p] EXCEPT !.seen = r.state, !.pc = to])
    /\ UNCHANGED <<live, expired, log, database, ghost, faults>>

SetLive(p, from) ==
    /\ At(p, from)
    /\ live' = loc[p].seen
    /\ UNCHANGED <<expired, log, database, ghost, faults>>

(* Mutant: the recovery counts as one more attempt of the same update.     *)
RecoverRestoreCounts(p) ==
    /\ SetLive(p, "restore")
    /\ Become(p, [loc[p] EXCEPT !.recovered = TRUE, !.attempt = @ + 1, !.pc = "read"])

(* recoverOrThrow inside executeIntentWithRecovery: the retry starts a new *)
(* update with recovered = true.                                           *)
RecoverFind(p) == FindSnapshot(p, "find", "restore")

RecoverRestore(p) ==
    /\ SetLive(p, "restore")
    /\ Become(p, [loc[p] EXCEPT !.recovered = TRUE, !.attempt = 1, !.pc = "read"])

---------------------------------------------------------------------------
(* GameEventsRepository.appendEvents: one transaction under the advisory   *)
(* lock of the game; a failure is swallowed by appendEventsAfterCommand.   *)

(* Mutant: no advisory lock is taken.                                      *)
LockEventsNot(p) ==
    /\ At(p, "lockEvents")
    /\ Goto(p, "sequence")
    /\ UNCHANGED <<live, expired, log, database, ghost, faults>>

LockEvents(p) ==
    /\ At(p, "lockEvents")
    /\ eventLock = None
    /\ eventLock' = p
    /\ Goto(p, "sequence")
    /\ UNCHANGED <<live, expired, eventRows, database, ghost, faults>>

(* getNextSequence: max(sequence) + 1.                                     *)
IsNextSequence(n) ==
    /\ \A r \in eventRows : r.seq < n
    /\ n = 1 \/ \E r \in eventRows : r.seq = n - 1

ReadSequence(p) ==
    /\ At(p, "sequence")
    /\ \E n \in 1..Cardinality(eventRows) + 1 :
          /\ IsNextSequence(n)
          /\ Become(p, [loc[p] EXCEPT !.seq = n, !.pc = "insert"])
    /\ UNCHANGED <<live, expired, log, database, ghost, faults>>

InsertEvents(p) ==
    /\ At(p, "insert")
    /\ eventRows' = eventRows \cup
          {[seq |-> loc[p].seq, by |-> p, applied |-> loc[p].next.applied]}
    /\ eventLock' = None
    /\ Become(p, [loc[p] EXCEPT !.seq = 0, !.pc = "snapshot"])
    /\ UNCHANGED <<live, expired, database, ghost, faults>>

ReleaseLock(p) == eventLock' = IF eventLock = p THEN None ELSE eventLock

AppendEventsFails(p) ==
    /\ loc[p].pc \in {"lockEvents", "sequence", "insert"}
    /\ faults < MaxFaults
    /\ faults' = faults + 1
    /\ ReleaseLock(p)
    /\ Become(p, [loc[p] EXCEPT !.seq = 0, !.pc = "snapshot"])
    /\ UNCHANGED <<live, expired, eventRows, database, ghost>>

---------------------------------------------------------------------------
(* createSnapshotAfterCommand (everyNTurns = 1); a failure is swallowed.   *)

SnapshotType(s) == IF s.finished THEN "final" ELSE "turn"

AfterSnapshot(p) ==
    IF loc[p].next.finished THEN Goto(p, "finalize") ELSE End(p, "done")

CreateSnapshot(p) ==
    /\ At(p, "snapshot")
    /\ snapshots' = Upsert(snapshots, SnapshotType(loc[p].next), loc[p].next)
    /\ AfterSnapshot(p)
    /\ UNCHANGED <<live, expired, log, gameStatus, result, ratings, statsCount,
                   ghost, faults>>

CreateSnapshotFails(p) ==
    /\ At(p, "snapshot")
    /\ faults < MaxFaults
    /\ faults' = faults + 1
    /\ AfterSnapshot(p)
    /\ UNCHANGED <<live, expired, log, database, ghost>>

---------------------------------------------------------------------------
(* GameResultsService.finalizeFinishedGame: returns at once for a state    *)
(* that is not finished; otherwise one transaction writes the final        *)
(* snapshot, the game and room rows and the result (an upsert), and        *)
(* applies the stats only if the rating_history row is new.  Two           *)
(* finalizations are serialized by the row locks of their first writes.    *)

SaveFinishedGame(p) ==
    /\ snapshots' = Upsert(snapshots, "final", loc[p].next)
    /\ gameStatus' = "finished"
    /\ result' = loc[p].reason

(* Mutant: stats applied although the rating_history row was there.        *)
ApplyStatsAgain ==
    /\ ratings' = TRUE
    /\ statsCount' = statsCount + 1

ApplyStats ==
    /\ ratings' = TRUE
    /\ statsCount' = IF ratings THEN statsCount ELSE statsCount + 1

FinalizeGame(p) ==
    /\ At(p, "finalize")
    /\ IF loc[p].next.finished
       THEN SaveFinishedGame(p) /\ ApplyStats
       ELSE UNCHANGED database
    /\ End(p, "done")
    /\ UNCHANGED <<live, expired, log, ghost, faults>>

(* Mutant: the stats are applied outside of the transaction, which commits *)
(* although they failed.                                                   *)
FinalizeFailsHalfway(p) ==
    /\ At(p, "finalize")
    /\ loc[p].next.finished
    /\ faults < MaxFaults
    /\ faults' = faults + 1
    /\ SaveFinishedGame(p)
    /\ End(p, "failed")
    /\ UNCHANGED <<live, expired, log, ratings, statsCount, ghost>>

(* The transaction rolls back and the error is rethrown.                   *)
FinalizeFails(p) ==
    /\ At(p, "finalize")
    /\ loc[p].next.finished
    /\ faults < MaxFaults
    /\ faults' = faults + 1
    /\ End(p, "failed")
    /\ UNCHANGED <<live, expired, log, database, ghost>>

---------------------------------------------------------------------------
(* GameProcessor.processFinishExpiredGame *)

(* getOrRecover: the live state, or the latest snapshot put back.          *)
GetOrRecover(p, from, found, missing) ==
    /\ At(p, from)
    /\ IF live # None
       THEN Become(p, [loc[p] EXCEPT !.seen = live, !.pc = found])
       ELSE Goto(p, missing)
    /\ UNCHANGED <<live, expired, log, database, ghost, faults>>

JobGet(p)     == GetOrRecover(p, "jobGet", "jobDecide", "jobFind")
JobFind(p)    == FindSnapshot(p, "jobFind", "jobRestore")
JobRestore(p) == SetLive(p, "jobRestore") /\ Goto(p, "jobDecide")

(* finalizeExpiredFinishedGame: a finished state is finalized, once more   *)
(* if it already was, with the end reason time_elapsed.                    *)
FinalizeSeen(p) ==
    Become(p, [Unused EXCEPT !.pc = "finalize", !.next = loc[p].seen,
                             !.reason = "time_elapsed"])

(* Before the expiry the job throws; after it, it executes                 *)
(* finish_game_by_time.                                                    *)
JobDecide(p) ==
    /\ At(p, "jobDecide")
    /\ IF loc[p].seen.finished THEN FinalizeSeen(p)
       ELSE IF expired THEN Goto(p, "read") ELSE End(p, "failed")
    /\ UNCHANGED <<live, expired, log, database, ghost, faults>>

(* The repair after GAME_NOT_ACTIVE.                                       *)
RepairGet(p)     == GetOrRecover(p, "repairGet", "repairDecide", "repairFind")
RepairFind(p)    == FindSnapshot(p, "repairFind", "repairRestore")
RepairRestore(p) == SetLive(p, "repairRestore") /\ Goto(p, "repairDecide")

RepairDecide(p) ==
    /\ At(p, "repairDecide")
    /\ IF loc[p].seen.finished THEN FinalizeSeen(p) ELSE End(p, "done")
    /\ UNCHANGED <<live, expired, log, database, ghost, faults>>

---------------------------------------------------------------------------
(* Environment *)

(* The process running p dies; PostgreSQL rolls its transaction back.      *)
Crash(p) ==
    /\ loc[p].pc \notin Terminal \cup {"idle"}
    /\ faults < MaxFaults
    /\ faults' = faults + 1
    /\ ReleaseLock(p)
    /\ End(p, "crashed")
    /\ UNCHANGED <<live, expired, eventRows, database, ghost>>

(* The Redis key disappears: eviction, the 24 h TTL, a restart of Redis.   *)
LoseLiveState ==
    /\ live # None
    /\ losses < MaxLosses
    /\ losses' = losses + 1
    /\ live' = None
    /\ UNCHANGED <<expired, log, database, loc, committed, faults>>

(* Time passes state.expiresAt.                                            *)
Expire ==
    /\ ~expired
    /\ expired' = TRUE
    /\ UNCHANGED <<live, log, database, loc, ghost, faults>>

(* What the code does by itself once an execution has started.             *)
Step(p) ==
    \/ ReadState(p) \/ ReadRejected(p) \/ ReadMissing(p)
    \/ CasStored(p) \/ CasChanged(p) \/ CasMissing(p)
    \/ RecoverFind(p) \/ RecoverRestore(p)
    \/ LockEvents(p) \/ ReadSequence(p) \/ InsertEvents(p)
    \/ CreateSnapshot(p) \/ FinalizeGame(p)
    \/ JobGet(p) \/ JobFind(p) \/ JobRestore(p) \/ JobDecide(p)
    \/ RepairGet(p) \/ RepairFind(p) \/ RepairRestore(p) \/ RepairDecide(p)

Fault(p) ==
    AppendEventsFails(p) \/ CreateSnapshotFails(p) \/ FinalizeFails(p) \/ Crash(p)

Next ==
    \/ \E p \in Procs :
          \/ \E k \in Kinds : Invoke(p, k)
          \/ Step(p)
          \/ Fault(p)
    \/ LoseLiveState
    \/ Expire

(* A started execution keeps running unless its process dies.              *)
Fairness == \A p \in Procs : WF_vars(Step(p))

Spec == Init /\ [][Next]_vars /\ Fairness

---------------------------------------------------------------------------
(* Properties *)

(* As long as Redis keeps the key, the live state contains exactly the     *)
(* effects of the commands whose compare-and-set succeeded: concurrent     *)
(* commands are serialized and none is overwritten or applied twice.       *)
LiveHoldsEveryCommit ==
    losses = 0 => live # None /\ live.applied = committed

(* As long as Redis keeps the key, a finished game is never reopened and   *)
(* its turn number never decreases.                                        *)
LiveOnlyAdvances ==
    [][losses' = 0 => /\ live'.turn >= live.turn
                      /\ live.finished => live'.finished]_live

(* The sequence numbers of the event log are 1, 2, ... without gap or      *)
(* duplicate, whatever writers interleave, fail or crash: a cursor of      *)
(* listEventsAfter never skips an event.                                   *)
EventSequenceDense ==
    /\ {r.seq : r \in eventRows} = 1..Cardinality(eventRows)
    /\ \A r, q \in eventRows : r.seq = q.seq => r = q

(* The player stats of a game are applied at most once, however often the  *)
(* game is finalized (command, expiry job, repair).                        *)
StatsAppliedOnce == statsCount <= 1

(* A persisted result comes with its stats, and with a final snapshot of a *)
(* finished state: no partial finalization is visible, and finalization is *)
(* never reached with an active state.                                     *)
ResultIsComplete ==
    gameStatus = "finished" =>
        /\ result # None
        /\ statsCount = 1
        /\ \E r \in snapshots : r.type = "final"
        /\ \A r \in snapshots : r.type = "final" => r.state.finished

(* Every execution ends: the retries of the compare-and-set, the recovery  *)
(* and the waits for the event lock are all bounded.                       *)
EveryExecutionEnds ==
    \A p \in Procs : loc[p].pc # "idle" ~> loc[p].pc \in Terminal

(* ARCHITECTURE.md: the snapshot is restored "if Redis no longer has the   *)
(* state".  A state that is in Redis is only replaced by a command that    *)
(* read it.                                                                *)
RestoreOnlyWhenMissing ==
    [][live # None /\ live' # None => live.applied \subseteq live'.applied]_live

===========================================================================
