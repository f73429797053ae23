----------------------------- MODULE GameTimers -----------------------------
(***************************************************************************)
(* What keeps a game moving when nobody plays: the turn timers and bot     *)
(* jobs of the BullMQ queue, the workers that process them, the clients    *)
(* that schedule them after a command, and the watchdog that repairs what  *)
(* was lost.                                                               *)
(*                                                                         *)
(* One game.  A command is one step here, because executeIntent serializes *)
(* commands (GameCommands); the engine is reduced to the phases, the turn  *)
(* and the bidders (GameEngine).  A deadline is a name: a new one is given *)
(* where the code computes a new turnExpiresAt or bidExpiresAt, and        *)
(* overdue says that the current one has passed.                           *)
(***************************************************************************)
EXTENDS Integers, FiniteSets, FiniteSetsExt

CONSTANTS
    Humans, Bots,  \* players, by seat number
    Workers,       \* consumers of the game queue
    Watchdog,      \* the scan that holds the singleton lock
    Landings,      \* phases a roll may lead to
    MaxMissed,     \* maxConsecutiveMissedTurns
    MaxDoubles,    \* doubles in a row before jail, less one
    Attempts,      \* attempts of a job
    MaxTurn,       \* bound on the turn number
    MaxExtra,      \* bound on commands that keep the phase
    MaxBacklog,    \* bound on bot jobs left waiting while others go on
    MaxFaults,     \* bound on crashes and lost queue operations
    None

Players == Humans \cup Bots

ASSUME PlayersAssumption ==
    /\ Players \subseteq Nat /\ IsFiniteSet(Players) /\ Humans \cap Bots = {} /\ Humans # {}
    /\ None \notin Players
ASSUME ProcessAssumption ==
    Watchdog \notin Workers
ASSUME LandingsAssumption ==
    Landings \subseteq {"awaiting_property_decision", "awaiting_turn_end",
                        "awaiting_debt_resolution"}
ASSUME BoundAssumption ==
    /\ {MaxMissed, MaxDoubles, MaxTurn, MaxExtra, MaxBacklog, MaxFaults} \subseteq Nat
    /\ Attempts \in Nat \ {0}

VARIABLES
    game,     \* the live state
    overdue,  \* the current deadline has passed
    expired,  \* the game's time is up
    queue,    \* jobs, finished ones included
    proc,     \* what each worker and the watchdog is doing
    extra,    \* commands that kept the phase
    faults

vars == <<game, overdue, expired, queue, proc, extra, faults>>

Procs == Workers \cup {Watchdog}

Phases == {"awaiting_roll", "awaiting_property_decision", "awaiting_auction_bid",
           "awaiting_turn_end", "awaiting_debt_resolution", "finished"}

Games == [phase : Phases, turn : Nat \ {0}, current : Players, bidder : Players \cup {None},
          bidders : SUBSET Players, highest : Players \cup {None}, again : BOOLEAN,
          doubles : 0..MaxDoubles, offer : BOOLEAN, key : Nat, bankrupt : SUBSET Players,
          missed : [Humans -> Nat], lastMissed : [Humans -> Nat]]

Jobs == [kind : {"timer", "bot", "expiry"}, turn : Nat, phase : Phases \cup {None},
         player : Players \cup {None}, key : Nat,
         status : {"waiting", "active", "completed", "failed"}, tries : 0..Attempts]

Intents ==
    [type : {"roll_and_move", "buy_property", "decline_property_purchase", "place_auction_bid",
             "pass_auction_bid", "pay_debt", "auto_resolve_debt", "end_turn", "manage",
             "propose_trade", "answer_trade", "declare_bankruptcy", "finish_game"},
     by : Players \cup {None}]

ASSUME NoneAssumption ==
    None \notin Intents

Finished(g) == g.phase = "finished"
Active(g)   == Players \ g.bankrupt

SeatAfter(S, p) ==
    LET later == {q \in S : q > p} IN IF later # {} THEN Min(later) ELSE Min(S)

---------------------------------------------------------------------------
(* The engine, reduced: whether it accepts an intent [type, by] in a state *)
(* and the states it may lead to.  "manage" stands for building, selling,  *)
(* mortgages and the jail intents that keep the phase; debts are owed to   *)
(* the bank; a bot answers a trade offer at once.                          *)

Accepts(g, i) ==
    /\ ~Finished(g)
    /\ i.by # None /\ i.type # "pass_auction_bid" => i.by \notin g.bankrupt
    /\ CASE i.type = "roll_and_move" -> g.phase = "awaiting_roll" /\ g.current = i.by
         [] i.type \in {"buy_property", "decline_property_purchase"} ->
               g.phase = "awaiting_property_decision" /\ g.current = i.by
         [] i.type = "place_auction_bid" -> g.phase = "awaiting_auction_bid" /\ g.bidder = i.by
         [] i.type = "pass_auction_bid" ->
               /\ g.phase = "awaiting_auction_bid" /\ g.bidder = i.by
               /\ Cardinality(g.bidders) = 2 => g.highest \notin g.bankrupt
         [] i.type \in {"auto_resolve_debt", "pay_debt"} ->
               g.phase = "awaiting_debt_resolution" /\ g.current = i.by
         [] i.type = "end_turn" -> g.phase = "awaiting_turn_end" /\ g.current = i.by
         [] i.type = "manage" ->
               /\ g.phase \in {"awaiting_roll", "awaiting_turn_end", "awaiting_debt_resolution"}
               /\ g.current = i.by
         [] i.type = "propose_trade" ->
               /\ g.phase \in {"awaiting_roll", "awaiting_property_decision", "awaiting_turn_end"}
               /\ ~g.offer
         [] i.type = "answer_trade" -> g.offer
         [] i.type \in {"declare_bankruptcy", "finish_game"} -> TRUE

NoAuction(g) == [g EXCEPT !.bidder = None, !.bidders = {}, !.highest = None]

NextTurn(g) ==
    [NoAuction(g) EXCEPT !.phase = "awaiting_roll", !.turn = @ + 1, !.doubles = 0,
                         !.again = FALSE, !.current = SeatAfter(Active(g), g.current)]

Finish(g) == [NoAuction(g) EXCEPT !.phase = "finished", !.again = FALSE, !.offer = FALSE]

Bankrupt(g, p) ==
    LET h == [g EXCEPT !.bankrupt = @ \cup {p}]
    IN  IF Cardinality(Active(h)) <= 1 \/ Active(h) \cap Humans = {} THEN Finish(h)
        ELSE IF g.current = p THEN NextTurn(h) ELSE h

Sold(g) == [NoAuction(g) EXCEPT !.phase = "awaiting_turn_end"]

(* An auction ends when only the highest bidder, or nobody, is left.       *)
Bid(g, p) ==
    IF g.bidders = {p} THEN Sold(g)
    ELSE [g EXCEPT !.highest = p, !.bidder = SeatAfter(g.bidders, p)]

Pass(g, p) ==
    LET left == g.bidders \ {p}
    IN  IF left = {} \/ (g.highest # None /\ Cardinality(left) = 1) THEN Sold(g)
        ELSE [g EXCEPT !.bidders = left, !.bidder = SeatAfter(left, p)]

(* A roll leads to a landing; after doubles the player rolls again, unless *)
(* a debt stands in between.                                               *)
Land(g, at, double) ==
    [g EXCEPT !.phase = at, !.doubles = IF double THEN @ + 1 ELSE 0,
              !.again = double /\ at # "awaiting_debt_resolution"]

RollAndMove(g) ==
    {Land(g, at, double) : at \in Landings,
                           double \in {d \in BOOLEAN : d => g.doubles < MaxDoubles}}

Outcomes(g, i) ==
    CASE i.type = "roll_and_move" -> RollAndMove(g)
      [] i.type = "buy_property" -> {[g EXCEPT !.phase = "awaiting_turn_end"]}
      [] i.type = "decline_property_purchase" ->
            {[g EXCEPT !.phase = "awaiting_auction_bid", !.bidders = Active(g),
                       !.bidder = Min(Active(g))]}
      [] i.type = "place_auction_bid" -> {Bid(g, i.by)}
      [] i.type = "pass_auction_bid"  -> {Pass(g, i.by)}
      [] i.type = "pay_debt" -> {[g EXCEPT !.phase = "awaiting_turn_end"]}
      [] i.type = "auto_resolve_debt" ->
            {[g EXCEPT !.phase = "awaiting_turn_end"], Bankrupt(g, i.by)}
      [] i.type = "end_turn" ->
            {[(IF g.again THEN [g EXCEPT !.phase = "awaiting_roll", !.again = FALSE]
               ELSE NextTurn(g)) EXCEPT !.offer = FALSE]}
      [] i.type = "manage" -> {g}
      [] i.type = "propose_trade" ->
            {[g EXCEPT !.offer = to \in Humans] : to \in Active(g) \ {i.by}}
      [] i.type = "answer_trade"  -> {[g EXCEPT !.offer = FALSE]}
      [] i.type = "declare_bankruptcy" -> {Bankrupt(g, i.by)}
      [] i.type = "finish_game" -> {Finish(g)}

(* Commands a player may repeat within a phase, as long as cash and        *)
(* properties last; the choice of one is bounded by MaxExtra.              *)
Repeats(i) == i.type \in {"manage", "propose_trade", "answer_trade", "place_auction_bid"}

---------------------------------------------------------------------------
(* executeIntent *)

(* getEffectiveIntentForCurrentTime *)
Effective(g, i) == IF expired /\ ~Finished(g) THEN [type |-> "finish_game", by |-> None] ELSE i

(* Mutant: every timed out roll counts, also a second one in the turn.     *)
CountMissedAlways(g, h, i, source) ==
    CASE source = "timer" /\ i.type = "roll_and_move" /\ i.by \in Humans ->
            [h EXCEPT !.missed[i.by] = @ + 1, !.lastMissed[i.by] = g.turn]
      [] source = "player" /\ i.by \in Humans ->
            [h EXCEPT !.missed[i.by] = 0, !.lastMissed[i.by] = 0]
      [] OTHER -> h

(* applyCommandSourceToState                                               *)
CountMissed(g, h, i, source) ==
    CASE /\ source = "timer" /\ i.type = "roll_and_move" /\ i.by \in Humans
         /\ i.by = g.current /\ h.lastMissed[i.by] # g.turn ->
            [h EXCEPT !.missed[i.by] = @ + 1, !.lastMissed[i.by] = g.turn]
      [] source = "player" /\ i.by \in Humans ->
            [h EXCEPT !.missed[i.by] = 0, !.lastMissed[i.by] = 0]
      [] OTHER -> h

(* applyTurnDeadline and bidExpiresAt: a deadline that has not passed is   *)
(* kept as long as turn, player and phase are; in an auction every bid and *)
(* pass opens a new one, and nothing else does.                            *)
KeepsDeadline(g, h, i) ==
    IF h.phase = "awaiting_auction_bid"
    THEN i.type \notin {"decline_property_purchase", "place_auction_bid", "pass_auction_bid"}
    ELSE /\ <<h.turn, h.current, h.phase>> = <<g.turn, g.current, g.phase>>
         /\ ~overdue

(* A name that no job remembers.                                           *)
Fresh ==
    LET held == {j.key : j \in queue} \cup {game.key}
    IN  Min(1..Cardinality(held) + 1 \ held)

Deadline(g, h, i) ==
    [h EXCEPT !.key = IF Finished(h) \/ KeepsDeadline(g, h, i) THEN @ ELSE Fresh]

Playing == ~Finished(game) /\ game.turn <= MaxTurn

(* The states executeIntent may store.                                     *)
Results(i, source) ==
    LET e == Effective(game, i)
    IN  IF Accepts(game, e)
        THEN {Deadline(game, CountMissed(game, h, e, source), e) : h \in Outcomes(game, e)}
        ELSE {}

Commit(i, result) ==
    /\ game' = result
    /\ overdue' = (overdue /\ result.key = game.key)
    /\ extra' = IF Repeats(Effective(game, i)) THEN extra + 1 ELSE extra

---------------------------------------------------------------------------
(* Decisions *)

Intent(type, p) == [type |-> type, by |-> p]

(* findActionBot and chooseIntentForBot.  What a bot buys, builds or bids  *)
(* is its strategy's choice; the bot of a turn waits for the answer to its *)
(* trade offer.                                                            *)
ActionBot(g) == IF g.phase = "awaiting_auction_bid" THEN g.bidder ELSE g.current

BotIntents(g) ==
    LET p == ActionBot(g)
        types == CASE g.phase = "awaiting_roll" -> {"roll_and_move", "manage"}
                   [] g.phase = "awaiting_property_decision" ->
                        {"buy_property", "decline_property_purchase"}
                   [] g.phase = "awaiting_auction_bid" ->
                        {"place_auction_bid", "pass_auction_bid"}
                   [] g.phase = "awaiting_debt_resolution" -> {"auto_resolve_debt"}
                   [] g.phase = "awaiting_turn_end" ->
                        IF g.offer THEN {} ELSE {"manage", "propose_trade", "end_turn"}
                   [] g.phase = "finished" -> {}
    IN  IF p \in Bots \ g.bankrupt
        THEN {i \in {Intent(t, p) : t \in types} : Repeats(i) => extra < MaxExtra} ELSE {}

BotCanAct(g) == BotIntents(g) # {}

(* What a timeout does for the player p on turn.                           *)
OnTimeout(g, p) ==
    CASE g.phase = "awaiting_roll" -> Intent("roll_and_move", p)
      [] g.phase = "awaiting_property_decision" -> Intent("decline_property_purchase", p)
      [] g.phase = "awaiting_auction_bid" -> Intent("pass_auction_bid", g.bidder)
      [] g.phase = "awaiting_debt_resolution" -> Intent("auto_resolve_debt", p)
      [] g.phase = "awaiting_turn_end" -> Intent("end_turn", p)

(* shouldForfeitCurrentPlayer; a debt is resolved first.                   *)
ShouldForfeit(g, p) ==
    p \in Humans /\ g.phase # "awaiting_debt_resolution" /\ g.missed[p] >= MaxMissed - 1

(* Mutant: nothing is decided for a player who has not bought or declined. *)
TimeoutIntentUndecided(g) ==
    IF Finished(g) \/ g.phase = "awaiting_property_decision" THEN None
    ELSE OnTimeout(g, g.current)

(* chooseTimeoutIntent                                                     *)
TimeoutIntent(g) ==
    IF Finished(g) THEN None
    ELSE IF expired THEN Intent("finish_game", None)
    ELSE IF g.current \in g.bankrupt THEN None
    ELSE IF ShouldForfeit(g, g.current) THEN Intent("declare_bankruptcy", g.current)
    ELSE IF g.phase = "awaiting_auction_bid" /\ ~overdue THEN None
    ELSE OnTimeout(g, g.current)

---------------------------------------------------------------------------
(* The queue.  A job is identified by what its id is made of; a job whose  *)
(* id exists, in whatever state, is not added.  Left out are jobs that     *)
(* make no difference any more: a bot job that is over (every add removes  *)
(* it first), and a timer that no worker holds and whose deadline is not   *)
(* the current one (deadlines do not come back, so it will be skipped).    *)

Id(j) == <<j.kind, j.turn, j.phase, j.player, j.key>>

Job(kind, turn, phase, p, key) ==
    [kind |-> kind, turn |-> turn, phase |-> phase, player |-> p, key |-> key,
     status |-> "waiting", tries |-> 0]

TimerJob(g) == Job("timer", g.turn, g.phase, g.current, g.key)
BotJob(g)   == Job("bot", g.turn, g.phase, ActionBot(g),
                   IF g.phase = "awaiting_auction_bid" THEN g.key ELSE 0)
ExpiryJob   == Job("expiry", 0, None, None, 0)

Matters(j, g) ==
    CASE j.kind = "timer"  -> j.status = "active" \/ j.key = g.key
      [] j.kind = "bot"    -> j.status \in {"waiting", "active"}
      [] j.kind = "expiry" -> TRUE

(* removeFailedDuplicateJob, removeRecoverableDuplicateJob and add.        *)
Add(q, job, removable) ==
    IF \E k \in q : Id(k) = Id(job) /\ k.status \notin removable THEN q
    ELSE {k \in q : Id(k) # Id(job)} \cup {job}

EnqueueTurnTimer(q, g) == IF Finished(g) THEN q ELSE Add(q, TimerJob(g), {"failed"})
EnqueueIfBotCanAct(q, g) ==
    IF BotCanAct(g) THEN Add(q, BotJob(g), {"failed", "completed"}) ELSE q
EnqueueGameExpiry(q) == Add(q, ExpiryJob, {"failed"})

SetJob(q, job, status, tries) ==
    (q \ {job}) \cup {[job EXCEPT !.status = status, !.tries = tries]}

---------------------------------------------------------------------------
(* Processes: idle, about to read the state for a job, or about to execute *)
(* an intent decided on what was read.                                     *)

Idle == [pc |-> "idle", job |-> None, intent |-> None]

Init ==
    /\ game = [phase |-> "awaiting_roll", turn |-> 1, current |-> Min(Players),
               bidder |-> None, bidders |-> {}, highest |-> None, again |-> FALSE,
               doubles |-> 0, offer |-> FALSE, key |-> 1, bankrupt |-> {},
               missed |-> [h \in Humans |-> 0], lastMissed |-> [h \in Humans |-> 0]]
    /\ overdue = FALSE /\ expired = FALSE
    /\ queue = {TimerJob(game), ExpiryJob}
    /\ proc = [x \in Procs |-> Idle]
    /\ extra = 0 /\ faults = 0

(* The bound on the backlog: the others wait for the worker.               *)
InTime == Cardinality({j \in queue : j.kind = "bot" /\ j.status = "waiting"}) <= MaxBacklog

Stop(x) == proc' = [proc EXCEPT ![x] = Idle]
Decide(x, i) == proc' = [proc EXCEPT ![x].pc = "execute", ![x].intent = i]

SetQueue(q, g) == queue' = {j \in q : Matters(j, g)}

(* The queue operations that follow a command, for the state g it stored:  *)
(* afterAutomatedCommand, afterHumanCommandSucceeded.  Redis may refuse    *)
(* some of them, and the error is swallowed.                               *)
Enqueues == {"bot", "timer"}

Enqueue(q, g, lost) ==
    LET b == IF "bot" \in lost THEN q ELSE EnqueueIfBotCanAct(q, g)
    IN  IF "timer" \in lost THEN b ELSE EnqueueTurnTimer(b, g)

Fault(happens) == /\ happens => faults < MaxFaults
                  /\ faults' = IF happens THEN faults + 1 ELSE faults

Tick == /\ Playing /\ ~overdue
        /\ overdue' = TRUE
        /\ UNCHANGED <<game, expired, queue, proc, extra, faults>>

Expire == /\ Playing /\ ~expired
          /\ expired' = TRUE
          /\ UNCHANGED <<game, overdue, queue, proc, extra, faults>>

---------------------------------------------------------------------------
(* GameProcessor *)

(* The delay of a job has passed.  That of the expiry job may pass early:  *)
(* it was computed with another host's clock.                              *)
Due(j) == j.kind = "timer" => overdue

Claim(w) ==
    /\ proc[w].pc = "idle" /\ Playing
    /\ \E j \in queue :
        /\ j.status = "waiting" /\ Due(j) /\ (j.kind = "timer" => InTime)
        /\ queue' = SetJob(queue, j, "active", j.tries)
        /\ proc' = [proc EXCEPT ![w] = [Idle EXCEPT !.pc = "read",
                                                    !.job = [j EXCEPT !.status = "active"]]]
    /\ UNCHANGED <<game, overdue, expired, extra, faults>>

(* The worker reads the state.                                             *)
Reads(w, kind) ==
    /\ proc[w].pc = "read" /\ proc[w].job.kind = kind
    /\ UNCHANGED <<game, overdue, expired, extra, faults>>

Completed(q, j) == SetJob(q, j, "completed", j.tries)

(* Mutant: a job is retried without end.                                   *)
ThrownForever(q, j) == SetJob(q, j, "waiting", j.tries + 1)

(* The handler throws: the job is tried again, then failed.                *)
Thrown(q, j) ==
    SetJob(q, j, IF j.tries + 1 < Attempts THEN "waiting" ELSE "failed", j.tries + 1)

(* processExecuteBotTurn: the job names no state, the bot acts on what it  *)
(* finds; if there is nothing to do it leaves a timer.                     *)
ReadBotJob(w) ==
    /\ Reads(w, "bot")
    /\ \/ \E i \in BotIntents(game) : Decide(w, i) /\ UNCHANGED queue
       \/ /\ ~BotCanAct(game)
          /\ SetQueue(Completed(EnqueueTurnTimer(queue, game), proc[w].job), game)
          /\ Stop(w)

(* isTimerJobCurrent *)
IsTimerJobCurrent(j, g) == Id(j) = Id(TimerJob(g))

(* processExecuteTurnTimeout *)
ReadTimerJob(w) ==
    /\ Reads(w, "timer")
    /\ IF IsTimerJobCurrent(proc[w].job, game) /\ TimeoutIntent(game) # None
       THEN Decide(w, TimeoutIntent(game)) /\ UNCHANGED queue
       ELSE SetQueue(Completed(queue, proc[w].job), game) /\ Stop(w)

(* Mutant: a job that runs early is done.                                  *)
ReadExpiryJobSkipsEarly(w) ==
    /\ Reads(w, "expiry")
    /\ IF Finished(game) \/ ~expired
       THEN SetQueue(Completed(queue, proc[w].job), game) /\ Stop(w)
       ELSE Decide(w, Intent("finish_game", None)) /\ UNCHANGED queue

(* processFinishExpiredGame: a job that runs early throws, so that it is   *)
(* not spent.  GameCommands has the finalization.                          *)
ReadExpiryJob(w) ==
    /\ Reads(w, "expiry")
    /\ \/ /\ Finished(game)
          /\ SetQueue(Completed(queue, proc[w].job), game) /\ Stop(w)
       \/ /\ ~Finished(game) /\ ~expired
          /\ SetQueue(Thrown(queue, proc[w].job), game) /\ Stop(w)
       \/ /\ ~Finished(game) /\ expired
          /\ Decide(w, Intent("finish_game", None)) /\ UNCHANGED queue

Source(x) == IF x \in Workers /\ proc[x].job.kind # "bot" THEN "timer" ELSE "bot"

(* executeIntent: on the state of this moment, not on the one the worker   *)
(* decided on.  The new jobs are added while this one is still active.     *)
ExecuteJob(w) ==
    /\ proc[w].pc = "execute"
    /\ \E result \in Results(proc[w].intent, Source(w)), lost \in SUBSET Enqueues :
          /\ Commit(proc[w].intent, result)
          /\ SetQueue(Completed(Enqueue(queue, result, lost), proc[w].job), result)
          /\ Fault(lost # {})
          /\ Stop(w)
    /\ UNCHANGED expired

(* The engine refuses; an expiry job that finds the game over is done.     *)
RefuseJob(w) ==
    /\ proc[w].pc = "execute"
    /\ Results(proc[w].intent, Source(w)) = {}
    /\ SetQueue(IF proc[w].job.kind = "expiry" THEN Completed(queue, proc[w].job)
                ELSE Thrown(queue, proc[w].job), game)
    /\ Stop(w)
    /\ UNCHANGED <<game, overdue, expired, extra, faults>>

(* A worker stops before its command, or after it and before any queue     *)
(* operation.  Its job is found stalled and runs again, or is failed when  *)
(* it had stalled before (maxStalledCount is left at its default, 1; how   *)
(* often a job has stalled is not counted).                                *)
Crash(w) ==
    /\ proc[w].pc # "idle"
    /\ Fault(TRUE)
    /\ \/ UNCHANGED <<game, overdue, extra>>
       \/ /\ proc[w].pc = "execute"
          /\ \E result \in Results(proc[w].intent, Source(w)) : Commit(proc[w].intent, result)
    /\ \E status \in {"waiting", "failed"} :
          SetQueue(SetJob(queue, proc[w].job, status, proc[w].job.tries), game')
    /\ Stop(w)
    /\ UNCHANGED expired

Worker(w) ==
    \/ Claim(w) \/ ReadBotJob(w) \/ ReadTimerJob(w) \/ ReadExpiryJob(w)
    \/ ExecuteJob(w) \/ RefuseJob(w)

---------------------------------------------------------------------------
(* Players *)

PlayerIntents(g) ==
    {i \in {Intent(t, p) : t \in {"roll_and_move", "buy_property", "decline_property_purchase",
                                   "place_auction_bid", "pass_auction_bid", "pay_debt",
                                   "end_turn", "manage", "propose_trade", "answer_trade",
                                   "declare_bankruptcy"}, p \in Humans \ g.bankrupt} :
        Accepts(g, i) /\ (Repeats(i) => extra < MaxExtra)}

(* A command through the gateway, then afterHumanCommandSucceeded.         *)
PlayerCommand ==
    /\ Playing /\ InTime
    /\ \E i \in PlayerIntents(game), lost \in SUBSET Enqueues :
       \E result \in Results(i, "player") :
          /\ Commit(i, result)
          /\ SetQueue(Enqueue(queue, result, lost), result)
          /\ Fault(lost # {})
    /\ UNCHANGED <<expired, proc>>

(* joinGame: repairLiveGameScheduling.                                     *)
JoinGame ==
    /\ Playing /\ InTime
    /\ SetQueue(Enqueue(queue, game, {}), game)
    /\ UNCHANGED <<game, overdue, expired, proc, extra, faults>>

(* RoomsLobbyService.leaveRoom in an active game: a bankruptcy, after      *)
(* which nothing is scheduled.                                             *)
LeaveRoom ==
    /\ Playing /\ InTime
    /\ \E p \in Humans \ game.bankrupt :
       \E result \in Results(Intent("declare_bankruptcy", p), "player") :
          Commit(Intent("declare_bankruptcy", p), result) /\ SetQueue(queue, result)
    /\ UNCHANGED <<expired, proc, faults>>

---------------------------------------------------------------------------
(* GameTimerWatchdogService.scanActiveGames, for this game.  A scan within *)
(* the grace period of a deadline is one before Tick.                      *)

(* Mutant: an overdue turn of a human is left to the queue.                *)
ScanOverdueBotsOnly == \E i \in BotIntents(game) : Decide(Watchdog, i) /\ UNCHANGED queue

(* An overdue bot acts at once; for anybody else the timer is enqueued.    *)
ScanOverdue ==
    \/ \E i \in BotIntents(game) : Decide(Watchdog, i) /\ UNCHANGED queue
    \/ ~BotCanAct(game) /\ queue' = EnqueueTurnTimer(queue, game) /\ UNCHANGED proc

Scan ==
    /\ proc[Watchdog].pc = "idle" /\ Playing /\ InTime
    /\ CASE expired -> queue' = EnqueueGameExpiry(queue) /\ UNCHANGED proc
         [] ~expired /\ overdue -> ScanOverdue
         [] OTHER -> queue' = EnqueueIfBotCanAct(queue, game) /\ UNCHANGED proc
    /\ UNCHANGED <<game, overdue, expired, extra, faults>>

(* executeOverdueBotAction; an error ends this game's part of the scan.    *)
ExecuteOverdueBotAction ==
    /\ proc[Watchdog].pc = "execute"
    /\ \/ \E result \in Results(proc[Watchdog].intent, "bot"), lost \in {{}, {"timer"}, Enqueues} :
             /\ Commit(proc[Watchdog].intent, result)
             /\ SetQueue(Enqueue(queue, result, lost), result)
             /\ Fault(lost # {})
       \/ /\ Results(proc[Watchdog].intent, "bot") = {}
          /\ UNCHANGED <<game, overdue, queue, extra, faults>>
    /\ Stop(Watchdog)
    /\ UNCHANGED expired

---------------------------------------------------------------------------
Next ==
    \/ Tick \/ Expire
    \/ PlayerCommand \/ JoinGame \/ LeaveRoom
    \/ Scan \/ ExecuteOverdueBotAction
    \/ \E w \in Workers : Worker(w) \/ Crash(w)

(* Time passes, workers consume, the watchdog is an interval timer.        *)
(* Nothing is asked of players, and the game need not expire.              *)
Fairness ==
    /\ WF_vars(Tick) /\ WF_vars(Scan \/ ExecuteOverdueBotAction)
    /\ \A w \in Workers : WF_vars(Worker(w))

Spec == Init /\ [][Next]_vars /\ Fairness

---------------------------------------------------------------------------
(* Properties *)

(* Jobs, deadlines, counters and what workers hold are of their types; a   *)
(* job is tried at most Attempts times and a worker's job is in the queue. *)
TypeOK ==
    /\ game \in Games
    /\ overdue \in BOOLEAN /\ expired \in BOOLEAN
    /\ queue \subseteq Jobs
    /\ \A x \in Procs :
          proc[x].job \in queue \cup {None} /\ proc[x].intent \in Intents \cup {None}

(* A job whose id is taken by a completed job is never added again, so the *)
(* timer of the deadline that counts must not be spent while the game goes *)
(* on: the watchdog could not bring it back.                               *)
TimerNotSpent ==
    ~Finished(game) =>
        \A j \in queue : Id(j) = Id(TimerJob(game)) => j.status # "completed"

(* However often a timer rolls for a player in one turn (doubles, retries),*)
(* the turn counts as missed once.                                         *)
MissedOncePerTurn ==
    \A h \in Humans : game.missed[h] <= game.lastMissed[h]

(* No turn lasts for ever, even if no player does anything and a queue     *)
(* operation is lost or a worker crashes after its command: the timers,    *)
(* the bots and the watchdog get every turn, auction and debt to its end.  *)
TurnAdvances == <>(game.turn > MaxTurn \/ Finished(game))

(* A game whose time is up is finished, whichever job or command is lost.  *)
ExpiryFinishes == (expired /\ Playing) ~> Finished(game)

---------------------------------------------------------------------------
(* What the repository says and the code does not do *)

(* A timeout decided for a deadline changes nothing once the game has      *)
(* moved on to another one: "stale-state guards, so duplicated or delayed  *)
(* jobs do not mutate newer state".  The guard is evaluated on a read that *)
(* precedes executeIntent.                                                 *)
StaleTimeoutHarmless ==
    [][\A w \in Workers :
         proc[w].pc = "execute" /\ proc[w].job.kind = "timer" /\ proc'[w] = Idle /\ game' # game
            => proc[w].job.key = game.key]_vars

===========================================================================
