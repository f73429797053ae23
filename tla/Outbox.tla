------------------------------- MODULE Outbox -------------------------------
(***************************************************************************)
(* Notifications and their delivery (src/src/notifications, src/src/outbox)*)
(* A notification row comes with an outbox event; the event's id is put on *)
(* a BullMQ queue; a worker claims the event, publishes it to the user's   *)
(* Redis channel and marks it.  When a worker starts, a recovery pass      *)
(* queues the unpublished events again.                                    *)
(*                                                                         *)
(* The event of notification n has the key notification.created:<n>, so    *)
(* both are numbered alike.  BullMQ is modelled from how it is used: a job *)
(* id that exists is not added again, a job that throws is tried up to     *)
(* MaxAttempts times and then kept as failed, the job of a worker that     *)
(* stops is stalled: it is given to another once, and failed the second    *)
(* time (maxStalledCount is left at its default, 1).                       *)
(***************************************************************************)
EXTENDS Naturals, Sequences, FiniteSets

CONSTANTS
    Users,
    Workers,      \* the publishers of the outbox queue
    None,
    MaxNotes,     \* bound on the notifications created
    MaxAttempts,  \* outbox_events.max_attempts, and the attempts of a job
    RecoveryBatch,\* OUTBOX_RECOVERY_BATCH_SIZE
    MaxFaults     \* bound on the publishing errors and crashes

ASSUME OutboxConstants ==
    /\ MaxNotes \in Nat /\ MaxFaults \in Nat
    /\ {MaxAttempts, RecoveryBatch} \subseteq Nat \ {0}
    /\ None \notin Nat

VARIABLES
    notes,     \* the notifications rows
    events,    \* the outbox_events rows
    jobs,      \* the jobs outbox-publish__<event>
    worker,    \* the locals of each publisher
    faults

outboxVars == <<notes, events, jobs, worker, faults>>

Ids == 1..MaxNotes
Kinds == {"friend_request", "friend_accepted", "room_invite", "leaderboard"}
Note == [user : Users, kind : Kinds, about : Nat \cup {None}]
Event == [status : {"none", "queued", "processing", "failed", "published"},
          attempts : 0..MaxAttempts, ready : BOOLEAN, stale : BOOLEAN]
Job == [state : {"none", "waiting", "active", "failed"}, tries : 0..MaxAttempts,
        stalled : BOOLEAN]

OutboxTypeOK ==
    /\ notes \in Seq(Note) /\ Len(notes) <= MaxNotes
    /\ events \in [Ids -> Event]
    /\ jobs \in [Ids -> Job]
    /\ worker \in [Workers -> [pc : {"idle", "claim", "publish", "mark", "fail"},
                               event : Ids \cup {None}]]
    /\ faults \in 0..MaxFaults

NoEvent == [status |-> "none", attempts |-> 0, ready |-> FALSE, stale |-> FALSE]
NoJob == [state |-> "none", tries |-> 0, stalled |-> FALSE]
IdleWorker == [pc |-> "idle", event |-> None]

OutboxInit ==
    /\ notes = << >>
    /\ events = [e \in Ids |-> NoEvent]
    /\ jobs = [e \in Ids |-> NoJob]
    /\ worker = [w \in Workers |-> IdleWorker]
    /\ faults = 0

(* A later start: the delivery of a notification has stalled and failed    *)
(* before, and its last attempt is waiting in the queue.                   *)
RetryingEvent == [status |-> "failed", attempts |-> MaxAttempts - 1, ready |-> TRUE,
                  stale |-> FALSE]
RetryingJob == [state |-> "waiting", tries |-> MaxAttempts - 1, stalled |-> TRUE]

OutboxRetrying(note) ==
    /\ MaxAttempts > 1 /\ MaxNotes > 0
    /\ notes = <<note>>
    /\ events = [e \in Ids |-> IF e = 1 THEN RetryingEvent ELSE NoEvent]
    /\ jobs = [e \in Ids |-> IF e = 1 THEN RetryingJob ELSE NoJob]
    /\ worker = [w \in Workers |-> IdleWorker]
    /\ faults = 0

---------------------------------------------------------------------------
(* createOrGet: a new event is available at once.                          *)
QueuedEvent == [NoEvent EXCEPT !.status = "queued", !.ready = TRUE]

(* createNotificationOutbox in a transaction: the row and its event.       *)
CreateNotification(note) ==
    /\ Len(notes) < MaxNotes
    /\ notes' = Append(notes, note)
    /\ events' = [events EXCEPT ![Len(notes) + 1] = QueuedEvent]

(* enqueuePublishEvent                                                     *)
Enqueued(e) ==
    IF jobs[e].state = "none"
    THEN [jobs EXCEPT ![e].state = "waiting"] ELSE jobs

---------------------------------------------------------------------------
(* The publisher *)

On(w) == worker[w].event
WorkerAt(w, where) == worker[w].pc = where
WorkerGoto(w, where) == worker' = [worker EXCEPT ![w].pc = where]
JobDone(w) ==
    /\ jobs' = [jobs EXCEPT ![On(w)] = NoJob]
    /\ worker' = [worker EXCEPT ![w] = IdleWorker]

(* A job that throws goes back to the queue until its attempts are used.   *)
JobThrows(w) ==
    LET tries == jobs[On(w)].tries + 1 IN
    /\ jobs' = [jobs EXCEPT ![On(w)].tries = tries,
                            ![On(w)].state = IF tries < MaxAttempts THEN "waiting" ELSE "failed"]
    /\ worker' = [worker EXCEPT ![w] = IdleWorker]

TakeJob(w) ==
    /\ WorkerAt(w, "idle")
    /\ \E e \in Ids :
         /\ jobs[e].state = "waiting"
         /\ jobs' = [jobs EXCEPT ![e].state = "active"]
         /\ worker' = [worker EXCEPT ![w] = [pc |-> "claim", event |-> e]]
    /\ UNCHANGED <<notes, events, faults>>

(* The conditions of start: an available event, or one whose claim is more *)
(* than ten minutes old, with attempts left.                               *)
Claimable(e) ==
    /\ events[e].attempts < MaxAttempts
    /\ \/ events[e].status \in {"queued", "failed"} /\ events[e].ready
       \/ events[e].status = "processing" /\ events[e].stale

(* publishById: an event that cannot be claimed completes the job.         *)
ClaimById(w) ==
    /\ WorkerAt(w, "claim")
    /\ \/ /\ Claimable(On(w))
          /\ events' = [events EXCEPT ![On(w)] =
                          [events[On(w)] EXCEPT !.status = "processing", !.stale = FALSE,
                                                !.attempts = @ + 1]]
          /\ WorkerGoto(w, "publish")
          /\ UNCHANGED jobs
       \/ /\ ~Claimable(On(w))
          /\ JobDone(w)
          /\ UNCHANGED events
    /\ UNCHANGED <<notes, faults>>

PublishNotificationCreated(w) ==
    /\ WorkerAt(w, "publish")
    /\ WorkerGoto(w, "mark")
    /\ UNCHANGED <<notes, events, jobs, faults>>

(* Publishing, or the update that marks it published, fails.               *)
PublishFails(w) ==
    /\ worker[w].pc \in {"publish", "mark"}
    /\ faults < MaxFaults
    /\ faults' = faults + 1
    /\ WorkerGoto(w, "fail")
    /\ UNCHANGED <<notes, events, jobs>>

MarkPublished(w) ==
    /\ WorkerAt(w, "mark")
    /\ events' = [events EXCEPT ![On(w)].status = "published"]
    /\ JobDone(w)
    /\ UNCHANGED <<notes, faults>>

(* markFailed makes the event available in thirty seconds; the error is    *)
(* thrown again, to the queue.                                             *)
MarkFailed(w) ==
    /\ WorkerAt(w, "fail")
    /\ events' = [events EXCEPT ![On(w)] = [@ EXCEPT !.status = "failed", !.ready = FALSE]]
    /\ JobThrows(w)
    /\ UNCHANGED <<notes, faults>>

(* The claim, or the update that marks the failure, fails.                 *)
DatabaseFails(w) ==
    /\ worker[w].pc \in {"claim", "fail"}
    /\ faults < MaxFaults
    /\ faults' = faults + 1
    /\ JobThrows(w)
    /\ UNCHANGED <<notes, events>>

(* A worker stops; its job is found stalled.                               *)
WorkerCrashes(w) ==
    /\ ~WorkerAt(w, "idle")
    /\ faults < MaxFaults
    /\ faults' = faults + 1
    /\ jobs' = [jobs EXCEPT ![On(w)].stalled = TRUE,
                            ![On(w)].state = IF jobs[On(w)].stalled THEN "failed" ELSE "waiting"]
    /\ worker' = [worker EXCEPT ![w] = IdleWorker]
    /\ UNCHANGED <<notes, events>>

---------------------------------------------------------------------------
(* Time and recovery *)

RetryDelayPasses(e) ==
    /\ events[e].status = "failed" /\ ~events[e].ready
    /\ events' = [events EXCEPT ![e].ready = TRUE]
    /\ UNCHANGED <<notes, jobs, worker, faults>>

ClaimGetsOld(e) ==
    /\ events[e].status = "processing" /\ ~events[e].stale
    /\ events' = [events EXCEPT ![e].stale = TRUE]
    /\ UNCHANGED <<notes, jobs, worker, faults>>

(* Mutant: the search leaves out the events that were never tried.         *)
AvailableFailed ==
    {e \in Ids : /\ events[e].status = "failed" /\ events[e].ready
                 /\ events[e].attempts < MaxAttempts}

(* findAvailable                                                           *)
Available ==
    {e \in Ids : /\ events[e].status \in {"queued", "failed"} /\ events[e].ready
                 /\ events[e].attempts < MaxAttempts}

(* recoverAvailableEvents, at the start of a worker, for one candidate.    *)
(* findAvailable returns the RecoveryBatch events that have been available *)
(* longest; which those are is left open, so any available event may be    *)
(* one (OutboxFairness says which is sure to be).                          *)
RecoverEvent(e) ==
    /\ e \in Available
    /\ jobs[e].state = "none"
    /\ jobs' = Enqueued(e)
    /\ UNCHANGED <<notes, events, worker, faults>>

WorkerStep(w) ==
    \/ TakeJob(w) \/ ClaimById(w) \/ PublishNotificationCreated(w)
    \/ MarkPublished(w) \/ MarkFailed(w)

OutboxNext ==
    \/ \E w \in Workers :
         WorkerStep(w) \/ PublishFails(w) \/ DatabaseFails(w) \/ WorkerCrashes(w)
    \/ \E e \in Ids : RetryDelayPasses(e) \/ ClaimGetsOld(e) \/ RecoverEvent(e)

(* Available events that no recovery can help: their jobs are kept as      *)
(* failed, and they keep their places in the batch for good.               *)
Blocked == {e \in Available : jobs[e].state = "failed"}

(* The queue is served, delays pass, and workers are started again and     *)
(* again, each start looking for the events that are left.  The events     *)
(* ahead of one leave the batch, served or available later than it, unless *)
(* they are blocked.                                                       *)
OutboxFairness ==
    /\ \A w \in Workers : WF_outboxVars(WorkerStep(w))
    /\ \A e \in Ids :
         /\ WF_outboxVars(RetryDelayPasses(e))
         /\ WF_outboxVars(Cardinality(Blocked) < RecoveryBatch /\ RecoverEvent(e))

---------------------------------------------------------------------------
(* What the retries do not reach: an event out of attempts, one left       *)
(* "processing" by a worker that stopped, which findAvailable never        *)
(* returns, one whose job is kept as failed under the id a new job would   *)
(* have, and one that was never queued and that a batch full of blocked    *)
(* events keeps from being recovered.                                      *)
Stuck(e) ==
    \/ events[e].status = "failed" /\ events[e].attempts = MaxAttempts
    \/ /\ events[e].status = "processing"
       /\ jobs[e].state = "none" /\ \A w \in Workers : On(w) # e
    \/ jobs[e].state = "failed"
    \/ jobs[e].state = "none" /\ e \in Available /\ Cardinality(Blocked) >= RecoveryBatch

(* Every event that was committed is published in the end, or is stuck:    *)
(* a request that stops between its commit and enqueuePublishEvent, a      *)
(* publishing error and a retry that comes before the event is available   *)
(* again only delay it, until a worker starts.                             *)
DeliveredOrStuck ==
    \A e \in Ids : events[e].status # "none" ~> (events[e].status = "published" \/ Stuck(e))
============================================================================
