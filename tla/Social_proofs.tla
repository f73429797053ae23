--------------------------- MODULE Social_proofs ---------------------------
(***************************************************************************)
(* Proofs of the safety properties of Social and of the outbox under it,   *)
(* for every set of users, workers and requests and every value of the     *)
(* bounds.                                                                 *)
(***************************************************************************)
EXTENDS Social, FiniteSetTheorems, TLAPS

---------------------------------------------------------------------------
(* The outbox *)

WorkerPCs == {"idle", "claim", "publish", "mark", "fail"}
Busy(w) == worker[w].pc # "idle"

(* A worker that is not idle holds an active job of its own, and only a    *)
(* job that is kept as failed has used all its attempts.  Two workers on   *)
(* one job could count its attempts past the limit.                        *)
JobsHeld ==
    /\ \A w \in Workers : Busy(w) => On(w) \in Ids /\ jobs[On(w)].state = "active"
    /\ \A w, x \in Workers : Busy(w) /\ Busy(x) /\ On(w) = On(x) => w = x
    /\ \A e \in Ids : jobs[e].state # "failed" => jobs[e].tries < MaxAttempts

OutboxInv == OutboxTypeOK /\ JobsHeld

LEMMA OutboxStarts == OutboxInit => OutboxInv
<1> SUFFICES ASSUME OutboxInit PROVE OutboxInv
  OBVIOUS
<1>1. NoEvent \in Event /\ NoJob \in Job
  BY OutboxConstants DEF NoEvent, Event, NoJob, Job
<1>2. IdleWorker \in [pc : WorkerPCs, event : Ids \cup {None}]
  BY DEF IdleWorker, WorkerPCs
<1>3. notes \in Seq(Note) /\ Len(notes) <= MaxNotes /\ faults \in 0..MaxFaults
  BY OutboxConstants DEF OutboxInit
<1>4. OutboxTypeOK
  BY <1>1, <1>2, <1>3 DEF OutboxInit, OutboxTypeOK, WorkerPCs
<1>5. JobsHeld
  BY OutboxConstants DEF OutboxInit, JobsHeld, Busy, IdleWorker, NoJob
<1> QED BY <1>4, <1>5 DEF OutboxInv

(* So does the later start of a delivery that has been tried before.       *)
LEMMA RetryingStarts ==
    ASSUME NEW note \in Note, OutboxRetrying(note)
    PROVE  OutboxInv
<1>1. MaxAttempts \in Nat /\ MaxAttempts > 1 /\ MaxNotes \in Nat /\ MaxNotes > 0
  BY OutboxConstants DEF OutboxRetrying
<1>2. MaxAttempts - 1 \in 0..MaxAttempts /\ 0 \in 0..MaxAttempts /\ MaxAttempts - 1 < MaxAttempts
  BY <1>1
<1>3. PICK b \in BOOLEAN : b = TRUE
  OBVIOUS
<1>4. RetryingEvent \in Event /\ RetryingJob \in Job /\ RetryingJob.tries = MaxAttempts - 1
  BY <1>2, <1>3 DEF RetryingEvent, Event, RetryingJob, Job
<1>5. NoEvent \in Event /\ NoJob \in Job /\ NoJob.tries = 0
  BY <1>2 DEF NoEvent, Event, NoJob, Job
<1>6. events \in [Ids -> Event] /\ jobs \in [Ids -> Job]
      /\ \A e \in Ids : jobs[e].tries \in {0, MaxAttempts - 1}
  BY <1>4, <1>5 DEF OutboxRetrying
<1>7. notes \in Seq(Note) /\ Len(notes) <= MaxNotes /\ faults \in 0..MaxFaults
  BY <1>1, OutboxConstants DEF OutboxRetrying
<1>8. \A w \in Workers : worker[w] = IdleWorker
  BY DEF OutboxRetrying
<1>9. OutboxTypeOK
  BY <1>6, <1>7 DEF OutboxRetrying, IdleWorker, OutboxTypeOK
<1>10. JobsHeld
  BY <1>1, <1>2, <1>6, <1>8 DEF JobsHeld, Busy, IdleWorker
<1> QED BY <1>9, <1>10 DEF OutboxInv

LEMMA FlagSet ==
    ASSUME NEW v \in Event
    PROVE  [v EXCEPT !.ready = TRUE] \in Event /\ [v EXCEPT !.stale = TRUE] \in Event
<1>1. \A b \in BOOLEAN : [v EXCEPT !.ready = b] \in Event /\ [v EXCEPT !.stale = b] \in Event
  BY DEF Event
<1> QED BY <1>1, TRUE \in BOOLEAN

LEMMA QueuedType == QueuedEvent \in Event
<1>1. 0 \in 0..MaxAttempts
  BY OutboxConstants
<1>2. NoEvent \in Event
  BY <1>1 DEF NoEvent, Event
<1>3. [NoEvent EXCEPT !.status = "queued"] \in Event
  BY <1>2 DEF Event
<1> QED BY <1>3, FlagSet DEF QueuedEvent

(* A new row finds its event in the table and leaves the rest as it was.   *)
LEMMA NoteCreated ==
    ASSUME OutboxInv, NEW note \in Note, CreateNotification(note),
           UNCHANGED <<jobs, worker>>, faults' \in 0..MaxFaults
    PROVE  OutboxInv' /\ Len(notes) + 1 \in Ids
<1>1. Len(notes) + 1 \in Ids /\ notes' \in Seq(Note) /\ Len(notes') = Len(notes) + 1
  BY OutboxConstants DEF OutboxInv, OutboxTypeOK, CreateNotification, Ids
<1>3. events' \in [Ids -> Event]
  BY <1>1, QueuedType DEF OutboxInv, OutboxTypeOK, CreateNotification
<1>4. Len(notes') <= MaxNotes
  BY <1>1 DEF Ids
<1>5. OutboxTypeOK'
  BY <1>1, <1>3, <1>4 DEF OutboxInv, OutboxTypeOK
<1>6. JobsHeld'
  BY DEF OutboxInv, JobsHeld, Busy, On
<1> QED BY <1>1, <1>5, <1>6 DEF OutboxInv

(* Putting an event on the queue touches no job that exists.               *)
LEMMA EnqueuedFacts ==
    ASSUME OutboxInv, NEW e \in Ids
    PROVE  /\ Enqueued(e) \in [Ids -> Job]
           /\ \A i \in Ids : jobs[i].state # "none" => Enqueued(e)[i] = jobs[i]
           /\ \A i \in Ids : /\ Enqueued(e)[i].tries = jobs[i].tries
                             /\ jobs[i].state = "none" => Enqueued(e)[i].state # "failed"
BY DEF OutboxInv, OutboxTypeOK, Enqueued, Job

LEMMA JobEnqueued ==
    ASSUME OutboxInv, NEW e \in Ids, jobs' = Enqueued(e),
           UNCHANGED <<notes, events, worker>>, faults' \in 0..MaxFaults
    PROVE  OutboxInv'
<1>1. OutboxTypeOK'
  BY EnqueuedFacts DEF OutboxInv, OutboxTypeOK
<1>2. \A w \in Workers : Busy(w)' => On(w)' \in Ids /\ jobs'[On(w)'].state = "active"
  BY EnqueuedFacts DEF OutboxInv, JobsHeld, Busy, On
<1>3. \A w, x \in Workers : Busy(w)' /\ Busy(x)' /\ On(w)' = On(x)' => w = x
  BY DEF OutboxInv, JobsHeld, Busy, On
<1>4. ASSUME NEW i \in Ids, jobs'[i].state # "failed" PROVE jobs'[i].tries < MaxAttempts
  <2>1. jobs[i].state # "failed"
    BY <1>4, EnqueuedFacts
  <2> QED BY <2>1, EnqueuedFacts DEF OutboxInv, JobsHeld
<1>5. JobsHeld'
  BY <1>2, <1>3, <1>4 DEF JobsHeld, Busy, On
<1> QED BY <1>1, <1>5 DEF OutboxInv

(* A worker that goes on with its job.                                     *)
LEMMA WorkerGoesOn ==
    ASSUME OutboxInv, NEW w \in Workers, Busy(w),
           NEW where \in WorkerPCs \ {"idle"}, WorkerGoto(w, where),
           events' \in [Ids -> Event], UNCHANGED <<notes, jobs>>, faults' \in 0..MaxFaults
    PROVE  OutboxInv'
<1>1. worker' \in [Workers -> [pc : WorkerPCs, event : Ids \cup {None}]]
  BY DEF OutboxInv, OutboxTypeOK, WorkerGoto, WorkerPCs
<1>2. \A x \in Workers : worker'[x].event = worker[x].event /\ (Busy(x)' => Busy(x))
  BY DEF OutboxInv, OutboxTypeOK, WorkerGoto, Busy
<1>3. OutboxTypeOK'
  BY <1>1 DEF OutboxInv, OutboxTypeOK, WorkerPCs
<1>4. JobsHeld'
  BY <1>2 DEF OutboxInv, JobsHeld, On
<1> QED BY <1>3, <1>4 DEF OutboxInv

(* A worker that is done with its job, which becomes j.                    *)
LEMMA WorkerLetsGo ==
    ASSUME OutboxInv, NEW w \in Workers, Busy(w), NEW j \in Job,
           j.state # "failed" => j.tries < MaxAttempts,
           jobs' = [jobs EXCEPT ![On(w)] = j],
           worker' = [worker EXCEPT ![w] = IdleWorker],
           events' \in [Ids -> Event], UNCHANGED notes, faults' \in 0..MaxFaults
    PROVE  OutboxInv'
<1>1. worker' \in [Workers -> [pc : WorkerPCs, event : Ids \cup {None}]]
  BY DEF OutboxInv, OutboxTypeOK, WorkerPCs, IdleWorker
<1>2. \A x \in Workers : Busy(x)' => x # w /\ worker'[x] = worker[x] /\ Busy(x)
  BY DEF OutboxInv, OutboxTypeOK, IdleWorker, Busy
<1>3. On(w) \in Ids /\ jobs' \in [Ids -> Job] /\ jobs'[On(w)] = j
      /\ \A i \in Ids : i # On(w) => jobs'[i] = jobs[i]
  BY DEF OutboxInv, OutboxTypeOK, JobsHeld
<1>4. OutboxTypeOK'
  BY <1>1, <1>3 DEF OutboxInv, OutboxTypeOK, WorkerPCs
<1>5. \A x \in Workers : Busy(x)' => On(x)' \in Ids /\ jobs'[On(x)'].state = "active"
  BY <1>2, <1>3 DEF OutboxInv, JobsHeld, On
<1>6. \A x, y \in Workers : Busy(x)' /\ Busy(y)' /\ On(x)' = On(y)' => x = y
  BY <1>2 DEF OutboxInv, JobsHeld, On
<1>7. \A e \in Ids : jobs'[e].state # "failed" => jobs'[e].tries < MaxAttempts
  BY <1>3 DEF OutboxInv, JobsHeld
<1>8. JobsHeld'
  BY <1>5, <1>6, <1>7 DEF JobsHeld, Busy, On
<1> QED BY <1>4, <1>8 DEF OutboxInv

(* The job of a worker that throws: it has attempts left, so one more is   *)
(* within the limit.                                                       *)
LEMMA ThrownJob ==
    ASSUME OutboxInv, NEW w \in Workers, Busy(w), JobThrows(w)
    PROVE  \E j \in Job : /\ j.state # "failed" => j.tries < MaxAttempts
                          /\ jobs' = [jobs EXCEPT ![On(w)] = j]
                          /\ worker' = [worker EXCEPT ![w] = IdleWorker]
<1> DEFINE tries == jobs[On(w)].tries + 1
           j == [jobs[On(w)] EXCEPT !.tries = tries,
                                    !.state = IF tries < MaxAttempts THEN "waiting" ELSE "failed"]
<1>1. On(w) \in Ids /\ jobs[On(w)].state = "active" /\ jobs[On(w)] \in Job
  BY DEF OutboxInv, OutboxTypeOK, JobsHeld
<1>2. jobs[On(w)].tries < MaxAttempts
  BY <1>1 DEF OutboxInv, JobsHeld
<1>3. tries \in 0..MaxAttempts
  BY <1>1, <1>2, OutboxConstants DEF Job
<1>4. j \in Job /\ (j.state # "failed" => j.tries < MaxAttempts)
  <2> HIDE DEF tries
  <2> QED BY <1>1, <1>3 DEF Job
<1>5. jobs' = [jobs EXCEPT ![On(w)] = j] /\ worker' = [worker EXCEPT ![w] = IdleWorker]
  BY <1>1 DEF JobThrows, OutboxInv, OutboxTypeOK
<1> HIDE DEF j
<1> QED BY <1>4, <1>5

(* The outbox keeps its types and its jobs whatever its workers do.        *)
LEMMA OutboxKeeps == OutboxInv /\ OutboxNext => OutboxInv'
<1> SUFFICES ASSUME OutboxInv, OutboxNext PROVE OutboxInv'
  OBVIOUS
<1> DEFINE Kept == OutboxInv'
<1> SUFFICES Kept
  OBVIOUS
<1> HIDE DEF Kept
<1>t. /\ events \in [Ids -> Event] /\ jobs \in [Ids -> Job]
      /\ faults \in 0..MaxFaults /\ (faults < MaxFaults => faults + 1 \in 0..MaxFaults)
  BY OutboxConstants DEF OutboxInv, OutboxTypeOK
<1>n. NoJob \in Job /\ NoJob.state # "failed" /\ NoJob.tries < MaxAttempts
  BY OutboxConstants DEF NoJob, Job
<1>1. ASSUME NEW w \in Workers, TakeJob(w) PROVE Kept
  <2>1. PICK e \in Ids : /\ jobs[e].state = "waiting"
                         /\ jobs' = [jobs EXCEPT ![e].state = "active"]
                         /\ worker' = [worker EXCEPT ![w] = [pc |-> "claim", event |-> e]]
    BY <1>1 DEF TakeJob
  <2>2. jobs' \in [Ids -> Job] /\ jobs'[e].state = "active" /\ jobs'[e].tries = jobs[e].tries
        /\ \A i \in Ids : i # e => jobs'[i] = jobs[i]
    BY <2>1, <1>t DEF Job
  <2>3. worker' \in [Workers -> [pc : WorkerPCs, event : Ids \cup {None}]]
        /\ worker'[w].event = e
        /\ \A x \in Workers : x # w => worker'[x] = worker[x]
    BY <2>1 DEF OutboxInv, OutboxTypeOK, WorkerPCs
  <2>4. OutboxTypeOK'
    BY <1>1, <2>2, <2>3 DEF OutboxInv, OutboxTypeOK, WorkerPCs, TakeJob
  <2>5. \A x \in Workers : Busy(x) => On(x) # e
    BY <2>1 DEF OutboxInv, JobsHeld
  <2>6. \A x \in Workers : Busy(x)' => On(x)' \in Ids /\ jobs'[On(x)'].state = "active"
    BY <2>2, <2>3, <2>5 DEF OutboxInv, JobsHeld, On, Busy
  <2>7. \A x, y \in Workers : Busy(x)' /\ Busy(y)' /\ On(x)' = On(y)' => x = y
    BY <2>3, <2>5 DEF OutboxInv, JobsHeld, On, Busy
  <2>8. \A i \in Ids : jobs'[i].state # "failed" => jobs'[i].tries < MaxAttempts
    BY <2>1, <2>2 DEF OutboxInv, JobsHeld
  <2>9. JobsHeld'
    BY <2>6, <2>7, <2>8 DEF JobsHeld, Busy, On
  <2> QED BY <2>4, <2>9 DEF Kept, OutboxInv
<1>2. ASSUME NEW w \in Workers, ClaimById(w) PROVE Kept
  <2>1. Busy(w) /\ On(w) \in Ids
    BY <1>2 DEF ClaimById, WorkerAt, Busy, OutboxInv, JobsHeld
  <2>2. CASE Claimable(On(w)) /\ WorkerGoto(w, "publish") /\ UNCHANGED jobs /\
             events' = [events EXCEPT ![On(w)] =
                          [events[On(w)] EXCEPT !.status = "processing", !.stale = FALSE,
                                                !.attempts = @ + 1]]
    <3> DEFINE o == On(w)
               v == [events[o] EXCEPT !.status = "processing", !.stale = FALSE,
                                      !.attempts = events[o].attempts + 1]
    <3>1. events[o] \in Event /\ events[o].attempts + 1 \in 0..MaxAttempts
      BY <1>t, <2>1, <2>2, OutboxConstants DEF Claimable, Event
    <3>2. v \in Event
      BY <3>1 DEF Event
    <3>3. events' = [events EXCEPT ![o] = v]
      BY <1>t, <2>1, <2>2
    <3>4. events' \in [Ids -> Event]
      BY <3>2, <3>3, <1>t
    <3> QED BY <1>2, <1>t, <2>1, <2>2, <3>4, WorkerGoesOn DEF ClaimById, WorkerPCs, Kept
  <2>3. CASE JobDone(w) /\ UNCHANGED events
    BY <1>2, <1>t, <1>n, <2>1, <2>3, WorkerLetsGo DEF ClaimById, JobDone, Kept
  <2> QED BY <1>2, <2>2, <2>3 DEF ClaimById
<1>3. ASSUME NEW w \in Workers, PublishNotificationCreated(w) \/ PublishFails(w) PROVE Kept
  <2>1. /\ Busy(w) /\ UNCHANGED <<notes, events, jobs>> /\ faults' \in 0..MaxFaults
        /\ \E where \in WorkerPCs \ {"idle"} : WorkerGoto(w, where)
    BY <1>3, <1>t DEF PublishNotificationCreated, PublishFails, Busy, WorkerAt, WorkerPCs
  <2> QED BY <1>t, <2>1, WorkerGoesOn DEF Kept
<1>4. ASSUME NEW w \in Workers, MarkPublished(w) PROVE Kept
  <2>1. Busy(w) /\ On(w) \in Ids
    BY <1>4 DEF MarkPublished, WorkerAt, Busy, OutboxInv, JobsHeld
  <2>2. events' \in [Ids -> Event]
    BY <1>4, <1>t, <2>1 DEF MarkPublished, Event
  <2> QED BY <1>4, <1>t, <1>n, <2>1, <2>2, WorkerLetsGo DEF MarkPublished, JobDone, Kept
<1>5. ASSUME NEW w \in Workers, MarkFailed(w) PROVE Kept
  <2>1. Busy(w) /\ On(w) \in Ids
    BY <1>5 DEF MarkFailed, WorkerAt, Busy, OutboxInv, JobsHeld
  <2>2. events' \in [Ids -> Event]
    BY <1>5, <1>t, <2>1 DEF MarkFailed, Event
  <2> QED BY <1>5, <1>t, <2>1, <2>2, ThrownJob, WorkerLetsGo DEF MarkFailed, Kept
<1>6. ASSUME NEW w \in Workers, DatabaseFails(w) PROVE Kept
  <2>1. Busy(w)
    BY <1>6 DEF DatabaseFails, Busy
  <2> QED BY <1>6, <1>t, <2>1, ThrownJob, WorkerLetsGo DEF DatabaseFails, Kept
<1>7. ASSUME NEW w \in Workers, WorkerCrashes(w) PROVE Kept
  <2>1. Busy(w) /\ On(w) \in Ids /\ jobs[On(w)].state = "active"
    BY <1>7 DEF WorkerCrashes, WorkerAt, Busy, OutboxInv, JobsHeld
  <2>5. PICK s \in {"waiting", "failed"}, b \in BOOLEAN :
          s = (IF jobs[On(w)].stalled THEN "failed" ELSE "waiting") /\ b = TRUE
    OBVIOUS
  <2> DEFINE j == [jobs[On(w)] EXCEPT !.stalled = b, !.state = s]
  <2>2. j \in Job /\ j.tries = jobs[On(w)].tries
    BY <2>1, <1>t DEF Job
  <2>3. j.tries < MaxAttempts
    BY <2>1, <2>2 DEF OutboxInv, JobsHeld
  <2>4. jobs' = [jobs EXCEPT ![On(w)] = j]
    BY <1>7, <2>1, <2>5, <1>t DEF WorkerCrashes
  <2> HIDE DEF j
  <2> QED BY <1>7, <1>t, <2>1, <2>2, <2>3, <2>4, WorkerLetsGo DEF WorkerCrashes, Kept
<1>8. ASSUME NEW e \in Ids, RetryDelayPasses(e) \/ ClaimGetsOld(e) PROVE Kept
  <2>1. events' \in [Ids -> Event]
    <3>1. events[e] \in Event
      BY <1>t
    <3>2. PICK v \in Event : events' = [events EXCEPT ![e] = v]
      BY <1>8, <3>1, FlagSet DEF RetryDelayPasses, ClaimGetsOld
    <3> QED BY <1>t, <3>2
  <2>2. OutboxTypeOK'
    BY <1>8, <2>1 DEF OutboxInv, OutboxTypeOK, RetryDelayPasses, ClaimGetsOld
  <2>3. JobsHeld'
    BY <1>8 DEF OutboxInv, JobsHeld, Busy, On, RetryDelayPasses, ClaimGetsOld
  <2> QED BY <2>2, <2>3 DEF Kept, OutboxInv
<1>9. ASSUME NEW e \in Ids, RecoverEvent(e) PROVE Kept
  BY <1>9, <1>t, JobEnqueued DEF RecoverEvent, Kept
<1> QED BY <1>1, <1>2, <1>3, <1>4, <1>5, <1>6, <1>7, <1>8, <1>9 DEF OutboxNext, WorkerStep

---------------------------------------------------------------------------
(* Type correctness *)

PCs == {"idle", "insert", "invalidate", "enqueue", "invite",
        "lookup", "load", "storePage", "find", "note", "event"}

(* What a request carries by the time it needs it.  Only a request that is *)
(* about to invalidate lists has lists to invalidate.                      *)
Carries(l) ==
    /\ l.pc = "insert" => l.from \in Users /\ l.to \in Users
    /\ l.pc \in {"enqueue", "event"} => l.event \in Ids
    /\ l.pc \in {"invite", "find", "note"} => l.to \in Users
    /\ l.pc \in {"lookup", "load", "storePage"} => l.from \in Users
    /\ l.stale # {} => l.pc = "invalidate"

Typed == TypeOK /\ JobsHeld /\ \A p \in Procs : Carries(req[p])

LEMMA IdleType == Idle \in Locals /\ Carries(Idle) /\ Idle.pc = "idle" /\ Idle.stale = {}
BY DEF Idle, Locals, Carries

(* What every start has in common, one notification on the way or none.    *)
LEMMA InitFacts ==
    ASSUME Init
    PROVE  /\ OutboxInit \/ \E v \in Users :
                 OutboxRetrying([user |-> v, kind |-> "friend_request", about |-> 1])
           /\ \/ friendships = {} /\ created = 0
              \/ /\ created = 1
                 /\ \E u, v \in Users :
                      /\ u # v
                      /\ friendships = {[id |-> 1, from |-> u, to |-> v, status |-> "pending"]}
           /\ version \in [Users -> Nat]
           /\ pages = {} /\ missed = {} /\ served = 0
           /\ req = [p \in Procs |-> Idle]
<1>1. CASE /\ OutboxInit
           /\ friendships = {} /\ created = 0
           /\ version = [u \in Users |-> 0]
  BY <1>1 DEF Init
<1>2. ASSUME NEW u \in Users, NEW v \in Users, u # v,
             \/ OutboxInit
             \/ OutboxRetrying([user |-> v, kind |-> "friend_request", about |-> 1]),
             friendships = {[id |-> 1, from |-> u, to |-> v, status |-> "pending"]},
             created = 1, version = [x \in Users |-> 2]
      PROVE  /\ OutboxInit \/ \E y \in Users :
                   OutboxRetrying([user |-> y, kind |-> "friend_request", about |-> 1])
             /\ created = 1
             /\ \E x, y \in Users :
                  /\ x # y
                  /\ friendships = {[id |-> 1, from |-> x, to |-> y, status |-> "pending"]}
             /\ version \in [Users -> Nat]
  BY <1>2
<1> QED BY <1>1, <1>2 DEF Init

LEMMA InitTyped == Init => Typed
<1> SUFFICES ASSUME Init PROVE Typed
  OBVIOUS
<1>1. OutboxTypeOK /\ JobsHeld
  <2>1. ASSUME NEW v \in Users,
               OutboxRetrying([user |-> v, kind |-> "friend_request", about |-> 1])
        PROVE  OutboxInv
    <3>1. [user |-> v, kind |-> "friend_request", about |-> 1] \in Note
      BY DEF Note, Kinds
    <3> QED BY <2>1, <3>1, RetryingStarts
  <2> QED BY <2>1, InitFacts, OutboxStarts DEF OutboxInv
<1>2. friendships \subseteq Friendship /\ created \in Nat
  BY InitFacts DEF Friendship
<1>3. version \in [Users -> Nat] /\ served \in 0..MaxRequests
  BY InitFacts, SocialConstants
<1>4. req \in [Procs -> Locals] /\ \A p \in Procs : Carries(req[p])
  BY IdleType DEF Init
<1> QED BY <1>1, <1>2, <1>3, <1>4 DEF Typed, TypeOK, Init

LEMMA BecomeFacts ==
    ASSUME req \in [Procs -> Locals], NEW p \in Procs, NEW l \in Locals, Become(p, l)
    PROVE  /\ req' \in [Procs -> Locals]
           /\ req'[p] = l
           /\ \A q \in Procs \ {p} : req'[q] = req[q]
BY DEF Become

(* The locals of a request whose change has been committed.                *)
LEMMA ChangedFacts ==
    ASSUME NEW p \in Procs, NEW f \in Friendship, NEW e \in Ids \cup {None}, Changed(p, f, e)
    PROVE  \E l \in Locals : /\ Become(p, l) /\ Carries(l)
                             /\ l.pc = "invalidate" /\ l.stale = {f.from, f.to}
<1> DEFINE l == [Idle EXCEPT !.pc = "invalidate", !.stale = {f.from, f.to}, !.event = e]
<1>1. l \in Locals /\ l.pc = "invalidate" /\ l.stale = {f.from, f.to}
  BY DEF Idle, Locals, Friendship
<1>2. Become(p, l)
  BY DEF Changed
<1> HIDE DEF l
<1>3. Carries(l)
  BY <1>1 DEF Carries
<1> QED BY <1>1, <1>2, <1>3

(* The friendship a request inserts.                                       *)
New(p) == [id |-> created + 1, from |-> req[p].from, to |-> req[p].to, status |-> "pending"]

LEMMA NewType ==
    ASSUME Typed, NEW p \in Procs, At(p, "insert")
    PROVE  New(p) \in Friendship
BY DEF New, Friendship, Typed, TypeOK, Carries, At

LEMMA NotesType ==
    ASSUME Typed, NEW u \in Users, NEW k \in Kinds, NEW a \in Nat \cup {None}
    PROVE  [user |-> u, kind |-> k, about |-> a] \in Note
BY DEF Note

LEMMA RoomForNote ==
    ASSUME Typed, NEW note, CreateNotification(note)
    PROVE  Len(notes) + 1 \in Ids
BY OutboxConstants DEF Typed, TypeOK, OutboxTypeOK, CreateNotification, Ids

LEMMA RequestLocals ==
    ASSUME Typed, NEW p \in Procs, Request(p)
    PROVE  \E l \in Locals : Become(p, l) /\ Carries(l)
<1> DEFINE Good == \E l \in Locals : Become(p, l) /\ Carries(l)
<1> SUFFICES Good
  OBVIOUS
<1>1. ASSUME NEW u \in Users, NEW v \in Users, SendRequest(p, u, v) PROVE Good
  <2> DEFINE l == [Idle EXCEPT !.pc = "insert", !.from = u, !.to = v]
  <2>1. l \in Locals /\ l.pc = "insert" /\ l.from = u /\ l.to = v /\ l.stale = {}
    BY DEF Idle, Locals
  <2>2. Become(p, l)
    BY <1>1 DEF SendRequest
  <2> HIDE DEF l
  <2> QED BY <2>1, <2>2 DEF Carries
<1>2. ASSUME NEW u \in Users, NEW v \in Users, InviteToRoom(p, u, v) PROVE Good
  <2> DEFINE l == [Idle EXCEPT !.pc = "invite", !.from = u, !.to = v]
  <2>1. l \in Locals /\ l.pc = "invite" /\ l.to = v /\ l.stale = {}
    BY DEF Idle, Locals
  <2>2. Become(p, l)
    BY <1>2 DEF InviteToRoom
  <2> HIDE DEF l
  <2> QED BY <2>1, <2>2 DEF Carries
<1>3. ASSUME NEW f \in friendships, NEW u \in Users, AcceptRequest(p, f, u) PROVE Good
  <2>1. f \in Friendship /\ Len(notes) + 1 \in Ids /\ Changed(p, f, Len(notes) + 1)
    BY <1>3, RoomForNote DEF AcceptRequest, Typed, TypeOK
  <2> QED BY <2>1, ChangedFacts
<1>4. ASSUME NEW f \in friendships, NEW op \in {"reject", "cancel", "remove"},
             DeleteFriendship(p, f, op)
      PROVE  Good
  <2>1. f \in Friendship /\ Changed(p, f, None)
    BY <1>4 DEF DeleteFriendship, Typed, TypeOK
  <2> QED BY <2>1, ChangedFacts
<1>5. ASSUME NEW u \in Users, RefreshEntry(p, u) PROVE Good
  <2> DEFINE l == [Idle EXCEPT !.pc = "find", !.to = u]
  <2>1. l \in Locals /\ l.pc = "find" /\ l.to = u /\ l.stale = {}
    BY DEF Idle, Locals
  <2>2. Become(p, l)
    BY <1>5 DEF RefreshEntry
  <2> HIDE DEF l
  <2> QED BY <2>1, <2>2 DEF Carries
<1>6. ASSUME NEW u \in Users, ListFriends(p, u) PROVE Good
  <2> DEFINE l == [Idle EXCEPT !.pc = "lookup", !.from = u, !.version = CacheVersion(u)]
  <2>1. CacheVersion(u) \in Nat
    BY DEF CacheVersion, Typed, TypeOK
  <2>2. l \in Locals /\ l.pc = "lookup" /\ l.from = u /\ l.stale = {}
    BY <2>1 DEF Idle, Locals
  <2>3. Become(p, l)
    BY <1>6 DEF ListFriends
  <2> HIDE DEF l
  <2> QED BY <2>2, <2>3 DEF Carries
<1> HIDE DEF Good
<1> QED BY <1>1, <1>2, <1>3, <1>4, <1>5, <1>6 DEF Request

(* Each field of the locals after a jump.                                  *)
LEMMA GotoFacts ==
    ASSUME NEW l \in Locals, NEW where \in PCs
    PROVE  /\ [l EXCEPT !.pc = where] \in Locals
           /\ [l EXCEPT !.pc = where].pc = where
           /\ [l EXCEPT !.pc = where].from = l.from
           /\ [l EXCEPT !.pc = where].to = l.to
           /\ [l EXCEPT !.pc = where].stale = l.stale
           /\ [l EXCEPT !.pc = where].event = l.event
           /\ [l EXCEPT !.pc = where].version = l.version
BY DEF Locals, PCs

LEMMA StepLocals ==
    ASSUME Typed, NEW p \in Procs, Step(p) \/ Abort(p)
    PROVE  \E l \in Locals : Become(p, l) /\ Carries(l)
<1> DEFINE Good == \E l \in Locals : Become(p, l) /\ Carries(l)
<1> SUFFICES Good
  OBVIOUS
<1>1. req[p] \in Locals /\ Carries(req[p])
  BY DEF Typed, TypeOK
<1>2. ASSUME End(p) PROVE Good
  BY <1>2, IdleType DEF End
<1>3. ASSUME NEW where \in PCs, Goto(p, where), Carries([req[p] EXCEPT !.pc = where])
      PROVE  Good
  BY <1>1, <1>3, GotoFacts DEF Goto, Become
<1> HIDE DEF Good
<1>4. CASE CreateFriendRequest(p)
  <2>1. CASE End(p)
    BY <2>1, <1>2
  <2>2. CASE Changed(p, New(p), Len(notes) + 1) /\
             CreateNotification([user |-> req[p].to, kind |-> "friend_request",
                                 about |-> created + 1])
    BY <1>4, <2>2, NewType, RoomForNote, ChangedFacts DEF CreateFriendRequest, Good
  <2> QED BY <1>4, <2>1, <2>2 DEF CreateFriendRequest, New
<1>5. CASE InvalidateFriendListCache(p)
  <2>0. At(p, "invalidate")
    BY <1>5 DEF InvalidateFriendListCache
  <2>1. CASE End(p)
    BY <2>1, <1>2
  <2>2. ASSUME NEW u \in req[p].stale, Become(p, [req[p] EXCEPT !.stale = @ \ {u}]) PROVE Good
    <3> DEFINE l == [req[p] EXCEPT !.stale = @ \ {u}]
    <3>1. l \in Locals /\ l.pc = "invalidate"
      BY <1>1, <2>0 DEF Locals, At
    <3>2. Become(p, l)
      BY <2>2
    <3> HIDE DEF l
    <3> QED BY <3>1, <3>2 DEF Carries, Good
  <2>3. CASE /\ req[p].event # None
             /\ Become(p, [req[p] EXCEPT !.stale = {}, !.pc = "enqueue"])
    <3> DEFINE l == [req[p] EXCEPT !.stale = {}, !.pc = "enqueue"]
    <3>1. l \in Locals /\ l.pc = "enqueue" /\ l.stale = {} /\ l.event \in Ids
      BY <1>1, <2>3 DEF Locals
    <3>2. Become(p, l)
      BY <2>3
    <3> HIDE DEF l
    <3> QED BY <3>1, <3>2 DEF Carries, Good
  <2> QED BY <1>5, <2>1, <2>2, <2>3 DEF InvalidateFriendListCache
<1>6. CASE EnqueuePublishEvent(p) \/ StorePage(p) \/ Abort(p)
  BY <1>6, <1>2 DEF EnqueuePublishEvent, StorePage, Abort
<1>7. CASE CreateRoomInvite(p)
  <2> DEFINE l == [req[p] EXCEPT !.pc = "enqueue", !.event = Len(notes) + 1]
  <2>1. Len(notes) + 1 \in Ids /\ req[p].stale = {}
    BY <1>1, <1>7, RoomForNote DEF CreateRoomInvite, Carries, At
  <2>2. l \in Locals /\ l.pc = "enqueue" /\ l.event \in Ids /\ l.stale = {}
    BY <1>1, <2>1 DEF Locals
  <2>3. Become(p, l)
    BY <1>7 DEF CreateRoomInvite
  <2> HIDE DEF l
  <2> QED BY <2>2, <2>3 DEF Carries, Good
<1>8. CASE FindLeaderboardNotification(p)
  <2>1. CASE At(p, "find") /\ Goto(p, "note")
    <3>1. Carries([req[p] EXCEPT !.pc = "note"])
      BY <1>1, <2>1, GotoFacts DEF Carries, At, PCs
    <3> QED BY <3>1, <2>1, <1>3 DEF PCs
  <2> QED BY <1>8, <2>1, <1>2 DEF FindLeaderboardNotification
<1>9. CASE CreateLeaderboardNotification(p)
  <2> DEFINE l == [req[p] EXCEPT !.pc = "event", !.event = Len(notes) + 1]
  <2>1. Len(notes) + 1 \in Ids /\ req[p].stale = {}
    BY <1>1, <1>9, OutboxConstants DEF CreateLeaderboardNotification, Carries, At,
       Ids, Typed, TypeOK, OutboxTypeOK
  <2>2. l \in Locals /\ l.pc = "event" /\ l.event \in Ids /\ l.stale = {}
    BY <1>1, <2>1 DEF Locals
  <2>3. Become(p, l)
    BY <1>9 DEF CreateLeaderboardNotification
  <2> HIDE DEF l
  <2> QED BY <2>2, <2>3 DEF Carries, Good
<1>10. CASE CreateLeaderboardEvent(p)
  <2>1. Carries([req[p] EXCEPT !.pc = "enqueue"])
    BY <1>1, <1>10, GotoFacts DEF Carries, CreateLeaderboardEvent, At, PCs
  <2> QED BY <2>1, <1>10, <1>3 DEF PCs, CreateLeaderboardEvent
<1>11. CASE LookUpPage(p)
  <2>1. CASE At(p, "lookup") /\ Goto(p, "load")
    <3>1. Carries([req[p] EXCEPT !.pc = "load"])
      BY <1>1, <2>1, GotoFacts DEF Carries, At, PCs
    <3> QED BY <3>1, <2>1, <1>3 DEF PCs
  <2> QED BY <1>11, <2>1, <1>2 DEF LookUpPage
<1>12. CASE LoadFriends(p)
  <2> DEFINE l == [req[p] EXCEPT !.pc = "storePage", !.rows = FriendsOf(req[p].from)]
  <2>1. FriendsOf(req[p].from) \in SUBSET Users
    BY DEF FriendsOf
  <2>2. req[p].from \in Users /\ req[p].stale = {}
    BY <1>1, <1>12 DEF LoadFriends, Carries, At
  <2>3. l \in Locals /\ l.pc = "storePage" /\ l.from = req[p].from /\ l.stale = {}
    BY <1>1, <2>1, <2>2 DEF Locals
  <2>4. Become(p, l)
    BY <1>12 DEF LoadFriends
  <2> HIDE DEF l
  <2> QED BY <2>2, <2>3, <2>4 DEF Carries, Good
<1> QED BY <1>4, <1>5, <1>6, <1>7, <1>8, <1>9, <1>10, <1>11, <1>12 DEF Step

(* What a step does to the locals.                                         *)
LEMMA NextLocals ==
    ASSUME Typed, Next
    PROVE  \/ UNCHANGED req
           \/ \E p \in Procs, l \in Locals : Become(p, l) /\ Carries(l)
<1>1. CASE \E p \in Procs : Request(p) \/ Step(p) \/ Abort(p)
  BY <1>1, RequestLocals, StepLocals
<1>2. CASE PageExpires \/ (OutboxNext /\ UNCHANGED <<friendVars, cacheVars, req, served>>)
  BY <1>2 DEF PageExpires
<1> QED BY <1>1, <1>2 DEF Next

(* The outbox under a step of a request.                                   *)
LEMMA RequestOutbox ==
    ASSUME Typed, NEW p \in Procs, Request(p) \/ Step(p) \/ Abort(p)
    PROVE  OutboxInv'
<1> DEFINE Kept == OutboxInv'
<1> SUFFICES Kept
  OBVIOUS
<1>1. OutboxInv /\ req[p] \in Locals /\ Carries(req[p]) /\ created \in Nat
      /\ faults \in 0..MaxFaults /\ (faults < MaxFaults => faults + 1 \in 0..MaxFaults)
      /\ friendships \subseteq Friendship
  BY OutboxConstants DEF OutboxInv, Typed, TypeOK, OutboxTypeOK
<1>2. ASSUME UNCHANGED <<notes, events, jobs, worker>>, faults' \in 0..MaxFaults PROVE Kept
  BY <1>1, <1>2 DEF OutboxInv, OutboxTypeOK, JobsHeld, Busy, On
<1>3. ASSUME NEW note \in Note, CreateNotification(note), UNCHANGED <<jobs, worker, faults>>
      PROVE  Kept
  BY <1>1, <1>3, NoteCreated
<1> HIDE DEF Kept
<1>4. CASE \E u, v \in Users : SendRequest(p, u, v) \/ InviteToRoom(p, u, v)
  BY <1>1, <1>2, <1>4 DEF SendRequest, InviteToRoom, outboxVars
<1>5. ASSUME NEW f \in friendships, NEW u \in Users, AcceptRequest(p, f, u) PROVE Kept
  <2>1. f \in Friendship
    BY <1>1
  <2>2. [user |-> f.from, kind |-> "friend_accepted", about |-> f.id] \in Note
    BY <2>1 DEF Note, Friendship, Kinds
  <2> QED BY <1>3, <1>5, <2>2 DEF AcceptRequest
<1>6. CASE \E f \in friendships, op \in {"reject", "cancel", "remove"} : DeleteFriendship(p, f, op)
  BY <1>1, <1>2, <1>6 DEF DeleteFriendship, outboxVars
<1>7. CASE \E u \in Users : RefreshEntry(p, u) \/ ListFriends(p, u)
  BY <1>1, <1>2, <1>7 DEF RefreshEntry, ListFriends, outboxVars
<1>8. CASE CreateFriendRequest(p)
  <2>1. [user |-> req[p].to, kind |-> "friend_request", about |-> created + 1] \in Note
    BY <1>1, <1>8 DEF CreateFriendRequest, At, Carries, Note, Kinds
  <2>2. CASE UNCHANGED <<notes, events, jobs, worker, faults>>
    BY <1>1, <1>2, <2>2
  <2>3. CASE /\ CreateNotification([user |-> req[p].to, kind |-> "friend_request",
                                    about |-> created + 1])
             /\ UNCHANGED <<jobs, worker, faults>>
    BY <1>3, <2>1, <2>3
  <2> QED BY <1>8, <2>2, <2>3 DEF CreateFriendRequest
<1>9. CASE InvalidateFriendListCache(p)
  BY <1>1, <1>2, <1>9 DEF InvalidateFriendListCache, outboxVars
<1>10. CASE EnqueuePublishEvent(p)
  <2>1. req[p].event \in Ids
    BY <1>1, <1>10 DEF EnqueuePublishEvent, At, Carries
  <2> QED BY <1>1, <1>10, <2>1, JobEnqueued DEF EnqueuePublishEvent, Kept
<1>11. CASE CreateRoomInvite(p)
  <2>1. [user |-> req[p].to, kind |-> "room_invite", about |-> None] \in Note
    BY <1>1, <1>11 DEF CreateRoomInvite, At, Carries, Note, Kinds
  <2> QED BY <1>3, <1>11, <2>1 DEF CreateRoomInvite
<1>12. CASE FindLeaderboardNotification(p) \/ LookUpPage(p) \/ LoadFriends(p) \/ StorePage(p)
  BY <1>1, <1>2, <1>12 DEF FindLeaderboardNotification, LookUpPage, LoadFriends, StorePage,
     outboxVars
<1>13. CASE CreateLeaderboardNotification(p)
  <2> DEFINE note == [user |-> req[p].to, kind |-> "leaderboard", about |-> None]
  <2>1. note \in Note
    BY <1>1, <1>13 DEF CreateLeaderboardNotification, At, Carries, Note, Kinds
  <2>2. Len(notes) < MaxNotes /\ notes' = Append(notes, note)
        /\ UNCHANGED <<events, jobs, worker, faults>>
    BY <1>13 DEF CreateLeaderboardNotification
  <2> HIDE DEF note
  <2>3. notes' \in Seq(Note) /\ Len(notes') <= MaxNotes
    BY <1>1, <2>1, <2>2, OutboxConstants DEF OutboxInv, OutboxTypeOK
  <2> QED BY <1>1, <2>2, <2>3 DEF Kept, OutboxInv, OutboxTypeOK, JobsHeld, Busy, On
<1>14. CASE CreateLeaderboardEvent(p)
  <2>1. req[p].event \in Ids
    BY <1>1, <1>14 DEF CreateLeaderboardEvent, At, Carries
  <2>2. events' \in [Ids -> Event]
    BY <1>1, <1>14, <2>1, QueuedType DEF CreateLeaderboardEvent, OutboxInv, OutboxTypeOK
  <2> QED BY <1>1, <1>14, <2>2 DEF CreateLeaderboardEvent, Kept, OutboxInv, OutboxTypeOK,
             JobsHeld, Busy, On
<1>15. CASE Abort(p)
  BY <1>1, <1>2, <1>15 DEF Abort
<1> QED BY <1>4, <1>5, <1>6, <1>7, <1>8, <1>9, <1>10, <1>11, <1>12, <1>13, <1>14, <1>15
       DEF Request, Step

(* What a step does to the friendships: nothing, a new row for a pair      *)
(* without one, an accepted row, or a row less.  Whoever changes the rows  *)
(* holds both ends to invalidate.                                          *)
Inserts(p) ==
    /\ At(p, "insert") /\ ~Taken(req[p].from, req[p].to)
    /\ friendships' = friendships \cup {New(p)} /\ created' = created + 1
    /\ notes' = Append(notes, [user |-> req[p].to, kind |-> "friend_request",
                               about |-> created + 1])
    /\ \E l \in Locals : Become(p, l) /\ l.stale = {New(p).from, New(p).to}
Accepts(p, f) ==
    /\ f.status = "pending"
    /\ friendships' = (friendships \ {f}) \cup {[f EXCEPT !.status = "accepted"]}
    /\ UNCHANGED created
    /\ notes' = Append(notes, [user |-> f.from, kind |-> "friend_accepted", about |-> f.id])
    /\ \E l \in Locals : Become(p, l) /\ l.stale = {f.from, f.to}
Deletes(p, f) ==
    /\ friendships' = friendships \ {f}
    /\ UNCHANGED <<created, notes>>
    /\ \E l \in Locals : Become(p, l) /\ l.stale = {f.from, f.to}
LeavesRows ==
    /\ UNCHANGED friendVars
    /\ \/ UNCHANGED notes
       \/ \E note \in Note : note.kind # "friend_accepted" /\ notes' = Append(notes, note)

LEMMA RowsStep ==
    ASSUME Typed, Next
    PROVE  \/ LeavesRows
           \/ \E p \in Procs : Inserts(p)
           \/ \E p \in Procs, f \in friendships : Accepts(p, f)
           \/ \E p \in Procs, f \in friendships : Deletes(p, f)
<1> DEFINE Good == \/ LeavesRows
                   \/ \E p \in Procs : Inserts(p)
                   \/ \E p \in Procs, f \in friendships : Accepts(p, f)
                   \/ \E p \in Procs, f \in friendships : Deletes(p, f)
<1> SUFFICES Good
  OBVIOUS
<1>0. ASSUME UNCHANGED <<friendVars, notes>> PROVE Good
  BY <1>0 DEF LeavesRows
<1>1. ASSUME NEW note \in Note, note.kind # "friend_accepted",
             notes' = Append(notes, note), UNCHANGED friendVars
      PROVE  Good
  BY <1>1 DEF LeavesRows
<1>2. friendships \subseteq Friendship /\ req \in [Procs -> Locals]
      /\ \A p \in Procs : Carries(req[p])
  BY DEF Typed, TypeOK
<1>3. ASSUME NEW p \in Procs, NEW f \in friendships, NEW u \in Users, AcceptRequest(p, f, u)
      PROVE  Good
  <2>1. f \in Friendship /\ Len(notes) + 1 \in Ids /\ Changed(p, f, Len(notes) + 1)
    BY <1>2, <1>3, RoomForNote DEF AcceptRequest
  <2>2. \E l \in Locals : Become(p, l) /\ l.stale = {f.from, f.to}
    BY <2>1, ChangedFacts
  <2>3. Accepts(p, f)
    BY <1>3, <2>2 DEF Accepts, AcceptRequest, Acceptable, CreateNotification
  <2> QED BY <2>3
<1>4. ASSUME NEW p \in Procs, NEW f \in friendships, NEW op \in {"reject", "cancel", "remove"},
             DeleteFriendship(p, f, op)
      PROVE  Good
  <2>1. f \in Friendship /\ Changed(p, f, None)
    BY <1>2, <1>4 DEF DeleteFriendship
  <2>2. \E l \in Locals : Become(p, l) /\ l.stale = {f.from, f.to}
    BY <2>1, ChangedFacts
  <2>3. Deletes(p, f)
    BY <1>4, <2>2 DEF Deletes, DeleteFriendship, outboxVars
  <2> QED BY <2>3
<1>5. ASSUME NEW p \in Procs, CreateFriendRequest(p) PROVE Good
  <2> DEFINE note == [user |-> req[p].to, kind |-> "friend_request", about |-> created + 1]
  <2>1. CASE UNCHANGED <<friendVars, notes>>
    BY <1>0, <2>1
  <2>2. CASE /\ ~Taken(req[p].from, req[p].to) /\ friendships' = friendships \cup {New(p)}
             /\ created' = created + 1 /\ CreateNotification(note)
             /\ Changed(p, New(p), Len(notes) + 1)
    <3>1. At(p, "insert")
      BY <1>5 DEF CreateFriendRequest
    <3>2. New(p) \in Friendship /\ Len(notes) + 1 \in Ids
      BY <2>2, <3>1, NewType, RoomForNote
    <3>3. \E l \in Locals : Become(p, l) /\ l.stale = {New(p).from, New(p).to}
      BY <2>2, <3>2, ChangedFacts
    <3>4. Inserts(p)
      BY <2>2, <3>1, <3>3 DEF Inserts, CreateNotification
    <3> QED BY <3>4
  <2> QED BY <1>5, <2>1, <2>2 DEF CreateFriendRequest, New
<1> HIDE DEF Good
<1>6. ASSUME NEW p \in Procs, CreateRoomInvite(p) PROVE Good
  <2> DEFINE note == [user |-> req[p].to, kind |-> "room_invite", about |-> None]
  <2>1. note \in Note /\ note.kind # "friend_accepted"
    BY <1>2, <1>6 DEF CreateRoomInvite, At, Carries, Note, Kinds
  <2>2. notes' = Append(notes, note) /\ UNCHANGED friendVars
    BY <1>6 DEF CreateRoomInvite, CreateNotification
  <2> QED BY <1>1, <2>1, <2>2
<1>7. ASSUME NEW p \in Procs, CreateLeaderboardNotification(p) PROVE Good
  <2> DEFINE note == [user |-> req[p].to, kind |-> "leaderboard", about |-> None]
  <2>1. note \in Note /\ note.kind # "friend_accepted"
    BY <1>2, <1>7 DEF CreateLeaderboardNotification, At, Carries, Note, Kinds
  <2>2. notes' = Append(notes, note) /\ UNCHANGED friendVars
    BY <1>7 DEF CreateLeaderboardNotification
  <2> QED BY <1>1, <2>1, <2>2
<1>8. ASSUME NEW p \in Procs,
             \/ \E u, v \in Users : SendRequest(p, u, v) \/ InviteToRoom(p, u, v)
             \/ \E u \in Users : RefreshEntry(p, u) \/ ListFriends(p, u)
      PROVE  Good
  <2>1. UNCHANGED <<outboxVars, friendVars>>
    BY <1>8 DEF SendRequest, InviteToRoom, RefreshEntry, ListFriends
  <2> QED BY <1>0, <2>1 DEF outboxVars
<1>9. ASSUME NEW p \in Procs,
             \/ InvalidateFriendListCache(p) \/ EnqueuePublishEvent(p)
             \/ FindLeaderboardNotification(p) \/ CreateLeaderboardEvent(p)
             \/ LookUpPage(p) \/ LoadFriends(p) \/ StorePage(p) \/ Abort(p)
      PROVE  Good
  BY <1>0, <1>9 DEF InvalidateFriendListCache, EnqueuePublishEvent, FindLeaderboardNotification,
     CreateLeaderboardEvent, LookUpPage, LoadFriends, StorePage, Abort, outboxVars
<1>10. CASE PageExpires
  BY <1>0, <1>10 DEF PageExpires, outboxVars
<1>11. CASE OutboxNext /\ UNCHANGED friendVars
  <2>1. ASSUME NEW w \in Workers,
               WorkerStep(w) \/ PublishFails(w) \/ DatabaseFails(w) \/ WorkerCrashes(w)
        PROVE  notes' = notes
    BY <2>1 DEF WorkerStep, TakeJob, ClaimById, PublishNotificationCreated,
       MarkPublished, MarkFailed, PublishFails, DatabaseFails, WorkerCrashes
  <2>2. ASSUME NEW e \in Ids, RetryDelayPasses(e) \/ ClaimGetsOld(e) \/ RecoverEvent(e)
        PROVE  notes' = notes
    BY <2>2 DEF RetryDelayPasses, ClaimGetsOld, RecoverEvent
  <2>3. UNCHANGED notes
    BY <1>11, <2>1, <2>2 DEF OutboxNext
  <2> QED BY <1>0, <1>11, <2>3
<1>12. ASSUME NEW p \in Procs, Request(p) \/ Step(p) \/ Abort(p) PROVE Good
  BY <1>3, <1>4, <1>5, <1>6, <1>7, <1>8, <1>9, <1>12 DEF Request, Step
<1> QED BY <1>10, <1>11, <1>12 DEF Next

(* The rows stay well typed.                                               *)
LEMMA RowsType ==
    ASSUME Typed, Next
    PROVE  friendships' \subseteq Friendship /\ created' \in Nat
<1>1. friendships \subseteq Friendship /\ created \in Nat
  BY DEF Typed, TypeOK
<1>2. ASSUME NEW p \in Procs, Inserts(p)
      PROVE  friendships' \subseteq Friendship /\ created' \in Nat
  BY <1>1, <1>2, NewType DEF Inserts
<1>3. ASSUME NEW p \in Procs, NEW f \in friendships, Accepts(p, f)
      PROVE  friendships' \subseteq Friendship /\ created' \in Nat
  <2>1. [f EXCEPT !.status = "accepted"] \in Friendship
    BY <1>1 DEF Friendship
  <2> QED BY <1>1, <1>3, <2>1 DEF Accepts
<1> QED BY <1>1, <1>2, <1>3, RowsStep DEF LeavesRows, friendVars, Deletes

(* The caches and the count of requests stay well typed.                   *)
LEMMA CacheType ==
    ASSUME Typed, Next
    PROVE  /\ version' \in [Users -> Nat] /\ pages' \subseteq Page
           /\ missed' \subseteq Users /\ served' \in 0..MaxRequests
<1> DEFINE Good == /\ version' \in [Users -> Nat] /\ pages' \subseteq Page
                   /\ missed' \subseteq Users /\ served' \in 0..MaxRequests
<1> SUFFICES Good
  OBVIOUS
<1>1. /\ version \in [Users -> Nat] /\ pages \subseteq Page /\ missed \subseteq Users
      /\ served \in 0..MaxRequests /\ req \in [Procs -> Locals]
      /\ \A p \in Procs : Carries(req[p])
  BY DEF Typed, TypeOK
<1>2. ASSUME UNCHANGED cacheVars, served' \in 0..MaxRequests PROVE Good
  BY <1>1, <1>2 DEF cacheVars
<1> HIDE DEF Good
<1>3. ASSUME NEW p \in Procs, Request(p) PROVE Good
  <2>1. UNCHANGED cacheVars
    BY <1>3 DEF Request, SendRequest, InviteToRoom, AcceptRequest, DeleteFriendship,
       RefreshEntry, ListFriends
  <2>2. served < MaxRequests /\ served' = served + 1
    BY <1>3 DEF Request, SendRequest, InviteToRoom, AcceptRequest, DeleteFriendship,
       RefreshEntry, ListFriends, Arrive
  <2>3. served' \in 0..MaxRequests
    BY <1>1, <2>2, SocialConstants
  <2> QED BY <1>2, <2>1, <2>3
<1>4. ASSUME NEW p \in Procs,
             \/ CreateFriendRequest(p) \/ EnqueuePublishEvent(p) \/ CreateRoomInvite(p)
             \/ FindLeaderboardNotification(p) \/ CreateLeaderboardNotification(p)
             \/ CreateLeaderboardEvent(p) \/ LookUpPage(p) \/ LoadFriends(p)
      PROVE  Good
  <2>1. UNCHANGED <<cacheVars, served>>
    BY <1>4 DEF CreateFriendRequest, EnqueuePublishEvent, CreateRoomInvite,
       FindLeaderboardNotification, CreateLeaderboardNotification, CreateLeaderboardEvent,
       LookUpPage, LoadFriends
  <2> QED BY <1>1, <1>2, <2>1
<1>5. ASSUME NEW p \in Procs, InvalidateFriendListCache(p) PROVE Good
  <2>1. PICK u \in req[p].stale : /\ version' = [version EXCEPT ![u] = @ + 1]
                                  /\ missed' = missed \ {u}
    BY <1>5 DEF InvalidateFriendListCache
  <2>2. u \in Users
    BY <1>1 DEF Locals
  <2> QED BY <1>1, <1>5, <2>1, <2>2 DEF InvalidateFriendListCache, Good
<1>6. ASSUME NEW p \in Procs, StorePage(p) PROVE Good
  <2>1. [user |-> req[p].from, version |-> req[p].version, rows |-> req[p].rows] \in Page
    BY <1>1, <1>6 DEF StorePage, At, Carries, Locals, Page
  <2> QED BY <1>1, <1>6, <2>1 DEF StorePage, Good
<1>7. ASSUME NEW p \in Procs, Abort(p) PROVE Good
  <2>1. req[p].stale \subseteq Users
    BY <1>1 DEF Locals
  <2> QED BY <1>1, <1>7, <2>1 DEF Abort, Good
<1>8. CASE PageExpires
  BY <1>1, <1>8 DEF PageExpires, Good
<1>9. CASE UNCHANGED <<friendVars, cacheVars, req, served>>
  BY <1>1, <1>2, <1>9
<1> QED BY <1>3, <1>4, <1>5, <1>6, <1>7, <1>8, <1>9 DEF Next, Step

LEMMA NextTyped == Typed /\ [Next]_vars => Typed'
<1> SUFFICES ASSUME Typed, [Next]_vars PROVE Typed'
  OBVIOUS
<1>1. CASE Next
  <2>1. OutboxInv
    BY DEF Typed, TypeOK, OutboxInv
  <2>2. OutboxInv'
    <3>1. CASE \E p \in Procs : Request(p) \/ Step(p) \/ Abort(p)
      BY <3>1, RequestOutbox
    <3>2. CASE PageExpires
      BY <2>1, <3>2 DEF PageExpires, outboxVars, OutboxInv, OutboxTypeOK, JobsHeld, Busy, On
    <3>3. CASE OutboxNext
      BY <2>1, <3>3, OutboxKeeps
    <3> QED BY <1>1, <3>1, <3>2, <3>3 DEF Next
  <2>3. req' \in [Procs -> Locals] /\ \A p \in Procs : Carries(req'[p])
    BY <1>1, NextLocals, BecomeFacts DEF Typed, TypeOK
  <2> QED BY <1>1, <2>2, <2>3, RowsType, CacheType DEF Typed, TypeOK, OutboxInv
<1>2. CASE UNCHANGED vars
  BY <1>2 DEF vars, outboxVars, friendVars, cacheVars, Typed, TypeOK, OutboxTypeOK,
     JobsHeld, Busy, On
<1> QED BY <1>1, <1>2

(* TypeOK holds in every state.  It is not inductive: a worker that throws *)
(* counts an attempt of the job it holds, so that the attempts stay within *)
(* their limit needs that no two workers ever hold one job.                *)
THEOREM TypeCorrect == Spec => []TypeOK
<1>1. Spec => []Typed
  BY InitTyped, NextTyped, PTL DEF Spec
<1>2. Typed => TypeOK
  BY DEF Typed
<1> QED BY <1>1, <1>2, PTL

---------------------------------------------------------------------------
(* One friendship for each pair *)

(* The two indexes of the table: the primary key and the pair.             *)
Indexed ==
    /\ \A f \in friendships : f.id \in 1..created
    /\ \A f, g \in friendships : f.id = g.id => f = g
    /\ \A f, g \in friendships : {f.from, f.to} = {g.from, g.to} => f = g

LEMMA InitIndexed == Init => Indexed
BY InitFacts DEF Indexed

(* The row an accept writes.                                               *)
LEMMA AcceptedRow ==
    ASSUME NEW f \in Friendship, NEW a, a = [f EXCEPT !.status = "accepted"]
    PROVE  /\ a \in Friendship /\ a.id = f.id /\ a.from = f.from /\ a.to = f.to
           /\ a.status = "accepted"
BY DEF Friendship

LEMMA NextIndexed == Typed /\ Indexed /\ Next => Indexed'
<1> SUFFICES ASSUME Typed, Indexed, Next PROVE Indexed'
  OBVIOUS
<1> DEFINE Good == Indexed'
<1> SUFFICES Good
  OBVIOUS
<1>1. friendships \subseteq Friendship /\ created \in Nat
  BY DEF Typed, TypeOK
<1>2. CASE LeavesRows
  BY <1>2 DEF LeavesRows, friendVars, Indexed
<1>3. ASSUME NEW p \in Procs, Inserts(p) PROVE Good
  <2>1. PICK n : n = New(p)
    OBVIOUS
  <2>2. n \in Friendship /\ n.id = created + 1 /\ n.from = req[p].from /\ n.to = req[p].to
    BY <1>3, <2>1, NewType DEF Inserts, New
  <2>3. friendships' = friendships \cup {n} /\ created' = created + 1
    BY <1>3, <2>1 DEF Inserts
  <2>4. \A f \in friendships : f.id \in 1..created' /\ f.id # n.id
    BY <1>1, <2>2, <2>3 DEF Indexed
  <2>5. n.id \in 1..created'
    BY <1>1, <2>2, <2>3
  <2>6. \A f \in friendships : {f.from, f.to} # {n.from, n.to}
    BY <1>3, <2>2 DEF Inserts, Taken, Between
  <2> QED BY <2>3, <2>4, <2>5, <2>6 DEF Indexed
<1>4. ASSUME NEW p \in Procs, NEW f \in friendships, Accepts(p, f) PROVE Good
  <2>1. PICK a : a = [f EXCEPT !.status = "accepted"]
    OBVIOUS
  <2>2. a.id = f.id /\ a.from = f.from /\ a.to = f.to
    BY <1>1, <2>1, AcceptedRow
  <2>3. friendships' = (friendships \ {f}) \cup {a} /\ created' = created
    BY <1>4, <2>1 DEF Accepts
  <2> QED BY <2>2, <2>3 DEF Indexed
<1>5. ASSUME NEW p \in Procs, NEW f \in friendships, Deletes(p, f) PROVE Good
  BY <1>5 DEF Deletes, Indexed
<1> HIDE DEF Good
<1> QED BY <1>2, <1>3, <1>4, <1>5, RowsStep

LEMMA AtMostOne ==
    ASSUME NEW S, \A x, y \in S : x = y
    PROVE  IsFiniteSet(S) /\ Cardinality(S) <= 1 /\ (S # {} => Cardinality(S) = 1)
<1>1. CASE S = {}
  BY <1>1, FS_EmptySet
<1>2. ASSUME NEW x \in S PROVE IsFiniteSet(S) /\ Cardinality(S) = 1
  <2>1. S = {x}
    BY <1>2
  <2> QED BY <2>1, FS_Singleton
<1> QED BY <1>1, <1>2

LEMMA IndexedPairs == Indexed => OneFriendshipPerPair
<1> SUFFICES ASSUME Indexed, NEW u \in Users, NEW v \in Users
             PROVE  Cardinality(Between(u, v)) <= 1
  BY DEF OneFriendshipPerPair
<1>1. \A f, g \in Between(u, v) : f = g
  BY DEF Between, Indexed
<1> QED BY <1>1, AtMostOne

(* Whatever requests find no friendship and go on to insert one, and       *)
(* whatever is accepted, rejected, cancelled or removed in between, there  *)
(* is never more than one row of a pair: the index on the unordered pair   *)
(* decides.                                                                *)
THEOREM OneRowPerPair == Spec => []OneFriendshipPerPair
<1>1. Indexed /\ UNCHANGED vars => Indexed'
  BY DEF vars, friendVars, Indexed
<1>2. Typed /\ Indexed /\ [Next]_vars => Indexed'
  BY <1>1, NextIndexed
<1>3. Spec => [](Typed /\ Indexed)
  BY InitTyped, NextTyped, InitIndexed, <1>2, PTL DEF Spec
<1> QED BY <1>3, IndexedPairs, PTL

---------------------------------------------------------------------------
(* One announcement for each accepted friendship *)

(* Note n announces the friendship id.                                     *)
Announces(n, id) == notes[n].kind = "friend_accepted" /\ notes[n].about = id

(* A pending friendship was never announced, an accepted one was, no       *)
(* friendship twice, and no friendship before it was created: the id of a  *)
(* friendship that was deleted does not come back.                         *)
Announced ==
    /\ \A n \in DOMAIN notes :
         notes[n].kind = "friend_accepted" => notes[n].about \in 1..created
    /\ \A n, m \in DOMAIN notes :
         /\ notes[n].kind = "friend_accepted" /\ notes[m].kind = "friend_accepted"
         /\ notes[n].about = notes[m].about
         => n = m
    /\ \A f \in friendships :
         f.status = "pending" => \A n \in DOMAIN notes : ~Announces(n, f.id)
    /\ \A f \in friendships :
         f.status = "accepted" => \E n \in DOMAIN notes : Announces(n, f.id)

LEMMA InitAnnounced == Init => Announced
<1> SUFFICES ASSUME Init PROVE Announced
  OBVIOUS
<1>1. \A n \in DOMAIN notes : notes[n].kind # "friend_accepted"
  BY InitFacts DEF OutboxInit, OutboxRetrying
<1>2. \A f \in friendships : f.status = "pending"
  BY InitFacts
<1> QED BY <1>1, <1>2 DEF Announced, Announces

LEMMA AppendFacts ==
    ASSUME NEW S, NEW s \in Seq(S), NEW x \in S, NEW t, t = Append(s, x)
    PROVE  /\ DOMAIN t = DOMAIN s \cup {Len(s) + 1} /\ Len(s) + 1 \notin DOMAIN s
           /\ \A n \in DOMAIN s : t[n] = s[n]
           /\ t[Len(s) + 1] = x
OBVIOUS

LEMMA NextAnnounced == Typed /\ Indexed /\ Announced /\ Next => Announced'
<1> SUFFICES ASSUME Typed, Indexed, Announced, Next PROVE Announced'
  OBVIOUS
<1> DEFINE Good == Announced'
<1> SUFFICES Good
  OBVIOUS
<1>1. friendships \subseteq Friendship /\ created \in Nat /\ notes \in Seq(Note)
  BY DEF Typed, TypeOK, OutboxTypeOK
<1>2. ASSUME NEW x \in Note, notes' = Append(notes, x)
      PROVE  /\ DOMAIN notes' = DOMAIN notes \cup {Len(notes) + 1}
             /\ Len(notes) + 1 \notin DOMAIN notes
             /\ \A n \in DOMAIN notes : notes'[n] = notes[n]
             /\ notes'[Len(notes) + 1] = x
  BY <1>1, <1>2, AppendFacts
<1>3. CASE LeavesRows
  <2>1. CASE UNCHANGED notes
    BY <1>3, <2>1 DEF LeavesRows, friendVars, Announced, Announces
  <2>2. ASSUME NEW x \in Note, x.kind # "friend_accepted", notes' = Append(notes, x)
        PROVE  Good
    BY <1>3, <1>2, <2>2 DEF LeavesRows, friendVars, Announced, Announces
  <2> QED BY <1>3, <2>1, <2>2 DEF LeavesRows
<1>4. ASSUME NEW p \in Procs, Inserts(p) PROVE Good
  <2>1. PICK f : f = New(p)
    OBVIOUS
  <2>2. f.id = created + 1 /\ f.status = "pending"
    BY <2>1 DEF New
  <2>3. friendships' = friendships \cup {f} /\ created' = created + 1
    BY <1>4, <2>1 DEF Inserts
  <2>4. PICK x : x = [user |-> req[p].to, kind |-> "friend_request", about |-> created + 1]
    OBVIOUS
  <2>5. x \in Note /\ x.kind # "friend_accepted" /\ notes' = Append(notes, x)
    BY <1>1, <1>4, <2>4 DEF Inserts, Note, Kinds, Typed, TypeOK, Carries, At
  <2>6. \A n \in DOMAIN notes' : notes'[n].kind = "friend_accepted" =>
            n \in DOMAIN notes /\ notes'[n] = notes[n] /\ notes[n].about \in 1..created
    BY <1>2, <2>5 DEF Announced
  <2>7. \A n \in DOMAIN notes' : notes'[n].kind = "friend_accepted" =>
            notes'[n].about \in 1..created' /\ notes'[n].about # f.id
    BY <1>1, <2>2, <2>3, <2>6
  <2>8. \A g \in friendships : g.status = "accepted" =>
            \E n \in DOMAIN notes' : Announces(n, g.id)'
    BY <1>2, <2>5 DEF Announced, Announces
  <2>9. \A g \in friendships' : g.status = "pending" =>
            \A n \in DOMAIN notes' : ~Announces(n, g.id)'
    BY <2>3, <2>6, <2>7 DEF Announced, Announces
  <2> QED BY <2>2, <2>3, <2>6, <2>7, <2>8, <2>9 DEF Announced, Announces
<1>5. ASSUME NEW p \in Procs, NEW f \in friendships, Accepts(p, f) PROVE Good
  <2>1. PICK a : a = [f EXCEPT !.status = "accepted"]
    OBVIOUS
  <2>2. a.id = f.id /\ a.status = "accepted" /\ f.status = "pending"
    BY <1>1, <1>5, <2>1, AcceptedRow DEF Accepts
  <2>3. friendships' = (friendships \ {f}) \cup {a} /\ created' = created
    BY <1>5, <2>1 DEF Accepts
  <2>4. PICK x : x = [user |-> f.from, kind |-> "friend_accepted", about |-> f.id]
    OBVIOUS
  <2>5. x \in Note /\ x.kind = "friend_accepted" /\ x.about = f.id /\ notes' = Append(notes, x)
    BY <1>1, <1>5, <2>4 DEF Accepts, Note, Kinds, Friendship
  <2>6. \A n \in DOMAIN notes : ~Announces(n, f.id)
    BY <2>2 DEF Announced
  <2>7. f.id \in 1..created /\ \A g \in friendships : g # f => g.id # f.id
    BY DEF Indexed
  <2>8. PICK k : k = Len(notes) + 1
    OBVIOUS
  <2>9. /\ DOMAIN notes' = DOMAIN notes \cup {k} /\ k \notin DOMAIN notes
        /\ \A n \in DOMAIN notes : notes'[n] = notes[n]
        /\ notes'[k] = x
    BY <1>2, <2>5, <2>8
  <2>10. \A n \in DOMAIN notes' :
            notes'[n].kind = "friend_accepted" => notes'[n].about \in 1..created'
    BY <2>3, <2>5, <2>7, <2>9 DEF Announced
  <2>11. \A n, m \in DOMAIN notes' :
            /\ notes'[n].kind = "friend_accepted" /\ notes'[m].kind = "friend_accepted"
            /\ notes'[n].about = notes'[m].about
            => n = m
    BY <2>5, <2>6, <2>9 DEF Announced, Announces
  <2>12. \A g \in friendships' : g.status = "pending" =>
            \A n \in DOMAIN notes' : ~Announces(n, g.id)'
    BY <2>2, <2>3, <2>5, <2>7, <2>9 DEF Announced, Announces
  <2>13. \A g \in friendships' : g.status = "accepted" =>
            \E n \in DOMAIN notes' : Announces(n, g.id)'
    BY <2>2, <2>3, <2>5, <2>9 DEF Announced, Announces
  <2> QED BY <2>10, <2>11, <2>12, <2>13 DEF Announced
<1>6. ASSUME NEW p \in Procs, NEW f \in friendships, Deletes(p, f) PROVE Good
  BY <1>6 DEF Deletes, Announced, Announces
<1> HIDE DEF Good
<1> QED BY <1>3, <1>4, <1>5, <1>6, RowsStep

LEMMA AnnouncedOnce == Typed /\ Announced => AcceptedAnnouncedOnce
<1> SUFFICES ASSUME Typed, Announced PROVE AcceptedAnnouncedOnce
  OBVIOUS
<1>1. \A id : \A n, m \in Announcements(id) : n = m
  BY DEF Announcements, Announced
<1>2. \A id : Cardinality(Announcements(id)) <= 1
              /\ (Announcements(id) # {} => Cardinality(Announcements(id)) = 1)
  BY <1>1, AtMostOne
<1>3. \A f \in friendships : f.status = "accepted" => Announcements(f.id) # {}
  BY DEF Announcements, Announced, Announces
<1> QED BY <1>2, <1>3 DEF AcceptedAnnouncedOnce

(* The announcements follow the friendships: an accepted friendship was    *)
(* announced exactly once, and none twice, in every interleaving of sends, *)
(* accepts, rejections, cancellations and removals.                        *)
THEOREM AnnouncedExactlyOnce == Spec => []AcceptedAnnouncedOnce
<1>1. Indexed /\ UNCHANGED vars => Indexed'
  BY DEF vars, friendVars, Indexed
<1>2. Announced /\ UNCHANGED vars => Announced'
  BY DEF vars, outboxVars, friendVars, Announced, Announces
<1>3. Typed /\ Indexed /\ [Next]_vars => Indexed'
  BY <1>1, NextIndexed
<1>4. Typed /\ Indexed /\ Announced /\ [Next]_vars => Announced'
  BY <1>2, NextAnnounced
<1>5. Spec => [](Typed /\ Indexed /\ Announced)
  BY InitTyped, NextTyped, InitIndexed, <1>3, InitAnnounced, <1>4, PTL DEF Spec
<1> QED BY <1>5, AnnouncedOnce, PTL

---------------------------------------------------------------------------
(* The cached first page of a friend list *)

(* Rows read for u under the version ver are the friends of the moment, or *)
(* something keeps readers from trusting them.                             *)
Trusted(u, ver, rows) ==
    \/ ver # CacheVersion(u)
    \/ version[u] = 1
    \/ rows = FriendsOf(u)
    \/ u \in missed
    \/ \E p \in Procs : u \in req[p].stale

(* The cached pages, and the rows on their way into the cache.  Versions   *)
(* are never ahead of the counter: else an increment could bring an old    *)
(* page back.                                                              *)
PagesInv ==
    /\ \A g \in pages : g.version <= CacheVersion(g.user) /\ Trusted(g.user, g.version, g.rows)
    /\ \A p \in Procs :
         /\ req[p].pc \in {"lookup", "load", "storePage"} =>
              req[p].version <= CacheVersion(req[p].from)
         /\ req[p].pc = "storePage" => Trusted(req[p].from, req[p].version, req[p].rows)

LEMMA InitPages == Init => PagesInv
BY IdleType DEF Init, PagesInv

(* A change of the rows that changes the friends of u leaves u's list with *)
(* a request that will invalidate it.                                      *)
LEMMA ChangeLeavesStale ==
    ASSUME Typed, Next, NEW u \in Users
    PROVE  FriendsOf(u)' = FriendsOf(u) \/ \E p \in Procs : u \in req'[p].stale
<1> DEFINE Good == FriendsOf(u)' = FriendsOf(u) \/ \E p \in Procs : u \in req'[p].stale
<1> SUFFICES Good
  OBVIOUS
<1>1. friendships \subseteq Friendship /\ req \in [Procs -> Locals]
  BY DEF Typed, TypeOK
<1>2. ASSUME NEW p \in Procs, NEW S, \E l \in Locals : Become(p, l) /\ l.stale = S, u \in S
      PROVE  Good
  BY <1>1, <1>2, BecomeFacts
<1>3. ASSUME \A v \in Users : \A f : f \in Between(u, v)' <=> f \in Between(u, v) PROVE Good
  BY <1>3 DEF FriendsOf
<1> HIDE DEF Good
<1>4. CASE LeavesRows
  BY <1>3, <1>4 DEF LeavesRows, friendVars, Between
<1>5. ASSUME NEW p \in Procs, Inserts(p) PROVE Good
  <2>1. PICK n : n = New(p)
    OBVIOUS
  <2>2. CASE u \in {n.from, n.to}
    BY <1>2, <1>5, <2>1, <2>2 DEF Inserts
  <2>3. CASE u \notin {n.from, n.to}
    <3>1. \A v \in Users : {n.from, n.to} # {u, v}
      BY <2>3
    <3>2. friendships' = friendships \cup {n}
      BY <1>5, <2>1 DEF Inserts
    <3> QED BY <1>3, <3>1, <3>2 DEF Between
  <2> QED BY <2>2, <2>3
<1>6. ASSUME NEW p \in Procs, NEW f \in friendships, Accepts(p, f) PROVE Good
  <2>1. PICK a : a = [f EXCEPT !.status = "accepted"]
    OBVIOUS
  <2>2. a.from = f.from /\ a.to = f.to
    BY <1>1, <2>1, AcceptedRow
  <2>3. CASE u \in {f.from, f.to}
    BY <1>2, <1>6, <2>3 DEF Accepts
  <2>4. CASE u \notin {f.from, f.to}
    <3>1. \A v \in Users : {f.from, f.to} # {u, v} /\ {a.from, a.to} # {u, v}
      BY <2>2, <2>4
    <3>2. friendships' = (friendships \ {f}) \cup {a}
      BY <1>6, <2>1 DEF Accepts
    <3> QED BY <1>3, <3>1, <3>2 DEF Between
  <2> QED BY <2>3, <2>4
<1>7. ASSUME NEW p \in Procs, NEW f \in friendships, Deletes(p, f) PROVE Good
  <2>1. CASE u \in {f.from, f.to}
    BY <1>2, <1>7, <2>1 DEF Deletes
  <2>2. CASE u \notin {f.from, f.to}
    <3>1. \A v \in Users : {f.from, f.to} # {u, v}
      BY <2>2
    <3>2. friendships' = friendships \ {f}
      BY <1>7 DEF Deletes
    <3> QED BY <1>3, <3>1, <3>2 DEF Between
  <2> QED BY <2>1, <2>2
<1> QED BY <1>4, <1>5, <1>6, <1>7, RowsStep

(* What a step does to the version of u and to the marks that its list is  *)
(* stale: either the version goes up, or every mark stays or turns into a  *)
(* missed invalidation.                                                    *)
Marked(u) == u \in missed \/ \E p \in Procs : u \in req[p].stale

LEMMA MarksStep ==
    ASSUME Typed, Next, NEW u \in Users
    PROVE  \/ version'[u] = version[u] + 1
           \/ version'[u] = version[u] /\ (Marked(u) => Marked(u)')
<1> DEFINE Good == \/ version'[u] = version[u] + 1
                   \/ version'[u] = version[u] /\ (Marked(u) => Marked(u)')
<1> SUFFICES Good
  OBVIOUS
<1>1. version \in [Users -> Nat] /\ req \in [Procs -> Locals]
      /\ \A p \in Procs : Carries(req[p])
  BY DEF Typed, TypeOK
<1>2. ASSUME NEW p \in Procs, req[p].stale = {}, NEW l \in Locals, Become(p, l),
             UNCHANGED cacheVars
      PROVE  Good
  <2>1. \A q \in Procs : u \in req[q].stale => u \in req'[q].stale
    BY <1>1, <1>2, BecomeFacts
  <2> QED BY <1>2, <2>1 DEF Marked, cacheVars
<1>3. ASSUME UNCHANGED <<version, missed, req>> PROVE Good
  BY <1>3 DEF Marked
<1> HIDE DEF Good
<1>4. ASSUME NEW p \in Procs, Request(p) PROVE Good
  <2>1. UNCHANGED cacheVars /\ req[p].pc = "idle"
    BY <1>4 DEF Request, SendRequest, InviteToRoom, AcceptRequest, DeleteFriendship,
       RefreshEntry, ListFriends, Arrive, At
  <2>2. req[p].stale = {}
    BY <1>1, <2>1 DEF Carries
  <2> QED BY <1>2, <1>4, <2>1, <2>2, RequestLocals
<1>5. ASSUME NEW p \in Procs,
             \/ CreateFriendRequest(p) \/ EnqueuePublishEvent(p) \/ CreateRoomInvite(p)
             \/ FindLeaderboardNotification(p) \/ CreateLeaderboardNotification(p)
             \/ CreateLeaderboardEvent(p) \/ LookUpPage(p) \/ LoadFriends(p)
      PROVE  Good
  <2>1. UNCHANGED cacheVars /\ req[p].pc # "invalidate"
    BY <1>5 DEF CreateFriendRequest, EnqueuePublishEvent, CreateRoomInvite,
       FindLeaderboardNotification, CreateLeaderboardNotification, CreateLeaderboardEvent,
       LookUpPage, LoadFriends, At
  <2>2. req[p].stale = {}
    BY <1>1, <2>1 DEF Carries
  <2>3. Step(p)
    BY <1>5 DEF Step
  <2> QED BY <1>2, <2>1, <2>2, <2>3, StepLocals
<1>6. ASSUME NEW p \in Procs, StorePage(p) PROVE Good
  <2>1. UNCHANGED <<version, missed>> /\ Become(p, Idle) /\ req[p].stale = {}
    BY <1>1, <1>6 DEF StorePage, End, Carries, At
  <2>2. \A q \in Procs : u \in req[q].stale => u \in req'[q].stale
    BY <1>1, <2>1, IdleType, BecomeFacts
  <2> QED BY <2>1, <2>2 DEF Marked, Good
<1>7. ASSUME NEW p \in Procs, Abort(p) PROVE Good
  <2>1. UNCHANGED version /\ Become(p, Idle) /\ missed' = missed \cup req[p].stale
    BY <1>7 DEF Abort, End
  <2>2. \A q \in Procs : u \in req[q].stale => u \in req'[q].stale \/ u \in missed'
    BY <1>1, <2>1, IdleType, BecomeFacts
  <2> QED BY <2>1, <2>2 DEF Marked, Good
<1>8. ASSUME NEW p \in Procs, InvalidateFriendListCache(p) PROVE Good
  <2>1. PICK w \in req[p].stale :
          /\ version' = [version EXCEPT ![w] = @ + 1]
          /\ missed' = missed \ {w}
          /\ \/ Become(p, [req[p] EXCEPT !.stale = @ \ {w}])
             \/ req[p].stale = {w}
    BY <1>8 DEF InvalidateFriendListCache
  <2>2. w \in Users
    BY <1>1 DEF Locals
  <2>3. CASE u = w
    BY <1>1, <2>1, <2>3 DEF Good
  <2>4. CASE u # w
    <3>1. version'[u] = version[u] /\ (u \in missed => u \in missed')
      BY <1>1, <2>1, <2>2, <2>4
    <3>2. \A q \in Procs : u \in req[q].stale => u \in req'[q].stale
      <4>1. PICK l \in Locals : Become(p, l)
        BY <1>8, StepLocals DEF Step
      <4>2. \A q \in Procs : q # p => req'[q] = req[q]
        BY <1>1, <4>1, BecomeFacts
      <4>3. u \in req[p].stale => u \in req'[p].stale
        <5>1. CASE req[p].stale = {w}
          BY <2>4, <5>1
        <5>2. CASE Become(p, [req[p] EXCEPT !.stale = @ \ {w}])
          <6> DEFINE k == [req[p] EXCEPT !.stale = @ \ {w}]
          <6>1. k.stale = req[p].stale \ {w} /\ req'[p] = k
            BY <1>1, <5>2 DEF Become, Locals
          <6> QED BY <2>4, <6>1
        <5> QED BY <2>1, <5>1, <5>2
      <4> QED BY <4>2, <4>3
    <3> QED BY <3>1, <3>2 DEF Marked, Good
  <2> QED BY <2>3, <2>4
<1>9. CASE PageExpires \/ UNCHANGED <<friendVars, cacheVars, req, served>>
  BY <1>3, <1>9 DEF PageExpires, cacheVars
<1> QED BY <1>4, <1>5, <1>6, <1>7, <1>8, <1>9 DEF Next, Step

(* Rows that were trusted stay trusted, and no version gets ahead of the   *)
(* counter.                                                                *)
LEMMA TrustedStays ==
    ASSUME Typed, Next, NEW u \in Users, NEW ver \in Nat, NEW rows,
           ver <= CacheVersion(u)
    PROVE  /\ ver <= CacheVersion(u)'
           /\ Trusted(u, ver, rows) => Trusted(u, ver, rows)'
<1>1. version[u] \in Nat
  BY DEF Typed, TypeOK
<1>2. CASE version'[u] = version[u] + 1
  <2>1. ver <= CacheVersion(u)'
    BY <1>1, <1>2 DEF CacheVersion
  <2>2. ver # CacheVersion(u)' \/ version'[u] = 1
    BY <1>1, <1>2 DEF CacheVersion
  <2> QED BY <2>1, <2>2 DEF Trusted
<1>3. CASE version'[u] = version[u] /\ (Marked(u) => Marked(u)')
  <2>1. CacheVersion(u)' = CacheVersion(u)
    BY <1>3 DEF CacheVersion
  <2> QED BY <1>3, <2>1, ChangeLeavesStale DEF Trusted, Marked
<1> QED BY <1>2, <1>3, MarksStep

(* Where the rows and versions of the pages and of the requests that work  *)
(* on them come from.                                                      *)
LEMMA PagesStep ==
    ASSUME Typed, Next
    PROVE  \A g \in pages' :
              \/ g \in pages
              \/ \E p \in Procs : /\ req[p].pc = "storePage"
                                  /\ g = [user |-> req[p].from, version |-> req[p].version,
                                          rows |-> req[p].rows]
<1> DEFINE Good == \A g \in pages' :
              \/ g \in pages
              \/ \E p \in Procs : /\ req[p].pc = "storePage"
                                  /\ g = [user |-> req[p].from, version |-> req[p].version,
                                          rows |-> req[p].rows]
<1> SUFFICES Good
  OBVIOUS
<1>1. ASSUME pages' = pages PROVE Good
  BY <1>1
<1>2. ASSUME NEW p \in Procs, StorePage(p) PROVE Good
  BY <1>2 DEF StorePage, At
<1>3. CASE PageExpires
  BY <1>3 DEF PageExpires
<1> HIDE DEF Good
<1>4. ASSUME NEW p \in Procs, Request(p) PROVE Good
  <2>1. UNCHANGED cacheVars
    BY <1>4 DEF Request, SendRequest, InviteToRoom, AcceptRequest, DeleteFriendship,
       RefreshEntry, ListFriends
  <2> QED BY <1>1, <2>1 DEF cacheVars
<1>5. ASSUME NEW p \in Procs, Step(p) \/ Abort(p), ~StorePage(p) PROVE Good
  <2>1. pages' = pages
    BY <1>5 DEF Step, CreateFriendRequest, EnqueuePublishEvent, CreateRoomInvite,
       FindLeaderboardNotification, CreateLeaderboardNotification, CreateLeaderboardEvent,
       LookUpPage, LoadFriends, InvalidateFriendListCache, Abort, cacheVars
  <2> QED BY <1>1, <2>1
<1>6. CASE UNCHANGED cacheVars
  BY <1>1, <1>6 DEF cacheVars
<1> QED BY <1>2, <1>3, <1>4, <1>5, <1>6 DEF Next

ListPCs == {"lookup", "load", "storePage"}

LEMMA ListStep ==
    ASSUME Typed, Next, NEW p \in Procs, req'[p].pc \in ListPCs
    PROVE  \/ req'[p] = req[p]
           \/ /\ req'[p].version = CacheVersion(req'[p].from)
              /\ req'[p].pc = "lookup" /\ UNCHANGED version /\ req'[p].from \in Users
           \/ /\ req[p].pc \in ListPCs
              /\ req'[p].version = req[p].version /\ req'[p].from = req[p].from
              /\ \/ req'[p].pc # "storePage"
                 \/ req'[p].rows = FriendsOf(req[p].from) /\ UNCHANGED friendVars
<1> DEFINE Good == \/ req'[p] = req[p]
                   \/ /\ req'[p].version = CacheVersion(req'[p].from)
                      /\ req'[p].pc = "lookup" /\ UNCHANGED version /\ req'[p].from \in Users
                   \/ /\ req[p].pc \in ListPCs
                      /\ req'[p].version = req[p].version /\ req'[p].from = req[p].from
                      /\ \/ req'[p].pc # "storePage"
                         \/ req'[p].rows = FriendsOf(req[p].from) /\ UNCHANGED friendVars
<1> SUFFICES Good
  OBVIOUS
<1>1. req \in [Procs -> Locals]
  BY DEF Typed, TypeOK
<1>2. ASSUME NEW q \in Procs, NEW l, Become(q, l), l.pc \notin ListPCs PROVE Good
  BY <1>1, <1>2 DEF Become
<1>3. ASSUME NEW q \in Procs, NEW where \in PCs \ ListPCs, Goto(q, where) PROVE Good
  BY <1>1, <1>2, <1>3, GotoFacts DEF Goto, Become
<1>4. ASSUME NEW q \in Procs, NEW u \in Users, ListFriends(q, u) PROVE Good
  <2> DEFINE l == [Idle EXCEPT !.pc = "lookup", !.from = u, !.version = CacheVersion(u)]
  <2>1. l.pc = "lookup" /\ l.from = u /\ l.version = CacheVersion(u)
    BY DEF Idle
  <2>2. Become(q, l) /\ UNCHANGED version
    BY <1>4 DEF ListFriends, cacheVars
  <2> HIDE DEF l
  <2> QED BY <1>1, <2>1, <2>2 DEF Become
<1>5. ASSUME NEW q \in Procs, LookUpPage(q) PROVE Good
  <2>1. CASE End(q)
    BY <1>2, <2>1, IdleType DEF End, ListPCs
  <2>2. CASE Goto(q, "load")
    <3>1. req'[q] = [req[q] EXCEPT !.pc = "load"] /\ \A r \in Procs : r # q => req'[r] = req[r]
      BY <1>1, <2>2 DEF Goto
    <3>2. /\ req'[q].pc = "load" /\ req'[q].from = req[q].from
          /\ req'[q].version = req[q].version
      BY <1>1, <3>1, GotoFacts DEF PCs
    <3> QED BY <1>5, <3>1, <3>2 DEF LookUpPage, At, ListPCs
  <2> QED BY <1>5, <2>1, <2>2 DEF LookUpPage
<1>6. ASSUME NEW q \in Procs, LoadFriends(q) PROVE Good
  <2> DEFINE l == [req[q] EXCEPT !.pc = "storePage", !.rows = FriendsOf(req[q].from)]
  <2>1. l.from = req[q].from /\ l.version = req[q].version /\ l.rows = FriendsOf(req[q].from)
    BY <1>1 DEF Locals
  <2>2. Become(q, l) /\ UNCHANGED friendVars
    BY <1>6 DEF LoadFriends
  <2> HIDE DEF l
  <2> QED BY <1>1, <1>6, <2>1, <2>2 DEF Become, LoadFriends, At, ListPCs
<1> HIDE DEF Good
<1>7. ASSUME NEW q \in Procs, NEW u \in Users, NEW v \in Users,
             SendRequest(q, u, v) \/ InviteToRoom(q, u, v) \/ RefreshEntry(q, u)
      PROVE  Good
  <2>1. /\ [Idle EXCEPT !.pc = "insert", !.from = u, !.to = v].pc \notin ListPCs
        /\ [Idle EXCEPT !.pc = "invite", !.from = u, !.to = v].pc \notin ListPCs
        /\ [Idle EXCEPT !.pc = "find", !.to = u].pc \notin ListPCs
    BY DEF Idle, ListPCs
  <2> QED BY <1>2, <1>7, <2>1 DEF SendRequest, InviteToRoom, RefreshEntry
<1>8. ASSUME NEW q \in Procs, NEW f, NEW e, Changed(q, f, e) PROVE Good
  <2>1. [Idle EXCEPT !.pc = "invalidate", !.stale = {f.from, f.to}, !.event = e].pc \notin ListPCs
    BY DEF Idle, ListPCs
  <2> QED BY <1>2, <1>8, <2>1 DEF Changed
<1>9. ASSUME NEW q \in Procs, End(q) PROVE Good
  BY <1>2, <1>9, IdleType DEF End, ListPCs
<1>10. ASSUME NEW q \in Procs, Request(q) PROVE Good
  BY <1>4, <1>7, <1>8, <1>10 DEF Request, AcceptRequest, DeleteFriendship
<1>11. ASSUME NEW q \in Procs, CreateFriendRequest(q) PROVE Good
  BY <1>8, <1>9, <1>11 DEF CreateFriendRequest
<1>12. ASSUME NEW q \in Procs, InvalidateFriendListCache(q) PROVE Good
  <2>1. req[q] \in Locals /\ req[q].pc = "invalidate"
    BY <1>1, <1>12 DEF InvalidateFriendListCache, At
  <2>2. \A w : [req[q] EXCEPT !.stale = @ \ {w}].pc \notin ListPCs
    BY <2>1 DEF Locals, ListPCs
  <2>3. [req[q] EXCEPT !.stale = {}, !.pc = "enqueue"].pc \notin ListPCs
    BY <2>1 DEF Locals, ListPCs
  <2> QED BY <1>2, <1>9, <1>12, <2>2, <2>3 DEF InvalidateFriendListCache
<1>13. ASSUME NEW q \in Procs,
              EnqueuePublishEvent(q) \/ StorePage(q) \/ Abort(q)
              \/ FindLeaderboardNotification(q) \/ CreateLeaderboardEvent(q)
       PROVE  Good
  BY <1>3, <1>9, <1>13 DEF EnqueuePublishEvent, StorePage, Abort, FindLeaderboardNotification,
     CreateLeaderboardEvent, PCs, ListPCs
<1>14. ASSUME NEW q \in Procs, CreateRoomInvite(q) \/ CreateLeaderboardNotification(q)
       PROVE  Good
  <2>1. req[q] \in Locals
    BY <1>1
  <2>2. /\ [req[q] EXCEPT !.pc = "enqueue", !.event = Len(notes) + 1].pc \notin ListPCs
        /\ [req[q] EXCEPT !.pc = "event", !.event = Len(notes) + 1].pc \notin ListPCs
    BY <2>1 DEF Locals, ListPCs
  <2> QED BY <1>2, <1>14, <2>2 DEF CreateRoomInvite, CreateLeaderboardNotification
<1>15. CASE UNCHANGED req
  BY <1>15 DEF Good
<1>16. CASE PageExpires
  BY <1>15, <1>16 DEF PageExpires
<1> QED BY <1>5, <1>6, <1>10, <1>11, <1>12, <1>13, <1>14, <1>15, <1>16 DEF Next, Step

LEMMA NextPages == Typed /\ PagesInv /\ Next => PagesInv'
<1> SUFFICES ASSUME Typed, PagesInv, Next PROVE PagesInv'
  OBVIOUS
<1>1. /\ pages \subseteq Page /\ req \in [Procs -> Locals] /\ version \in [Users -> Nat]
      /\ \A p \in Procs : Carries(req[p])
  BY DEF Typed, TypeOK
<1>2. ASSUME NEW g \in pages'
      PROVE  g.version <= CacheVersion(g.user)' /\ Trusted(g.user, g.version, g.rows)'
  <2>1. PICK u, ver, rows : u = g.user /\ ver = g.version /\ rows = g.rows
    OBVIOUS
  <2>2. u \in Users /\ ver \in Nat /\ ver <= CacheVersion(u) /\ Trusted(u, ver, rows)
    <3>1. CASE g \in pages
      BY <1>1, <2>1, <3>1 DEF Page, PagesInv
    <3>2. ASSUME NEW p \in Procs, req[p].pc = "storePage",
                 g = [user |-> req[p].from, version |-> req[p].version, rows |-> req[p].rows]
          PROVE  u \in Users /\ ver \in Nat /\ ver <= CacheVersion(u) /\ Trusted(u, ver, rows)
      <4>1. u = req[p].from /\ ver = req[p].version /\ rows = req[p].rows
        BY <2>1, <3>2
      <4> QED BY <1>1, <3>2, <4>1 DEF PagesInv, Carries, Locals
    <3> QED BY <3>1, <3>2, PagesStep
  <2>3. ver <= CacheVersion(u)' /\ Trusted(u, ver, rows)'
    BY <2>2, TrustedStays
  <2> QED BY <2>1, <2>3
<1>3. ASSUME NEW p \in Procs, req'[p].pc \in ListPCs
      PROVE  /\ req'[p].version <= CacheVersion(req[p].from)'
             /\ req'[p].pc = "storePage" =>
                   Trusted(req[p].from, req[p].version, req[p].rows)'
  <2>1. PICK u, ver, rows : u = req'[p].from /\ ver = req'[p].version /\ rows = req'[p].rows
    OBVIOUS
  <2>2. SUFFICES /\ ver <= CacheVersion(u)'
                 /\ req'[p].pc = "storePage" => Trusted(u, ver, rows)'
    BY <2>1
  <2>3. CASE req[p].pc \in ListPCs /\ u = req[p].from /\ ver = req[p].version
    <3>1. u \in Users /\ ver \in Nat /\ ver <= CacheVersion(u)
      BY <1>1, <2>3 DEF PagesInv, Carries, Locals, ListPCs
    <3>2. ver <= CacheVersion(u)' /\ (Trusted(u, ver, rows) => Trusted(u, ver, rows)')
      BY <3>1, TrustedStays
    <3>3. CASE req'[p].pc = "storePage"
      <4>1. CASE req'[p] = req[p]
        <5>1. Trusted(u, ver, rows)
          BY <2>1, <3>3, <4>1 DEF PagesInv
        <5> QED BY <3>2, <5>1
      <4>2. CASE rows = FriendsOf(u)
        <5>1. Trusted(u, ver, rows)
          BY <4>2 DEF Trusted
        <5> QED BY <3>2, <5>1
      <4> QED BY <1>3, <2>1, <2>3, <3>3, <4>1, <4>2, ListStep
    <3> QED BY <3>2, <3>3
  <2>4. CASE req'[p].pc = "lookup" /\ ver = CacheVersion(u) /\ UNCHANGED version /\ u \in Users
    <3>1. CacheVersion(u)' = CacheVersion(u) /\ CacheVersion(u) \in Nat
      BY <1>1, <2>4 DEF CacheVersion
    <3> QED BY <2>4, <3>1
  <2> QED BY <1>3, <2>1, <2>3, <2>4, ListStep
<1>4. \A g \in pages' : g.version <= CacheVersion(g.user)' /\ Trusted(g.user, g.version, g.rows)'
  BY <1>2
<1>5. \A p \in Procs :
         /\ req'[p].pc \in {"lookup", "load", "storePage"} =>
              req'[p].version <= CacheVersion(req[p].from)'
         /\ req'[p].pc = "storePage" => Trusted(req[p].from, req[p].version, req[p].rows)'
  BY <1>3 DEF ListPCs
<1> QED BY <1>4, <1>5 DEF PagesInv

(* A page that the next reader would be given is current, whatever reads,  *)
(* changes, invalidations and lost invalidations interleaved before it was *)
(* stored, with the one exception the property names.                      *)
THEOREM PagesCurrent == Spec => []PageCurrent
<1>1. PagesInv /\ UNCHANGED vars => PagesInv'
  <2> SUFFICES ASSUME PagesInv, UNCHANGED vars PROVE PagesInv'
    OBVIOUS
  <2>1. UNCHANGED <<friendships, version, pages, missed, req>>
    BY DEF vars, friendVars, cacheVars
  <2>2. \A u : CacheVersion(u)' = CacheVersion(u) /\ FriendsOf(u)' = FriendsOf(u)
    BY <2>1 DEF CacheVersion, FriendsOf, Between
  <2>3. \A u, ver, rows : Trusted(u, ver, rows)' <=> Trusted(u, ver, rows)
    BY <2>1, <2>2 DEF Trusted
  <2> QED BY <2>1, <2>2, <2>3 DEF PagesInv
<1>2. Typed /\ PagesInv /\ [Next]_vars => PagesInv'
  BY <1>1, NextPages
<1>3. Spec => [](Typed /\ PagesInv)
  BY InitTyped, NextTyped, InitPages, <1>2, PTL DEF Spec
<1>4. PagesInv => PageCurrent
  BY DEF PagesInv, Trusted, PageCurrent
<1> QED BY <1>3, <1>4, PTL

============================================================================
