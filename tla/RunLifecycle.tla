---------------------------- MODULE RunLifecycle ----------------------------
(***************************************************************************)
(* The authoritative run lifecycle of the server: the rows of the table    *)
(* runs, the HTTP handlers of apps/server/src/app.ts that change them, and *)
(* the sweeps of apps/server/src/reconciler.ts that touch them.            *)
(*                                                                         *)
(* A handler is one transaction that either starts with SELECT .. FOR      *)
(* UPDATE of the row or is one guarded UPDATE, so it is one action here.   *)
(* A sweep is not: it reads a snapshot of rows in one statement and then   *)
(* handles them one by one, a transaction each, and any handler can commit *)
(* in between.  The sweep is therefore a snapshot action and a row action. *)
(*                                                                         *)
(* Callers are unconstrained, as the API is: any client that knows the id  *)
(* of a run may call any handler at any moment.  SdkWorkers restricts the  *)
(* callers to what the SDK does.                                           *)
(***************************************************************************)
EXTENDS Integers, FiniteSets

CONSTANTS
    Runs,           \* the ids of the rows the table can hold
    Owners,         \* lease owners: worker names or the UUIDs of sessions
    Queues,         \* queue names
    Keys,           \* dedupe keys
    PushQueues,     \* the queues whose configuration has an invoke_url
    Jobs,           \* the bodies of enqueue and create requests
    Caps,           \* the numbers a client puts in a queue configuration
    None,           \* SQL null of a name
    Lease,          \* TIDEBASE_LEASE_MS
    Minute,         \* the window of rate_per_minute
    Horizon,        \* the redelivery horizon of a push dispatch
    Backoff(_),     \* retryBackoffMs, see RetryPolicy
    MaxAttempts,    \* BOUND: no job asks for more attempts
    SweepLimit,     \* "limit 100" of a sweep
    PushLimit,      \* "capacity = 10" of a push dispatch
    MaxTime,        \* BOUND: the clock stops here
    MaxBegins       \* BOUND: begin is not called once attempt is this high

NoTime == -1        \* SQL null of a timestamp
NoCap  == -1        \* SQL null of concurrency and of rate_per_minute

\* body.runAt is a time, possibly a past one, and beats body.delayMs.  A run is
\* scheduled when its metadata names the schedule and the minute it was fired for.
JobType == [queue: Queues \cup {None}, key: Keys \cup {None}, max: 1..MaxAttempts,
            runAt: Nat \cup {NoTime}, delay: Nat, deadline: Nat \cup {NoTime},
            priority: Int, webhook: BOOLEAN, scheduled: BOOLEAN]

ASSUME NoneAssumption  == None \notin Owners \cup Queues \cup Keys \cup {"max_retries"}
ASSUME RunsAssumption  == IsFiniteSet(Runs)
ASSUME JobsAssumption  == Jobs \subseteq JobType
ASSUME CapsAssumption  == Caps \subseteq Nat \ {0}
ASSUME TimeAssumption  == /\ Lease \in Nat \ {0}
                          /\ Minute \in Nat /\ Horizon \in Nat /\ MaxTime \in Nat
ASSUME LimitAssumption == /\ SweepLimit \in Nat \ {0} /\ PushLimit \in Nat \ {0}
                          /\ MaxBegins \in Nat /\ MaxAttempts \in Nat \ {0}
ASSUME BackoffAssumption == \A n \in 0..MaxAttempts : Backoff(n) \in Nat
ASSUME PushAssumption  == PushQueues \subseteq Queues

VARIABLES
    status,         \* runs.status, "absent" before the insert
    leaseOwner,     \* runs.lease_owner
    leaseExpiresAt, \* runs.lease_expires_at
    attempt,        \* runs.attempt
    runAt,          \* runs.run_at
    claimedAt,      \* runs.claimed_at
    deadlineAt,     \* runs.deadline_at
    failureClass,   \* runs.failure_class
    job,            \* the columns of the row that no handler changes
    event,          \* the last lifecycle event of the run's event log
    config,         \* queue_configs: concurrency and rate_per_minute
    now,            \* the clock of the database and of the server
    tick            \* the tick of the replica that holds the advisory lock

row  == <<status, leaseOwner, leaseExpiresAt, attempt, runAt, claimedAt,
          deadlineAt, failureClass, job, event>>
vars == <<row, config, now, tick>>

Statuses == {"absent", "pending", "queued", "running", "completed", "failed", "cancelled"}
Active   == {"queued", "running"}
Events   == {"none", "run.created", "run.enqueued", "run.started", "run.claimed",
             "run.requeued", "run.completed", "run.failed", "run.cancelled"}
Times    == Nat \cup {NoTime}

NoJob == [queue |-> None, key |-> None, max |-> 1, runAt |-> NoTime, delay |-> 0,
          deadline |-> NoTime, priority |-> 0, webhook |-> FALSE, scheduled |-> FALSE]

\* The failure classes a client reports; those other than the server's own are
\* not told from none.
Classes == {None, "max_retries"}

\* What the table queue_configs can hold.
Configs == [concurrency: Caps \cup {NoCap}, rate: Caps \cup {NoCap}]

\* A phase of the tick that keeps no attempts: only the lease sweep does.
TickIn(phase, at, rows, todo) ==
    [phase |-> phase, at |-> at, rows |-> rows, seen |-> [r \in Runs |-> 0], todo |-> todo]
IdleTick == TickIn("idle", 0, {}, {})

Init ==
    /\ status = [r \in Runs |-> "absent"]
    /\ leaseOwner = [r \in Runs |-> None]
    /\ leaseExpiresAt = [r \in Runs |-> NoTime]
    /\ attempt = [r \in Runs |-> 0]
    /\ runAt = [r \in Runs |-> NoTime]
    /\ claimedAt = [r \in Runs |-> NoTime]
    /\ deadlineAt = [r \in Runs |-> NoTime]
    /\ failureClass = [r \in Runs |-> None]
    /\ job = [r \in Runs |-> NoJob]
    /\ event = [r \in Runs |-> "none"]
    /\ config \in [Queues -> Configs]
    /\ now = 0
    /\ tick = IdleTick

-----------------------------------------------------------------------------
(* What the handlers ask of the table.                                     *)

LeaseLive(r) == leaseOwner[r] # None /\ leaseExpiresAt[r] # NoTime /\ leaseExpiresAt[r] > now
LeaseExpiredBefore(r, t) == status[r] = "running" /\ leaseExpiresAt[r] # NoTime
                                                  /\ leaseExpiresAt[r] < t

\* Fault: the index covers queued rows only.
IndexQueuedOnly(r, q, k) == k = None \/ \A o \in Runs \ {r} :
    ~(status[o] = "queued" /\ job[o].queue = q /\ job[o].key = k)

\* The partial unique index runs_queue_dedupe_active lets a row become active.
IndexAllows(r, q, k) == k = None \/ \A o \in Runs \ {r} :
    ~(status[o] \in Active /\ job[o].queue = q /\ job[o].key = k)

Running(q) == {r \in Runs : job[r].queue = q /\ status[r] = "running"}
\* Fault: the rate counts the runs that still run.
RecentRunning(q) == {r \in Running(q) : claimedAt[r] > now - Minute}

Recent(q)  == {r \in Runs : job[r].queue = q /\ claimedAt[r] # NoTime
                                             /\ claimedAt[r] > now - Minute}
Ready(q, t) == {r \in Runs : job[r].queue = q /\ status[r] = "queued" /\ runAt[r] <= t}

\* order by priority desc, run_at asc
Before(r, s) == \/ job[r].priority > job[s].priority
                \/ job[r].priority = job[s].priority /\ runAt[r] < runAt[s]

\* The rows "order by .. limit" may return: as many as there is room for (counts
\* are the numbers of rows there is room for), none preceded by a row left out.
FirstOf(rows, counts) ==
    {S \in SUBSET rows : /\ S = {} \/ Cardinality(S) \in counts
                         /\ S = rows \/ Cardinality(S) + 1 \notin counts
                         /\ \A r \in rows \ S, s \in S : ~Before(r, s)}

\* Fault: the room is not reduced by what this select takes.
CapRoomForOne(q, n) == \/ config[q].concurrency = NoCap
                       \/ Cardinality(Running(q)) < config[q].concurrency

CapRoom(q, n)  == \/ config[q].concurrency = NoCap
                  \/ Cardinality(Running(q)) + n <= config[q].concurrency
RateRoom(q, n) == config[q].rate = NoCap \/ Cardinality(Recent(q)) + n <= config[q].rate

\* The columns every transition out of "running" clears or keeps.
SetLease(r, w, t) == /\ leaseOwner' = [leaseOwner EXCEPT ![r] = w]
                     /\ leaseExpiresAt' = [leaseExpiresAt EXCEPT ![r] = t]
SetStatus(r, s, e) == /\ status' = [status EXCEPT ![r] = s]
                      /\ event' = [event EXCEPT ![r] = e]

-----------------------------------------------------------------------------
(* The HTTP handlers.                                                      *)

Insert(r, j, s, e) ==
    /\ status[r] = "absent"
    /\ IndexAllows(r, j.queue, j.key)
    /\ SetStatus(r, s, e)
    /\ job' = [job EXCEPT ![r] = j]
    /\ UNCHANGED <<leaseOwner, leaseExpiresAt, attempt, claimedAt, failureClass, config, now, tick>>

\* POST /runs/:workflowName
CreateRun(r, j) ==
    /\ j.queue = None /\ ~j.scheduled
    /\ Insert(r, j, "pending", "run.created")
    /\ UNCHANGED <<runAt, deadlineAt>>

\* POST /queues/:queue/enqueue.  A conflict on the dedupe index returns the
\* active run and changes nothing.
Enqueue(r, j) ==
    /\ j.queue # None /\ ~j.scheduled
    /\ Insert(r, j, "queued", "run.enqueued")
    /\ runAt' = [runAt EXCEPT ![r] = IF j.runAt # NoTime THEN j.runAt ELSE now + j.delay]
    /\ deadlineAt' = [deadlineAt EXCEPT ![r] = IF j.deadline = NoTime THEN NoTime
                                               ELSE now + j.deadline]

\* POST /runs/:runId/cancel
Cancel(r) ==
    /\ status[r] \notin {"absent", "cancelled", "completed"}
    /\ SetStatus(r, "cancelled", "run.cancelled")
    /\ SetLease(r, None, NoTime)
    /\ UNCHANGED <<attempt, runAt, claimedAt, deadlineAt, failureClass, job, config, now, tick>>

\* Fault: begin does not look at the lease.
BeginTakesOver(r, w) ==
    /\ status[r] \notin {"absent", "completed", "cancelled"}
    /\ IndexAllows(r, job[r].queue, job[r].key)
    /\ attempt[r] < MaxBegins
    /\ SetStatus(r, "running", "run.started")
    /\ SetLease(r, w, now + Lease)
    /\ attempt' = [attempt EXCEPT ![r] = @ + 1]
    /\ UNCHANGED <<runAt, claimedAt, deadlineAt, failureClass, job, config, now, tick>>

\* Fault: begin counts an attempt and leaves the expiry of the lease as it was.
BeginKeepsExpiry(r, w) ==
    /\ status[r] \notin {"absent", "completed", "cancelled"}
    /\ ~(LeaseLive(r) /\ leaseOwner[r] # w)
    /\ IndexAllows(r, job[r].queue, job[r].key)
    /\ attempt[r] < MaxBegins
    /\ SetStatus(r, "running", "run.started")
    /\ SetLease(r, w, IF leaseExpiresAt[r] = NoTime THEN now + Lease ELSE leaseExpiresAt[r])
    /\ attempt' = [attempt EXCEPT ![r] = @ + 1]
    /\ UNCHANGED <<runAt, claimedAt, deadlineAt, failureClass, job, config, now, tick>>

\* POST /runs/:runId/begin by the worker w.  The index can refuse the update of
\* a failed run whose dedupe key is in use again: the request answers 500.
Begin(r, w) ==
    /\ status[r] \notin {"absent", "completed", "cancelled"}
    /\ ~(LeaseLive(r) /\ leaseOwner[r] # w)
    /\ IndexAllows(r, job[r].queue, job[r].key)
    /\ attempt[r] < MaxBegins
    /\ SetStatus(r, "running", "run.started")
    /\ SetLease(r, w, now + Lease)
    /\ attempt' = [attempt EXCEPT ![r] = @ + 1]
    /\ UNCHANGED <<runAt, claimedAt, deadlineAt, failureClass, job, config, now, tick>>

\* Fault: the renewal takes the lease whoever holds it.
HeartbeatSteals(r, w) ==
    /\ status[r] = "running"
    /\ SetLease(r, w, now + Lease)
    /\ UNCHANGED <<status, event, attempt, runAt, claimedAt, deadlineAt,
                   failureClass, job, config, now, tick>>

\* POST /runs/:runId/heartbeat
Heartbeat(r, w) ==
    /\ status[r] = "running" /\ leaseOwner[r] = w
    /\ leaseExpiresAt' = [leaseExpiresAt EXCEPT ![r] = now + Lease]
    /\ UNCHANGED <<status, event, leaseOwner, attempt, runAt, claimedAt, deadlineAt,
                   failureClass, job, config, now, tick>>

\* Fault: the update lost its "status <> 'cancelled'".
CompleteRevives(r) ==
    /\ status[r] # "absent"
    /\ SetStatus(r, "completed", "run.completed")
    /\ SetLease(r, None, NoTime)
    /\ UNCHANGED <<attempt, runAt, claimedAt, deadlineAt, failureClass, job, config, now, tick>>

\* POST /runs/:runId/complete.  The caller does not name a lease.
Complete(r) ==
    /\ status[r] \notin {"absent", "cancelled"}
    /\ SetStatus(r, "completed", "run.completed")
    /\ SetLease(r, None, NoTime)
    /\ UNCHANGED <<attempt, runAt, claimedAt, deadlineAt, failureClass, job, config, now, tick>>

\* Fault: one attempt too many.
FailRetryOnceMore(r) ==
    /\ status[r] \notin {"absent", "cancelled"}
    /\ job[r].queue # None /\ attempt[r] <= job[r].max
    /\ IndexAllows(r, job[r].queue, job[r].key)
    /\ SetStatus(r, "queued", "run.requeued")
    /\ SetLease(r, None, NoTime)
    /\ runAt' = [runAt EXCEPT ![r] = now + Backoff(attempt[r])]
    /\ UNCHANGED <<attempt, claimedAt, deadlineAt, failureClass, job, config, now, tick>>

\* POST /runs/:runId/fail with attempts left: back to the queue with backoff.
FailRetry(r) ==
    /\ status[r] \notin {"absent", "cancelled"}
    /\ job[r].queue # None /\ attempt[r] < job[r].max
    /\ IndexAllows(r, job[r].queue, job[r].key)
    /\ SetStatus(r, "queued", "run.requeued")
    /\ SetLease(r, None, NoTime)
    /\ runAt' = [runAt EXCEPT ![r] = now + Backoff(attempt[r])]
    /\ UNCHANGED <<attempt, claimedAt, deadlineAt, failureClass, job, config, now, tick>>

\* POST /runs/:runId/fail with none left.  The class in the body is stored as
\* the client sent it, unless the server knows that retries were used up.
FailFinal(r, class) ==
    /\ status[r] \notin {"absent", "cancelled"}
    /\ ~(job[r].queue # None /\ attempt[r] < job[r].max)
    /\ SetStatus(r, "failed", "run.failed")
    /\ SetLease(r, None, NoTime)
    /\ failureClass' = [failureClass EXCEPT ![r] =
            IF job[r].queue # None /\ job[r].max > 1 THEN "max_retries" ELSE class]
    /\ UNCHANGED <<attempt, runAt, claimedAt, deadlineAt, job, config, now, tick>>

\* POST /queues/claim for one queue.  The advisory lock of the queue keeps other
\* claims out; rows locked by another transaction are skipped, which is the
\* order in which that transaction commits first.
Claim(w, q, limit) ==
    LET counts == {n \in 0..limit : CapRoom(q, n) /\ RateRoom(q, n)} IN
    \E S \in FirstOf(Ready(q, now), counts) :
        /\ S # {}
        /\ status' = [r \in Runs |-> IF r \in S THEN "running" ELSE status[r]]
        /\ event' = [r \in Runs |-> IF r \in S THEN "run.claimed" ELSE event[r]]
        /\ leaseOwner' = [r \in Runs |-> IF r \in S THEN w ELSE leaseOwner[r]]
        /\ leaseExpiresAt' = [r \in Runs |-> IF r \in S THEN now + Lease ELSE leaseExpiresAt[r]]
        /\ attempt' = [r \in Runs |-> IF r \in S THEN attempt[r] + 1 ELSE attempt[r]]
        /\ claimedAt' = [r \in Runs |-> IF r \in S THEN now ELSE claimedAt[r]]
        /\ UNCHANGED <<runAt, deadlineAt, failureClass, job, config, now, tick>>

\* PUT /queues/:queue/config: a null in the body keeps the stored number.
ConfigureQueue(q, c, rate) ==
    /\ config' = [config EXCEPT ![q] =
            [concurrency |-> IF c = NoCap THEN @.concurrency ELSE c,
             rate |-> IF rate = NoCap THEN @.rate ELSE rate]]
    /\ UNCHANGED <<row, now, tick>>

-----------------------------------------------------------------------------
(* The reconciler.  pg_try_advisory_lock lets one replica tick at a time.  *)

\* The tick reads its clock once, and the snapshot of sweepExpiredLeases: the
\* rows with the earliest leases.  Plain runs (no queue, no webhook) are left out.
TickLeases ==
    LET Sweepable == {r \in Runs : /\ LeaseExpiredBefore(r, now)
                                   /\ job[r].queue # None \/ job[r].webhook}
    IN  /\ tick.phase = "idle"
        /\ \E S \in SUBSET Sweepable :
            /\ Cardinality(S) <= SweepLimit
            /\ S = Sweepable \/ Cardinality(S) = SweepLimit
            /\ \A r \in Sweepable \ S, s \in S : leaseExpiresAt[s] <= leaseExpiresAt[r]
            /\ tick' = [phase |-> "leases", at |-> now, rows |-> S,
                        seen |-> [r \in Runs |-> IF r \in S THEN attempt[r] ELSE 0],
                        todo |-> {}]
        /\ UNCHANGED <<row, config, now>>

RowDone(r) == tick' = [tick EXCEPT !.rows = @ \ {r}]

\* A row of the snapshot with attempts left when it was read is requeued.
ReclaimRetry(r) ==
    /\ tick.phase = "leases" /\ r \in tick.rows
    /\ job[r].queue # None /\ tick.seen[r] < job[r].max
    /\ LeaseExpiredBefore(r, tick.at)
    /\ SetStatus(r, "queued", "run.requeued")
    /\ SetLease(r, None, NoTime)
    /\ runAt' = [runAt EXCEPT ![r] = now + Backoff(tick.seen[r])]
    /\ RowDone(r)
    /\ UNCHANGED <<attempt, claimedAt, deadlineAt, failureClass, job, config, now>>

\* Fault: a run with exactly its attempts used is neither requeued nor failed.
ReclaimFailLate(r) ==
    /\ tick.phase = "leases" /\ r \in tick.rows
    /\ job[r].queue # None /\ tick.seen[r] > job[r].max
    /\ LeaseExpiredBefore(r, tick.at)
    /\ SetStatus(r, "failed", "run.failed")
    /\ SetLease(r, None, NoTime)
    /\ failureClass' = [failureClass EXCEPT ![r] = "max_retries"]
    /\ RowDone(r)
    /\ UNCHANGED <<attempt, runAt, claimedAt, deadlineAt, job, config, now>>

\* A row of the snapshot with none left is failed.
ReclaimFail(r) ==
    /\ tick.phase = "leases" /\ r \in tick.rows
    /\ job[r].queue # None /\ tick.seen[r] >= job[r].max
    /\ LeaseExpiredBefore(r, tick.at)
    /\ SetStatus(r, "failed", "run.failed")
    /\ SetLease(r, None, NoTime)
    /\ failureClass' = [failureClass EXCEPT ![r] = "max_retries"]
    /\ RowDone(r)
    /\ UNCHANGED <<attempt, runAt, claimedAt, deadlineAt, job, config, now>>

\* The guarded update matches no row, or the run has no queue and its owner is
\* called over the recovery webhook, which changes no row of runs.
ReclaimSkip(r) ==
    /\ tick.phase = "leases" /\ r \in tick.rows
    /\ job[r].queue = None \/ ~LeaseExpiredBefore(r, tick.at)
    /\ RowDone(r)
    /\ UNCHANGED <<row, config, now>>

\* The snapshot of sweepDeadlines.
TickDeadlines ==
    LET Overdue == {r \in Runs : /\ deadlineAt[r] # NoTime /\ deadlineAt[r] < tick.at
                                 /\ status[r] \in {"pending", "queued", "running"}}
    IN  /\ tick.phase = "leases" /\ tick.rows = {}
        /\ \E S \in SUBSET Overdue :
            /\ Cardinality(S) <= SweepLimit
            /\ S = Overdue \/ Cardinality(S) = SweepLimit
            /\ tick' = TickIn("deadlines", tick.at, S, {})
        /\ UNCHANGED <<row, config, now>>

\* Fault: the event is not appended.
DeadlineSilent(r) ==
    /\ tick.phase = "deadlines" /\ r \in tick.rows
    /\ status[r] \in {"pending", "queued", "running"}
    /\ SetStatus(r, "cancelled", event[r])
    /\ SetLease(r, None, NoTime)
    /\ RowDone(r)
    /\ UNCHANGED <<attempt, runAt, claimedAt, deadlineAt, failureClass, job, config, now>>

DeadlineCancel(r) ==
    /\ tick.phase = "deadlines" /\ r \in tick.rows
    /\ status[r] \in {"pending", "queued", "running"}
    /\ SetStatus(r, "cancelled", "run.cancelled")
    /\ SetLease(r, None, NoTime)
    /\ RowDone(r)
    /\ UNCHANGED <<attempt, runAt, claimedAt, deadlineAt, failureClass, job, config, now>>

DeadlineSkip(r) ==
    /\ tick.phase = "deadlines" /\ r \in tick.rows
    /\ status[r] \notin {"pending", "queued", "running"}
    /\ RowDone(r)
    /\ UNCHANGED <<row, config, now>>

\* sweepSchedules, between the deadlines and the push queues, inserts the run of
\* a schedule that is due and appends no event.  A conflict on the dedupe index
\* is swallowed.  Which schedules are due is the matter of Schedules.
FireSchedule(r, j) ==
    /\ tick.phase = "deadlines" /\ tick.rows = {}
    /\ j.scheduled /\ j.queue # None /\ j.key # None
    /\ j.deadline = NoTime /\ j.priority = 0 /\ ~j.webhook
    /\ Insert(r, j, "queued", "none")
    /\ runAt' = [runAt EXCEPT ![r] = now]
    /\ UNCHANGED deadlineAt

\* sweepPushQueues reads the configurations, then takes the queues one by one.
TickPush ==
    /\ tick.phase = "deadlines" /\ tick.rows = {}
    /\ tick' = TickIn("push", tick.at, {}, PushQueues)
    /\ UNCHANGED <<row, config, now>>

PushSelect(q) ==
    LET counts == {n \in 0..PushLimit : CapRoom(q, n)} IN
    /\ tick.phase = "push" /\ tick.rows = {} /\ q \in tick.todo
    /\ \E S \in FirstOf(Ready(q, tick.at), counts) :
           tick' = [tick EXCEPT !.rows = S, !.todo = @ \ {q}]
    /\ UNCHANGED <<row, config, now>>

\* The horizon is pushed without looking at the row again, then the webhook is
\* called; what the application does about it is a later Begin.
PushRow(r) ==
    /\ tick.phase = "push" /\ r \in tick.rows
    /\ runAt' = [runAt EXCEPT ![r] = now + Horizon]
    /\ RowDone(r)
    /\ UNCHANGED <<status, event, leaseOwner, leaseExpiresAt, attempt, claimedAt,
                   deadlineAt, failureClass, job, config, now>>

TickEnd ==
    /\ tick.phase = "push" /\ tick.rows = {} /\ tick.todo = {}
    /\ tick' = IdleTick
    /\ UNCHANGED <<row, config, now>>

\* The replica dies or a statement throws: the rest of the tick is not done.
TickAbort ==
    /\ tick.phase # "idle"
    /\ tick' = IdleTick
    /\ UNCHANGED <<row, config, now>>

Advance ==
    /\ now < MaxTime
    /\ now' = now + 1
    /\ UNCHANGED <<row, config, tick>>

-----------------------------------------------------------------------------
Submit(r)  == \E j \in Jobs : CreateRun(r, j) \/ Enqueue(r, j)
Fail(r)    == FailRetry(r) \/ \E class \in Classes : FailFinal(r, class)
Report(r)  == Cancel(r) \/ Complete(r) \/ Fail(r)
Pull       == \E w \in Owners, q \in Queues, n \in 1..Cardinality(Runs) : Claim(w, q, n)
Configure  == \E q \in Queues : \E c, rate \in Caps \cup {NoCap} : ConfigureQueue(q, c, rate)
Sweep(r)   == \/ ReclaimRetry(r) \/ ReclaimFail(r) \/ ReclaimSkip(r)
              \/ DeadlineCancel(r) \/ DeadlineSkip(r) \/ PushRow(r)
TickStep   == TickLeases \/ TickDeadlines \/ TickPush \/ TickEnd \/ \E q \in Queues : PushSelect(q)
Fire(r)    == \E j \in Jobs : FireSchedule(r, j)
Reconcile  == TickStep \/ \E r \in Runs : Sweep(r) \/ Fire(r)

Next ==
    \/ \E r \in Runs : Submit(r) \/ Report(r)
    \/ \E r \in Runs, w \in Owners : Begin(r, w) \/ Heartbeat(r, w)
    \/ Pull
    \/ Configure
    \/ Reconcile
    \/ TickAbort
    \/ Advance

Spec == Init /\ [][Next]_vars

\* The workers of the queues only pull.
PullNext ==
    \/ \E r \in Runs : Submit(r) \/ Report(r)
    \/ \E r \in Runs, w \in Owners : Heartbeat(r, w)
    \/ Pull
    \/ Reconcile
    \/ Advance

PullSpec == Init /\ [][PullNext \/ Configure \/ TickAbort]_vars

\* Runs are pulled, and push dispatch or a resumed run calls begin as well.
MixedNext == PullNext \/ \E r \in Runs, w \in Owners : Begin(r, w)

\* The interval timer of the server goes on ticking and the clock goes on; no
\* fairness is asked of any client.  A tick that is aborted is left out: it is
\* the crash of a replica, after which another one ticks.
LiveSpec == Init /\ [][MixedNext]_vars /\ WF_vars(Reconcile) /\ WF_vars(Advance)

-----------------------------------------------------------------------------
(* Properties.                                                             *)

\* Type invariant of the rows of runs, the queue configurations and the tick.
TypeOK ==
    /\ status \in [Runs -> Statuses]
    /\ leaseOwner \in [Runs -> Owners \cup {None}]
    /\ leaseExpiresAt \in [Runs -> Times]
    /\ attempt \in [Runs -> Nat]
    /\ runAt \in [Runs -> Times]
    /\ claimedAt \in [Runs -> Times]
    /\ deadlineAt \in [Runs -> Times]
    /\ failureClass \in [Runs -> Classes]
    /\ job \in [Runs -> Jobs \cup {NoJob}]
    /\ event \in [Runs -> Events]
    /\ config \in [Queues -> Configs]
    /\ now \in Nat
    /\ tick \in [phase: {"idle", "leases", "deadlines", "push"}, at: Nat,
                 rows: SUBSET Runs, seen: [Runs -> Nat], todo: SUBSET PushQueues]

\* A run has a lease exactly while it is running: every way out of "running"
\* (complete, fail, cancel, reclaim, deadline) gives the lease up.
LeaseIffRunning ==
    \A r \in Runs : /\ status[r] = "running" <=> leaseOwner[r] # None
                    /\ status[r] = "running" <=> leaseExpiresAt[r] # NoTime

\* The append-only event log tells the same story as the row: the last
\* lifecycle event of a run determines its status, so a subscriber that folds
\* the log never disagrees with GET /runs/:id.  The one exception is the run of
\* a schedule, which is queued without an event and has an empty log exactly
\* until something else happens to it.
StatusAfter ==
    [e \in Events |-> CASE e = "none" -> "absent"
                        [] e = "run.created" -> "pending"
                        [] e \in {"run.enqueued", "run.requeued"} -> "queued"
                        [] e \in {"run.started", "run.claimed"} -> "running"
                        [] e = "run.completed" -> "completed"
                        [] e = "run.failed" -> "failed"
                        [] e = "run.cancelled" -> "cancelled"]
EventLogAgrees ==
    \A r \in Runs : status[r] = IF event[r] = "none" /\ job[r].scheduled
                                THEN "queued" ELSE StatusAfter[event[r]]

\* At most one queued or running run per queue and dedupe key, whatever path
\* made it active again: requeue, reclaim, begin of a failed run.
DedupeExact ==
    \A r, s \in Runs : (/\ r # s /\ {status[r], status[s]} \subseteq Active
                        /\ job[r].key # None /\ job[r].key = job[s].key)
                       => job[r].queue # job[s].queue

\* The reconciler decides between requeue and failure, and picks the backoff,
\* from the attempt it read in its snapshot.  When its guarded update goes
\* through, that number is still the row's: whoever began the run since then
\* also moved its lease past the clock of the tick.
SnapshotStillTrue ==
    tick.phase = "leases" =>
        \A r \in tick.rows : LeaseExpiredBefore(r, tick.at) => tick.seen[r] = attempt[r]

\* docs/production.md: "exhausting maxAttempts is recorded as failure_class =
\* 'max_retries'": whichever of fail and the sweep recorded it, a job of a queue
\* is so classified only when its attempts are used up.  The class of a run that
\* has no queue is whatever its client sent.
MaxRetriesMeansExhausted ==
    \A r \in Runs : (failureClass[r] = "max_retries" /\ job[r].queue # None)
                    => attempt[r] >= job[r].max

\* Cancellation is one-way: no late complete, fail, begin, claim or sweep
\* changes the status, the lease or the lifecycle events of a cancelled run.
CancelledIsFinal ==
    [][\A r \in Runs : status[r] = "cancelled" =>
          /\ status'[r] = "cancelled" /\ event'[r] = event[r]
          /\ leaseOwner'[r] = None /\ attempt'[r] = attempt[r]]_vars

\* Leases are exclusive: a run whose lease is live goes to no other owner, by
\* begin, claim or heartbeat, before that lease ended.
Holder == [r \in Runs |-> IF LeaseLive(r) THEN leaseOwner[r] ELSE None]
Lock == INSTANCE LeaseLock WITH holder <- Holder
LeaseIsALock == Lock!Spec

\* The lease sweep never takes a run from an owner whose lease is live, however
\* old the snapshot it works from.
SweepSparesLiveLease ==
    [][\A r \in Runs : (tick.phase = "leases" /\ r \in tick.rows \ tick'.rows /\ LeaseLive(r))
                       => leaseOwner'[r] = leaseOwner[r]]_vars

\* Concurrency caps hold across competing claims: whatever the configuration of
\* a queue becomes, no claim takes the queue beyond the cap in force, and a cap
\* that is lowered below what is running starts nothing more.  It is a promise
\* of claim only: begin, which push dispatch relies on, does not look at caps.
StartsWithinCap ==
    [][\A q \in Queues : \/ Running(q)' \subseteq Running(q)
                        \/ config[q].concurrency = NoCap
                        \/ Cardinality(Running(q)') <= config[q].concurrency]_vars

\* A pulled run never has more attempts than its job asked for.
AttemptsWithinMax ==
    \A r \in Runs : job[r].queue # None => attempt[r] <= job[r].max

\* A queue run whose owner stopped renewing its lease does not stay running
\* with an expired lease: the reconciler or another begin takes it.
\* docs/testing.md: "The lease sweep selects only actionable rows (queue or
\* webhook runs), oldest first -- expired plain runs cannot starve it".  Webhook
\* runs whose application is gone can: they keep their place in the window.
ExpiredLeaseReclaimed ==
    \A r \in Runs : (job[r].queue # None /\ LeaseExpiredBefore(r, now))
                    ~> (status[r] # "running" \/ LeaseLive(r))

-----------------------------------------------------------------------------
(* What the documentation says and the code does not do.                   *)

\* docs/production.md: "Do not mirror this status into your own tables; query it
\* (GET /runs, GET /runs/:id) or subscribe to events."  Nothing is appended for
\* a run a schedule enqueues, so its subscribers do not learn that it is queued.
EventsTellStatus == \A r \in Runs : status[r] = StatusAfter[event[r]]
=============================================================================
