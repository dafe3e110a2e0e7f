# Tidebase in TLA+

This directory holds TLA+ specifications of Tidebase, model-checked with TLC and, for most of the system,
proved with TLAPS. Tidebase is a durable-execution server: applications register *runs* of workflows, workers
execute them under leases, steps checkpoint their results, a run keeps versioned state and an event log, gates ask
people for decisions, a broker grants agents the use of credentials, and a reconciler takes back what dead workers
hold and starts what is scheduled. All of its promises are promises about interleavings over a few tables in
PostgreSQL. Line numbers below are those of the source files named with them.

## 1. Inventory

| Component | State | Operations | What is hard | What makes it correct |
|---|---|---|---|---|
| Run lifecycle (`apps/server/src/app.ts` 578-736, 1391-1563) | `runs`: status, lease, attempt, `run_at`, deadline, failure class | create, enqueue, cancel, begin, heartbeat, complete, fail | any caller at any moment; reports that name no lease; rows that become active again | leases exclusive; cancellation final; row and event log agree; one active run per dedupe key |
| Queues (app.ts 742-853) | `runs`, `queue_configs` | claim, configure | counts read in one statement and used in another; configuration changes | cap, rate, order, attempts |
| Reconciler (`reconciler.ts`) | a snapshot per sweep, an advisory lock | sweeps of leases, deadlines, schedules, push queues, grants | row by row after a snapshot; crash in the middle; limited window | never takes a live lease; decides on the truth; reclaims everything |
| SDK workers and sessions (`packages/sdk/src/index.ts`) | owner, attempt, place in the loop | work, run, attach, heartbeat, report | crashes, lost responses, redelivery, zombies | the latest attempt owns the lease; jobs settle |
| Steps (app.ts 1708-1870, sdk 710-805) | `steps`: status, lease, attempt, input hash, output | begin, complete, fail, retry | first begins race without a row to lock; cancellation in between; late reports | checkpoints are final, fenced and for the same input |
| Resume contract (app.ts 2451-2497, sdk 891-915, Python 112-126) | options of a step | classify | three implementations | park exactly what the contract asks for |
| Schedules and cron (`cron.ts`, app.ts 856-893, reconciler.ts 194-227) | `schedules`, the scheduled `runs` | put, delete, sweep | two transactions per firing; requests between them; interrupted ticks | no two active runs of a fire; fires ascend, none skipped |
| Event log and SSE (`events.ts`, app.ts 2086-2109) | `events`, listeners per process | append, list, subscribe | numbers computed from a maximum; notification before commit; list before subscribe | gap-free, grows at its end; a stream ascends |
| Versioned state (app.ts 1872-2034, 2201-2260) | `run_state`, `state_streams`, `state_versions` | put, patch, save, snapshot | read and write in several statements | no lost update; versions without gaps; log, versions and state tell one story |
| Gates (app.ts 1565-1693, sdk 804-823, 998-1025) | `gates` | `FairSpec` of Gates | one decision; refinement of `WriteOnce`; the log tells it; endpoints hear only of what was committed; what is unsettled is queued; waiters are released | 1 gate, 2 invocations that call `gate()` twice and once, 2 approvers, 2 channels, 1 death (694,720) |
| Channels (app.ts 2335-2433) | `channel_deliveries` | queue, dispatch | sent after the commit, by a handler that may die | told only of what was committed |
| Agents, resources, grants (`policy.ts`, `providers.ts`, app.ts 481-576, 952-1249) | `grants`, uses, `runs.grant_principal`, `resources` | request, approve, use, revoke, expire | uses in flight; a resource read without a lock; a sweep's old selection | uses bounded; nothing sensitive unapproved; one tenant per run; what ended stays ended |
| Recovery and push dispatch (app.ts 2140-2199, reconciler.ts 229-258) | `recovery_attempts`, `run_at` | dispatch, redeliver | awaited calls inside the tick | redelivered until begun |
| Child runs, usage ledger, envelope encryption, SSRF guard, rate limits, database access, authentication, Python SDK, CLI, MCP app, studio | see PROJECT.json | | | |

How they interact: everything goes through the tables. An HTTP handler is one transaction, some are two (a grant is
reserved in one and used after it; deliveries are queued in one and sent after it). The reconciler runs in the server
on an interval timer and holds an advisory lock for a tick; the lock belongs to a connection, the sweeps use others.
The SDK calls the handlers over HTTP; its requests, their responses and its process can be lost at any point. Push
dispatch and recovery call the application, which answers by calling `begin`. Event listeners live in one process
and hear only of what that process writes.

The hazards of this code, each with its line and the properties that cover it, are listed in PROJECT.json.

## 2. Modules

```
RetryPolicy      LeaseLock (abstract)                      AppendOnlyLog (abstract)
      \             |  implemented by                            |  implemented by
       RunLifecycle ----------------- RunLifecycleProofs        RunLog -- RunLogProofs
        |        |                            |
   QueueRate  SdkWorkers              |    Steps            GrantPolicy     Cron
        |        |                    |      |                   |            |
        +--------+---- WorkersProofs -+  LeaseLock            Grants      Schedules
                                         StepsProofs             |            |
                                                           GrantsProofs  SchedulesProofs
   Gates -- GatesProofs      ResumeContract -- ResumeProofs
     |  implements
   WriteOnce (abstract)
```

`MC<module>` gives a module its constants for TLC, `<module>Proofs` holds its theorems.

**LeaseLock** is what a lease promises, with no rows, clocks or requests: a run (or a step) is a lock; a held lock
goes to nobody else before it was free.

**RunLifecycle** has one variable per column of `runs` that decides anything, `config` for `queue_configs`, `event`
for the last lifecycle event of the run's log, the clock `now`, and `tick` for the reconciler. `job` holds the
columns no handler changes (queue, dedupe key, priority, maximal attempts, whether the run has a webhook, whether it
is a schedule's) and the request fields that become columns of their own (`runAt`, delay, deadline). Actions:

| Action | Code |
|---|---|
| `CreateRun`, `Enqueue` | app.ts 578-618, 678-736, with the partial unique index `runs_queue_dedupe_active` (`IndexAllows`) |
| `Cancel`, `Begin`, `Heartbeat`, `Complete` | 632-672, 1391-1431, 1433-1461, 1463-1498 |
| `FailRetry`, `FailFinal` | 1500-1563, split at the test for attempts left; the class a client sends is stored as it is (1535-1536) |
| `Claim` | 742-798: cap, rate, order by priority and time, the batch in one transaction |
| `ConfigureQueue` | 838-853, a null keeps the stored number |
| `TickLeases` then `ReclaimRetry`, `ReclaimFail`, `ReclaimSkip` per row | reconciler.ts 98-166 |
| `TickDeadlines` then `DeadlineCancel`, `DeadlineSkip` | 168-192 |
| `FireSchedule`, any number of times between the deadlines and the push queues | 194-227: the run is inserted as queued and no event is appended |
| `TickPush`, `PushSelect` then `PushRow` | 229-258 |
| `TickEnd`, `TickAbort` | the end of the tick; a statement that throws, or the death of the replica |

A handler is one action because its transaction either locks the row with `select .. for update` or is one guarded
`update`. A sweep is not: `tick.rows` is its snapshot and `tick.seen` the attempt it read, and any handler may
commit between two rows.

**QueueRate** adds the history of claims that a row does not keep. **SdkWorkers** restricts the callers of
RunLifecycle to what the SDK does: worker loops (`work`), functions and webhook handlers (`run`), sessions
(`attach`), with crashes, and with each request handled or not and its response received or not. **Steps** splits
`steps/begin` at the places where something else can commit: the unlocked read of the run's status (`Call`,
`CallAgain`), the advisory lock and the read of the row (`BeginLock`), and the decision. Its callers run the retry
loop of `step()`. **ResumeContract** is the classification of a step's options, three times over.

**Cron** is parsing and matching of five-field expressions, with the characters abstracted away (an expression is a
set of terms per field) and the calendar a constant. **Schedules** runs it: `Put`, `Delete`, and the sweep as the code
has it: `TickIn` takes the lock and reads the clock, `Select` the due rows, `EnqueueDue` is the first transaction of a
row (a duplicate key is swallowed), `AdvanceDue` the second, which writes whatever was put in between. `Interrupt`
gives a tick up at any point, `LoseLock` closes the connection that holds the lock while the sweep goes on, so that
two ticks overlap. `RunEnds` is any end of a scheduled run.

**RunLog** has the state of one run, its streams and versions, its log, and the clients that stream it. A writer is a
transaction that goes statement by statement: it starts with `WriteState` (the upsert of `run_state`), `ReadForSave` (a
save reads without a lock), `Snapshot`, `LockRun` (a handler of the run's lifecycle selects its row for update) or `Other`
(a handler of a step, which locks nothing of the run), records a version where it has one (`RecordVersion`), takes the
advisory lock of the log (`LockLog`), numbers and inserts its event (`AppendEvent`), and ends with `Commit` or
`Rollback`. What it wrote is private until then, and the locks it took are held until then: the rows of `run_state` and
`state_streams`, the log, and the row of the run. The last one has two modes: `runLock` is `for update`, and an insert into
`state_versions` or `events` takes the row for key share (`SharesRun`), because both refer to `runs`
(001_init.sql 40-86), and waits for the one who has it for update. Listeners of the writer's process are called when the
event is inserted. **AppendOnlyLog** is what the log promises.

**Gates** has the gates of a run, invocations that block in `gate()`, approvers and channels. `BeginRead` is the
unlocked read of the run's status, `BeginJoin` and `BeginInsert`/`BeginCommit` the two paths after the advisory lock;
`Resolve`, `Cancel`, `Complete` commit and queue deliveries (`Announce`) of `gate.resolved`, `run.cancelled` and
`run.completed`, `Tell` sends the next one, `Reply` answers, `HandlerDies` loses the rest. `Poll` and `TimesOut` are the
loop of the SDK. **WriteOnce** is what a gate promises: a register that is opened, written once, and learned of for ever after; `DecidesOnce` says that Gates implement it.

**GrantPolicy** holds the pure decisions: the policy's rules in their order, the verbs a method is allowed for, and the
choice of a backend. **Grants** uses them: a request holds the row of its run from `RequestOpen` to `RequestCommit` but
read its resource without a lock, and writes its principal to the run when nobody owns it (`Claim`), the null one too, which
leaves it so; `ReserveUse` is the transaction of a use by the agent that was granted it and `MakeCall` the call after it, or
`LoseUse`; `Resolve` decides the gate of a grant; `RevokeGrant`, `RevokeResource`, `CancelRun` and the sweep
(`SweepSelect`, `SweepRow`, `SweepAbort`) end grants.

### Abstractions

- `now()` in PostgreSQL is the start of the transaction and `Date.now()` the server's clock; both are the one clock
  `now`, and clocks do not go backwards.
- A claim of several queues is a sequence of claims of one. `skip locked` is the order in which the other
  transaction commits first.
- A request the server refuses changes nothing and is no action; SdkWorkers has the refusals its callers react to.
- Payloads and metadata are left out. Of the failure classes a client can send those other than the server's own
  `max_retries` are not told from none (`Classes`).
- Each module has the sweep that touches its rows: which schedules are due and their two transactions are in Schedules,
  what a firing does to `runs` is `FireSchedule` in RunLifecycle. The sweep of the abuse stores is two deletes and is left out.
- The lease owner of a claim is drawn fresh (`FreshOwner`), which is what `work()` gets unless `WorkOptions.leaseOwner` is
  set (sdk 448, app.ts 744). With a constant owner the attempts of one worker cannot be told apart by the server: this is
  the fault `OneOwner`, and `LatestAttemptOwnsLease` does not hold of it.
- `work()` claims one run at a time, its default (sdk 449). With a larger `limit` it executes the runs of a batch one after the
  other; RunLifecycle has claims of any size, SdkWorkers does not.
- RunLog is about one run, and a transaction of it appends one event. The plain updates of the run's row (completion,
  claims, sweeps) change no key, so they conflict with no key share; who waits for one of them at its own start holds nothing
  yet. They are `Other`. A usage record is inserted, and shares the row, before its event, like a snapshot.
- `recoveryAttempts`, the throttle of recovery calls, changes no column of `runs`; `ReclaimSkip` covers the call
  and its omission.
- `Limit 100` of a sweep is `SweepLimit`, 10 of a push dispatch `PushLimit`.
- The text of an action is the set of the policy's patterns it matches and its verb. Agents and resources without a
  principal have `None` for it.
- Time in Schedules is in minutes, as `nextFire` looks at it; a server's clock is the clock of the database.
- An agent of Grants has proved its session; a gate's token is the knowledge an approver has.
- Fault operators, marked `Fault:`, are wrong variants of the definition after them. No specification uses them:
  they document which bug each property detects.

## 3. Runs

| Run | Specification | Shows | Bounds |
|---|---|---|---|
| `lifecycle` | `Spec`: any caller, any time | log and row agree; dedupe exact; a sweep's snapshot still true when used; cancellation final; refinement of `LeaseLock` | 2 runs, 2 owners, 2 attempts, a webhook run, a queue job with a key and a deadline and the job of a schedule with the same key, 3 instants (1,625,395 states up to symmetry) |
| `pull` | `RSpec`: queue workers only, configurations change | no claim exceeds the cap or the rate in force | 2 jobs of one attempt, cap and rate 1 or none, 4 instants, window of 2 (559,256) |
| `workers` | `SSpec`: the SDK with everything it can lose | the lease belongs to the latest attempt; a lost lease stays lost | 1 run, 2 processes, 3 owners, 4 instants (188,936) |
| `settle` | `LoopSpec`: worker loops with fairness | no job exceeds its attempts; every enqueued job ends for good | as above, clock to 12 (5,754) |
| `steps` | `Spec` of Steps | completed steps final; outputs from the last attempt; inputs agree; refinement of `LeaseLock` | 1 step, 2 invocations, 2 inputs, 1 retry, 3 executions at most (13,760) |
| `resume` | all options and all classifiers | parked exactly when the contract asks for it or a write has no key | all values of all options, one named effect (4,800) |
| `grants` | `FairSpec` of Grants | uses bounded; gate and grant agree; nothing sensitive unapproved; one tenant per run, agents without a principal apart; receipts tell the status; what ended stays ended; every grant ends | 2 grants of 1 run, agents of 2 principals and of none with a resource each, 5 requests, 3 instants (592,176) |
| `runlog` | `Spec` of RunLog | versions without gaps; no lost update; one story; a stream ascends; locks are waited for in one circle only; refinement of `AppendOnlyLog` | 3 transactions of 8 operations, 2 streams, 2 keys, 2 processes, 1 client (654,556 up to symmetry) |
| `schedules` | `FairSpec` of Schedules | active fires unique; fires ascend; no minute skipped; fires are meant; what is due is swept | 1 schedule, 4 expressions, 2 ticks, 2 requests, 1 fault, 4 minutes (539,126) |
| `gates` | `Spec` of Gates | one decision; refinement of `WriteOnce`; the log tells it; endpoints hear only of what was committed; what is unsettled is queued | 1 gate, 2 invocations, 2 approvers, 2 channels, 2 calls of `gate()` each, 1 death (722,513 up to symmetry) |
| `fenced` | `SSpec` | **violated**: a worker whose lease expired completes the run that another began since | as `workers`, queue job |
| `double_fire` | `Spec` of Schedules | **violated**: the same fire twice | as `schedules`, 2 queues, 6 minutes |

Why the bounds are enough for what they are meant to show. Leases, backoff and windows only ever enter comparisons
with `now`; with a lease of 1 every order of renewal, expiry, sweep and takeover of two owners occurs within three
instants. Two runs are the least that can conflict on a key, a cap or a rate, and no transition relates more than
two rows. One retry gives a first, a middle and a last attempt in the sense of every test of `attempt`. In `settle` the
clock must not stop before the last attempt could have been taken back: no behaviour needs more than three leases and
backoffs of 1 and 2, and 12 is above that; time passes only while a lease or a `run_at` waits for it (`TimerPending`).

Grants never interact except through the run, the resource and the sweep, so two of them are the least that do; the five
requests are one for each outcome of the policy and each refusal; two uses let one be in flight while the other is
reserved; agents of two principals and of none are the least that can compete for a run. In RunLog an anomaly takes a
reader or writer between two statements of another, with a third to make versions or seats in the log differ. The calendar of `schedules` has hours of 2 minutes, days of 2 hours, weeks and
months of 2 days, so that every field changes within a few minutes; the four expressions have every form of term, both
ways of restricting days, and one that does not parse. Two overlapping ticks and one fault are what the comment at
reconciler.ts:201 speaks of. Two callers and two approvers are the least that can begin or decide together; the
symmetric inline and stored channel differ in what they listen to. The proofs of section 4 need none of these bounds.

`MaxTime` (the clock stops), `MaxBegins`, `MaxAttempts`, `MaxAttempt`, `MaxPuts`, `MaxFaults`, `MaxCalls`, and the sets
`Grants`, `Writers`, `Ticks`, `Afters` are bounds of the model only; the code has counterparts to the limits of the sweeps
(`SweepLimit`, `PushLimit`) and to `Horizon`, five years in Cron. Deadlock is checked wherever the system goes on.
Steps, ResumeContract and Gates end (all calls over, one report per state, the gate decided and everybody told), so
their configurations say `CHECK_DEADLOCK FALSE`. The type invariants of the modules with proofs are theorems and are not
run again.

### Fairness

- `LoopSpec` asks weak fairness of the tick and of time: `startReconciler` (reconciler.ts 261-268) ticks on
  an interval timer until the process ends, another replica takes the advisory lock when it does, and time passes. It
  adds weak fairness of claiming, because `work()` (sdk 438-474) polls in a loop and a deployment restarts its workers,
  and of each process getting out of the workflow function: it returns, throws or dies. A process may crash, lose
  requests and lose responses as often as it likes.
- `FairSpec` of Grants asks weak fairness of the sweep's select and of time, and strong fairness of each selected row: a
  sweep may be given up again and again (`SweepAbort`), but not for ever before the same row. Nothing is asked of agents,
  approvers or services.
- `FairSpec` of Schedules asks weak fairness of each tick's steps: a tick that is under way goes on. Interruptions and lost locks
  remain possible up to their bound.
- `FairSpec` of Gates asks weak fairness of the handlers (a begun request goes on, its endpoints answer or fail) and of the
  polls of an invocation; handlers may die. Nothing is asked of approvers: `WaiterReleased` says what the decided or cancelled do for the waiting.
- All of these assume that an awaited call returns. The code sets no timeout on webhooks (app.ts 2381, and the
  recovery call inside the tick, reconciler.ts 255): an endpoint that never answers holds a request, or the tick and with
  it the lock of the reconciler, for as long as the connection lives.

### Disagreements with the documentation

Two runs show a violated sentence, quoted in PROJECT.json: `fenced` (run reports name no lease) and `double_fire` (an
interrupted tick whose run ends before the next tick fires a minute twice).

Ten more properties state a sentence of the documentation and do not hold. They are in the modules; to see the
counterexample, give the configuration named here the property instead of its own:

| Property | In place of those of | Sentence | What happens |
|---|---|---|---|
| `CompletedIsTerminal` (SdkWorkers) | `workers.cfg` | docs/production.md:22 | the response of `complete` is lost, the same try block reports a failure (sdk 390), the completed job is requeued |
| `StartsOnlyLeased` (SdkWorkers) | `workers.cfg` | docs/production.md:66 | a redelivered webhook begins a run that completed since it was read, and executes it without a lease |
| `EventsTellStatus` (RunLifecycle, an invariant) | `lifecycle.cfg` | docs/production.md:25 | the sweep of schedules enqueues a run without an event (reconciler.ts 203-218): who subscribes is not told that it is queued |
| `NoStartAfterCancel` (Steps) | `steps.cfg` | the comment at app.ts:1714 | the status is read before the step's lock is waited for |
| `NoGrantWithoutResource` (Grants, an invariant) | `grants.cfg` | the comment at app.ts:551-552 | a request read its resource before the revocation and commits its grant after the cascade |
| `OneBroker` (Grants, an invariant) | `grants.cfg` | the comments at app.ts:973 and 004_run_grant_tenancy.sql:1-3 | the first agent to ask on a run has no principal; its null is written as the owner (app.ts 974-979), and the run is open to the next principal |
| `CurrentIsLatest` (RunLog, an invariant) | `runlog.cfg` | README.md:315 | a save records, as the latest version, a value it read before an update |
| `DeliveriesSettle` (Gates) | `gates.cfg` | docs/testing.md:42 | a handler dies after its commit; nothing sends its deliveries again |
| `ExpiredLeaseReclaimed` (RunLifecycle) | `lifecycle.cfg` with `LiveSpec`, one owner, no push queue, `Jobs <- StarvedJobs`, `SweepLimit = 1`, `MaxBegins = 1`, no symmetry | docs/testing.md:32 | webhook runs whose recovery is not answered keep the sweep's window |
| `RateHolds` (QueueRate) | `pull.cfg` with `Jobs <- TwiceJobs`, `Caps = {2}`, `Minute = 3`, `MaxAttempts = 2`, `MaxTime = 4`, no push queue, no symmetry | docs/production.md:52 | `claimed_at` is overwritten, so the claims of a retried job count once |

Met while modelling, without a property of their own:

- `cancel` exempts completed and cancelled runs only (app.ts 639-640), so a failed run becomes cancelled;
  docs/production.md:22 calls `failed` terminal.
- A job with the default of one attempt fails without a class (1535-1536), while the lease sweep classifies the same
  job `max_retries` (reconciler.ts 136); docs/production.md:22 says exhaustion "is recorded as
  `failure_class = 'max_retries'`".
- `begin` looks at no cap, and push dispatch counts running rows only, so a queue exceeds its cap when its runs are
  begun rather than claimed. docs/production.md:52 makes the promise for claimers, for whom it holds.
- The push horizon is written without looking at the row (reconciler.ts 252): a backoff longer than the horizon, set
  between the select and the update, is cut short.
- A step in `manual_review` is executed again by the next call that begins it (1739-1752 look at `completed`, the input
  and the lease).
- An empty idempotency key is no key for the SDK (index.ts:911) and a key for the server (app.ts:2468).
- Handlers of the run's lifecycle lock its row for update and then the event log; completing a step or resolving a gate
  locks the log first, and the insert of the event then needs a key share of the row (app.ts 636, 1396 against 1796-1810;
  001_init.sql:42). The two can wait for each other until PostgreSQL aborts one. `OneWaitingCycle` says that no other circle of these locks exists.
- `fail` stores the failure class of the request unvalidated (1535-1536): a client can call the failure of a run without retries
  `max_retries`.
- Resolving a gate takes the lock of the event log (app.ts:1658) and then the rows of its grants (1661); revoking a grant
  and the sweep take the row and then the log. The two can wait for each other until PostgreSQL aborts one, which rolls
  back. A claim of several queues takes their advisory locks in the order of the request (app.ts:751).
- The sweep of schedules writes `next_run_at` over a row that was put meanwhile, with the expression it selected
  (reconciler.ts 222-225); the properties except such a row until it is put again.
- After an interrupted tick the next one may find the run of the fire still active, swallow the duplicate key and advance
  past the minutes in between (reconciler.ts 219-225): those are not made up for. `NoMinuteSkipped` therefore speaks of whole
  ticks.
- "Any valid spec fires within that window" (cron.ts:96): `0 0 30 2 *` is accepted by `parseCron` and never fires; PUT then
  fails although the expression was validated before (app.ts:859-860).
- An invocation that waits in `gate()` for a run that *failed* or *completed* polls on: `get` looks at `cancelled` only
  (sdk 1023). The answer to a request waits for its webhooks (app.ts:1617, 1691).

## 4. Proofs

`RunLifecycleProofs` proves, for any sets of runs, owners, queues, keys and jobs, any lease, backoff and limits:

- `TypeCorrect`: `Spec => []TypeOK`.
- `Invariant`: `Spec => []IInv`, where `IInv` is the conjunction of `TypeOK`, `LeaseIffRunning`, `EventLogAgrees` (which
  excepts a scheduled run until something else happens to it), `SnapshotStillTrue`, `MaxRetriesMeansExhausted` (of jobs of a
  queue only: elsewhere the class is the client's) and two parts that only strengthen it: a row that is not there yet is
  blank (`AbsentIsBlank`), and the clock a tick read is not in the future (`SweepClock`). None of the interesting parts
  is inductive alone. `MaxRetriesMeansExhausted` needs `SnapshotStillTrue` in `ReclaimFail`, which decides by a number
  read long ago; `SnapshotStillTrue` needs the type of leases and `SweepClock`: whoever counts an attempt also moves
  the lease to `now + Lease`, which is not before the tick's clock.
- `LeaseExactlyWhileRunning`, `LogTellsStatus`, `SweepDecidesOnTruth`, `MaxRetriesIsEarned`: its parts.
- `CancellationIsFinal`, `SweepIsFair`: the action properties `CancelledIsFinal`, `SweepSparesLiveLease`.
- `LeasesAreExclusive`: `Spec => LeaseIsALock`, the refinement of `LeaseLock`.
- `DedupeIsExact`: `Spec => []DedupeExact`.

The proofs do not go through the many actions again and again. `StepOfRow` and `StepRows` show once that every step
does to each row one of five things (keep, insert, take, renew, end), with the facts about lease, attempt, event and
clock that come with it; the invariant, the action properties and the refinement are then arguments about five cases.

`WorkersProofs` is about those who call the server.

- `PullSpec` (workers that only pull; configurations change): `ClaimsKeepCap` (`StartsWithinCap`), which needs
  cardinalities of finite sets, and `AttemptsAreCapped` (`AttemptsWithinMax`), from the invariant and `AttemptsLeft`: a
  queued run has an attempt left.
- `RSpec` (the same with the history of claims): `RunsKeepRate` (`RunsWithinRate`) says what the code really limits, for
  any jobs: the *runs* of a queue claimed within a minute. `ClaimsKeepRate` says that for jobs of one attempt this is the
  number of *claims* (`RateHolds`). Its hypothesis on the jobs is the one of the run; without it `RateHolds` is false
  (section 3). Both rest on `ClaimsKnown`: a row remembers the last of its claims, and no two claims of a run are of the
  same attempt, so that with `AttemptsLeft` the claims of such jobs are as many as their runs.
- `SSpec` (SDK processes, with lost requests and responses, crashes and redelivered webhooks): `SdkIsACaller`
  (`SSpec => Spec`: all that is proved of the server holds with the SDK in front of it), `SessionsTyped`,
  `LatestAttemptIsOwner` (`LatestAttemptOwnsLease`), `LostLeasesStayLost` and, of the work loops alone,
  `LoopsKeepAttempts`. `SdkInv` adds to the server's invariant that a process at work is at a run and has a lease
  owner (`SessionsSound`). `LatestAttemptOwnsLease` is inductive with it: a row that counts an attempt gets an owner
  drawn for that attempt, which no session has; every other step leaves the attempt, and leaves or clears the owner
  (`CalmSteps`, `DrawnSteps`, `SessionSteps`).

`StepsProofs` proves, for any sets of steps, calls, owners and inputs and any lease and number of retries:

- `StepsTypeCorrect`, `StepsInvariant`. Its `IInv` adds to the checked invariants four parts: a step has an owner
  exactly while it is running (`OwnedIffRunning`); no two calls share an owner (`CallsAreOwned`); what a begin request
  read of the row is still so, because it holds the lock (`DeciderSees`); and an execution that still owns its step is
  the attempt the row counts (`OwnerIsLatest`). `OutputIsFromLastAttempt` needs the last one and `InputsAgree`: the
  report of an owner carries the latest attempt and the row's input.
- `CheckpointsAreFinal` (`CompletedStepIsFinal`), `OutputIsLatest` (`OutputIsFromLastAttempt`), `InputsAlwaysAgree`
  (`InputsAgree`), `DeciderHoldsLock` (`LockHeldByDecider`).
- `StepLeasesAreExclusive`: `Spec => StepLeaseIsALock`, the refinement of `LeaseLock`. Here the advisory lock matters:
  two calls that find no row are kept apart by `DeciderSees`, which rests on `LockHeldByDecider`.

Again `StepKinds` sorts the actions, into five kinds (the client moves, the lock is taken, it is given back, the step
starts, a report ends it), and one lemma per kind shows that it keeps `IInv`.

`GrantsProofs` proves, for any runs, agents with and without a principal, resources, requests, ceilings and configurations: `GrantsTypeCorrect`,
`UsesAreBounded` (`UsesBounded`), `GatesAndGrantsAgree` (`GateAgrees`), `SensitiveIsApproved`
(`NothingSensitiveUnapproved`), `RunsHaveOneTenant` (`OneTenant`), `ClaimsLast` (`RunStaysClaimed`: what the lock of the
run's row does guarantee of its owner, once it has one), `EndsAreFinal` (`EndedStaysEnded`) and `ExpiryIsDue`. The invariant must say what a request between its two statements has checked and still holds
(`OpeningHoldsRun`, `OpeningChecked`), which is true because nobody else writes the row of a locked run; that a gate
belongs to an issued grant (`GateOfIssued`); that every row satisfies the policy (`PolicyKept`), from which
`NothingSensitiveUnapproved` follows with a lemma about the order of the rules; and that a sweep's clock is past
(`SweepPast`). `ReceiptsTellTheStatus` (`ReceiptsTellStatus`) has an invariant of its own, `RInv`: what the last receipt
that is not of a failed call says, and how many uses the log counts, for a log of any length. The property speaks of
positions in the log rather than of a filtered log, so that appending one receipt changes it in one place.

`RunLogProofs` proves for any transactions, streams, keys, clients and processes: `VersionsHaveNoGaps`,
`CircularWaitIsOfTheRow` (`OneWaitingCycle`: whenever a transaction is open one of them waits for nobody, unless the row of
the run and the log are waited for crosswise) and `LogGrowsAtEnd`, the refinement of `AppendOnlyLog`. `IInv` ties each lock
to the place of its holder (`LocksHeld`, and `RowHeld` for the row of the run, which nobody shares while it is held)
and says of a transaction that holds the row of a stream that its version is the next (`VersionIsNext`), and of the one
that holds the log that its event is (`RowIsNext`); both are false the moment a lock is given back before the commit.
A second invariant, `HInv`, is about what was committed: a transaction that holds the state's row and is past its read
writes what its update makes of the state as it is (`UpdatesLocked`); the n-th event is of the n-th transaction
(`HistoryIsLog`); the events of a stream ascend up to its version (`EventsAscend`); the last update of the log is the
state (`LastIsState`); and the state is the end of *some* replay of the history (`Replayed`). `ReplayUnique`, by the
well-foundedness of `<`, makes that one the function of the property. From it follow `NoUpdateIsLost` (`StateIsReplay`)
and `LogIsTheStory` (`LogTellsState`). `StreamsAscend` (`StreamAscends`) needs `CInv`: what a connection
was sent is of a transaction that has appended its event, committed or not (`GotWritten`), and its rows that are of the
log or about to be ascend (`RealAscends`). `RunLogTyped` is `TypeOK`.

`GatesProofs` proves `DecisionsReplay` (`AnswersAgree`) and `InsertsAreExclusive`: the one who holds
the advisory lock is the one who inserts (`LockedToInsert`), only into a missing gate (`InsertsMissing`), and every answer
on its way or given is the decision of the row (`AnswerIsTrue`, `AnswersAreDecision`). `GatesAreRegisters`
(`DecidesOnce`) is the refinement of `WriteOnce`, step by step: the commit of a begin opens (`CommitOpens`, which needs
`InsertsMissing`), a resolution decides (`ResolveDecides`), a reply or a poll learns (`AnswerLearns`, which needs
`AnswerIsTrue`, because a reply carries what was read before), and nothing else moves a register. For the log and the deliveries,
`LInv` adds that what is recorded for an endpoint, and what one heard, is an event of the log (`RowsAreLogged`,
`HeardIsLogged`); that a request has a queue only while it sends (`QueuesWhileSending`), and no delivery is queued twice
(`QueuedOnce`), without which settling one would leave it pending in the queue of another; it gives `GatesAreLogged`
(`LogTellsGate`), `HeardWasCommitted` (`HeardIsCommitted`) and `UnsettledRowsAreQueued` (`UnsettledIsQueued`).
`GatesTyped` is `TypeOK`.

`SchedulesProofs` proves, for any calendar, expressions, schedules and number of overlapping ticks: `NextFireIsFirst` (the
operator returns the least matching minute, through the well-foundedness of `<`), `SchedulesTypeCorrect`,
`ActiveFiresUnique` (`ActiveFireUnique`) whatever is interrupted, and `FiresAlwaysAscend` (`FiresAscend`) while nothing
is. For the latter `IInv` says, as long as there was no fault, that there is one tick at a time (`OneTick`), that it has
seen no fire after its own time (`FiresSeen`), that all fires of a schedule are before each row it still has to enqueue
(`DueAhead`) and before the row's next time unless the tick is about to write that (`RowAhead`). A PUT in between keeps this,
because it sets a time after `now`, and so does the write over it, because it sets one after the tick's time.

`NextTimeIsMeant` (`NextIsMeant`) and `NoMinuteIsSkipped` (`NoMinuteSkipped`) relate the schedules to the *meaning* of
their expressions. `FieldIsAllowed` shows that a value is in the set the parser makes of a field exactly when the
field's terms allow it as documented, Sunday as 7 included, and `MatchIsMeant` that the matcher, with its flags for days
that are not restricted, accepts exactly the minutes that are meant; `NextOfIsMeant` then says that the search returns
the first of them. `SInv` adds to the two properties that, while nothing is interrupted, what a tick is about to advance
it enqueued (`WriteCovered`): the minute of the row is then covered by its run, those up to the tick's time by the
time of the sweep, and those after it are not meant before the next one found.

`ResumeProofs` proves `ParkedAlike` (`ParkedAsDocumented`) for any names of effects: each of the three classifiers decides
`manual_review` exactly when the documented contract asks for it.

Assumptions on the constants are the named `ASSUME`s of the modules: null is not a name, jobs and requests have their shape,
lease and limits are positive, backoffs are numbers, calendars and terms have numbers in their fields, `Runs` is finite
(used for the cap and the rate), and so are the channels of a gate (one delivery is recorded for each). A calendar gives
values within the bounds of their fields (`CalendarInBounds`, also that 7 is within those of the day of the week) and
reaches to the end of the search (`CalendarReaches`). TLC evaluates all of them.

Every invariant and every action property of a passing run is a theorem. Only model-checked are the liveness properties
`JobsSettle`, `OpenGrantsEnd`, `DueIsSwept` and `WaiterReleased` (fairness and ENABLED are out of the prover's reach).
What `RetryBackoff` computes is a parameter of the proofs, which ask of it only that it is a number. The properties that
fail (section 3) have counterexamples, not proofs; where a weaker one is proved instead, as `RunsKeepRate` is for
`RateHolds` with retries, it is the statement of what the code guarantees.

## 5. Not modelled

- Registration of agents, proofs of possession, challenges and sessions (app.ts 300-480, sdk `auth.ts`): Grants starts from
  an agent whose session is proved.
- `recovery_attempts`, their throttle, and the calls of push dispatch and recovery; RunLifecycle has the selection and the
  horizon.
- Child runs: one insert under the parent's lock with a unique name; the child is a run like any other.
- Usage: one insert per request, and its event.
- The calls of credential providers, envelope encryption, the SSRF guard and the rate limits are calls of other services,
  cryptography, address checks and single-statement counters.
- The pool, the PGlite adapter and the migrations' bookkeeping.
- Clocks that disagree: replicas and database have one clock here.
- The CLI, the MCP app and the studio keep no state of their own. The Python SDK mirrors the TypeScript SDK; only its
  classifier, which differs, is modelled.

## 6. What could come next

1. `AgentAuth`: challenges used once, sessions that end with their agent, and its composition with Grants.
2. `PushDispatch`: recovery attempts, the throttle, the awaited webhook inside the tick.
3. `TxLocks`: the locks of the rows of grants and gates and of the queues, as RunLog has those of the run, its state and its
   log; the circle of gate and grant described above as its counterexample.
4. `Children`: the edge and the parent's lock.
5. Proofs: that a sweep ends (a measure of its rows that decreases), as the safe part of `OpenGrantsEnd` and
   `DueIsSwept`; a refinement of one abstract schedule by the two transactions of a tick, as far as no tick is
   interrupted.
