------------------------- MODULE RunLifecycleProofs -------------------------
(***************************************************************************)
(* Theorems about RunLifecycle, for any number of runs, owners, queues and *)
(* jobs, any lease, backoff and limits.                                    *)
(***************************************************************************)
EXTENDS RunLifecycle, TLAPS

USE NoneAssumption, JobsAssumption, CapsAssumption, TimeAssumption,
    LimitAssumption, BackoffAssumption, PushAssumption

\* A job is one of the requests of Jobs, or the row is not there yet.
LEMMA JobFacts ==
    ASSUME NEW j \in Jobs \cup {NoJob}
    PROVE  /\ j.queue \in Queues \cup {None} /\ j.key \in Keys \cup {None}
           /\ j.max \in 1..MaxAttempts /\ j.delay \in Nat
           /\ j.runAt \in Nat \cup {NoTime} /\ j.deadline \in Nat \cup {NoTime}
    BY DEF NoJob, JobType, NoTime

\* The rows a limited, ordered select returns are rows of the table it reads.
LEMMA FirstOfSubset ==
    ASSUME NEW rows, NEW counts, NEW S \in FirstOf(rows, counts)
    PROVE  S \subseteq rows
    BY DEF FirstOf

\* The rows ready to be claimed are rows of the table.
LEMMA ReadyInRuns == \A q, t : Ready(q, t) \subseteq Runs
    BY DEF Ready

-----------------------------------------------------------------------------
(* Type correctness.                                                       *)

\* The empty table has the right types.
LEMMA TypeInit == Init => TypeOK
    BY DEF Init, TypeOK, Statuses, Events, Classes, Times, NoTime, NoCap, IdleTick, TickIn

\* Every handler and every step of the reconciler keeps the types.
LEMMA TypeStep == TypeOK /\ [Next]_vars => TypeOK'
<1> SUFFICES ASSUME TypeOK, [Next]_vars PROVE TypeOK'
    OBVIOUS
<1> USE DEF TypeOK, Statuses, Events, Times, NoTime
<1>0. \A r \in Runs : job[r] \in Jobs \cup {NoJob}
    OBVIOUS
<1>1. ASSUME NEW r \in Runs, NEW j \in Jobs, CreateRun(r, j) PROVE TypeOK'
    BY <1>1 DEF CreateRun, Insert, SetStatus
<1>2. ASSUME NEW r \in Runs, NEW j \in Jobs, Enqueue(r, j) PROVE TypeOK'
    BY <1>2, JobFacts DEF Enqueue, Insert, SetStatus
<1>3. ASSUME NEW r \in Runs, Cancel(r) PROVE TypeOK'
    BY <1>3 DEF Cancel, SetStatus, SetLease
<1>4. ASSUME NEW r \in Runs, Complete(r) PROVE TypeOK'
    BY <1>4 DEF Complete, SetStatus, SetLease
<1>2a. ASSUME NEW r \in Runs, NEW j \in Jobs, FireSchedule(r, j) PROVE TypeOK'
    BY <1>2a DEF FireSchedule, Insert, SetStatus
<1>5. ASSUME NEW r \in Runs, FailRetry(r) PROVE TypeOK'
  <2>1. attempt[r] \in 0..MaxAttempts
      BY <1>5, <1>0, JobFacts DEF FailRetry
  <2> QED BY <1>5, <2>1 DEF FailRetry, SetStatus, SetLease
<1>6. ASSUME NEW r \in Runs, NEW class \in Classes, FailFinal(r, class) PROVE TypeOK'
    BY <1>6 DEF FailFinal, SetStatus, SetLease, Classes
<1>7. ASSUME NEW r \in Runs, NEW w \in Owners, Begin(r, w) PROVE TypeOK'
    BY <1>7 DEF Begin, SetStatus, SetLease
<1>8. ASSUME NEW r \in Runs, NEW w \in Owners, Heartbeat(r, w) PROVE TypeOK'
    BY <1>8 DEF Heartbeat
<1>9. ASSUME NEW w \in Owners, NEW q \in Queues, NEW n, Claim(w, q, n) PROVE TypeOK'
    BY <1>9 DEF Claim
<1>10. ASSUME NEW q \in Queues, NEW c \in Caps \cup {NoCap}, NEW rate \in Caps \cup {NoCap},
              ConfigureQueue(q, c, rate)
       PROVE  TypeOK'
    BY <1>10 DEF ConfigureQueue, row, Configs
<1>11. CASE TickLeases
    BY <1>11 DEF TickLeases, row
<1>12. CASE TickDeadlines
  <2>1. PICK S \in SUBSET Runs : tick' = TickIn("deadlines", tick.at, S, {})
      BY <1>12 DEF TickDeadlines
  <2> QED BY <1>12, <2>1 DEF TickDeadlines, row, TickIn
<1>13. CASE TickPush
    BY <1>13 DEF TickPush, row, IdleTick, TickIn
<1>14. CASE TickEnd \/ TickAbort
    BY <1>14 DEF TickEnd, TickAbort, row, IdleTick, TickIn
<1>15. ASSUME NEW q \in Queues, PushSelect(q) PROVE TypeOK'
  <2>1. PICK S \in SUBSET Runs : tick' = [tick EXCEPT !.rows = S, !.todo = @ \ {q}]
      BY <1>15, ReadyInRuns DEF PushSelect, FirstOf
  <2> QED BY <1>15, <2>1 DEF PushSelect, row
<1>16. ASSUME NEW r \in Runs, ReclaimRetry(r) PROVE TypeOK'
  <2>1. tick.seen[r] \in 0..MaxAttempts
      BY <1>16, <1>0, JobFacts DEF ReclaimRetry
  <2> QED BY <1>16, <2>1 DEF ReclaimRetry, SetStatus, SetLease, RowDone
<1>17. ASSUME NEW r \in Runs, ReclaimFail(r) PROVE TypeOK'
    BY <1>17 DEF ReclaimFail, SetStatus, SetLease, RowDone, Classes
<1>18. ASSUME NEW r \in Runs, ReclaimSkip(r) \/ DeadlineSkip(r) PROVE TypeOK'
    BY <1>18 DEF ReclaimSkip, DeadlineSkip, RowDone, row
<1>19. ASSUME NEW r \in Runs, DeadlineCancel(r) PROVE TypeOK'
    BY <1>19 DEF DeadlineCancel, SetStatus, SetLease, RowDone
<1>20. ASSUME NEW r \in Runs, PushRow(r) PROVE TypeOK'
    BY <1>20 DEF PushRow, RowDone
<1>21. CASE Advance
    BY <1>21 DEF Advance, row
<1>22. CASE UNCHANGED vars
    BY <1>22 DEF vars, row
<1> QED
    BY <1>1, <1>2, <1>3, <1>4, <1>5, <1>6, <1>7, <1>8, <1>9, <1>10, <1>11, <1>12, <1>13,
       <1>14, <1>15, <1>16, <1>17, <1>18, <1>19, <1>20, <1>21, <1>22, <1>2a
    DEF Next, Submit, Fail, Report, Pull, Configure, Reconcile, TickStep, Sweep, Fire

\* The rows, the configurations and the tick keep their types.
THEOREM TypeCorrect == Spec => []TypeOK
    BY TypeInit, TypeStep, PTL DEF Spec

-----------------------------------------------------------------------------
(* What a step can do to one row, and to the tick.  The proofs below argue *)
(* about these five ways of changing a row instead of the many actions.    *)

Kept(r) == /\ status'[r] = status[r] /\ event'[r] = event[r] /\ job'[r] = job[r]
           /\ leaseOwner'[r] = leaseOwner[r] /\ leaseExpiresAt'[r] = leaseExpiresAt[r]
           /\ attempt'[r] = attempt[r] /\ failureClass'[r] = failureClass[r]

Inserted(r) == /\ status[r] = "absent"
               /\ \/ status'[r] = "pending" /\ event'[r] = "run.created"
                  \/ status'[r] = "queued" /\ event'[r] = "run.enqueued"
                  \/ status'[r] = "queued" /\ event'[r] = "none" /\ job'[r].scheduled
               /\ leaseOwner'[r] = leaseOwner[r] /\ leaseExpiresAt'[r] = leaseExpiresAt[r]
               /\ attempt'[r] = attempt[r] /\ failureClass'[r] = failureClass[r]

Taken(r) == /\ status[r] \notin {"absent", "completed", "cancelled"}
            /\ status'[r] = "running" /\ event'[r] \in {"run.started", "run.claimed"}
            /\ status[r] # "queued" => ~(LeaseLive(r) /\ leaseOwner[r] # leaseOwner'[r])
            /\ leaseOwner'[r] \in Owners /\ leaseExpiresAt'[r] = now + Lease
            /\ attempt'[r] = attempt[r] + 1
            /\ job'[r] = job[r] /\ failureClass'[r] = failureClass[r]

Renewed(r) == /\ status[r] = "running" /\ leaseExpiresAt'[r] = now + Lease
              /\ status'[r] = status[r] /\ event'[r] = event[r] /\ job'[r] = job[r]
              /\ leaseOwner'[r] = leaseOwner[r] /\ attempt'[r] = attempt[r]
              /\ failureClass'[r] = failureClass[r]

Ended(r) == /\ status[r] \notin {"absent", "cancelled"}
            /\ \/ status'[r] = "completed" /\ event'[r] = "run.completed"
               \/ status'[r] = "queued" /\ event'[r] = "run.requeued"
               \/ status'[r] = "failed" /\ event'[r] = "run.failed"
               \/ status'[r] = "cancelled" /\ event'[r] = "run.cancelled"
            /\ leaseOwner'[r] = None /\ leaseExpiresAt'[r] = NoTime
            /\ attempt'[r] = attempt[r] /\ job'[r] = job[r]
            /\ (tick.phase = "leases" /\ tick' # tick) => LeaseExpiredBefore(r, tick.at)
            /\ \/ failureClass'[r] \in {failureClass[r], None}
               \/ job[r].queue = None
               \/ attempt[r] >= job[r].max
               \/ /\ tick.phase = "leases" /\ r \in tick.rows
                  /\ LeaseExpiredBefore(r, tick.at) /\ tick.seen[r] >= job[r].max

RowStep(r) == Kept(r) \/ Inserted(r) \/ Taken(r) \/ Renewed(r) \/ Ended(r)

\* One transaction does one thing: rows go to one owner, or rows lose or never
\* had one, or one lease is renewed, or only the clock moves.
StepKind ==
    \/ \A r \in Runs : Kept(r)
    \/ /\ now' = now
       /\ \/ \E w \in Owners : \A r \in Runs : Kept(r) \/ (Taken(r) /\ leaseOwner'[r] = w)
          \/ \A r \in Runs : Kept(r) \/ Inserted(r) \/ Ended(r)
          \/ \E r \in Runs : Renewed(r) /\ \A s \in Runs \ {r} : Kept(s)

\* The lease sweep goes on with fewer rows of its snapshot, or has just taken a
\* snapshot of the rows as they are.
SweepStep ==
    tick'.phase = "leases" =>
        \/ /\ tick.phase = "leases" /\ tick'.at = tick.at
           /\ tick'.seen = tick.seen /\ tick'.rows \subseteq tick.rows
        \/ /\ tick'.at = now /\ \A r \in Runs : Kept(r)
           /\ \A r \in tick'.rows : tick'.seen[r] = attempt[r]

\* The rows the steps of the tick itself do not touch.
LEMMA KeptAll == UNCHANGED row => \A r \in Runs : Kept(r)
    BY DEF row, Kept

\* A transition of one row leaves the others alone.
LEMMA StepOfRow == TypeOK /\ [Next]_vars => StepKind /\ SweepStep /\ now' >= now
<1> SUFFICES ASSUME TypeOK, [Next]_vars
             PROVE  StepKind /\ SweepStep /\ now' >= now
    OBVIOUS
<1> DEFINE G == StepKind /\ SweepStep /\ now' >= now
<1>0. now \in Nat /\ tick.at \in Nat
    BY DEF TypeOK
<1>1. ASSUME NEW r \in Runs, NEW j \in Jobs, CreateRun(r, j) \/ Enqueue(r, j) \/ FireSchedule(r, j) PROVE G
    BY <1>0, <1>1 DEF CreateRun, Enqueue, FireSchedule, Insert, SetStatus, TypeOK, StepKind, Kept, Inserted, SweepStep
<1>2. ASSUME NEW r \in Runs, Cancel(r) \/ Complete(r) PROVE G
    BY <1>0, <1>2 DEF Cancel, Complete, SetStatus, SetLease, TypeOK, StepKind, Kept, Ended, SweepStep
<1>3. ASSUME NEW r \in Runs, FailRetry(r) PROVE G
    BY <1>0, <1>3 DEF FailRetry, SetStatus, SetLease, TypeOK, StepKind, Kept, Ended, SweepStep
<1>4. ASSUME NEW r \in Runs, NEW class \in Classes, FailFinal(r, class) PROVE G
  <2>1. Ended(r)
    <3>1. job[r].queue # None => attempt[r] >= job[r].max
        BY <1>4, JobFacts DEF FailFinal, TypeOK
    <3> QED BY <1>4, <3>1 DEF FailFinal, SetStatus, SetLease, TypeOK, Ended
  <2>2. \A s \in Runs \ {r} : Kept(s)
      BY <1>4 DEF FailFinal, SetStatus, SetLease, TypeOK, Kept
  <2> QED BY <1>0, <1>4, <2>1, <2>2 DEF FailFinal, StepKind, SweepStep
<1>5. ASSUME NEW r \in Runs, NEW w \in Owners, Begin(r, w) PROVE G
  <2>1. Taken(r) /\ leaseOwner'[r] = w
      BY <1>5 DEF Begin, SetStatus, SetLease, TypeOK, Taken
  <2>2. \A s \in Runs \ {r} : Kept(s)
      BY <1>5 DEF Begin, SetStatus, SetLease, TypeOK, Kept
  <2> QED BY <1>0, <1>5, <2>1, <2>2 DEF Begin, StepKind, SweepStep
<1>6. ASSUME NEW r \in Runs, NEW w \in Owners, Heartbeat(r, w) PROVE G
    BY <1>0, <1>6 DEF Heartbeat, TypeOK, StepKind, Kept, Renewed, SweepStep
<1>7. ASSUME NEW w \in Owners, NEW q \in Queues, NEW n, Claim(w, q, n) PROVE G
  <2> DEFINE counts == {m \in 0..n : CapRoom(q, m) /\ RateRoom(q, m)}
  <2>1. PICK S \in FirstOf(Ready(q, now), counts) :
            /\ status' = [r \in Runs |-> IF r \in S THEN "running" ELSE status[r]]
            /\ event' = [r \in Runs |-> IF r \in S THEN "run.claimed" ELSE event[r]]
            /\ leaseOwner' = [r \in Runs |-> IF r \in S THEN w ELSE leaseOwner[r]]
            /\ leaseExpiresAt' = [r \in Runs |-> IF r \in S THEN now + Lease ELSE leaseExpiresAt[r]]
            /\ attempt' = [r \in Runs |-> IF r \in S THEN attempt[r] + 1 ELSE attempt[r]]
            /\ UNCHANGED <<failureClass, job, now, tick>>
      BY <1>7 DEF Claim
  <2>2. \A r \in S : status[r] = "queued"
      BY FirstOfSubset DEF Ready
  <2>3. \A r \in Runs : r \in S => Taken(r)
      BY <2>1, <2>2 DEF Taken
  <2>4. \A r \in Runs : r \notin S => Kept(r)
      BY <2>1 DEF Kept
  <2> QED BY <1>0, <2>1, <2>3, <2>4 DEF StepKind, SweepStep
<1>8. ASSUME NEW q \in Queues, NEW c, NEW rate, ConfigureQueue(q, c, rate) PROVE G
    BY <1>0, <1>8, KeptAll DEF ConfigureQueue, StepKind, SweepStep
<1>9. CASE TickLeases
  <2>1. PICK S \in SUBSET Runs :
            tick' = [phase |-> "leases", at |-> now, rows |-> S,
                     seen |-> [r \in Runs |-> IF r \in S THEN attempt[r] ELSE 0],
                     todo |-> {}]
      BY <1>9 DEF TickLeases
  <2>2. UNCHANGED row /\ now' = now
      BY <1>9 DEF TickLeases
  <2> QED BY <1>0, <2>1, <2>2, KeptAll DEF StepKind, SweepStep
<1>10. CASE TickDeadlines \/ TickPush \/ TickEnd \/ TickAbort
  <2>1. UNCHANGED row /\ now' = now
      BY <1>10 DEF TickDeadlines, TickPush, TickEnd, TickAbort
  <2>2. tick'.phase # "leases"
      BY <1>10 DEF TickDeadlines, TickPush, TickEnd, TickAbort, IdleTick, TickIn
  <2> QED BY <1>0, <2>1, <2>2, KeptAll DEF StepKind, SweepStep
<1>11. ASSUME NEW q \in Queues, PushSelect(q) PROVE G
  <2>1. UNCHANGED row /\ now' = now
      BY <1>11 DEF PushSelect
  <2>2. tick'.phase = "push"
      BY <1>11 DEF PushSelect, TypeOK
  <2> QED BY <1>0, <2>1, <2>2, KeptAll DEF StepKind, SweepStep
<1>12. ASSUME NEW r \in Runs, ReclaimRetry(r) \/ ReclaimFail(r) \/ DeadlineCancel(r) PROVE G
  <2>1. Ended(r)
      BY <1>12 DEF ReclaimRetry, ReclaimFail, DeadlineCancel, LeaseExpiredBefore, SetStatus, SetLease, TypeOK, Ended
  <2>2. \A s \in Runs \ {r} : Kept(s)
      BY <1>12 DEF ReclaimRetry, ReclaimFail, DeadlineCancel, SetStatus, SetLease, TypeOK, Kept
  <2>3. SweepStep /\ now' = now
      BY <1>12 DEF ReclaimRetry, ReclaimFail, DeadlineCancel, RowDone, TypeOK, SweepStep
  <2> QED BY <1>0, <2>1, <2>2, <2>3 DEF StepKind
<1>13. ASSUME NEW r \in Runs, ReclaimSkip(r) \/ DeadlineSkip(r) PROVE G
  <2>1. UNCHANGED row /\ now' = now
      BY <1>13 DEF ReclaimSkip, DeadlineSkip
  <2>2. SweepStep
      BY <1>13 DEF ReclaimSkip, DeadlineSkip, RowDone, TypeOK, SweepStep
  <2> QED BY <1>0, <2>1, <2>2, KeptAll DEF StepKind
<1>14. ASSUME NEW r \in Runs, PushRow(r) PROVE G
  <2>1. \A s \in Runs : Kept(s)
      BY <1>14 DEF PushRow, Kept
  <2>2. SweepStep /\ now' = now
      BY <1>14 DEF PushRow, RowDone, TypeOK, SweepStep
  <2> QED BY <1>0, <2>1, <2>2 DEF StepKind
<1>15. CASE Advance \/ UNCHANGED vars
  <2>1. UNCHANGED row /\ tick' = tick /\ now' >= now
      BY <1>0, <1>15 DEF Advance, vars
  <2> QED BY <2>1, KeptAll DEF StepKind, SweepStep
<1> QED
    BY <1>1, <1>2, <1>3, <1>4, <1>5, <1>6, <1>7, <1>8, <1>9, <1>10, <1>11, <1>12, <1>13, <1>14, <1>15
    DEF Next, Submit, Fail, Report, Pull, Configure, Reconcile, TickStep, Sweep, Fire

\* Row by row: one of the five kinds of step.
LEMMA StepRows == TypeOK /\ [Next]_vars => \A r \in Runs : RowStep(r)
    BY StepOfRow DEF StepKind, RowStep

-----------------------------------------------------------------------------
(* The inductive invariant.                                                *)

\* A row that is not there yet has no failure class; the tick's clock was read.
AbsentIsBlank == \A r \in Runs : status[r] = "absent" => failureClass[r] = None
SweepClock == tick.phase = "leases" => tick.at <= now

IInv == /\ TypeOK /\ LeaseIffRunning /\ EventLogAgrees
        /\ SnapshotStillTrue /\ MaxRetriesMeansExhausted
        /\ AbsentIsBlank /\ SweepClock

\* The fold of the event log, event by event.
LEMMA StatusAfterEvent ==
    /\ StatusAfter["none"] = "absent" /\ StatusAfter["run.created"] = "pending"
    /\ StatusAfter["run.enqueued"] = "queued" /\ StatusAfter["run.requeued"] = "queued"
    /\ StatusAfter["run.started"] = "running" /\ StatusAfter["run.claimed"] = "running"
    /\ StatusAfter["run.completed"] = "completed" /\ StatusAfter["run.failed"] = "failed"
    /\ StatusAfter["run.cancelled"] = "cancelled"
    BY DEF StatusAfter, Events

\* The invariant holds of the empty table.
LEMMA InvInit == Init => IInv
<1> SUFFICES ASSUME Init PROVE IInv
    OBVIOUS
<1>1. TypeOK
    BY TypeInit
<1>2. tick.phase = "idle"
    BY DEF Init, IdleTick, TickIn
<1>3. LeaseIffRunning /\ MaxRetriesMeansExhausted /\ AbsentIsBlank
    BY DEF Init, LeaseIffRunning, MaxRetriesMeansExhausted, AbsentIsBlank, NoTime
<1>4. EventLogAgrees
    BY StatusAfterEvent DEF Init, EventLogAgrees, NoJob
<1> QED BY <1>1, <1>2, <1>3, <1>4 DEF IInv, SnapshotStillTrue, SweepClock

\* A row whose attempt changes is leased beyond the clock of every open sweep.
LEMMA SnapshotStep ==
    IInv /\ StepKind /\ SweepStep /\ now' >= now /\ TypeOK' => SnapshotStillTrue' /\ SweepClock'
<1> SUFFICES ASSUME IInv, StepKind, SweepStep, now' >= now, TypeOK', tick'.phase = "leases"
             PROVE  /\ \A r \in tick'.rows : LeaseExpiredBefore(r, tick.at)' => tick'.seen[r] = attempt'[r]
                    /\ tick'.at <= now'
    BY DEF SnapshotStillTrue, SweepClock
<1>1. now \in Nat /\ now' \in Nat /\ tick'.at \in Nat
    BY DEF IInv, TypeOK
<1>2. CASE /\ tick'.at = now /\ \A r \in Runs : Kept(r)
           /\ \A r \in tick'.rows : tick'.seen[r] = attempt[r]
  <2>1. tick'.rows \subseteq Runs
      BY DEF TypeOK
  <2>2. \A r \in tick'.rows : tick'.seen[r] = attempt'[r]
      BY <1>2, <2>1 DEF Kept
  <2> QED BY <1>1, <1>2, <2>2
<1>3. CASE /\ tick.phase = "leases" /\ tick'.at = tick.at
           /\ tick'.seen = tick.seen /\ tick'.rows \subseteq tick.rows
  <2>1. tick.at <= now
      BY <1>3 DEF IInv, SweepClock
  <2>2. ASSUME NEW r \in tick'.rows, LeaseExpiredBefore(r, tick.at)'
        PROVE  tick'.seen[r] = attempt'[r]
    <3>1. r \in Runs /\ r \in tick.rows
        BY <1>3 DEF TypeOK
    <3>2. status'[r] = "running" /\ leaseExpiresAt'[r] < tick.at
        BY <2>2, <1>3 DEF LeaseExpiredBefore
    <3>3. leaseExpiresAt'[r] # now + Lease
        BY <1>1, <1>3, <2>1, <3>2
    <3>4. Kept(r)
        BY <3>1, <3>2, <3>3 DEF StepKind, Inserted, Taken, Renewed, Ended
    <3>5. LeaseExpiredBefore(r, tick.at)
        BY <2>2, <1>3, <3>4 DEF LeaseExpiredBefore, Kept
    <3> QED BY <1>3, <3>1, <3>4, <3>5 DEF IInv, SnapshotStillTrue, Kept
  <2> QED BY <1>1, <1>3, <2>1, <2>2
<1> QED BY <1>2, <1>3 DEF SweepStep

\* Every step of the server keeps the invariant.
LEMMA InvStep == IInv /\ [Next]_vars => IInv'
<1> SUFFICES ASSUME IInv, [Next]_vars PROVE IInv'
    OBVIOUS
<1>1. TypeOK /\ TypeOK'
    BY TypeStep DEF IInv
<1>2. StepKind /\ SweepStep /\ now' >= now
    BY <1>1, StepOfRow
<1>3. \A r \in Runs : RowStep(r)
    BY <1>1, StepRows
<1>4. SnapshotStillTrue' /\ SweepClock'
    BY <1>1, <1>2, SnapshotStep
<1>5. LeaseIffRunning'
  <2> SUFFICES ASSUME NEW r \in Runs
               PROVE  /\ status'[r] = "running" <=> leaseOwner'[r] # None
                      /\ status'[r] = "running" <=> leaseExpiresAt'[r] # NoTime
      BY DEF LeaseIffRunning
  <2>1. /\ status[r] = "running" <=> leaseOwner[r] # None
        /\ status[r] = "running" <=> leaseExpiresAt[r] # NoTime
      BY DEF IInv, LeaseIffRunning
  <2>2. now + Lease # NoTime
      BY <1>1 DEF TypeOK, NoTime
  <2>3. RowStep(r)
      BY <1>3
  <2> QED BY <2>1, <2>2, <2>3 DEF RowStep, Kept, Inserted, Taken, Renewed, Ended
<1>6. EventLogAgrees'
  <2> SUFFICES ASSUME NEW r \in Runs
               PROVE  status'[r] = IF event'[r] = "none" /\ job'[r].scheduled
                                   THEN "queued" ELSE StatusAfter[event'[r]]
      BY DEF EventLogAgrees, StatusAfter
  <2>1. /\ status[r] = IF event[r] = "none" /\ job[r].scheduled
                       THEN "queued" ELSE StatusAfter[event[r]]
        /\ RowStep(r)
      BY <1>3 DEF IInv, EventLogAgrees
  <2> QED BY <2>1, StatusAfterEvent DEF RowStep, Kept, Inserted, Taken, Renewed, Ended
<1>7. AbsentIsBlank'
  <2> SUFFICES ASSUME NEW r \in Runs, status'[r] = "absent" PROVE failureClass'[r] = None
      BY DEF AbsentIsBlank
  <2>1. RowStep(r)
      BY <1>3
  <2> QED BY <2>1 DEF RowStep, Kept, Inserted, Taken, Renewed, Ended, IInv, AbsentIsBlank
<1>8. MaxRetriesMeansExhausted'
  <2> SUFFICES ASSUME NEW r \in Runs, failureClass'[r] = "max_retries", job'[r].queue # None
               PROVE  attempt'[r] >= job'[r].max
      BY DEF MaxRetriesMeansExhausted
  <2>1. RowStep(r) /\ attempt[r] \in Nat /\ job[r].max \in 1..MaxAttempts
      BY <1>1, <1>3, JobFacts DEF TypeOK
  <2>2. failureClass[r] = "max_retries" =>
            status[r] # "absent" /\ (job[r].queue # None => attempt[r] >= job[r].max)
      BY DEF IInv, MaxRetriesMeansExhausted, AbsentIsBlank
  <2>3. ASSUME tick.phase = "leases", r \in tick.rows,
               LeaseExpiredBefore(r, tick.at), tick.seen[r] >= job[r].max
        PROVE  attempt[r] >= job[r].max
      BY <2>3 DEF IInv, SnapshotStillTrue
  <2>4. CASE Ended(r)
      BY <2>1, <2>2, <2>3, <2>4 DEF Ended
  <2> QED BY <2>1, <2>2, <2>4 DEF RowStep, Kept, Inserted, Taken, Renewed
<1> QED BY <1>1, <1>4, <1>5, <1>6, <1>7, <1>8 DEF IInv

\* The inductive invariant holds in every reachable state.
THEOREM Invariant == Spec => []IInv
    BY InvInit, InvStep, PTL DEF Spec

\* A run has a lease exactly while it is running.
THEOREM LeaseExactlyWhileRunning == Spec => []LeaseIffRunning
<1>1. IInv => LeaseIffRunning
    BY DEF IInv
<1> QED BY <1>1, Invariant, PTL

\* The event log and the row tell the same story, but for the runs of schedules
\* that nothing happened to yet.
THEOREM LogTellsStatus == Spec => []EventLogAgrees
<1>1. IInv => EventLogAgrees
    BY DEF IInv
<1> QED BY <1>1, Invariant, PTL

\* However long a sweep takes, the attempt it decides by is the row's when its
\* update goes through.
THEOREM SweepDecidesOnTruth == Spec => []SnapshotStillTrue
<1>1. IInv => SnapshotStillTrue
    BY DEF IInv
<1> QED BY <1>1, Invariant, PTL

\* A job of a queue that is classified max_retries has used up its attempts.
THEOREM MaxRetriesIsEarned == Spec => []MaxRetriesMeansExhausted
<1>1. IInv => MaxRetriesMeansExhausted
    BY DEF IInv
<1> QED BY <1>1, Invariant, PTL

-----------------------------------------------------------------------------
(* Action properties.                                                      *)

\* Nothing a client or the reconciler does changes a cancelled run.
THEOREM CancellationIsFinal == Spec => CancelledIsFinal
<1>1. IInv /\ [Next]_vars =>
        [\A r \in Runs : status[r] = "cancelled" =>
           /\ status'[r] = "cancelled" /\ event'[r] = event[r]
           /\ leaseOwner'[r] = None /\ attempt'[r] = attempt[r]]_vars
  <2> SUFFICES ASSUME IInv, [Next]_vars, NEW r \in Runs, status[r] = "cancelled"
               PROVE  /\ status'[r] = "cancelled" /\ event'[r] = event[r]
                      /\ leaseOwner'[r] = None /\ attempt'[r] = attempt[r]
      OBVIOUS
  <2>1. RowStep(r)
      BY StepRows DEF IInv
  <2>2. leaseOwner[r] = None
      BY DEF IInv, LeaseIffRunning
  <2> QED BY <2>1, <2>2 DEF RowStep, Kept, Inserted, Taken, Renewed, Ended
<1> QED BY <1>1, Invariant, PTL DEF Spec, CancelledIsFinal

\* The lease sweep leaves live leases alone.
THEOREM SweepIsFair == Spec => SweepSparesLiveLease
<1>1. IInv /\ [Next]_vars =>
        [\A r \in Runs : (tick.phase = "leases" /\ r \in tick.rows \ tick'.rows /\ LeaseLive(r))
                         => leaseOwner'[r] = leaseOwner[r]]_vars
  <2> SUFFICES ASSUME IInv, [Next]_vars, NEW r \in Runs, tick.phase = "leases",
                      r \in tick.rows, r \notin tick'.rows, LeaseLive(r)
               PROVE  leaseOwner'[r] = leaseOwner[r]
      OBVIOUS
  <2>1. RowStep(r) /\ tick' # tick
      BY StepRows DEF IInv
  <2>2. status[r] = "running"
      BY DEF IInv, LeaseIffRunning, LeaseLive
  <2>3. ~LeaseExpiredBefore(r, tick.at)
    <3>1. /\ now \in Nat /\ tick.at \in Nat /\ leaseExpiresAt[r] \in Times
          /\ tick.at <= now /\ leaseExpiresAt[r] > now
        BY DEF IInv, TypeOK, SweepClock, LeaseLive
    <3> QED BY <3>1 DEF LeaseExpiredBefore, Times, NoTime
  <2> QED BY <2>1, <2>2, <2>3 DEF RowStep, Kept, Inserted, Taken, Renewed, Ended
<1> QED BY <1>1, Invariant, PTL DEF Spec, SweepSparesLiveLease

-----------------------------------------------------------------------------
(* Every step of the server is a step of the abstract lock.                *)

\* The holder of a row before and after each kind of row step.
LEMMA HolderOfRow ==
    ASSUME IInv, TypeOK', now' >= now, NEW r \in Runs
    PROVE  /\ Kept(r) => Holder'[r] \in {Holder[r], None}
           /\ Kept(r) /\ now' = now => Holder'[r] = Holder[r]
           /\ Inserted(r) /\ now' = now => Holder'[r] = Holder[r]
           /\ Ended(r) => Holder'[r] = None
           /\ Renewed(r) /\ now' = now =>
                 /\ leaseOwner[r] \in Owners
                 /\ Holder[r] \in {None, leaseOwner[r]} /\ Holder'[r] = leaseOwner[r]
           /\ Taken(r) /\ now' = now => /\ Holder'[r] = leaseOwner'[r]
                                        /\ Holder[r] \in {None, leaseOwner'[r]}
<1>1. /\ now \in Nat /\ now' \in Nat /\ leaseOwner[r] \in Owners \cup {None}
      /\ leaseExpiresAt[r] \in Int /\ leaseExpiresAt'[r] \in Int
    BY DEF IInv, TypeOK, Times, NoTime
<1>2. /\ status[r] = "running" <=> leaseOwner[r] # None
      /\ now + Lease > now /\ now + Lease # NoTime
    BY <1>1 DEF IInv, LeaseIffRunning, NoTime
<1>3. /\ Holder[r] = IF LeaseLive(r) THEN leaseOwner[r] ELSE None
      /\ Holder'[r] = IF LeaseLive(r)' THEN leaseOwner'[r] ELSE None
    BY DEF Holder
<1>4. Kept(r) => /\ Holder'[r] \in {Holder[r], None}
                 /\ now' = now => Holder'[r] = Holder[r]
    BY <1>1, <1>3 DEF Kept, LeaseLive
<1>5. Inserted(r) /\ now' = now => Holder'[r] = Holder[r]
    BY <1>3 DEF Inserted, LeaseLive
<1>6. Ended(r) => Holder'[r] = None
    BY <1>3 DEF Ended
<1>7. Renewed(r) /\ now' = now =>
          /\ leaseOwner[r] \in Owners
          /\ Holder[r] \in {None, leaseOwner[r]} /\ Holder'[r] = leaseOwner[r]
    BY <1>1, <1>2, <1>3 DEF Renewed, LeaseLive
<1>8. Taken(r) /\ now' = now => /\ Holder'[r] = leaseOwner'[r]
                                /\ Holder[r] \in {None, leaseOwner'[r]}
    BY <1>1, <1>2, <1>3 DEF Taken, LeaseLive
<1> QED BY <1>4, <1>5, <1>6, <1>7, <1>8

\* A step of the server grants rows to one owner, or frees rows, or neither.
LEMMA LockStep ==
    ASSUME IInv, TypeOK', StepKind, now' >= now
    PROVE  Lock!Next
<1>1. Holder' = [r \in Runs |-> Holder'[r]]
    BY DEF Holder
<1>2. CASE \A r \in Runs : Kept(r) \/ (now' = now /\ (Inserted(r) \/ Ended(r)))
  <2> DEFINE S == {r \in Runs : Holder'[r] = None}
  <2>1. \A r \in Runs : r \notin S => Holder'[r] = Holder[r]
      BY <1>2, HolderOfRow
  <2>2. \A r \in Runs : Holder'[r] = IF r \in S THEN None ELSE Holder[r]
      BY <2>1
  <2>3. Holder' = [r \in Runs |-> IF r \in S THEN None ELSE Holder[r]]
      BY <1>1, <2>2
  <2>4. Lock!Release(S)
      BY <2>3 DEF Lock!Release
  <2> QED BY <2>4 DEF Lock!Next
<1>3. ASSUME now' = now, NEW w \in Owners,
             \A r \in Runs : \/ Holder'[r] = Holder[r]
                             \/ Holder[r] = None /\ Holder'[r] = w
      PROVE  Lock!Next
  <2> DEFINE S == {r \in Runs : Holder[r] = None /\ Holder'[r] = w}
  <2>1. \A r \in Runs : Holder'[r] = IF r \in S THEN w ELSE Holder[r]
      BY <1>3
  <2>2. Holder' = [r \in Runs |-> IF r \in S THEN w ELSE Holder[r]]
      BY <1>1, <2>1
  <2>3. Lock!Grant(w, S)
      BY <2>2 DEF Lock!Grant
  <2> QED BY <2>3 DEF Lock!Next
<1>4. ASSUME now' = now, NEW w \in Owners,
             \A r \in Runs : Kept(r) \/ (Taken(r) /\ leaseOwner'[r] = w)
      PROVE  Lock!Next
  <2>1. \A r \in Runs : \/ Holder'[r] = Holder[r]
                        \/ Holder[r] = None /\ Holder'[r] = w
      BY <1>4, HolderOfRow
  <2> QED BY <1>3, <1>4, <2>1
<1>5. ASSUME now' = now, NEW s \in Runs, Renewed(s), \A r \in Runs \ {s} : Kept(r)
      PROVE  Lock!Next
  <2>1. leaseOwner[s] \in Owners
      BY <1>5, HolderOfRow
  <2>2. \A r \in Runs : \/ Holder'[r] = Holder[r]
                        \/ Holder[r] = None /\ Holder'[r] = leaseOwner[s]
      BY <1>5, HolderOfRow
  <2> QED BY <1>3, <1>5, <2>1, <2>2
<1> QED BY <1>2, <1>4, <1>5 DEF StepKind

\* The run lifecycle implements the lock of LeaseLock: no begin, claim,
\* heartbeat or sweep hands a run over while somebody's lease on it is live.
THEOREM LeasesAreExclusive == Spec => LeaseIsALock
<1>1. Init => Lock!Init
    BY DEF Init, Lock!Init, Holder, LeaseLive
<1>2. IInv /\ [Next]_vars => [Lock!Next]_Holder
    BY InvStep, StepOfRow, LockStep DEF IInv
<1> QED BY <1>1, <1>2, Invariant, PTL DEF Spec, LeaseIsALock, Lock!Spec

-----------------------------------------------------------------------------
(* Deduplication.                                                          *)

\* A row becomes active only where the dedupe index lets it, and alone.
IndexStep ==
    \A r \in Runs : (status'[r] \in Active /\ status[r] \notin Active) =>
        /\ IndexAllows(r, job'[r].queue, job'[r].key)
        /\ \A s \in Runs \ {r} : status'[s] = status[s] /\ job'[s] = job[s]

\* Every handler that activates a row asks the dedupe index.
LEMMA ActiveStep == TypeOK /\ [Next]_vars => IndexStep
<1> SUFFICES ASSUME TypeOK, [Next]_vars PROVE IndexStep
    OBVIOUS
<1> DEFINE Quiet == \A r \in Runs : status'[r] \in Active => status[r] \in Active
<1>0. Quiet => IndexStep
    BY DEF IndexStep
<1>1. ASSUME NEW r \in Runs, NEW j \in Jobs, CreateRun(r, j) \/ Enqueue(r, j) \/ FireSchedule(r, j) PROVE IndexStep
    BY <1>1 DEF CreateRun, Enqueue, FireSchedule, Insert, SetStatus, TypeOK, IndexStep
<1>2. ASSUME NEW r \in Runs, NEW w \in Owners, Begin(r, w) PROVE IndexStep
    BY <1>2 DEF Begin, SetStatus, TypeOK, IndexStep
<1>3. ASSUME NEW r \in Runs, FailRetry(r) PROVE IndexStep
    BY <1>3 DEF FailRetry, SetStatus, TypeOK, IndexStep
<1>4. ASSUME NEW w \in Owners, NEW q \in Queues, NEW n, Claim(w, q, n) PROVE Quiet
  <2> DEFINE counts == {m \in 0..n : CapRoom(q, m) /\ RateRoom(q, m)}
  <2>1. PICK S \in FirstOf(Ready(q, now), counts) :
            status' = [r \in Runs |-> IF r \in S THEN "running" ELSE status[r]]
      BY <1>4 DEF Claim
  <2>2. \A r \in S : status[r] = "queued"
      BY FirstOfSubset DEF Ready
  <2> QED BY <2>1, <2>2 DEF Active
<1>5. ASSUME NEW r \in Runs, Cancel(r) \/ Complete(r) \/ Sweep(r) PROVE Quiet
  <2>1. CASE Cancel(r) \/ Complete(r) \/ DeadlineCancel(r) \/ ReclaimFail(r)
      BY <2>1 DEF Cancel, Complete, DeadlineCancel, ReclaimFail, SetStatus, TypeOK, Active
  <2>2. CASE ReclaimRetry(r)
      BY <2>2 DEF ReclaimRetry, SetStatus, LeaseExpiredBefore, TypeOK, Active
  <2>3. CASE ReclaimSkip(r) \/ DeadlineSkip(r) \/ PushRow(r)
      BY <2>3 DEF ReclaimSkip, DeadlineSkip, PushRow, row
  <2> QED BY <1>5, <2>1, <2>2, <2>3 DEF Sweep
<1>8. ASSUME NEW r \in Runs, NEW class, FailFinal(r, class) PROVE Quiet
    BY <1>8 DEF FailFinal, SetStatus, TypeOK, Active
<1>6. ASSUME NEW r \in Runs, NEW w \in Owners, Heartbeat(r, w) PROVE Quiet
    BY <1>6 DEF Heartbeat
<1>7. CASE Configure \/ TickStep \/ TickAbort \/ Advance \/ UNCHANGED vars
  <2>1. UNCHANGED row
      BY <1>7 DEF Configure, ConfigureQueue, TickStep, TickLeases, TickDeadlines, TickPush,
                  PushSelect, TickEnd, TickAbort, Advance, vars
  <2> QED BY <1>0, <2>1, KeptAll DEF Kept
<1> QED BY <1>0, <1>1, <1>2, <1>3, <1>4, <1>5, <1>6, <1>7, <1>8
    DEF Next, Submit, Fail, Report, Pull, Reconcile, Fire

\* At most one active run per queue and dedupe key, in every reachable state.
THEOREM DedupeIsExact == Spec => []DedupeExact
<1>1. Init => DedupeExact
    BY DEF Init, DedupeExact, Active
<1>2. TypeOK /\ DedupeExact /\ [Next]_vars => DedupeExact'
  <2> SUFFICES ASSUME TypeOK, DedupeExact, [Next]_vars, NEW r \in Runs, NEW s \in Runs, r # s,
                      {status'[r], status'[s]} \subseteq Active,
                      job'[r].key # None, job'[r].key = job'[s].key, job'[r].queue = job'[s].queue
               PROVE  FALSE
      BY DEF DedupeExact
  <2>1. IndexStep
      BY ActiveStep
  <2>2. CASE status[r] \in Active /\ status[s] \in Active
    <3>1. job'[r] = job[r] /\ job'[s] = job[s]
        BY <2>2, StepRows DEF RowStep, Kept, Inserted, Taken, Renewed, Ended, Active
    <3> QED BY <2>2, <3>1 DEF DedupeExact
  <2>3. CASE status[r] \notin Active
      BY <2>1, <2>3 DEF IndexStep, IndexAllows
  <2>4. CASE status[s] \notin Active
      BY <2>1, <2>4 DEF IndexStep, IndexAllows
  <2> QED BY <2>2, <2>3, <2>4
<1> QED BY <1>1, <1>2, TypeCorrect, PTL DEF Spec
=============================================================================
