------------------------------ MODULE Schedules -------------------------------
(***************************************************************************)
(* Schedules and the sweep that enqueues their runs: PUT and DELETE of a   *)
(* schedule (app.ts) against ticks of the reconciler (reconciler.ts), with *)
(* interrupted ticks and ticks whose connection lost the advisory lock.    *)
(* Time is in minutes.                                                     *)
(***************************************************************************)
EXTENDS Cron, Sequences

CONSTANTS
    Names,      \* of schedules
    Queues,
    Ticks,      \* BOUND: calls of reconcileTick that are under way at a time
    None,
    MaxTime,    \* BOUND: of the clock
    MaxPuts,    \* BOUND: requests
    MaxFaults   \* BOUND: interrupted ticks and lost locks

VARIABLES
    schedules,  \* the table: name -> row, None when there is none
    runs,       \* the scheduled runs, in the order of their insertion
    sweep,      \* the sweep of each tick
    tickLock,   \* the tick whose connection holds the advisory lock
    now,
    puts, faults,   \* how many there were
    since       \* name -> history of its row: when it was put, whether a sweep wrote over it

vars == <<schedules, runs, sweep, tickLock, now, puts, faults, since>>

\* What parseCron and nextFire return, as a table.
Parses  == {cron \in Crons : ParsesCron(cron)}
NextOf  == [cron \in Parses |-> [from \in 0 .. MaxTime |-> NextFire(cron, from)]]

RowType == [cron: Parses, queue: Queues, enabled: BOOLEAN, next: Nat]
RunType == [name: Names, queue: Queues, fire: Nat, active: BOOLEAN, sweptAt: Nat]

ASSUME SchedulesConstants ==
    /\ None \notin Ticks \cup RowType
    /\ {MaxTime, MaxPuts, MaxFaults} \subseteq Nat

\* It has the minutes that nextFire looks at.
ASSUME CalendarReaches == 1 .. (MaxTime + Horizon) \subseteq DOMAIN Calendar

\* in: it has the lock, loop: it selected the due rows, write: it enqueued cur
Idle == [pc |-> "idle", at |-> 0, due |-> {}, cur |-> None]

Init ==
    /\ schedules = [n \in Names |-> None]
    /\ runs = <<>>
    /\ sweep = [k \in Ticks |-> Idle]
    /\ tickLock = None
    /\ now = 0 /\ puts = 0 /\ faults = 0
    /\ since = [n \in Names |-> [put |-> 0, over |-> FALSE]]
-----------------------------------------------------------------------------
(* Requests.                                                               *)

\* PUT /schedules/:name.  An expression that does not parse or never fires
\* is refused.
Put(n, cron, queue, enabled) ==
    /\ puts < MaxPuts /\ puts' = puts + 1
    /\ cron \in Parses /\ NextOf[cron][now] # Never
    /\ schedules' = [schedules EXCEPT ![n] =
           [cron |-> cron, queue |-> queue, enabled |-> enabled, next |-> NextOf[cron][now]]]
    /\ since' = [since EXCEPT ![n] = [put |-> now, over |-> FALSE]]
    /\ UNCHANGED <<runs, sweep, tickLock, now, faults>>

\* DELETE /schedules/:name
Delete(n) ==
    /\ puts < MaxPuts /\ puts' = puts + 1
    /\ schedules[n] # None
    /\ schedules' = [schedules EXCEPT ![n] = None]
    /\ UNCHANGED <<runs, sweep, tickLock, now, faults, since>>

\* A scheduled run completes, fails or is cancelled.
RunEnds(i) ==
    /\ runs[i].active
    /\ runs' = [runs EXCEPT ![i].active = FALSE]
    /\ UNCHANGED <<schedules, sweep, tickLock, now, puts, faults, since>>
-----------------------------------------------------------------------------
(* The sweep.                                                              *)

\* Fault: the lock is not waited for.
TickInUnlocked(k) ==
    /\ sweep[k].pc = "idle"
    /\ tickLock' = k
    /\ sweep' = [sweep EXCEPT ![k] = [Idle EXCEPT !.pc = "in", !.at = now]]
    /\ UNCHANGED <<schedules, runs, now, puts, faults, since>>

\* reconcileTick.  The rows are compared with the time it began.
TickIn(k) ==
    /\ sweep[k].pc = "idle" /\ tickLock = None
    /\ tickLock' = k
    /\ sweep' = [sweep EXCEPT ![k] = [Idle EXCEPT !.pc = "in", !.at = now]]
    /\ UNCHANGED <<schedules, runs, now, puts, faults, since>>

\* Fault: a row is due only in its minute.
DueNow(at) == {n \in Names : schedules[n] # None /\ schedules[n].enabled /\ schedules[n].next = at}

Due(at) == {n \in Names : schedules[n] # None /\ schedules[n].enabled /\ schedules[n].next <= at}

Select(k) ==
    /\ sweep[k].pc = "in"
    /\ sweep' = [sweep EXCEPT ![k].pc = "loop",
                              ![k].due = {[name |-> n, row |-> schedules[n]] : n \in Due(sweep[k].at)}]
    /\ UNCHANGED <<schedules, runs, tickLock, now, puts, faults, since>>

\* Fault: the key is made of the time of the sweep.
TakenAt(name, row) ==
    \E i \in DOMAIN runs :
        /\ runs[i].active
        /\ runs[i].name = name /\ runs[i].queue = row.queue /\ runs[i].sweptAt = now

\* runs_queue_dedupe_active, for the keys sched:<name>:<fireTime>
Taken(name, row) ==
    \E i \in DOMAIN runs :
        /\ runs[i].active
        /\ runs[i].name = name /\ runs[i].queue = row.queue /\ runs[i].fire = row.next

\* The first transaction of a row.  A duplicate key is swallowed.
EnqueueDue(k, due) ==
    LET run == [name |-> due.name, queue |-> due.row.queue, fire |-> due.row.next,
                active |-> TRUE, sweptAt |-> sweep[k].at]
    IN  /\ sweep[k].pc = "loop" /\ due \in sweep[k].due
        /\ runs' = IF Taken(due.name, due.row) THEN runs ELSE Append(runs, run)
        /\ sweep' = [sweep EXCEPT ![k].pc = "write", ![k].cur = due]
        /\ UNCHANGED <<schedules, tickLock, now, puts, faults, since>>

\* The second: the row gets the next time of the expression that was selected,
\* whatever was put in between.  An expression that fires no more throws, and
\* the tick is interrupted.
AdvanceDue(k) ==
    LET due == sweep[k].cur
        n   == due.name
    IN  /\ sweep[k].pc = "write" /\ NextOf[due.row.cron][sweep[k].at] # Never
        /\ schedules' = IF schedules[n] = None THEN schedules
                        ELSE [schedules EXCEPT ![n].next = NextOf[due.row.cron][sweep[k].at]]
        /\ since' = IF schedules[n] = due.row THEN since ELSE [since EXCEPT ![n].over = TRUE]
        /\ sweep' = [sweep EXCEPT ![k].pc = "loop", ![k].due = @ \ {due}, ![k].cur = None]
        /\ UNCHANGED <<runs, tickLock, now, puts, faults>>

Free(k) == IF tickLock = k THEN None ELSE tickLock

\* finally: only the connection that holds the lock frees it.
TickEnd(k) ==
    /\ sweep[k].pc = "loop" /\ sweep[k].due = {}
    /\ sweep' = [sweep EXCEPT ![k] = Idle]
    /\ tickLock' = Free(k)
    /\ UNCHANGED <<schedules, runs, now, puts, faults, since>>

\* The process dies, or a statement throws and the tick is given up.
Interrupt(k) ==
    /\ faults < MaxFaults /\ faults' = faults + 1
    /\ sweep[k].pc # "idle"
    /\ sweep' = [sweep EXCEPT ![k] = Idle]
    /\ tickLock' = Free(k)
    /\ UNCHANGED <<schedules, runs, now, puts, since>>

\* The connection that holds the lock is closed, the sweep goes on with others.
LoseLock(k) ==
    /\ faults < MaxFaults /\ faults' = faults + 1
    /\ tickLock = k /\ tickLock' = None
    /\ UNCHANGED <<schedules, runs, sweep, now, puts, since>>

Advance ==
    /\ now < MaxTime /\ now' = now + 1
    /\ UNCHANGED <<schedules, runs, sweep, tickLock, puts, faults, since>>
-----------------------------------------------------------------------------
SweepStep(k) ==
    \/ TickIn(k)
    \/ Select(k)
    \/ \E due \in sweep[k].due : EnqueueDue(k, due)
    \/ AdvanceDue(k)
    \/ TickEnd(k)

Next ==
    \/ \E n \in Names, cron \in Crons, queue \in Queues, enabled \in BOOLEAN : Put(n, cron, queue, enabled)
    \/ \E n \in Names : Delete(n)
    \/ \E i \in DOMAIN runs : RunEnds(i)
    \/ \E k \in Ticks : SweepStep(k) \/ Interrupt(k) \/ LoseLock(k)
    \/ Advance

Spec == Init /\ [][Next]_vars

\* setInterval calls the reconciler again and again, and a tick that is under
\* way goes on.
FairSpec == Spec /\ \A k \in Ticks : WF_vars(SweepStep(k))
-----------------------------------------------------------------------------
(* Properties.                                                             *)

\* A row that was selected.
DueType == [name: Names, row: RowType]

\* The tables, the sweeps and the lock have their types.
TypeOK ==
    /\ schedules \in [Names -> RowType \cup {None}]
    /\ runs \in Seq(RunType)
    /\ sweep \in [Ticks -> [pc: {"idle", "in", "loop", "write"}, at: 0 .. MaxTime,
                            due: SUBSET DueType, cur: DueType \cup {None}]]
    /\ tickLock \in Ticks \cup {None}
    /\ now \in 0 .. MaxTime /\ faults \in Nat

\* No two active runs of a queue are the same fire of a schedule, whatever is
\* interrupted, put again or swept twice (reconciler.ts:201-202).
ActiveFireUnique ==
    \A i, j \in DOMAIN runs :
        (/\ runs[i].active /\ runs[j].active
         /\ runs[i].name = runs[j].name /\ runs[i].queue = runs[j].queue
         /\ runs[i].fire = runs[j].fire) => i = j

\* As long as no tick is interrupted and no lock lost, the fires of a schedule
\* ascend: none is enqueued again, however schedules are put, deleted and put
\* again while they are swept.
FiresAscend ==
    faults = 0 => \A i, j \in DOMAIN runs : (i < j /\ runs[i].name = runs[j].name) => runs[i].fire < runs[j].fire

\* The minutes a field allows, from the words of the documentation of cron.
Allowed(cron, f, v) ==
    \E term \in Terms[cron][f] :
        CASE term.kind = "star"  -> term.step = 0 \/ (v - Fields[f].min) % term.step = 0
          [] term.kind = "value" -> v = term.lo \/ (term.step > 0 /\ v > term.lo /\ (v - term.lo) % term.step = 0)
          [] OTHER -> v \in term.lo .. term.hi /\ (term.step = 0 \/ (v - term.lo) % term.step = 0)

DayAllowed(cron, day) ==
    LET dom == Allowed(cron, "dom", day.dom)
        dow == Allowed(cron, "dow", day.dow) \/ (day.dow = 0 /\ Allowed(cron, "dow", 7))
    IN  \/ dom /\ dow
        \/ Restricted(cron, "dom") /\ Restricted(cron, "dow") /\ (dom \/ dow)

Means(cron, t) ==
    /\ \A f \in {"minute", "hour", "month"} : Allowed(cron, f, Calendar[t][f])
    /\ DayAllowed(cron, Calendar[t])

\* As long as no tick is interrupted, a minute of a schedule that lies before
\* the time its row is set to was enqueued, or is covered by an earlier minute
\* that was enqueued late: nothing is skipped, unless a sweep wrote its time
\* over a schedule that was put meanwhile.  (After an interruption the next
\* tick may find the run still active, enqueue nothing and pass over the rest.)
NoMinuteSkipped ==
    \A n \in Names : (faults = 0 /\ schedules[n] # None /\ ~since[n].over) =>
        \A t \in (since[n].put + 1) .. (schedules[n].next - 1) :
            Means(schedules[n].cron, t) =>
                \E i \in DOMAIN runs : runs[i].name = n /\ runs[i].fire <= t /\ t <= runs[i].sweptAt

\* A schedule fires only in minutes of an expression it had.
NextIsMeant ==
    \A n \in Names : schedules[n] # None /\ ~since[n].over => Means(schedules[n].cron, schedules[n].next)

\* A schedule that is due is enqueued and its time advanced, unless it is put
\* again or deleted, however often ticks are interrupted and locks lost.
DueIsSwept ==
    \A n \in Names, t \in 0 .. MaxTime :
        (schedules[n] # None /\ schedules[n].enabled /\ schedules[n].next = t /\ t <= now)
            ~> (schedules[n] = None \/ ~schedules[n].enabled \/ schedules[n].next # t)

\* "A schedule's fire enqueues with dedupe key sched:<name>:<fireTime>, so a
\* double-fire is structurally impossible even across replicas"
\* (docs/production.md:53).
NeverFiresTwice ==
    \A i, j \in DOMAIN runs : (runs[i].name = runs[j].name /\ runs[i].fire = runs[j].fire) => i = j
=============================================================================
