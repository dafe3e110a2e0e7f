-------------------------------- MODULE Steps --------------------------------
(***************************************************************************)
(* The steps of one run: the rows of the table steps, the three handlers   *)
(* that change them, and RunContext.step of the SDK that calls them.       *)
(*                                                                         *)
(* The begin handler is not one atomic step.  It reads the status of the   *)
(* run without a lock, then waits for the advisory lock of the step, reads *)
(* the row FOR UPDATE (which locks nothing when there is no row yet) and   *)
(* only then decides.  A cancellation can commit between any two of these. *)
(***************************************************************************)
EXTENDS Integers, FiniteSets

CONSTANTS
    Steps,          \* the names of the steps of the run
    Procs,          \* invocations of the workflow, the zombies among them
    Owners,         \* lease owners
    Hashes,         \* input hashes
    Decision,       \* what classifyResumeDecision makes of each step's options
    None,           \* SQL null
    Lease,          \* TIDEBASE_LEASE_MS
    Retries,        \* the option "retries" of the steps
    MaxTime,        \* BOUND: the clock stops here
    MaxAttempt      \* BOUND: no new call once a step was executed this often

NoTime == -1

ASSUME StepNone     == None \notin Owners \cup Hashes \cup Steps \cup Procs
ASSUME StepNumbers  == /\ Lease \in Nat \ {0} /\ Retries \in Nat
                       /\ MaxTime \in Nat /\ MaxAttempt \in Nat
ASSUME StepDecision == Decision \in [Steps -> {"safe_replay", "manual_review", "fail_hard"}]

VARIABLES
    cancelled,      \* runs.status = 'cancelled'
    status,         \* steps.status, "absent" before the insert
    leaseOwner,     \* steps.lease_owner
    leaseExpiresAt, \* steps.lease_expires_at
    attempt,        \* steps.attempt
    inputHash,      \* steps.input_hash
    output,         \* steps.output_json: which attempt computed it, from what
    stepLock,       \* the advisory lock of the step, and the lock of its row
    proc,           \* the call to step() each process is in
    now

row  == <<status, leaseOwner, leaseExpiresAt, attempt, inputHash, output>>
vars == <<cancelled, row, stepLock, proc, now>>

Statuses == {"absent", "running", "completed", "failed_retryable", "manual_review", "failed"}

\* cleared: begin saw that the run is not cancelled;  locked: it holds the lock
\* executing: inside fn;  failing: in the catch block;  retry: about to begin again
\* returned: step() has returned a checkpoint
PCs == {"idle", "cleared", "locked", "executing", "failing", "retry", "returned"}

NoOutput == [attempt |-> 0, hash |-> None]
Outputs  == [attempt: Nat, hash: Hashes \cup {None}]
NoCall   == [pc |-> "idle", step |-> None, owner |-> None, hash |-> None, attempt |-> 0,
             left |-> 0, sawRow |-> FALSE, output |-> NoOutput]

Init ==
    /\ cancelled = FALSE
    /\ status = [s \in Steps |-> "absent"]
    /\ leaseOwner = [s \in Steps |-> None]
    /\ leaseExpiresAt = [s \in Steps |-> NoTime]
    /\ attempt = [s \in Steps |-> 0]
    /\ inputHash = [s \in Steps |-> None]
    /\ output = [s \in Steps |-> NoOutput]
    /\ stepLock = [s \in Steps |-> None]
    /\ proc = [p \in Procs |-> NoCall]
    /\ now = 0

LeaseLive(s) == leaseOwner[s] # None /\ leaseExpiresAt[s] # NoTime /\ leaseExpiresAt[s] > now

Unused == {w \in Owners : /\ \A s \in Steps : leaseOwner[s] # w
                          /\ \A p \in Procs : proc[p].owner # w}
FreshOwner == CHOOSE w \in Unused : TRUE

Quit(p) == proc' = [proc EXCEPT ![p] = NoCall]
Unlock(s) == stepLock' = [stepLock EXCEPT ![s] = None]

-----------------------------------------------------------------------------
(* POST /runs/:runId/steps/begin                                           *)

\* A new invocation calls step(); its lease owner is the one the run's begin or
\* claim drew for it.  The run's status is read first.
Call(p, s, h) ==
    /\ proc[p].pc = "idle" /\ Unused # {} /\ ~cancelled
    /\ attempt[s] < MaxAttempt
    /\ proc' = [proc EXCEPT ![p] = [NoCall EXCEPT !.pc = "cleared", !.step = s, !.hash = h,
                                                  !.owner = FreshOwner, !.left = Retries]]
    /\ UNCHANGED <<cancelled, row, stepLock, now>>

\* The retry loop of step() begins again under the same owner.
CallAgain(p) ==
    /\ proc[p].pc = "retry" /\ ~cancelled
    /\ proc' = [proc EXCEPT ![p].pc = "cleared"]
    /\ UNCHANGED <<cancelled, row, stepLock, now>>

CallCancelled(p) ==
    /\ proc[p].pc = "retry" /\ cancelled
    /\ Quit(p)
    /\ UNCHANGED <<cancelled, row, stepLock, now>>

\* Fault: no advisory lock.
BeginUnlocked(p) ==
    LET s == proc[p].step IN
    /\ proc[p].pc = "cleared"
    /\ stepLock' = [stepLock EXCEPT ![s] = p]
    /\ proc' = [proc EXCEPT ![p] = [@ EXCEPT !.pc = "locked", !.sawRow = (status[s] # "absent")]]
    /\ UNCHANGED <<cancelled, row, now>>

\* pg_advisory_xact_lock, then select .. for update
BeginLock(p) ==
    LET s == proc[p].step IN
    /\ proc[p].pc = "cleared" /\ stepLock[s] = None
    /\ stepLock' = [stepLock EXCEPT ![s] = p]
    /\ proc' = [proc EXCEPT ![p] = [@ EXCEPT !.pc = "locked", !.sawRow = (status[s] # "absent")]]
    /\ UNCHANGED <<cancelled, row, now>>

\* Faults: the input is not compared; a completed step is not recognised.
AnyInput(p)    == FALSE
NotRecorded(p) == FALSE

Mismatch(p) == proc[p].sawRow /\ inputHash[proc[p].step] # proc[p].hash
Recorded(p) == proc[p].sawRow /\ status[proc[p].step] = "completed"
TakenBy(p)  == /\ proc[p].sawRow /\ LeaseLive(proc[p].step)
               /\ leaseOwner[proc[p].step] # proc[p].owner

\* input_mismatch or locked: step() throws.
BeginRefuse(p) ==
    /\ proc[p].pc = "locked"
    /\ Mismatch(p) \/ (~Recorded(p) /\ TakenBy(p))
    /\ Unlock(proc[p].step) /\ Quit(p)
    /\ UNCHANGED <<cancelled, row, now>>

\* return: the checkpoint is served.
BeginReturn(p) ==
    /\ proc[p].pc = "locked"
    /\ ~Mismatch(p) /\ Recorded(p)
    /\ Unlock(proc[p].step)
    /\ proc' = [proc EXCEPT ![p] = [@ EXCEPT !.pc = "returned", !.output = output[proc[p].step]]]
    /\ UNCHANGED <<cancelled, row, now>>

\* execute: the upsert starts or restarts the step.
BeginExecute(p) ==
    LET s == proc[p].step IN
    /\ proc[p].pc = "locked"
    /\ ~Mismatch(p) /\ ~Recorded(p) /\ ~TakenBy(p)
    /\ status' = [status EXCEPT ![s] = "running"]
    /\ leaseOwner' = [leaseOwner EXCEPT ![s] = proc[p].owner]
    /\ leaseExpiresAt' = [leaseExpiresAt EXCEPT ![s] = now + Lease]
    /\ attempt' = [attempt EXCEPT ![s] = @ + 1]
    /\ inputHash' = [inputHash EXCEPT ![s] = proc[p].hash]
    /\ Unlock(s)
    /\ proc' = [proc EXCEPT ![p] = [@ EXCEPT !.pc = "executing", !.attempt = attempt[s] + 1]]
    /\ UNCHANGED <<cancelled, output, now>>

-----------------------------------------------------------------------------
(* POST /runs/:runId/steps/:stepId/complete and .../fail.  Both name the   *)
(* lease; the update waits for the lock of the row.                        *)

Release(s, st) == /\ status' = [status EXCEPT ![s] = st]
                  /\ leaseOwner' = [leaseOwner EXCEPT ![s] = None]
                  /\ leaseExpiresAt' = [leaseExpiresAt EXCEPT ![s] = NoTime]
\* Fault: the completion is not fenced by the lease.
Unfenced(p) == TRUE

Owns(p) == leaseOwner[proc[p].step] = proc[p].owner

StepComplete(p) ==
    LET s == proc[p].step IN
    /\ stepLock[s] = None /\ Owns(p)
    /\ Release(s, "completed")
    /\ output' = [output EXCEPT ![s] = [attempt |-> proc[p].attempt, hash |-> proc[p].hash]]
    /\ UNCHANGED <<cancelled, attempt, inputHash, stepLock, now>>

Complete(p) == proc[p].pc = "executing" /\ StepComplete(p) /\ Quit(p)

\* The completion is recorded and its acknowledgement lost.
CompleteLost(p) == /\ proc[p].pc = "executing" /\ StepComplete(p)
                   /\ proc' = [proc EXCEPT ![p].pc = "failing"]

\* fn throws or times out, or the completion is refused (409) or lost.
Throw(p) ==
    /\ proc[p].pc = "executing"
    /\ proc' = [proc EXCEPT ![p].pc = "failing"]
    /\ UNCHANGED <<cancelled, row, stepLock, now>>

\* statusForResumeDecision
FailedStatus(retryable, decision) ==
    IF retryable \/ decision = "auto_retry" THEN "failed_retryable"
    ELSE IF decision = "manual_review" THEN "manual_review" ELSE "failed"

\* The decision that step() sends with its report, which the server goes by.
ReportedDecision(p) == IF proc[p].left > 0 THEN "auto_retry" ELSE Decision[proc[p].step]

\* What step() does after its failure report, whatever became of the report.
AfterFail(p) ==
    IF proc[p].left > 0
    THEN proc' = [proc EXCEPT ![p] = [@ EXCEPT !.pc = "retry", !.left = proc[p].left - 1]]
    ELSE Quit(p)

Fail(p) ==
    LET s == proc[p].step IN
    /\ proc[p].pc = "failing"
    /\ stepLock[s] = None /\ Owns(p)
    /\ Release(s, FailedStatus(proc[p].left > 0, ReportedDecision(p)))
    /\ AfterFail(p)
    /\ UNCHANGED <<cancelled, attempt, inputHash, output, stepLock, now>>

\* 409 for a lost lease, or the report is lost: swallowed by step().
FailSwallowed(p) ==
    /\ proc[p].pc = "failing"
    /\ AfterFail(p)
    /\ UNCHANGED <<cancelled, row, stepLock, now>>

\* The workflow goes on from a checkpoint, or the process dies.  A request that
\* holds the lock is the server's and ends on its own.
Leave(p) ==
    /\ proc[p].pc \notin {"idle", "locked"}
    /\ Quit(p)
    /\ UNCHANGED <<cancelled, row, stepLock, now>>

\* POST /runs/:runId/cancel, or a deadline.
Cancel ==
    /\ ~cancelled /\ cancelled' = TRUE
    /\ UNCHANGED <<row, stepLock, proc, now>>

Advance ==
    /\ now < MaxTime /\ now' = now + 1
    /\ UNCHANGED <<cancelled, row, stepLock, proc>>

Begin(p) == \/ \E s \in Steps, h \in Hashes : Call(p, s, h)
            \/ CallAgain(p) \/ CallCancelled(p)
            \/ BeginLock(p) \/ BeginRefuse(p) \/ BeginReturn(p) \/ BeginExecute(p)
Report(p) == Complete(p) \/ CompleteLost(p) \/ Throw(p) \/ Fail(p) \/ FailSwallowed(p)

Next == \/ \E p \in Procs : Begin(p) \/ Report(p) \/ Leave(p)
        \/ Cancel \/ Advance

Spec == Init /\ [][Next]_vars

-----------------------------------------------------------------------------
(* Properties.                                                             *)

\* Type invariant of the rows of steps, the locks and the calls.
TypeOK ==
    /\ cancelled \in BOOLEAN
    /\ status \in [Steps -> Statuses]
    /\ leaseOwner \in [Steps -> Owners \cup {None}]
    /\ leaseExpiresAt \in [Steps -> Nat \cup {NoTime}]
    /\ attempt \in [Steps -> Nat]
    /\ inputHash \in [Steps -> Hashes \cup {None}]
    /\ output \in [Steps -> Outputs]
    /\ stepLock \in [Steps -> Procs \cup {None}]
    /\ proc \in [Procs -> [pc: PCs, step: Steps \cup {None}, owner: Owners \cup {None},
                           hash: Hashes \cup {None}, attempt: Nat, left: Nat,
                           sawRow: BOOLEAN, output: Outputs]]
    /\ now \in Nat

\* The core checkpointing promise: nothing a retry, a zombie or a late failure
\* report does changes a completed step, its output or its attempt.
CompletedStepIsFinal ==
    [][\A s \in Steps : status[s] = "completed" =>
          /\ status'[s] = "completed" /\ output'[s] = output[s]
          /\ attempt'[s] = attempt[s] /\ leaseOwner'[s] = None]_vars

\* The recorded output is the one of the last execution that was granted: a
\* worker whose step was taken over cannot record its stale result.
OutputIsFromLastAttempt ==
    \A s \in Steps : status[s] = "completed" =>
        output[s] = [attempt |-> attempt[s], hash |-> inputHash[s]]

\* A checkpoint is served only to a call with the input it was computed from,
\* and no execution runs on another input than the row's.
InputsAgree ==
    \A p \in Procs :
        /\ proc[p].pc = "returned" => proc[p].output.hash = proc[p].hash
        /\ proc[p].pc = "executing" => inputHash[proc[p].step] = proc[p].hash

\* Who holds the live lease of each step.
Holder == [s \in Steps |-> IF LeaseLive(s) THEN leaseOwner[s] ELSE None]
Lock == INSTANCE LeaseLock WITH Runs <- Steps, holder <- Holder
\* At most one worker executes a step under a live lease: the leases of steps
\* are locks that are never handed over while they are held, also when two
\* calls race to insert the row.
StepLeaseIsALock == Lock!Spec

\* The advisory lock of a step is held by the request that is deciding on it.
LockHeldByDecider ==
    \A s \in Steps, p \in Procs : stepLock[s] = p <=> (proc[p].pc = "locked" /\ proc[p].step = s)

-----------------------------------------------------------------------------
(* What the documentation says and the code does not do.                   *)

\* app.ts: "Cancellation is enforced at step boundaries: an in-flight worker
\* discovers it here and unwinds instead of starting new work."
NoStartAfterCancel ==
    [][\A s \in Steps : cancelled => attempt'[s] = attempt[s]]_vars
=============================================================================
