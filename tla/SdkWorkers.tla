----------------------------- MODULE SdkWorkers -----------------------------
(***************************************************************************)
(* The lifecycle of RunLifecycle driven by the SDK of packages/sdk: worker *)
(* loops (tide.work), functions and webhook handlers (tide.run) and        *)
(* sessions (tide.runs.attach).  Processes crash, requests and responses   *)
(* get lost: a request that throws has been handled or has not.            *)
(***************************************************************************)
EXTENDS RunLifecycle

CONSTANT Procs      \* the processes that run SDK code

VARIABLE sess       \* what each process is doing, and with which lease

svars == <<vars, sess>>

\* fetched: run() has read the run and is about to begin it
\* working: inside the workflow function;  session: holds a RunSession
\* failing: in the catch block of execute, about to POST fail
PCs == {"idle", "fetched", "working", "session", "failing"}
NoSession == [pc |-> "idle", run |-> None, owner |-> None, attempt |-> 0]

\* A process is somewhere in its code, with a run, a lease owner and an attempt.
STypeOK == sess \in [Procs -> [pc: PCs, run: Runs \cup {None},
                               owner: Owners \cup {None}, attempt: Nat]]

SInit == Init /\ sess = [p \in Procs |-> NoSession]

Become(p, s) == sess' = [sess EXCEPT ![p] = s]
Goto(p, pc)  == sess' = [sess EXCEPT ![p].pc = pc]
Quit(p)      == Become(p, NoSession)

\* The owner the server draws with randomUUID: no row and no process has it.
Unused == {w \in Owners : /\ \A r \in Runs : leaseOwner[r] # w
                          /\ \A p \in Procs : sess[p].owner # w}
\* Fault: every worker leases under one name.
OneOwner == CHOOSE w \in Owners : TRUE

\* Assumed of claims: work() passes no leaseOwner, which is its default.  Workers
\* that pass one name lease as OneOwner does.
FreshOwner == CHOOSE w \in Unused : TRUE

-----------------------------------------------------------------------------
(* The calls of the SDK.                                                   *)

\* One turn of work() with its default limit of one run, which is executed at
\* once.  Of a larger batch the loop executes one run after the other.
WorkClaim(p) ==
    /\ sess[p].pc = "idle" /\ Unused # {}
    /\ \E q \in Queues : Claim(FreshOwner, q, 1)
    /\ \E r \in Runs : /\ attempt'[r] # attempt[r]
                       /\ Become(p, [pc |-> "working", run |-> r, owner |-> FreshOwner,
                                     attempt |-> attempt'[r]])

\* The response to the claim is lost: request() throws and the loop ends with
\* the run claimed by nobody.
WorkClaimLost(p) ==
    /\ sess[p].pc = "idle" /\ Unused # {}
    /\ \E q \in Queues : Claim(FreshOwner, q, 1)
    /\ UNCHANGED sess

\* run() and attach() with a runId: GET the run; a completed one ends the call.
Fetch(p, r) ==
    /\ sess[p].pc = "idle"
    /\ status[r] \notin {"absent", "completed"}
    /\ Become(p, [NoSession EXCEPT !.pc = "fetched", !.run = r])
    /\ UNCHANGED vars

\* POST begin without a worker header: the server draws the lease owner.
BeginFetched(p, pc) ==
    /\ sess[p].pc = "fetched" /\ Unused # {}
    /\ Begin(sess[p].run, FreshOwner)
    /\ Become(p, [pc |-> pc, run |-> sess[p].run, owner |-> FreshOwner,
                  attempt |-> attempt'[sess[p].run]])

\* begin answers 200 with the row of a run that completed in the meantime, and
\* the SDK does not look at its status.
BeginCompleted(p, pc) ==
    /\ sess[p].pc = "fetched" /\ Unused # {}
    /\ status[sess[p].run] = "completed"
    /\ Become(p, [pc |-> pc, run |-> sess[p].run, owner |-> FreshOwner,
                  attempt |-> attempt[sess[p].run]])
    /\ UNCHANGED vars

\* begin answers 409 or 500, or is lost on its way: the call throws.
BeginThrows(p) ==
    /\ sess[p].pc = "fetched"
    /\ Quit(p) /\ UNCHANGED vars

\* The response of a begin that was granted is lost: nobody knows the owner.
BeginLost(p) ==
    /\ sess[p].pc = "fetched" /\ Unused # {}
    /\ Begin(sess[p].run, FreshOwner)
    /\ Quit(p)

CompleteHandled(r) == \/ Complete(r)
                      \/ status[r] = "cancelled" /\ UNCHANGED vars
FailHandled(r) == \/ Fail(r)
                  \/ /\ status[r] = "cancelled" \/ ~IndexAllows(r, job[r].queue, job[r].key)
                     /\ UNCHANGED vars

\* execute(): the workflow returned and the server acknowledged the completion.
ReportComplete(p) ==
    /\ sess[p].pc = "working"
    /\ CompleteHandled(sess[p].run)
    /\ Quit(p)

\* The completion was handled but its response was lost: the same try block
\* throws, and its catch reports a failure.
CompleteResponseLost(p) ==
    /\ sess[p].pc = "working"
    /\ CompleteHandled(sess[p].run)
    /\ Goto(p, "failing")

\* The workflow threw, or the completion never reached the server.
WorkflowThrows(p) ==
    /\ sess[p].pc = "working"
    /\ Goto(p, "failing") /\ UNCHANGED vars

\* A step, a gate or a heartbeat answered run_cancelled: nothing is reported.
SeesCancel(p) ==
    /\ sess[p].pc \in {"working", "session"} /\ status[sess[p].run] = "cancelled"
    /\ Quit(p) /\ UNCHANGED vars

\* The catch block reports the failure and swallows what the report throws.
ReportFail(p) ==
    /\ sess[p].pc = "failing"
    /\ FailHandled(sess[p].run)
    /\ Quit(p)
ReportFailLost(p) ==
    /\ sess[p].pc = "failing"
    /\ Quit(p) /\ UNCHANGED vars

\* RunSession: the heartbeat timer, and the explicit complete() and fail().
Beat(p) ==
    /\ sess[p].pc = "session"
    /\ Heartbeat(sess[p].run, sess[p].owner)
    /\ UNCHANGED sess
SessionEnds(p) ==
    /\ sess[p].pc = "session"
    /\ CompleteHandled(sess[p].run) \/ FailHandled(sess[p].run)
    /\ Quit(p)

\* The process dies, or a session is closed without a report.
Crash(p) ==
    /\ sess[p].pc # "idle"
    /\ Quit(p) /\ UNCHANGED vars

-----------------------------------------------------------------------------
WorkLoop(p) == WorkClaim(p) \/ WorkClaimLost(p)
RunCall(p)  == \/ \E r \in Runs : Fetch(p, r)
               \/ \E pc \in {"working", "session"} : BeginFetched(p, pc) \/ BeginCompleted(p, pc)
               \/ BeginThrows(p) \/ BeginLost(p)
Execute(p)  == \/ ReportComplete(p) \/ CompleteResponseLost(p) \/ WorkflowThrows(p)
               \/ SeesCancel(p) \/ ReportFail(p) \/ ReportFailLost(p)
Session(p)  == Beat(p) \/ SessionEnds(p)

\* Time passes while something waits for it; otherwise its passing is a stutter.
TimerPending == \E r \in Runs : \/ status[r] = "queued" /\ runAt[r] > now
                                \/ status[r] = "running" /\ leaseExpiresAt[r] >= now
Clock  == TimerPending /\ Advance

Server == (\E r \in Runs : Submit(r) \/ Cancel(r)) \/ Reconcile \/ TickAbort

SNext ==
    \/ Server /\ UNCHANGED sess
    \/ Clock /\ UNCHANGED sess
    \/ \E p \in Procs : WorkLoop(p) \/ RunCall(p) \/ Execute(p) \/ Session(p) \/ Crash(p)

SSpec == SInit /\ [][SNext]_svars

\* Worker loops only.  A loop keeps polling and a workflow function ends, by
\* returning, throwing or dying; the reconciler and the clock go on.
LoopNext ==
    \/ ((\E r \in Runs : Submit(r) \/ Cancel(r)) \/ Reconcile) /\ UNCHANGED sess
    \/ Clock /\ UNCHANGED sess
    \/ \E p \in Procs : WorkLoop(p) \/ Execute(p) \/ Crash(p)

LoopSpec ==
    /\ SInit /\ [][LoopNext]_svars
    /\ WF_svars(Reconcile /\ UNCHANGED sess) /\ WF_svars(Clock /\ UNCHANGED sess)
    /\ WF_svars(\E p \in Procs : WorkLoop(p))
    /\ \A p \in Procs : WF_svars(Execute(p) \/ Crash(p))

-----------------------------------------------------------------------------
(* Properties.                                                             *)

Holds(p) == sess[p].pc \in {"working", "session", "failing"}

\* The lease of the row belongs to the latest execution: a process that still
\* owns it is executing the attempt the row counts, not an earlier one.
LatestAttemptOwnsLease ==
    \A p \in Procs : (Holds(p) /\ leaseOwner[sess[p].run] = sess[p].owner)
                     => sess[p].attempt = attempt[sess[p].run]

\* A process that lost its lease to a later attempt never gets it back.
LostLeaseStaysLost ==
    [][\A p \in Procs : (/\ Holds(p) /\ sess'[p] = sess[p]
                         /\ leaseOwner[sess[p].run] # sess[p].owner)
                        => leaseOwner'[sess[p].run] # sess[p].owner]_svars

\* An enqueued job ends: completed, failed or cancelled for good, although
\* workers crash and responses get lost.
Settled(r) == status[r] \in {"completed", "failed", "cancelled"}
JobsSettle == \A r \in Runs : (status[r] # "absent") ~> []Settled(r)

-----------------------------------------------------------------------------
(* What the documentation says and the code does not do.                   *)

\* README.md: "step and run leases are mutually exclusive and fenced, zombie
\* workers cannot write back stale results".  complete and fail of a run do not
\* name the lease, so a zombie ends the run while its successor holds the lease.
WritesAreFenced ==
    [][\A p \in Procs :
          LET r == sess[p].run IN
          (Holds(p) /\ sess'[p] # sess[p] /\ status'[r] # status[r])
          => leaseOwner[r] \in {None, sess[p].owner}]_svars

\* docs/production.md: "completed / failed -- terminal".  The failure report
\* that follows a lost acknowledgement takes the run out of completed.
CompletedIsTerminal ==
    [][\A r \in Runs : status[r] = "completed" => status'[r] = "completed"]_svars

\* docs/production.md: "your webhook handler must tolerate redelivery
\* (begin-by-runId already makes this safe)".  A redelivered handler that read
\* the run before it completed executes it again.
StartsOnlyLeased ==
    [][\A p \in Procs : (~Holds(p) /\ sess'[p].pc \in {"working", "session"})
                        => leaseOwner'[sess'[p].run] = sess'[p].owner]_svars
=============================================================================
