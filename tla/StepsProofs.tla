----------------------------- MODULE StepsProofs -----------------------------
(***************************************************************************)
(* Theorems about Steps, for any number of steps, calls, owners, inputs    *)
(* and retries.                                                            *)
(***************************************************************************)
EXTENDS Steps, TLAPS

USE StepNone, StepNumbers, StepDecision

-----------------------------------------------------------------------------
(* The inductive invariant.                                                *)

\* A step has a lease owner exactly while it is running.
OwnedIffRunning == \A s \in Steps : status[s] = "running" <=> leaseOwner[s] # None

\* A call knows its step and has an owner of its own.
CallsAreOwned ==
    \A p \in Procs : /\ proc[p].pc # "idle" => proc[p].step \in Steps /\ proc[p].owner \in Owners
                     /\ \A q \in Procs \ {p} :
                            proc[p].owner # None => proc[q].owner # proc[p].owner

\* What a decider saw of the row is still so: the lock keeps the row.
DeciderSees ==
    \A p \in Procs : proc[p].pc = "locked" =>
        (proc[p].sawRow <=> status[proc[p].step] # "absent")

\* An execution that still owns its step is the attempt the row counts.
OwnerIsLatest ==
    \A p \in Procs : proc[p].pc = "executing" =>
        /\ status[proc[p].step] # "absent"
        /\ leaseOwner[proc[p].step] = proc[p].owner =>
               proc[p].attempt = attempt[proc[p].step]

IInv == /\ TypeOK /\ OwnedIffRunning /\ CallsAreOwned /\ LockHeldByDecider
        /\ DeciderSees /\ OwnerIsLatest /\ OutputIsFromLastAttempt /\ InputsAgree
-----------------------------------------------------------------------------
(* What a step does to the calls.                                          *)

CallType == [pc: PCs, step: Steps \cup {None}, owner: Owners \cup {None},
             hash: Hashes \cup {None}, attempt: Nat, left: Nat,
             sawRow: BOOLEAN, output: Outputs]

\* The owner a call draws is nobody's.
LEMMA FreshIsUnused ==
    ASSUME Unused # {}
    PROVE  /\ FreshOwner \in Owners
           /\ \A s \in Steps : leaseOwner[s] # FreshOwner
           /\ \A p \in Procs : proc[p].owner # FreshOwner
    BY DEF FreshOwner, Unused

\* No call is a call.
LEMMA NoCallType == NoCall \in CallType
    BY DEF NoCall, CallType, NoOutput, Outputs, PCs

\* Only the call of p changes, to a call.
OnlyCall(p) == proc' \in [Procs -> CallType] /\ \A q \in Procs \ {p} : proc'[q] = proc[q]

\* The call goes on under its owner, on its step and its input.
SameCall(p) == /\ OnlyCall(p) /\ proc'[p].step = proc[p].step
               /\ proc'[p].owner = proc[p].owner /\ proc'[p].hash = proc[p].hash

\* The call is over.
LEMMA QuitStep ==
    ASSUME TypeOK, NEW p \in Procs, Quit(p)
    PROVE  OnlyCall(p) /\ proc'[p] = NoCall
    BY NoCallType DEF Quit, TypeOK, CallType, OnlyCall

\* A call begins under an owner of its own.
LEMMA CallStep ==
    ASSUME TypeOK, NEW p \in Procs, NEW s \in Steps, NEW h \in Hashes, Call(p, s, h)
    PROVE  /\ OnlyCall(p) /\ proc'[p].pc = "cleared"
           /\ proc'[p].step = s /\ proc'[p].owner = FreshOwner
    BY FreshIsUnused, NoCallType DEF Call, TypeOK, CallType, OnlyCall, NoCall, PCs

\* The call goes on to another place.
LEMMA GotoStep ==
    ASSUME TypeOK, NEW p \in Procs, NEW pc \in PCs, proc' = [proc EXCEPT ![p].pc = pc]
    PROVE  SameCall(p) /\ proc'[p].pc = pc /\ proc'[p].output = proc[p].output
    BY SMTT(30) DEF TypeOK, CallType, OnlyCall, SameCall

\* The decider has the lock and has read the row.
LEMMA LockStep ==
    ASSUME TypeOK, NEW p \in Procs, BeginLock(p)
    PROVE  /\ SameCall(p) /\ proc'[p].pc = "locked"
           /\ proc'[p].sawRow = (status[proc[p].step] # "absent")
<1> DEFINE c == [proc[p] EXCEPT !.pc = "locked"]
           d == [c EXCEPT !.sawRow = (status[proc[p].step] # "absent")]
<1>0. proc \in [Procs -> CallType]
    BY DEF TypeOK, CallType
<1>1. /\ c \in CallType /\ c.pc = "locked" /\ c.step = proc[p].step
      /\ c.owner = proc[p].owner /\ c.hash = proc[p].hash
    BY <1>0 DEF CallType, PCs
<1>2. proc' = [proc EXCEPT ![p] = d]
    BY DEF BeginLock
<1>3. (status[proc[p].step] # "absent") \in BOOLEAN
    BY Zenon
<1> HIDE DEF c
<1>4. /\ d \in CallType /\ d.pc = "locked" /\ d.step = proc[p].step
      /\ d.owner = proc[p].owner /\ d.hash = proc[p].hash /\ d.sawRow = ((status[proc[p].step] # "absent"))
    BY <1>1, <1>3 DEF CallType
<1> HIDE DEF d
<1> QED BY <1>0, <1>2, <1>4 DEF OnlyCall, SameCall

\* The call has the checkpoint.
LEMMA ReturnStep ==
    ASSUME TypeOK, NEW p \in Procs, BeginReturn(p), proc[p].step \in Steps
    PROVE  /\ SameCall(p) /\ proc'[p].pc = "returned"
           /\ proc'[p].output = output[proc[p].step]
<1> DEFINE c == [proc[p] EXCEPT !.pc = "returned"]
           d == [c EXCEPT !.output = output[proc[p].step]]
<1>0. proc \in [Procs -> CallType]
    BY DEF TypeOK, CallType
<1>1. /\ c \in CallType /\ c.pc = "returned" /\ c.step = proc[p].step
      /\ c.owner = proc[p].owner /\ c.hash = proc[p].hash
    BY <1>0 DEF CallType, PCs
<1>2. proc' = [proc EXCEPT ![p] = d]
    BY DEF BeginReturn
<1>3. output[proc[p].step] \in Outputs
    BY DEF TypeOK
<1> HIDE DEF c
<1>4. /\ d \in CallType /\ d.pc = "returned" /\ d.step = proc[p].step
      /\ d.owner = proc[p].owner /\ d.hash = proc[p].hash /\ d.output = (output[proc[p].step])
    BY <1>1, <1>3 DEF CallType
<1> HIDE DEF d
<1> QED BY <1>0, <1>2, <1>4 DEF OnlyCall, SameCall

\* The call executes the next attempt.
LEMMA ExecuteStep ==
    ASSUME TypeOK, NEW p \in Procs, BeginExecute(p), proc[p].step \in Steps
    PROVE  /\ SameCall(p) /\ proc'[p].pc = "executing"
           /\ proc'[p].attempt = attempt[proc[p].step] + 1
<1> DEFINE c == [proc[p] EXCEPT !.pc = "executing"]
           d == [c EXCEPT !.attempt = attempt[proc[p].step] + 1]
<1>0. proc \in [Procs -> CallType]
    BY DEF TypeOK, CallType
<1>1. /\ c \in CallType /\ c.pc = "executing" /\ c.step = proc[p].step
      /\ c.owner = proc[p].owner /\ c.hash = proc[p].hash
    BY <1>0 DEF CallType, PCs
<1>2. proc' = [proc EXCEPT ![p] = d]
    BY DEF BeginExecute
<1>3. attempt[proc[p].step] + 1 \in Nat
    BY DEF TypeOK
<1> HIDE DEF c
<1>4. /\ d \in CallType /\ d.pc = "executing" /\ d.step = proc[p].step
      /\ d.owner = proc[p].owner /\ d.hash = proc[p].hash /\ d.attempt = (attempt[proc[p].step] + 1)
    BY <1>1, <1>3 DEF CallType
<1> HIDE DEF d
<1> QED BY <1>0, <1>2, <1>4 DEF OnlyCall, SameCall

\* The call is over or about to begin again.
LEMMA AfterFailStep ==
    ASSUME TypeOK, NEW p \in Procs, AfterFail(p)
    PROVE  /\ OnlyCall(p)
           /\ proc'[p] = NoCall \/ (SameCall(p) /\ proc'[p].pc = "retry")
<1>0. proc \in [Procs -> CallType]
    BY DEF TypeOK, CallType
<1>1. CASE proc[p].left > 0
  <2> DEFINE c == [proc[p] EXCEPT !.pc = "retry"]
             d == [c EXCEPT !.left = proc[p].left - 1]
  <2>1. /\ c \in CallType /\ c.pc = "retry" /\ c.step = proc[p].step
        /\ c.owner = proc[p].owner /\ c.hash = proc[p].hash
      BY <1>0 DEF CallType, PCs
  <2>2. proc' = [proc EXCEPT ![p] = d]
      BY <1>1 DEF AfterFail
  <2>3. proc[p].left - 1 \in Nat
      BY <1>0, <1>1 DEF CallType
  <2> HIDE DEF c
  <2>4. /\ d \in CallType /\ d.pc = "retry" /\ d.step = proc[p].step
        /\ d.owner = proc[p].owner /\ d.hash = proc[p].hash
      BY <2>1, <2>3 DEF CallType
  <2> HIDE DEF d
  <2> QED BY <1>0, <2>2, <2>4 DEF OnlyCall, SameCall
<1>2. CASE ~(proc[p].left > 0)
    BY <1>2, QuitStep DEF AfterFail
<1> QED BY <1>1, <1>2
-----------------------------------------------------------------------------
(* The five kinds of step a call can make.                                 *)

\* The call of p ends, goes on, or begins under an owner that is nobody's.
Ended(p)  == OnlyCall(p) /\ proc'[p] = NoCall
GoesOn(p) == SameCall(p) /\ proc[p].pc # "idle" /\ proc'[p].pc # "idle"
Begun(p)  == /\ OnlyCall(p) /\ proc'[p].pc = "cleared" /\ proc'[p].step \in Steps
             /\ proc'[p].owner \in Owners
             /\ \A s \in Steps : leaseOwner[s] # proc'[p].owner
             /\ \A q \in Procs : proc[q].owner # proc'[p].owner

\* The client moves; no row and no lock changes.
Quiet(p) == /\ UNCHANGED <<row, stepLock>> /\ proc[p].pc # "locked"
            /\ \/ Ended(p)
               \/ (GoesOn(p) /\ proc'[p].pc \in {"cleared", "failing", "retry"})
               \/ Begun(p)

\* The begin handler takes the lock and reads the row.
Locks(p) == /\ GoesOn(p) /\ UNCHANGED row
            /\ proc[p].pc = "cleared" /\ proc'[p].pc = "locked"
            /\ stepLock[proc[p].step] = None
            /\ stepLock' = [stepLock EXCEPT ![proc[p].step] = p]
            /\ proc'[p].sawRow = (status[proc[p].step] # "absent")

\* It refuses, or returns the checkpoint.
Unlocks(p) == /\ proc[p].pc = "locked" /\ UNCHANGED row /\ Unlock(proc[p].step)
              /\ \/ Ended(p)
                 \/ /\ GoesOn(p) /\ proc'[p].pc = "returned" /\ ~Mismatch(p) /\ Recorded(p)
                    /\ proc'[p].output = output[proc[p].step]

\* It starts the step.
Starts(p) == LET s == proc[p].step IN
             /\ proc[p].pc = "locked" /\ Unlock(s) /\ GoesOn(p)
             /\ ~Mismatch(p) /\ ~Recorded(p) /\ ~TakenBy(p)
             /\ proc'[p].pc = "executing" /\ proc'[p].attempt = attempt[s] + 1
             /\ status' = [status EXCEPT ![s] = "running"]
             /\ leaseOwner' = [leaseOwner EXCEPT ![s] = proc[p].owner]
             /\ leaseExpiresAt' = [leaseExpiresAt EXCEPT ![s] = now + Lease]
             /\ attempt' = [attempt EXCEPT ![s] = @ + 1]
             /\ inputHash' = [inputHash EXCEPT ![s] = proc[p].hash]
             /\ output' = output /\ now' = now

\* A report of the owner ends the execution.
Reports(p) == LET s == proc[p].step IN
    /\ proc[p].pc \in {"executing", "failing"} /\ stepLock[s] = None /\ Owns(p)
    /\ UNCHANGED <<attempt, inputHash, stepLock, now>>
    /\ leaseOwner' = [leaseOwner EXCEPT ![s] = None]
    /\ leaseExpiresAt' = [leaseExpiresAt EXCEPT ![s] = NoTime]
    /\ Ended(p) \/ (GoesOn(p) /\ proc'[p].pc \in {"failing", "retry"})
    /\ \/ /\ status' = [status EXCEPT ![s] = "completed"] /\ proc[p].pc = "executing"
          /\ output' = [output EXCEPT ![s] = [attempt |-> proc[p].attempt,
                                              hash |-> proc[p].hash]]
       \/ /\ \E st \in {"failed_retryable", "manual_review", "failed"} :
                status' = [status EXCEPT ![s] = st]
          /\ output' = output

CallMoves == \E p \in Procs : Quiet(p) \/ Locks(p) \/ Unlocks(p) \/ Starts(p) \/ Reports(p)

\* Every step is one of these, or moves the clock or the run only.
LEMMA StepKinds ==
    ASSUME TypeOK, CallsAreOwned, [Next]_vars
    PROVE  /\ CallMoves \/ UNCHANGED <<row, stepLock, proc>>
           /\ now' \in Nat /\ now' >= now /\ cancelled' \in BOOLEAN
<1>1. ASSUME NEW p \in Procs, Begin(p)
      PROVE  Quiet(p) \/ Locks(p) \/ Unlocks(p) \/ Starts(p)
  <2>1. ASSUME NEW s \in Steps, NEW h \in Hashes, Call(p, s, h) PROVE Quiet(p)
    <3>1. Begun(p)
        BY <2>1, CallStep, FreshIsUnused DEF Call, Begun
    <3> QED BY <2>1, <3>1 DEF Call, Quiet
  <2>2. ASSUME CallAgain(p) PROVE Quiet(p)
    <3>1. GoesOn(p) /\ proc'[p].pc = "cleared"
        BY <2>2, GotoStep DEF CallAgain, GoesOn, PCs
    <3> QED BY <2>2, <3>1 DEF CallAgain, Quiet
  <2>3. ASSUME CallCancelled(p) PROVE Quiet(p)
      BY <2>3, QuitStep DEF CallCancelled, Quiet, Ended
  <2>4. ASSUME BeginLock(p) PROVE Locks(p)
      BY <2>4, LockStep DEF BeginLock, Locks, GoesOn
  <2>5. ASSUME BeginRefuse(p) PROVE Unlocks(p)
      BY <2>5, QuitStep DEF BeginRefuse, Unlocks, Ended
  <2>6. ASSUME BeginReturn(p) PROVE Unlocks(p)
      BY <2>6, ReturnStep DEF BeginReturn, Unlocks, GoesOn, CallsAreOwned
  <2>7. ASSUME BeginExecute(p) PROVE Starts(p)
    <3>1. proc[p].step \in Steps
        BY <2>7 DEF BeginExecute, CallsAreOwned
    <3>2. GoesOn(p) /\ proc'[p].pc = "executing" /\ proc'[p].attempt = attempt[proc[p].step] + 1
        BY <2>7, <3>1, ExecuteStep DEF BeginExecute, GoesOn
    <3> HIDE DEF GoesOn
    <3> QED BY <2>7, <3>2, Zenon DEF BeginExecute, Starts
  <2> QED BY <1>1, <2>1, <2>2, <2>3, <2>4, <2>5, <2>6, <2>7 DEF Begin
<1>2. ASSUME NEW p \in Procs, Report(p) PROVE Quiet(p) \/ Reports(p)
  <2>1. ASSUME Complete(p) PROVE Reports(p)
      BY <2>1, QuitStep DEF Complete, StepComplete, Release, Reports, Ended
  <2>2. ASSUME CompleteLost(p) PROVE Reports(p)
    <3>1. GoesOn(p) /\ proc'[p].pc = "failing"
        BY <2>2, GotoStep DEF CompleteLost, GoesOn, PCs
    <3> QED BY <2>2, <3>1 DEF CompleteLost, StepComplete, Release, Reports
  <2>3. ASSUME Throw(p) PROVE Quiet(p)
    <3>1. GoesOn(p) /\ proc'[p].pc = "failing"
        BY <2>3, GotoStep DEF Throw, GoesOn, PCs
    <3> QED BY <2>3, <3>1 DEF Throw, Quiet
  <2>4. ASSUME proc[p].pc = "failing", AfterFail(p)
        PROVE  Ended(p) \/ (GoesOn(p) /\ proc'[p].pc = "retry")
      BY <2>4, AfterFailStep DEF Ended, GoesOn
  <2>5. ASSUME Fail(p) PROVE Reports(p)
      BY <2>4, <2>5 DEF Fail, Release, FailedStatus, Reports
  <2>6. ASSUME FailSwallowed(p) PROVE Quiet(p)
      BY <2>4, <2>6 DEF FailSwallowed, Quiet
  <2> QED BY <1>2, <2>1, <2>2, <2>3, <2>5, <2>6 DEF Report
<1>3. ASSUME NEW p \in Procs, Leave(p) PROVE Quiet(p)
    BY <1>3, QuitStep DEF Leave, Quiet, Ended
<1>4. ASSUME Cancel \/ Advance \/ UNCHANGED vars PROVE UNCHANGED <<row, stepLock, proc>>
    BY <1>4 DEF Cancel, Advance, vars
<1>5. CallMoves \/ UNCHANGED <<row, stepLock, proc>>
    BY <1>1, <1>2, <1>3, <1>4 DEF Next, CallMoves
<1>6. /\ now' = now \/ now' = now + 1
      /\ cancelled' = cancelled \/ cancelled' = TRUE
  <2>1. ASSUME NEW p \in Procs, Begin(p) \/ Report(p) \/ Leave(p)
        PROVE  now' = now /\ cancelled' = cancelled
      BY <2>1 DEF Begin, Call, CallAgain, CallCancelled, BeginLock, BeginRefuse, BeginReturn,
                  BeginExecute, Report, Complete, CompleteLost, StepComplete, Throw, Fail,
                  FailSwallowed, Leave
  <2> QED BY <2>1 DEF Next, Cancel, Advance, vars
<1>7. now' \in Nat /\ now' >= now
    BY <1>6 DEF TypeOK
<1>8. cancelled' \in BOOLEAN
    BY <1>6 DEF TypeOK
<1> QED BY <1>5, <1>7, <1>8
-----------------------------------------------------------------------------
(* The invariant is inductive: one lemma for each kind of step.            *)

\* What a call is after it ended, and which rows of proc change.
LEMMA CallAfter ==
    ASSUME TypeOK, CallsAreOwned, NEW p \in Procs, Ended(p) \/ GoesOn(p) \/ Begun(p)
    PROVE  /\ proc' \in [Procs -> CallType] /\ \A q \in Procs \ {p} : proc'[q] = proc[q]
           /\ Ended(p) => proc'[p].pc = "idle" /\ proc'[p].owner = None
           /\ CallsAreOwned'
<1>1. proc' \in [Procs -> CallType] /\ \A q \in Procs \ {p} : proc'[q] = proc[q]
    BY DEF Ended, GoesOn, Begun, SameCall, OnlyCall
<1>2. Ended(p) => proc'[p].pc = "idle" /\ proc'[p].owner = None
    BY DEF Ended, NoCall
<1>3. \/ proc'[p].pc = "idle" /\ proc'[p].owner = None
      \/ /\ proc[p].pc # "idle" /\ proc'[p].step = proc[p].step
         /\ proc'[p].owner = proc[p].owner
      \/ /\ proc'[p].step \in Steps /\ proc'[p].owner \in Owners
         /\ \A q \in Procs : proc[q].owner # proc'[p].owner
    BY <1>2 DEF GoesOn, Begun, SameCall
<1>4. CallsAreOwned'
    BY <1>1, <1>3 DEF CallsAreOwned
<1> QED BY <1>1, <1>2, <1>4

\* The initial state.
LEMMA InvInit == Init => IInv
<1> SUFFICES ASSUME Init PROVE IInv
    OBVIOUS
<1>1. \A p \in Procs : proc[p] = NoCall /\ NoCall.pc = "idle" /\ NoCall.owner = None
    BY DEF Init, NoCall
<1>2. TypeOK
    BY NoCallType DEF Init, TypeOK, CallType, Statuses, NoTime, NoOutput, Outputs
<1>3. OwnedIffRunning /\ OutputIsFromLastAttempt
    BY DEF Init, OwnedIffRunning, OutputIsFromLastAttempt
<1>4. CallsAreOwned /\ DeciderSees /\ OwnerIsLatest /\ InputsAgree
    BY <1>1 DEF CallsAreOwned, DeciderSees, OwnerIsLatest, InputsAgree
<1>5. LockHeldByDecider
    BY <1>1 DEF Init, LockHeldByDecider
<1> QED BY <1>2, <1>3, <1>4, <1>5 DEF IInv

\* The client moves.
LEMMA QuietKeeps ==
    ASSUME IInv, now' \in Nat, cancelled' \in BOOLEAN, NEW p \in Procs, Quiet(p)
    PROVE  IInv'
<1>1. /\ proc' \in [Procs -> CallType] /\ \A q \in Procs \ {p} : proc'[q] = proc[q]
      /\ CallsAreOwned'
    BY CallAfter DEF IInv, Quiet
<1>2. /\ proc[p].pc # "locked" /\ proc'[p].pc \in {"idle", "cleared", "failing", "retry"}
      /\ UNCHANGED <<row, stepLock>>
    BY CallAfter DEF Quiet, IInv, Begun
<1>3. TypeOK'
    BY <1>1, <1>2 DEF IInv, TypeOK, CallType, row
<1>4. (OwnedIffRunning /\ OutputIsFromLastAttempt)'
    BY <1>2 DEF IInv, OwnedIffRunning, OutputIsFromLastAttempt, row
<1>5. LockHeldByDecider'
    BY <1>1, <1>2 DEF IInv, LockHeldByDecider
<1>6. (DeciderSees /\ OwnerIsLatest /\ InputsAgree)'
    BY <1>1, <1>2 DEF IInv, DeciderSees, OwnerIsLatest, InputsAgree, row
<1> QED BY <1>1, <1>3, <1>4, <1>5, <1>6 DEF IInv

\* The begin handler takes the lock.
LEMMA LocksKeep ==
    ASSUME IInv, now' \in Nat, cancelled' \in BOOLEAN, NEW p \in Procs, Locks(p)
    PROVE  IInv'
<1> DEFINE s == proc[p].step
<1>1. /\ proc' \in [Procs -> CallType] /\ \A q \in Procs \ {p} : proc'[q] = proc[q]
      /\ CallsAreOwned'
    BY CallAfter DEF IInv, Locks
<1>2. /\ s \in Steps /\ proc'[p].step = s /\ proc[p].pc = "cleared" /\ proc'[p].pc = "locked"
      /\ proc'[p].sawRow = (status[s] # "absent")
      /\ stepLock[s] = None /\ stepLock' = [stepLock EXCEPT ![s] = p]
      /\ UNCHANGED row
    BY DEF IInv, CallsAreOwned, Locks, GoesOn, SameCall
<1> HIDE DEF s
<1>3. TypeOK'
    BY <1>1, <1>2 DEF IInv, TypeOK, CallType, row
<1>4. (OwnedIffRunning /\ OutputIsFromLastAttempt)'
    BY <1>2 DEF IInv, OwnedIffRunning, OutputIsFromLastAttempt, row
<1>5. LockHeldByDecider'
    BY <1>1, <1>2 DEF IInv, LockHeldByDecider, TypeOK
<1>6. DeciderSees'
  <2>1. ASSUME NEW q \in Procs \ {p}, proc'[q].pc = "locked"
        PROVE  proc'[q].sawRow <=> status'[proc'[q].step] # "absent"
      BY <1>1, <1>2, <2>1 DEF IInv, DeciderSees, row
  <2>2. proc'[p].sawRow <=> status'[proc'[p].step] # "absent"
      BY <1>2, Zenon DEF row
  <2> QED BY <2>1, <2>2, Zenon DEF DeciderSees
<1>7. (OwnerIsLatest /\ InputsAgree)'
    BY <1>1, <1>2 DEF IInv, OwnerIsLatest, InputsAgree, row
<1> QED BY <1>1, <1>3, <1>4, <1>5, <1>6, <1>7 DEF IInv

\* The begin handler refuses the call, or serves the checkpoint.
LEMMA UnlocksKeep ==
    ASSUME IInv, now' \in Nat, cancelled' \in BOOLEAN, NEW p \in Procs, Unlocks(p)
    PROVE  IInv'
<1> DEFINE s == proc[p].step
<1>1. /\ proc' \in [Procs -> CallType] /\ \A q \in Procs \ {p} : proc'[q] = proc[q]
      /\ CallsAreOwned'
    BY CallAfter DEF IInv, Unlocks
<1>2. /\ s \in Steps /\ proc[p].pc = "locked" /\ stepLock' = [stepLock EXCEPT ![s] = None]
      /\ UNCHANGED row
    BY DEF IInv, CallsAreOwned, Unlocks, Unlock
<1>3. \/ proc'[p].pc = "idle"
      \/ /\ proc'[p].pc = "returned" /\ proc'[p].hash = proc[p].hash
         /\ proc'[p].output = output[s] /\ inputHash[s] = proc[p].hash /\ status[s] = "completed"
    BY CallAfter DEF Unlocks, IInv, GoesOn, SameCall, Mismatch, Recorded
<1> HIDE DEF s
<1>4. TypeOK'
    BY <1>1, <1>2 DEF IInv, TypeOK, CallType, row
<1>5. (OwnedIffRunning /\ OutputIsFromLastAttempt)'
    BY <1>2 DEF IInv, OwnedIffRunning, OutputIsFromLastAttempt, row
<1>6. LockHeldByDecider'
  <2>1. \A q \in Procs \ {p} : ~(proc[q].pc = "locked" /\ proc[q].step = s)
      BY <1>2 DEF IInv, LockHeldByDecider, s
  <2> QED BY <1>1, <1>2, <1>3, <2>1 DEF IInv, LockHeldByDecider, TypeOK, s
<1>7. (DeciderSees /\ OwnerIsLatest)'
    BY <1>1, <1>2, <1>3 DEF IInv, DeciderSees, OwnerIsLatest, row
<1>8. InputsAgree'
  <2> USE DEF IInv
  <2>1. status[s] = "completed" => output[s].hash = inputHash[s]
    <3>1. status[s] = "completed" => output[s] = [attempt |-> attempt[s], hash |-> inputHash[s]]
        BY <1>2, Zenon DEF OutputIsFromLastAttempt
    <3> QED BY <3>1
  <2>2. ASSUME NEW q \in Procs \ {p}
        PROVE  /\ proc'[q].pc = "returned" => proc'[q].output.hash = proc'[q].hash
               /\ proc'[q].pc = "executing" => inputHash'[proc'[q].step] = proc'[q].hash
      BY <1>1, <1>2 DEF IInv, InputsAgree, row
  <2>3. /\ proc'[p].pc = "returned" => proc'[p].output.hash = proc'[p].hash
        /\ proc'[p].pc # "executing"
      BY <1>3, <2>1
  <2> QED BY <2>2, <2>3 DEF InputsAgree
<1> QED BY <1>1, <1>4, <1>5, <1>6, <1>7, <1>8 DEF IInv

\* The begin handler starts the step.  Another call may still execute it, under
\* a lease that ran out: the row exists then, so both have the same input.
LEMMA StartsKeep ==
    ASSUME IInv, now' \in Nat, cancelled' \in BOOLEAN, NEW p \in Procs, Starts(p)
    PROVE  IInv'
<1> DEFINE s == proc[p].step
<1>1. /\ proc' \in [Procs -> CallType] /\ \A q \in Procs \ {p} : proc'[q] = proc[q]
      /\ CallsAreOwned'
    BY CallAfter DEF IInv, Starts
<1>2. /\ s \in Steps /\ proc[p].owner \in Owners
      /\ proc[p].pc = "locked" /\ stepLock' = [stepLock EXCEPT ![s] = None]
    BY DEF IInv, CallsAreOwned, Starts, Unlock
<1>3. /\ proc'[p].pc = "executing" /\ proc'[p].step = s /\ proc'[p].owner = proc[p].owner
      /\ proc'[p].hash = proc[p].hash /\ proc'[p].attempt = attempt[s] + 1
    BY DEF Starts, GoesOn, SameCall
<1>4. /\ status' = [status EXCEPT ![s] = "running"]
      /\ leaseOwner' = [leaseOwner EXCEPT ![s] = proc[p].owner]
      /\ leaseExpiresAt' = [leaseExpiresAt EXCEPT ![s] = now + Lease]
      /\ attempt' = [attempt EXCEPT ![s] = attempt[s] + 1]
      /\ inputHash' = [inputHash EXCEPT ![s] = proc[p].hash]
      /\ output' = output
    BY DEF Starts
<1>5. status[s] # "absent" => inputHash[s] = proc[p].hash
    BY <1>2 DEF IInv, DeciderSees, Starts, Mismatch, s
<1>6. \A q \in Procs \ {p} : ~(proc[q].pc = "locked" /\ proc[q].step = s)
    BY <1>2 DEF IInv, LockHeldByDecider, s
<1> USE DEF IInv
<1>7. TypeOK'
  <2>1. proc[p].hash \in Hashes \cup {None}
      BY DEF TypeOK
  <2>2. now + Lease \in Nat /\ (s \in Steps => attempt[s] + 1 \in Nat)
      BY DEF TypeOK
  <2> HIDE DEF s
  <2> QED BY <1>1, <1>2, <1>4, <2>1, <2>2 DEF TypeOK, CallType, Statuses
<1>8. OwnedIffRunning'
    BY <1>2, <1>4 DEF OwnedIffRunning, TypeOK
<1>9. OutputIsFromLastAttempt'
    BY <1>2, <1>4 DEF OutputIsFromLastAttempt, TypeOK
<1>10. LockHeldByDecider'
    BY <1>1, <1>2, <1>3, <1>6 DEF LockHeldByDecider, TypeOK
<1>11. DeciderSees'
    BY <1>1, <1>2, <1>3, <1>4, <1>6 DEF DeciderSees, TypeOK, CallsAreOwned
<1>12. OwnerIsLatest'
  <2>1. \A q \in Procs \ {p} : proc[q].owner # proc[p].owner
      BY <1>2 DEF CallsAreOwned
  <2> QED BY <1>1, <1>2, <1>3, <1>4, <2>1 DEF OwnerIsLatest, TypeOK, CallsAreOwned
<1>13. InputsAgree'
    BY <1>1, <1>2, <1>3, <1>4, <1>5 DEF InputsAgree, OwnerIsLatest, TypeOK, CallsAreOwned
<1> QED BY <1>1, <1>7, <1>8, <1>9, <1>10, <1>11, <1>12, <1>13

\* The owner of a step reports its end.  It owns the step, so its attempt is the
\* latest one and its input the one of the row.
LEMMA ReportsKeep ==
    ASSUME IInv, now' \in Nat, cancelled' \in BOOLEAN, NEW p \in Procs, Reports(p)
    PROVE  IInv'
<1> DEFINE s == proc[p].step
           st == status'[s]
<1>1. /\ proc' \in [Procs -> CallType] /\ \A q \in Procs \ {p} : proc'[q] = proc[q]
      /\ CallsAreOwned'
    BY CallAfter DEF IInv, Reports
<1>2. /\ s \in Steps /\ proc[p].owner \in Owners
      /\ proc[p].pc \in {"executing", "failing"} /\ stepLock[s] = None
      /\ leaseOwner[s] = proc[p].owner /\ UNCHANGED <<attempt, inputHash, stepLock>>
    BY DEF IInv, CallsAreOwned, Reports, Owns
<1>3. proc'[p].pc \in {"idle", "failing", "retry"}
    BY CallAfter DEF IInv, Reports
<1>4. /\ leaseOwner' = [leaseOwner EXCEPT ![s] = None]
      /\ leaseExpiresAt' = [leaseExpiresAt EXCEPT ![s] = NoTime]
    BY DEF Reports
<1>5. \/ /\ status' = [status EXCEPT ![s] = "completed"] /\ proc[p].pc = "executing"
         /\ output' = [output EXCEPT ![s] = [attempt |-> proc[p].attempt, hash |-> proc[p].hash]]
      \/ /\ \E x \in {"failed_retryable", "manual_review", "failed"} :
                status' = [status EXCEPT ![s] = x]
         /\ output' = output
    BY DEF Reports
<1>6. proc[p].pc = "executing" => proc[p].attempt = attempt[s] /\ proc[p].hash = inputHash[s]
    BY <1>2 DEF IInv, OwnerIsLatest, InputsAgree
<1>7. \A q \in Procs : ~(proc[q].pc = "locked" /\ proc[q].step = s)
    BY <1>2 DEF IInv, LockHeldByDecider
<1> USE DEF IInv
<1>8. TypeOK'
  <2>1. [attempt |-> proc[p].attempt, hash |-> proc[p].hash] \in Outputs
      BY DEF TypeOK, Outputs
  <2> HIDE DEF s
  <2>2. output' \in [Steps -> Outputs]
      BY <1>2, <1>5, <2>1 DEF TypeOK
  <2>3. status' \in [Steps -> Statuses]
      BY <1>2, <1>5 DEF TypeOK, Statuses
  <2> QED BY <1>1, <1>2, <1>4, <2>2, <2>3 DEF TypeOK, CallType
<1>9. OwnedIffRunning'
    BY <1>2, <1>4, <1>5 DEF OwnedIffRunning, TypeOK
<1>10. OutputIsFromLastAttempt'
    BY <1>2, <1>5, <1>6 DEF OutputIsFromLastAttempt, TypeOK
<1>11. LockHeldByDecider'
    BY <1>1, <1>2, <1>3 DEF LockHeldByDecider
<1>12. DeciderSees'
    BY <1>1, <1>2, <1>3, <1>5, <1>7 DEF DeciderSees, TypeOK, CallsAreOwned
<1>13. OwnerIsLatest'
    BY <1>1, <1>2, <1>3, <1>4, <1>5, SMTT(30) DEF OwnerIsLatest, TypeOK, CallsAreOwned
<1>14. InputsAgree'
    BY <1>1, <1>2, <1>3 DEF InputsAgree
<1> QED BY <1>1, <1>8, <1>9, <1>10, <1>11, <1>12, <1>13, <1>14

\* Every step preserves the invariant.
LEMMA InvStep == IInv /\ [Next]_vars => IInv'
<1> SUFFICES ASSUME IInv, [Next]_vars PROVE IInv'
    OBVIOUS
<1>1. /\ CallMoves \/ UNCHANGED <<row, stepLock, proc>>
      /\ now' \in Nat /\ cancelled' \in BOOLEAN
    BY StepKinds DEF IInv
<1>2. CASE CallMoves
    BY <1>1, <1>2, QuietKeeps, LocksKeep, UnlocksKeep, StartsKeep, ReportsKeep DEF CallMoves
<1>3. CASE UNCHANGED <<row, stepLock, proc>>
    BY <1>1, <1>3 DEF IInv, TypeOK, OwnedIffRunning, CallsAreOwned, LockHeldByDecider,
                      DeciderSees, OwnerIsLatest, OutputIsFromLastAttempt, InputsAgree, row
<1> QED BY <1>1, <1>2, <1>3
-----------------------------------------------------------------------------
(* The theorems.                                                           *)

\* The inductive invariant holds in every reachable state.
THEOREM StepsInvariant == Spec => []IInv
    BY InvInit, InvStep, PTL DEF Spec

\* Type correctness of the rows of steps, the locks and the calls.
THEOREM StepsTypeCorrect == Spec => []TypeOK
<1>1. IInv => TypeOK
    BY DEF IInv
<1> QED BY <1>1, StepsInvariant, PTL

\* A stale result is never recorded: the output of a completed step is the one
\* of the last execution the begin handler granted.
THEOREM OutputIsLatest == Spec => []OutputIsFromLastAttempt
<1>1. IInv => OutputIsFromLastAttempt
    BY DEF IInv
<1> QED BY <1>1, StepsInvariant, PTL

\* A checkpoint is served, and a step executed, only for the row's input.
THEOREM InputsAlwaysAgree == Spec => []InputsAgree
<1>1. IInv => InputsAgree
    BY DEF IInv
<1> QED BY <1>1, StepsInvariant, PTL

\* The advisory lock is held exactly while a begin request decides.
THEOREM DeciderHoldsLock == Spec => []LockHeldByDecider
<1>1. IInv => LockHeldByDecider
    BY DEF IInv
<1> QED BY <1>1, StepsInvariant, PTL

\* A completed step is final: a start would have seen that it is completed, and
\* a report would own a lease it no longer has.
THEOREM CheckpointsAreFinal == Spec => CompletedStepIsFinal
<1> DEFINE Final == \A s \in Steps : status[s] = "completed" =>
                        /\ status'[s] = "completed" /\ output'[s] = output[s]
                        /\ attempt'[s] = attempt[s] /\ leaseOwner'[s] = None
<1>1. IInv /\ [Next]_vars => Final
  <2> SUFFICES ASSUME IInv, [Next]_vars, NEW s \in Steps, status[s] = "completed"
               PROVE  /\ status'[s] = "completed" /\ output'[s] = output[s]
                      /\ attempt'[s] = attempt[s] /\ leaseOwner'[s] = None
      OBVIOUS
  <2>1. leaseOwner[s] = None
      BY DEF IInv, OwnedIffRunning
  <2>2. CASE UNCHANGED row
      BY <2>1, <2>2 DEF row
  <2>3. ASSUME NEW p \in Procs, Starts(p)
        PROVE  proc[p].step # s
    <3>1. proc[p].sawRow <=> status[proc[p].step] # "absent"
        BY <2>3 DEF Starts, IInv, DeciderSees
    <3> QED BY <2>3, <3>1 DEF Starts, Recorded
  <2>4. ASSUME NEW p \in Procs, Reports(p)
        PROVE  proc[p].step # s
    <3>1. proc[p].owner \in Owners
        BY <2>4 DEF Reports, IInv, CallsAreOwned
    <3> QED BY <2>1, <2>4, <3>1 DEF Reports, Owns
  <2>5. ASSUME NEW p \in Procs, Starts(p)
        PROVE  /\ status'[s] = status[s] /\ output'[s] = output[s]
               /\ attempt'[s] = attempt[s] /\ leaseOwner'[s] = leaseOwner[s]
      BY <2>3, <2>5 DEF Starts, IInv, TypeOK
  <2>6. ASSUME NEW p \in Procs, Reports(p)
        PROVE  /\ status'[s] = status[s] /\ output'[s] = output[s]
               /\ attempt'[s] = attempt[s] /\ leaseOwner'[s] = leaseOwner[s]
      BY <2>4, <2>6 DEF Reports, IInv, TypeOK
  <2>7. \/ UNCHANGED row
        \/ \E p \in Procs : Starts(p) \/ Reports(p)
      BY StepKinds DEF IInv, CallMoves, Quiet, Locks, Unlocks
  <2> QED BY <2>1, <2>2, <2>5, <2>6, <2>7
<1>2. IInv /\ [Next]_vars => [Final]_vars
    BY <1>1
<1> QED BY <1>2, StepsInvariant, PTL DEF Spec, CompletedStepIsFinal

\* What a step does to the holders of the live leases.
LEMMA HolderStep ==
    ASSUME IInv, [Next]_vars
    PROVE  [Lock!Next]_Holder
<1>0. now \in Nat /\ now' \in Nat /\ now' >= now
    BY StepKinds DEF IInv, TypeOK
<1>1. ASSUME UNCHANGED row
      PROVE  Lock!Next
  <2> DEFINE S == {s \in Steps : ~LeaseLive(s)'}
  <2>1. \A s \in Steps : s \notin S => LeaseLive(s)
      BY <1>0, <1>1 DEF LeaseLive, row, IInv, TypeOK, NoTime
  <2>2. Holder' = [s \in Steps |-> IF s \in S THEN None ELSE Holder[s]]
      BY <1>1, <2>1 DEF Holder, row
  <2> QED BY <2>2 DEF Lock!Next, Lock!Release
<1>2. ASSUME NEW p \in Procs, Starts(p)
      PROVE  [Lock!Next]_Holder
  <2>1. PICK s \in Steps, w \in Owners : s = proc[p].step /\ w = proc[p].owner
      BY <1>2 DEF Starts, IInv, CallsAreOwned
  <2>2. /\ leaseOwner' = [leaseOwner EXCEPT ![s] = w]
        /\ leaseExpiresAt' = [leaseExpiresAt EXCEPT ![s] = now + Lease] /\ now' = now
      BY <1>2, <2>1 DEF Starts
  <2>3. LeaseLive(s) => leaseOwner[s] = w
    <3>1. proc[p].sawRow <=> status[s] # "absent"
        BY <1>2, <2>1 DEF Starts, IInv, DeciderSees
    <3>2. status[s] = "absent" => leaseOwner[s] = None
        BY <2>1 DEF IInv, OwnedIffRunning
    <3> QED BY <1>2, <2>1, <3>1, <3>2 DEF Starts, TakenBy, LeaseLive
  <2>4. LeaseLive(s)' /\ leaseOwner'[s] = w
      BY <1>0, <2>1, <2>2 DEF LeaseLive, NoTime, IInv, TypeOK
  <2>5. \A x \in Steps \ {s} : (LeaseLive(x)' <=> LeaseLive(x)) /\ leaseOwner'[x] = leaseOwner[x]
      BY <2>1, <2>2 DEF LeaseLive, IInv, TypeOK
  <2>6. Holder' = [x \in Steps |-> IF x \in {s} THEN w ELSE Holder[x]]
      BY <2>4, <2>5 DEF Holder
  <2>7. CASE LeaseLive(s)
    <3>1. Holder' = Holder
        BY <2>1, <2>3, <2>6, <2>7 DEF Holder
    <3> QED BY <3>1
  <2>8. CASE ~LeaseLive(s)
    <3>1. \A x \in {s} : Holder[x] = None
        BY <2>1, <2>8 DEF Holder
    <3>2. Lock!Grant(w, {s})
        BY <2>6, <3>1 DEF Lock!Grant
    <3> QED BY <2>1, <3>2 DEF Lock!Next
  <2> QED BY <2>7, <2>8
<1>3. ASSUME NEW p \in Procs, Reports(p)
      PROVE  Lock!Next
  <2>1. PICK s \in Steps : s = proc[p].step /\ now' = now
      BY <1>3 DEF Reports, IInv, CallsAreOwned
  <2>2. /\ leaseOwner' = [leaseOwner EXCEPT ![s] = None]
        /\ leaseExpiresAt' = [leaseExpiresAt EXCEPT ![s] = NoTime]
      BY <1>3, <2>1 DEF Reports
  <2>3. ~LeaseLive(s)'
      BY <2>1, <2>2 DEF LeaseLive, IInv, TypeOK
  <2>4. \A x \in Steps \ {s} : (LeaseLive(x)' <=> LeaseLive(x)) /\ leaseOwner'[x] = leaseOwner[x]
      BY <2>1, <2>2 DEF LeaseLive, IInv, TypeOK
  <2>5. Holder' = [x \in Steps |-> IF x \in {s} THEN None ELSE Holder[x]]
      BY <2>3, <2>4 DEF Holder
  <2> QED BY <2>1, <2>5 DEF Lock!Next, Lock!Release
<1>4. UNCHANGED row \/ \E p \in Procs : Starts(p) \/ Reports(p)
    BY StepKinds DEF IInv, CallMoves, Quiet, Locks, Unlocks
<1> QED BY <1>1, <1>2, <1>3, <1>4

\* The leases of steps are locks: no step is ever executed under two live
\* leases, whoever raced to insert its row.
THEOREM StepLeasesAreExclusive == Spec => StepLeaseIsALock
<1>1. Init => Lock!Init
    BY DEF Init, Lock!Init, Holder, LeaseLive
<1>2. IInv /\ [Next]_vars => [Lock!Next]_Holder
    BY HolderStep
<1> QED BY <1>1, <1>2, StepsInvariant, PTL DEF Spec, StepLeaseIsALock, Lock!Spec
=============================================================================
