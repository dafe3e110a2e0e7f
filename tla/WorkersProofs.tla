--------------------------- MODULE WorkersProofs ----------------------------
(***************************************************************************)
(* Theorems about the callers of RunLifecycle.  Workers that only pull     *)
(* (PullSpec) keep the concurrency cap and the attempts a job asked for;   *)
(* what the SDK does (SdkWorkers) is one way to call the server, so all    *)
(* that is proved of the server holds under it, and its leases are fenced. *)
(***************************************************************************)
EXTENDS RunLifecycleProofs, SdkWorkers, QueueRate, FiniteSetTheorems

USE RunsAssumption

\* A configured concurrency is a number.
LEMMA CapIsNumber ==
    ASSUME config \in [Queues -> Configs], NEW q \in Queues
    PROVE  /\ config[q].concurrency \in Int
           /\ config[q].concurrency # NoCap => config[q].concurrency \in Nat
<1>1. config[q] \in [concurrency: Caps \cup {NoCap}, rate: Caps \cup {NoCap}]
    BY DEF Configs
<1>2. config[q].concurrency \in Caps \cup {NoCap}
    BY <1>1
<1>3. CASE config[q].concurrency = NoCap
    BY <1>3 DEF NoCap
<1>4. CASE config[q].concurrency \in Caps
  <2>1. config[q].concurrency \in Nat
      BY <1>4, CapsAssumption, Zenon
  <2> QED BY <2>1
<1> QED BY <1>2, <1>3, <1>4

\* Pulling is one of the ways to use the server.
LEMMA PullIsNext == [PullNext \/ Configure \/ TickAbort]_vars => [Next]_vars
    BY DEF PullNext, Next

\* What is proved of every use of the server holds of pulling too.
LEMMA PullInvariant == PullSpec => []IInv
    BY InvInit, InvStep, PullIsNext, PTL DEF PullSpec

-----------------------------------------------------------------------------
(* The concurrency cap.                                                    *)

\* A step that starts runs of q leaves it within the cap in force.
StartsWithin(q) == \/ Running(q)' \subseteq Running(q)
                   \/ config[q].concurrency = NoCap
                   \/ Cardinality(Running(q)') <= config[q].concurrency

\* What a claim takes fits beside what is running.
LEMMA ClaimFits ==
    ASSUME TypeOK, NEW w \in Owners, NEW q \in Queues, NEW n, Claim(w, q, n), NEW p \in Queues
    PROVE  StartsWithin(p)
<1> DEFINE counts == {m \in 0..n : CapRoom(q, m) /\ RateRoom(q, m)}
<1>1. PICK S \in FirstOf(Ready(q, now), counts) :
          /\ S # {}
          /\ status' = [r \in Runs |-> IF r \in S THEN "running" ELSE status[r]]
          /\ UNCHANGED <<job, config>>
    BY DEF Claim
<1>2. S \subseteq Ready(q, now) /\ Cardinality(S) \in counts
    BY <1>1 DEF FirstOf
<1>3. S \subseteq Runs /\ \A r \in S : job[r].queue = q
    BY <1>2 DEF Ready
<1>4. CASE p = q /\ config[q].concurrency # NoCap
  <2>1. Running(q)' \subseteq Running(q) \cup S
      BY <1>1 DEF Running
  <2>2. IsFiniteSet(S) /\ IsFiniteSet(Running(q)) /\ Running(q) \subseteq Runs
      BY <1>3, FS_Subset DEF Running
  <2>3. /\ Cardinality(S) \in Nat /\ Cardinality(Running(q)) \in Nat
        /\ Cardinality(Running(q) \cap S) \in Nat
      BY <2>2, FS_CardinalityType, FS_Subset
  <2>4. /\ IsFiniteSet(Running(q) \cup S)
        /\ Cardinality(Running(q) \cup S)
              = Cardinality(Running(q)) + Cardinality(S) - Cardinality(Running(q) \cap S)
      BY <2>2, FS_Union, Zenon
  <2>5. Cardinality(Running(q)') <= Cardinality(Running(q) \cup S)
      BY <2>1, <2>4, FS_Subset
  <2>6. Cardinality(Running(q)) + Cardinality(S) <= config[q].concurrency
      BY <1>2, <1>4 DEF CapRoom
  <2>7. /\ Cardinality(Running(q)') \in Nat /\ Cardinality(Running(q) \cup S) \in Nat
        /\ config[q].concurrency \in Int
      BY <2>1, <2>4, FS_CardinalityType, FS_Subset, CapIsNumber DEF TypeOK
  <2> QED BY <1>4, <2>3, <2>4, <2>5, <2>6, <2>7 DEF StartsWithin
<1>5. CASE p # q
  <2>1. Running(p)' = Running(p)
      BY <1>1, <1>3, <1>5 DEF Running
  <2> QED BY <2>1 DEF StartsWithin
<1> QED BY <1>4, <1>5 DEF StartsWithin

\* Steps of a pull queue that are not claims start nothing.
LEMMA NothingStarts ==
    ASSUME IInv, [PullNext \/ Configure \/ TickAbort]_vars, ~Pull
    PROVE  \A r \in Runs : /\ status'[r] = "running" => status[r] = "running"
                           /\ status[r] # "absent" => job'[r] = job[r]
<1> DEFINE Quiet == \A r \in Runs : status'[r] = "running" => status[r] = "running"
<1>0. \A r \in Runs : status[r] # "absent" => job'[r] = job[r]
    BY PullIsNext, StepRows DEF IInv, RowStep, Kept, Inserted, Taken, Renewed, Ended
<1>1. ASSUME NEW r \in Runs, Submit(r) \/ Fire(r) PROVE Quiet
    BY <1>1 DEF Submit, Fire, CreateRun, Enqueue, FireSchedule, Insert, SetStatus, IInv, TypeOK
<1>2. ASSUME NEW r \in Runs, Report(r) PROVE Quiet
    BY <1>2 DEF Report, Fail, Cancel, Complete, FailRetry, FailFinal, SetStatus, IInv, TypeOK
<1>3. ASSUME NEW r \in Runs, NEW w \in Owners, Heartbeat(r, w) PROVE Quiet
    BY <1>3 DEF Heartbeat
<1>4. ASSUME NEW r \in Runs, Sweep(r) PROVE Quiet
  <2>1. CASE ReclaimRetry(r) \/ ReclaimFail(r) \/ DeadlineCancel(r)
      BY <2>1 DEF ReclaimRetry, ReclaimFail, DeadlineCancel, SetStatus, IInv, TypeOK
  <2>2. CASE ReclaimSkip(r) \/ DeadlineSkip(r)
      BY <2>2, KeptAll DEF ReclaimSkip, DeadlineSkip, Kept
  <2>3. CASE PushRow(r)
      BY <2>3 DEF PushRow
  <2> QED BY <1>4, <2>1, <2>2, <2>3 DEF Sweep
<1>5. CASE TickStep \/ TickAbort \/ Configure \/ Advance \/ UNCHANGED vars
  <2>1. UNCHANGED row
      BY <1>5 DEF TickStep, TickLeases, TickDeadlines, TickPush, PushSelect, TickEnd,
                  TickAbort, Configure, ConfigureQueue, Advance, vars
  <2> QED BY <1>0, <2>1, KeptAll DEF Kept
<1> QED BY <1>0, <1>1, <1>2, <1>3, <1>4, <1>5 DEF PullNext, Reconcile

\* Whatever happens to the configurations, no claim takes a queue beyond its cap.
THEOREM ClaimsKeepCap == PullSpec => StartsWithinCap
<1> DEFINE InCap == \A q \in Queues : \/ Running(q)' \subseteq Running(q)
                                     \/ config[q].concurrency = NoCap
                                     \/ Cardinality(Running(q)') <= config[q].concurrency
<1>1. IInv /\ [PullNext \/ Configure \/ TickAbort]_vars => [InCap]_vars
  <2> SUFFICES ASSUME IInv, [PullNext \/ Configure \/ TickAbort]_vars PROVE InCap
      OBVIOUS
  <2>1. CASE Pull
    <3>1. \A q \in Queues : StartsWithin(q)
        BY <2>1, ClaimFits DEF Pull, IInv
    <3> QED BY <3>1 DEF StartsWithin
  <2>2. CASE ~Pull
      BY <2>2, NothingStarts DEF Running
  <2> QED BY <2>1, <2>2
<1> QED BY <1>1, PullInvariant, PTL DEF PullSpec, StartsWithinCap

-----------------------------------------------------------------------------
(* Attempts.                                                               *)

\* A waiting run has attempts left, and no run has more than its job asked for.
AttemptsLeft ==
    \A r \in Runs : /\ status[r] = "absent" => attempt[r] = 0
                    /\ job[r].queue # None =>
                          /\ attempt[r] <= job[r].max
                          /\ status[r] = "queued" => attempt[r] < job[r].max

\* Claims count attempts, requeues look at what is left, the rest does neither.
LEMMA AttemptsStep ==
    IInv /\ AttemptsLeft /\ [PullNext \/ Configure \/ TickAbort]_vars => AttemptsLeft'
<1> SUFFICES ASSUME IInv, AttemptsLeft, [PullNext \/ Configure \/ TickAbort]_vars PROVE AttemptsLeft'
    OBVIOUS
<1>0. TypeOK
    BY DEF IInv
<1>1. ASSUME NEW r \in Runs, NEW j \in Jobs, CreateRun(r, j) \/ Enqueue(r, j) \/ FireSchedule(r, j)
      PROVE  AttemptsLeft'
  <2>1. /\ job' = [job EXCEPT ![r] = j] /\ attempt' = attempt /\ status[r] = "absent"
        /\ \E s \in {"pending", "queued"} : status' = [status EXCEPT ![r] = s]
      BY <1>1 DEF CreateRun, Enqueue, FireSchedule, Insert, SetStatus
  <2>2. attempt[r] = 0 /\ j.max \in 1..MaxAttempts
      BY <2>1, JobFacts, LimitAssumption DEF AttemptsLeft
  <2>3. job'[r] = j /\ attempt'[r] = 0 /\ status'[r] # "absent"
      BY <1>0, <2>1, <2>2 DEF TypeOK
  <2>4. 0 < j.max /\ 0 <= j.max
      BY <2>2, LimitAssumption
  <2>5. \A s \in Runs \ {r} : status'[s] = status[s] /\ job'[s] = job[s]
      BY <1>0, <2>1 DEF TypeOK
  <2>6. attempt'[r] <= job'[r].max /\ attempt'[r] < job'[r].max
      BY <2>3, <2>4
  <2> QED BY <2>1, <2>3, <2>5, <2>6 DEF AttemptsLeft
<1>2. ASSUME NEW r \in Runs, FailRetry(r) PROVE AttemptsLeft'
    BY <1>0, <1>2 DEF FailRetry, SetStatus, TypeOK, AttemptsLeft
<1>3. ASSUME NEW r \in Runs, ReclaimRetry(r) PROVE AttemptsLeft'
  <2>1. tick.seen[r] = attempt[r]
      BY <1>3 DEF ReclaimRetry, IInv, SnapshotStillTrue
  <2> QED BY <1>0, <1>3, <2>1 DEF ReclaimRetry, SetStatus, TypeOK, AttemptsLeft
<1>4. ASSUME NEW r \in Runs,
             \/ Cancel(r) \/ Complete(r) \/ \E class \in Classes : FailFinal(r, class)
             \/ ReclaimFail(r) \/ DeadlineCancel(r)
      PROVE  AttemptsLeft'
  <2>1. /\ attempt' = attempt /\ job' = job
        /\ \E s \in {"cancelled", "completed", "failed"} : status' = [status EXCEPT ![r] = s]
      BY <1>4 DEF Cancel, Complete, FailFinal, ReclaimFail, DeadlineCancel, SetStatus
  <2>2. status'[r] \notin {"absent", "queued"} /\ \A s \in Runs \ {r} : status'[s] = status[s]
      BY <1>0, <2>1 DEF TypeOK
  <2> QED BY <2>1, <2>2 DEF AttemptsLeft
<1>5. ASSUME NEW w \in Owners, NEW q \in Queues, NEW n, Claim(w, q, n) PROVE AttemptsLeft'
  <2> DEFINE counts == {m \in 0..n : CapRoom(q, m) /\ RateRoom(q, m)}
  <2>1. PICK S \in FirstOf(Ready(q, now), counts) :
            /\ status' = [r \in Runs |-> IF r \in S THEN "running" ELSE status[r]]
            /\ attempt' = [r \in Runs |-> IF r \in S THEN attempt[r] + 1 ELSE attempt[r]]
            /\ job' = job
      BY <1>5 DEF Claim
  <2>2. \A r \in S : status[r] = "queued"
      BY FirstOfSubset DEF Ready
  <2> SUFFICES ASSUME NEW r \in Runs
               PROVE  /\ status'[r] = "absent" => attempt'[r] = 0
                      /\ job'[r].queue # None =>
                            /\ attempt'[r] <= job'[r].max
                            /\ status'[r] = "queued" => attempt'[r] < job'[r].max
      BY DEF AttemptsLeft
  <2>3. CASE r \in S
    <3>1. attempt[r] \in Nat /\ job[r].max \in Int
        BY <1>0, JobFacts, LimitAssumption DEF TypeOK
    <3> QED BY <2>1, <2>2, <2>3, <3>1 DEF AttemptsLeft
  <2>4. CASE r \notin S
      BY <2>1, <2>4 DEF AttemptsLeft
  <2> QED BY <2>3, <2>4
<1>6. CASE UNCHANGED <<status, attempt, job>>
    BY <1>6 DEF AttemptsLeft
<1>7. ASSUME NEW r \in Runs, NEW w \in Owners, Heartbeat(r, w)
      PROVE  UNCHANGED <<status, attempt, job>>
    BY <1>7 DEF Heartbeat
<1>8. ASSUME NEW r \in Runs, ReclaimSkip(r) \/ DeadlineSkip(r) \/ PushRow(r)
      PROVE  UNCHANGED <<status, attempt, job>>
    BY <1>8 DEF ReclaimSkip, DeadlineSkip, PushRow, row
<1>9. CASE TickStep \/ TickAbort \/ Configure \/ Advance \/ UNCHANGED vars
  <2>1. UNCHANGED row
      BY <1>9 DEF TickStep, TickLeases, TickDeadlines, TickPush, PushSelect, TickEnd,
                  TickAbort, Configure, ConfigureQueue, Advance, vars
  <2> QED BY <1>6, <2>1 DEF row
<1> QED BY <1>1, <1>2, <1>3, <1>4, <1>5, <1>6, <1>7, <1>8, <1>9
    DEF PullNext, Submit, Fail, Report, Pull, Reconcile, Sweep, Fire

\* A pulled run never has more attempts than its job asked for.
THEOREM AttemptsAreCapped == PullSpec => []AttemptsWithinMax
<1>1. Init => AttemptsLeft
    BY NoneAssumption DEF Init, AttemptsLeft, NoJob
<1>2. AttemptsLeft => AttemptsWithinMax
    BY DEF AttemptsLeft, AttemptsWithinMax
<1> QED BY <1>1, <1>2, AttemptsStep, PullInvariant, PTL DEF PullSpec

-----------------------------------------------------------------------------
(* The rate limit.                                                         *)

\* A configured rate is a number.
LEMMA RateIsNumber ==
    ASSUME config \in [Queues -> Configs], NEW q \in Queues, config[q].rate # NoCap
    PROVE  config[q].rate \in Nat
<1>1. config[q] \in [concurrency: Caps \cup {NoCap}, rate: Caps \cup {NoCap}]
    BY DEF Configs
<1>2. config[q].rate \in Caps
    BY <1>1
<1> QED BY <1>2, CapsAssumption, Zenon

ClaimType == [run: Runs, attempt: Nat \ {0}, at: Nat]

\* The row of a run knows the last of its claims; no two claims of a run are of
\* the same attempt.
ClaimsKnown ==
    /\ claims \subseteq ClaimType
    /\ \A c \in claims : /\ c.at <= now /\ c.at <= claimedAt[c.run]
                         /\ c.attempt <= attempt[c.run] /\ status[c.run] # "absent"
    /\ \A c, d \in claims : c.run = d.run /\ c.attempt = d.attempt => c = d

\* The claims that a claim makes.
LEMMA ClaimSteps ==
    ASSUME TypeOK, NEW w \in Owners, NEW q \in Queues, NEW n, RClaim(w, q, n)
    PROVE  \E S \in SUBSET Ready(q, now) :
              /\ RateRoom(q, Cardinality(S))
              /\ claims' = claims \cup {[run |-> r, attempt |-> attempt[r] + 1, at |-> now] : r \in S}
              /\ \A r \in S : /\ attempt'[r] = attempt[r] + 1 /\ claimedAt'[r] = now
                              /\ status'[r] = "running"
              /\ \A r \in Runs \ S : /\ attempt'[r] = attempt[r] /\ claimedAt'[r] = claimedAt[r]
                                     /\ status'[r] = status[r]
              /\ UNCHANGED <<job, now, config>>
<1> DEFINE counts == {m \in 0..n : CapRoom(q, m) /\ RateRoom(q, m)}
<1>1. PICK S \in FirstOf(Ready(q, now), counts) :
          /\ S # {}
          /\ status' = [r \in Runs |-> IF r \in S THEN "running" ELSE status[r]]
          /\ attempt' = [r \in Runs |-> IF r \in S THEN attempt[r] + 1 ELSE attempt[r]]
          /\ claimedAt' = [r \in Runs |-> IF r \in S THEN now ELSE claimedAt[r]]
          /\ UNCHANGED <<job, now, config>>
    BY DEF RClaim, Claim
<1>2. S \subseteq Ready(q, now) /\ Cardinality(S) \in counts
    BY <1>1 DEF FirstOf
<1>3. S \subseteq Runs
    BY <1>2, ReadyInRuns
<1>4. {s \in Runs : attempt'[s] # attempt[s]} = S
    BY <1>1, <1>3 DEF TypeOK
<1>5. claims' = claims \cup {[run |-> r, attempt |-> attempt'[r], at |-> now] : r \in S}
    BY <1>4 DEF RClaim
<1>6. \A r \in S : attempt'[r] = attempt[r] + 1
    BY <1>1, <1>3
<1>7. {[run |-> r, attempt |-> attempt'[r], at |-> now] : r \in S}
          = {[run |-> r, attempt |-> attempt[r] + 1, at |-> now] : r \in S}
    BY <1>6
<1> QED BY <1>1, <1>2, <1>3, <1>5, <1>6, <1>7

\* A claim is recorded with the attempt that it makes of its run.
LEMMA ClaimKnown ==
    ASSUME TypeOK, ClaimsKnown, NEW w \in Owners, NEW q \in Queues, NEW n, RClaim(w, q, n)
    PROVE  ClaimsKnown'
<1>1. PICK S \in SUBSET Ready(q, now) :
          /\ claims' = claims \cup {[run |-> r, attempt |-> attempt[r] + 1, at |-> now] : r \in S}
          /\ \A r \in S : /\ attempt'[r] = attempt[r] + 1 /\ claimedAt'[r] = now
                          /\ status'[r] = "running"
          /\ \A r \in Runs \ S : /\ attempt'[r] = attempt[r] /\ claimedAt'[r] = claimedAt[r]
                                 /\ status'[r] = status[r]
          /\ now' = now
    BY ClaimSteps
<1>2. S \subseteq Runs /\ now \in Nat /\ \A r \in Runs : attempt[r] \in Nat
    BY ReadyInRuns DEF TypeOK
<1>3. \A c \in claims' : \/ c \in claims
                         \/ \E r \in S : c = [run |-> r, attempt |-> attempt[r] + 1, at |-> now]
    BY <1>1
<1>4. \A c \in claims : /\ c.run \in Runs /\ c.attempt \in Nat /\ c.at \in Nat /\ c.at <= now
                        /\ c.at <= claimedAt[c.run] /\ c.attempt <= attempt[c.run]
                        /\ status[c.run] # "absent"
    BY DEF ClaimsKnown, ClaimType
<1>5. ASSUME NEW c \in claims'
      PROVE  /\ c \in ClaimType /\ c.at <= now /\ c.at <= claimedAt'[c.run]
             /\ c.attempt <= attempt'[c.run] /\ status'[c.run] # "absent"
             /\ c \notin claims => c.run \in S /\ c.attempt = attempt[c.run] + 1 /\ c.at = now
  <2>1. CASE c \in claims
    <3>1. c.attempt <= attempt[c.run] + 1
        BY <1>2, <1>4, <2>1
    <3> QED BY <1>1, <1>2, <1>4, <2>1, <3>1 DEF ClaimsKnown
  <2>2. ASSUME NEW r \in S, c = [run |-> r, attempt |-> attempt[r] + 1, at |-> now]
        PROVE  /\ c \in ClaimType /\ c.at <= now /\ c.at <= claimedAt'[c.run]
               /\ c.attempt <= attempt'[c.run] /\ status'[c.run] # "absent"
               /\ c.run \in S /\ c.attempt = attempt[c.run] + 1 /\ c.at = now
    <3>1. attempt[r] + 1 \in Nat \ {0} /\ r \in Runs
        BY <1>2
    <3>2. c.run = r /\ c.attempt = attempt[r] + 1 /\ c.at = now
        BY <2>2
    <3>3. c \in ClaimType
        BY <1>2, <2>2, <3>1 DEF ClaimType
    <3> QED BY <1>1, <1>2, <3>1, <3>2, <3>3
  <2> QED BY <1>3, <2>1, <2>2
<1>6. ASSUME NEW c \in claims', NEW d \in claims', c.run = d.run, c.attempt = d.attempt
      PROVE  c = d
  <2>1. CASE c \in claims /\ d \in claims
      BY <1>6, <2>1 DEF ClaimsKnown
  <2>2. ASSUME NEW x \in claims, NEW y \in claims' \ claims, x.run = y.run, x.attempt = y.attempt
        PROVE  FALSE
    <3>1. y.attempt = attempt[y.run] + 1 /\ x.attempt <= attempt[x.run] /\ attempt[x.run] \in Nat
        BY <1>2, <1>4, <1>5
    <3> QED BY <1>4, <2>2, <3>1
  <2>3. CASE c \notin claims /\ d \notin claims
    <3>1. PICK r \in S : c = [run |-> r, attempt |-> attempt[r] + 1, at |-> now]
        BY <1>3, <2>3
    <3>2. PICK s \in S : d = [run |-> s, attempt |-> attempt[s] + 1, at |-> now]
        BY <1>3, <2>3
    <3> QED BY <1>6, <3>1, <3>2
  <2> QED BY <1>6, <2>1, <2>2, <2>3
<1> QED BY <1>1, <1>5, <1>6 DEF ClaimsKnown

\* What rates look at: pulls, and steps that claim nothing.
Others == \/ \E r \in Runs : Submit(r) \/ Report(r)
          \/ Configure
          \/ Reconcile \/ TickAbort
          \/ Advance

\* Steps that claim nothing leave the time of the last claim alone.
LEMMA OthersKnown ==
    ASSUME TypeOK, ClaimsKnown, Others \/ UNCHANGED vars, UNCHANGED claims
    PROVE  ClaimsKnown'
<1>1. [Next]_vars
    BY DEF Others, Next
<1>2. now' >= now /\ \A r \in Runs : RowStep(r)
    BY <1>1, StepOfRow, StepRows
<1>3. claimedAt' = claimedAt
  <2>1. ASSUME NEW r \in Runs, Submit(r) \/ Fire(r) PROVE claimedAt' = claimedAt
      BY <2>1 DEF Submit, Fire, CreateRun, Enqueue, FireSchedule, Insert
  <2>2. ASSUME NEW r \in Runs, Report(r) PROVE claimedAt' = claimedAt
      BY <2>2 DEF Report, Fail, Cancel, Complete, FailRetry, FailFinal
  <2>3. ASSUME NEW r \in Runs, Sweep(r) PROVE claimedAt' = claimedAt
      BY <2>3 DEF Sweep, ReclaimRetry, ReclaimFail, ReclaimSkip, DeadlineCancel, DeadlineSkip, PushRow, row
  <2>4. CASE TickStep \/ TickAbort \/ Configure \/ Advance \/ UNCHANGED vars
      BY <2>4 DEF TickStep, TickLeases, TickDeadlines, TickPush, PushSelect, TickEnd,
                  TickAbort, Configure, ConfigureQueue, Advance, vars, row
  <2> QED BY <2>1, <2>2, <2>3, <2>4 DEF Others, Reconcile
<1>4. \A r \in Runs : /\ status[r] # "absent" => status'[r] # "absent"
                      /\ attempt[r] \in Nat /\ attempt'[r] \in {attempt[r], attempt[r] + 1}
    BY <1>2 DEF RowStep, Kept, Inserted, Taken, Renewed, Ended, TypeOK
<1>5. now' \in Nat /\ now \in Nat
    BY <1>1, TypeStep DEF TypeOK
<1>6. ASSUME NEW c \in claims
      PROVE  /\ c.at <= now' /\ c.at <= claimedAt'[c.run] /\ c.attempt <= attempt'[c.run]
             /\ status'[c.run] # "absent"
  <2>1. c.run \in Runs /\ c.attempt \in Nat /\ c.at \in Nat
      BY DEF ClaimsKnown, ClaimType
  <2>2. c.at <= now /\ c.at <= claimedAt[c.run] /\ c.attempt <= attempt[c.run] /\ status[c.run] # "absent"
      BY DEF ClaimsKnown
  <2> QED BY <1>2, <1>3, <1>4, <1>5, <2>1, <2>2
<1> QED BY <1>6 DEF ClaimsKnown

\* The claims with their history are pulls.
LEMMA RateIsPull == [RNext]_rvars => [PullNext \/ Configure \/ TickAbort]_vars
    BY DEF RNext, rvars, RClaim, PullNext, Pull

\* The history of the claims agrees with the rows.
THEOREM ClaimsAreKnown == RSpec => [](IInv /\ AttemptsLeft /\ ClaimsKnown)
<1>1. RInit => IInv /\ AttemptsLeft /\ ClaimsKnown
  <2>1. Init => AttemptsLeft
      BY NoneAssumption DEF Init, AttemptsLeft, NoJob
  <2> QED BY <2>1, InvInit DEF RInit, ClaimsKnown
<1>2. IInv /\ AttemptsLeft /\ ClaimsKnown /\ [RNext]_rvars => (IInv /\ AttemptsLeft /\ ClaimsKnown)'
  <2> SUFFICES ASSUME IInv, AttemptsLeft, ClaimsKnown, [RNext]_rvars
               PROVE  IInv' /\ AttemptsLeft' /\ ClaimsKnown'
      OBVIOUS
  <2>1. [PullNext \/ Configure \/ TickAbort]_vars
      BY RateIsPull
  <2>2. IInv' /\ AttemptsLeft'
      BY <2>1, PullIsNext, InvStep, AttemptsStep
  <2>3. CASE \E w \in Owners, q \in Queues, n \in 1..Cardinality(Runs) : RClaim(w, q, n)
      BY <2>2, <2>3, ClaimKnown DEF IInv
  <2>4. CASE (Others \/ UNCHANGED vars) /\ UNCHANGED claims
      BY <2>2, <2>4, OthersKnown DEF IInv
  <2> QED BY <2>2, <2>3, <2>4 DEF RNext, Others, rvars
<1> QED BY <1>1, <1>2, PTL DEF RSpec

\* A claim leaves no more runs of the queue claimed in the last minute than its
\* rate in force: each counts once, however often it was claimed (app.ts).
LEMMA ClaimKeepsRate ==
    ASSUME TypeOK, ClaimsKnown, NEW w \in Owners, NEW q \in Queues, NEW n, RClaim(w, q, n),
           NEW p \in Queues
    PROVE  \/ ClaimsWithin(p, now)' = ClaimsWithin(p, now)
           \/ config[p].rate = NoCap
           \/ /\ IsFiniteSet({c.run : c \in ClaimsWithin(p, now)'})
              /\ Cardinality({c.run : c \in ClaimsWithin(p, now)'}) <= config[p].rate
<1>1. PICK S \in SUBSET Ready(q, now) :
          /\ RateRoom(q, Cardinality(S))
          /\ claims' = claims \cup {[run |-> r, attempt |-> attempt[r] + 1, at |-> now] : r \in S}
          /\ UNCHANGED <<job, now>>
    BY ClaimSteps
<1>2. S \subseteq Runs /\ \A r \in S : job[r].queue = q
    BY DEF Ready
<1>3. \A c \in claims' : c \in claims \/ c.run \in S
    BY <1>1
<1>4. CASE p # q
  <2>1. \A c \in claims' : job[c.run].queue = p => c \in claims
      BY <1>2, <1>3, <1>4
  <2>2. ClaimsWithin(p, now)' = ClaimsWithin(p, now)
      BY <1>1, <2>1 DEF ClaimsWithin
  <2> QED BY <2>2
<1>5. CASE p = q /\ config[q].rate # NoCap
  <2> DEFINE runs == {c.run : c \in ClaimsWithin(q, now)'}
             recent == Recent(q)
  <2>1. ASSUME NEW c \in ClaimsWithin(q, now)'
        PROVE  c.run \in recent \cup S
    <3>1. c \in claims' /\ job[c.run].queue = q /\ c.at > now - Minute
        BY <1>1 DEF ClaimsWithin
    <3>2. CASE c \in claims
      <4>1. /\ c.run \in Runs /\ c.at \in Nat /\ c.at <= claimedAt[c.run]
            /\ claimedAt[c.run] \in Times /\ now \in Nat /\ Minute \in Nat
          BY <3>2, TimeAssumption DEF ClaimsKnown, ClaimType, TypeOK
      <4>2. claimedAt[c.run] # NoTime /\ claimedAt[c.run] > now - Minute
          BY <3>1, <4>1 DEF Times, NoTime
      <4> QED BY <3>1, <4>1, <4>2 DEF Recent
    <3>3. CASE c.run \in S
        BY <3>3
    <3> QED BY <1>3, <3>1, <3>2, <3>3
  <2>2. IsFiniteSet(S) /\ IsFiniteSet(recent)
      BY <1>2, FS_Subset DEF Recent
  <2>3. runs \subseteq recent \cup S
      BY <2>1
  <2>4. Cardinality(recent) + Cardinality(S) <= config[q].rate /\ config[q].rate \in Nat
      BY <1>1, <1>5, RateIsNumber DEF RateRoom, TypeOK
  <2> HIDE DEF runs, recent
  <2>5. /\ Cardinality(S) \in Nat /\ Cardinality(recent) \in Nat
        /\ Cardinality(recent \cap S) \in Nat
      BY <2>2, FS_CardinalityType, FS_Subset
  <2>6. /\ IsFiniteSet(recent \cup S)
        /\ Cardinality(recent \cup S) = Cardinality(recent) + Cardinality(S) - Cardinality(recent \cap S)
      BY <2>2, FS_Union, Zenon
  <2>7. IsFiniteSet(runs) /\ Cardinality(runs) <= Cardinality(recent \cup S) /\ Cardinality(runs) \in Nat
      BY <2>3, <2>6, FS_CardinalityType, FS_Subset
  <2>8. Cardinality(runs) <= config[q].rate
      BY <2>4, <2>5, <2>6, <2>7
  <2> QED BY <1>5, <2>7, <2>8 DEF runs
<1> QED BY <1>4, <1>5

\* docs/testing.md: "per-queue concurrency caps and rate limits hold across
\* competing claims", as app.ts counts them: no claim leaves more runs of the
\* queue claimed in the last minute than its rate in force.
RunsWithinRate ==
    [][\A q \in Queues : \/ ClaimsWithin(q, now)' = ClaimsWithin(q, now)
                         \/ claims' = claims
                         \/ config[q].rate = NoCap
                         \/ Cardinality({c.run : c \in ClaimsWithin(q, now)'}) <= config[q].rate]_rvars

\* Whatever the jobs, the runs claimed in a minute are within the rate.
THEOREM RunsKeepRate == RSpec => RunsWithinRate
<1> DEFINE Keeps == \A q \in Queues :
              \/ ClaimsWithin(q, now)' = ClaimsWithin(q, now)
              \/ claims' = claims
              \/ config[q].rate = NoCap
              \/ Cardinality({c.run : c \in ClaimsWithin(q, now)'}) <= config[q].rate
<1>1. IInv /\ AttemptsLeft /\ ClaimsKnown /\ [RNext]_rvars => [Keeps]_rvars
  <2> SUFFICES ASSUME IInv, ClaimsKnown, RNext PROVE Keeps
      OBVIOUS
  <2>1. ASSUME NEW w \in Owners, NEW p \in Queues, NEW n \in 1..Cardinality(Runs), RClaim(w, p, n)
        PROVE  Keeps
      BY <2>1, ClaimKeepsRate DEF IInv
  <2>2. CASE UNCHANGED claims
      BY <2>2
  <2> QED BY <2>1, <2>2 DEF RNext
<1> QED BY <1>1, ClaimsAreKnown, PTL DEF RSpec, RunsWithinRate

\* Claims of different runs are as many as the runs they are of.
LEMMA AsManyClaimsAsRuns ==
    ASSUME NEW S, \A c, d \in S : c.run = d.run => c = d, IsFiniteSet({c.run : c \in S})
    PROVE  IsFiniteSet(S) /\ Cardinality(S) <= Cardinality({c.run : c \in S})
<1> DEFINE T == {c.run : c \in S}
           f == [c \in S |-> c.run]
<1>1. f \in Injection(S, T)
    BY DEF Injection, IsInjective
<1> HIDE DEF f
<1> QED BY <1>1, FS_Injection

\* With jobs of one attempt the limit is on the claims themselves.
THEOREM ClaimsKeepRate ==
    ASSUME \A j \in Jobs : j.max = 1
    PROVE  RSpec => RateHolds
<1> DEFINE Keeps == \A q \in Queues :
              \/ ClaimsWithin(q, now)' = ClaimsWithin(q, now)
              \/ claims' = claims
              \/ config[q].rate = NoCap
              \/ Cardinality(ClaimsWithin(q, now)') <= config[q].rate
           Known == IInv /\ AttemptsLeft /\ ClaimsKnown
<1>1. Known /\ Known' /\ [RNext]_rvars => [Keeps]_rvars
  <2> SUFFICES ASSUME Known, Known', RNext PROVE Keeps
      OBVIOUS
  <2>1. ASSUME NEW w \in Owners, NEW p \in Queues, NEW n \in 1..Cardinality(Runs), RClaim(w, p, n),
               NEW q \in Queues,
               ClaimsWithin(q, now)' # ClaimsWithin(q, now), config[q].rate # NoCap
        PROVE  Cardinality(ClaimsWithin(q, now)') <= config[q].rate
    <3> DEFINE runs == {c.run : c \in ClaimsWithin(q, now)'}
    <3>1. IsFiniteSet(runs) /\ Cardinality(runs) <= config[q].rate
        BY <2>1, ClaimKeepsRate DEF IInv
    <3>2. ASSUME NEW c \in ClaimsWithin(q, now)'
          PROVE  c \in claims' /\ c.attempt = 1
      <4>1. c \in claims' /\ job'[c.run].queue = q
          BY DEF ClaimsWithin
      <4>2. c.run \in Runs /\ c.attempt \in Nat \ {0} /\ c.attempt <= attempt'[c.run]
          BY <4>1 DEF ClaimsKnown, ClaimType
      <4>3. job'[c.run] \in Jobs
          BY <4>1, <4>2, NoneAssumption DEF IInv, TypeOK, NoJob
      <4>4. attempt'[c.run] \in Nat /\ attempt'[c.run] <= job'[c.run].max
          BY <4>1, <4>2, NoneAssumption DEF AttemptsLeft, IInv, TypeOK
      <4> QED BY <4>1, <4>2, <4>3, <4>4
    <3>3. \A c, d \in ClaimsWithin(q, now)' : c.run = d.run => c = d
        BY <3>2 DEF ClaimsKnown
    <3>4. /\ IsFiniteSet(ClaimsWithin(q, now)')
          /\ Cardinality(ClaimsWithin(q, now)') <= Cardinality(runs)
        BY <3>1, <3>3, AsManyClaimsAsRuns
    <3>5. config[q].rate \in Nat
        BY <2>1, RateIsNumber DEF IInv, TypeOK
    <3>6. Cardinality(ClaimsWithin(q, now)') \in Nat /\ Cardinality(runs) \in Nat
        BY <3>1, <3>4, FS_CardinalityType
    <3> HIDE DEF runs
    <3> QED BY <3>1, <3>4, <3>5, <3>6
  <2>2. CASE UNCHANGED claims
      BY <2>2
  <2> QED BY <2>1, <2>2 DEF RNext
<1>2. RSpec => []Known
    BY ClaimsAreKnown
<1> QED BY <1>1, <1>2, PTL DEF RSpec, RateHolds

-----------------------------------------------------------------------------
(* The SDK is a caller of the server.                                      *)

\* A name the server draws is one of the owners, and nobody has it.
LEMMA FreshIsUnused ==
    ASSUME Unused # {}
    PROVE  /\ FreshOwner \in Owners
           /\ \A r \in Runs : leaseOwner[r] # FreshOwner
           /\ \A p \in Procs : sess[p].owner # FreshOwner
<1>1. FreshOwner \in Unused
    BY DEF FreshOwner
<1> QED BY <1>1 DEF Unused

\* A claim of one job is one of the claims of a pull.
LEMMA OneIsPulled ==
    ASSUME NEW w \in Owners, NEW q \in Queues, Claim(w, q, 1)
    PROVE  Pull
<1>1. PICK S \in FirstOf(Ready(q, now), {n \in 0..1 : CapRoom(q, n) /\ RateRoom(q, n)}) : S # {}
    BY DEF Claim
<1>2. Runs # {}
    BY <1>1, FirstOfSubset, ReadyInRuns
<1>3. Cardinality(Runs) \in Nat /\ Cardinality(Runs) # 0
    BY <1>2, FS_CardinalityType, FS_EmptySet
<1>4. 1 \in 1..Cardinality(Runs)
    BY <1>3
<1> QED BY <1>4 DEF Pull

\* How a process of the SDK changes the rows.
LEMMA WorkLoopCalls ==
    ASSUME NEW p \in Procs, WorkLoop(p)
    PROVE  Unused # {} /\ \E q \in Queues : Claim(FreshOwner, q, 1)
    BY DEF WorkLoop, WorkClaim, WorkClaimLost

LEMMA ReportCalls ==
    ASSUME NEW r \in Runs, CompleteHandled(r) \/ FailHandled(r)
    PROVE  Report(r) \/ UNCHANGED vars
    BY DEF CompleteHandled, FailHandled, Report
\* A process that is not idle is at a run; one that executes has a lease owner.
SessionsSound ==
    \A p \in Procs : /\ sess[p].pc # "idle" => sess[p].run \in Runs
                     /\ Holds(p) => sess[p].owner \in Owners

\* Every step of the SDK and of the server beside it is a step of RunLifecycle.
LEMMA SdkStepIsNext ==
    ASSUME STypeOK, SessionsSound, [SNext]_svars
    PROVE  [Next]_vars
<1>1. CASE Server /\ UNCHANGED sess
    BY <1>1 DEF Server, Next, Report
<1>2. CASE Clock /\ UNCHANGED sess
    BY <1>2 DEF Clock, Next
<1>3. ASSUME NEW p \in Procs, WorkLoop(p) PROVE [Next]_vars
  <2>1. Pull
      BY <1>3, WorkLoopCalls, OneIsPulled, FreshIsUnused
  <2> QED BY <2>1 DEF Next
<1>4. ASSUME NEW p \in Procs, RunCall(p) PROVE [Next]_vars
  <2>1. CASE Unused # {} /\ sess[p].pc = "fetched" /\ Begin(sess[p].run, FreshOwner)
      BY <2>1, FreshIsUnused DEF Next, SessionsSound
  <2> QED BY <1>4, <2>1 DEF RunCall, Fetch, BeginFetched, BeginCompleted, BeginThrows, BeginLost
<1>5. ASSUME NEW p \in Procs, Execute(p) \/ Session(p) \/ Crash(p) PROVE [Next]_vars
  <2>1. CASE UNCHANGED vars
      BY <2>1
  <2>2. CASE sess[p].pc # "idle" /\ (CompleteHandled(sess[p].run) \/ FailHandled(sess[p].run))
      BY <2>2, ReportCalls DEF Next, SessionsSound
  <2>3. CASE sess[p].pc = "session" /\ Heartbeat(sess[p].run, sess[p].owner)
      BY <2>3 DEF Next, SessionsSound, Holds
  <2> QED BY <1>5, <2>1, <2>2, <2>3
      DEF Execute, Session, Crash, ReportComplete, CompleteResponseLost, WorkflowThrows,
          SeesCancel, ReportFail, ReportFailLost, Beat, SessionEnds
<1>6. CASE UNCHANGED svars
    BY <1>6 DEF svars
<1> QED BY <1>1, <1>2, <1>3, <1>4, <1>5, <1>6 DEF SNext

-----------------------------------------------------------------------------
(* The rows under the SDK.                                                 *)

\* A row counts no attempt and goes to nobody.
Calm(r) == attempt'[r] = attempt[r] /\ leaseOwner'[r] \in {leaseOwner[r], None}

\* A row is calm, or the server drew an owner for it.
Drawn == /\ Unused # {}
         /\ \A r \in Runs : Calm(r) \/ leaseOwner'[r] = FreshOwner

\* The handlers and sweeps that start nothing.
LEMMA CalmSteps ==
    ASSUME TypeOK,
           \/ \E r \in Runs : \/ Submit(r) \/ Report(r) \/ Sweep(r) \/ Fire(r)
                              \/ \E w \in Owners : Heartbeat(r, w)
           \/ TickStep \/ TickAbort \/ Advance \/ UNCHANGED vars
    PROVE  \A r \in Runs : Calm(r)
<1>1. ASSUME NEW r \in Runs, Submit(r) \/ Fire(r) PROVE \A s \in Runs : Calm(s)
    BY <1>1 DEF Submit, Fire, CreateRun, Enqueue, FireSchedule, Insert, Calm
<1>2. ASSUME NEW r \in Runs, Report(r) PROVE \A s \in Runs : Calm(s)
    BY <1>2 DEF Report, Fail, Cancel, Complete, FailRetry, FailFinal, SetLease, Calm, TypeOK
<1>3. ASSUME NEW r \in Runs, Sweep(r) PROVE \A s \in Runs : Calm(s)
  <2>1. CASE ReclaimRetry(r) \/ ReclaimFail(r) \/ DeadlineCancel(r)
      BY <2>1 DEF ReclaimRetry, ReclaimFail, DeadlineCancel, SetLease, Calm, TypeOK
  <2>2. CASE ReclaimSkip(r) \/ DeadlineSkip(r) \/ PushRow(r)
      BY <2>2 DEF ReclaimSkip, DeadlineSkip, PushRow, row, Calm
  <2> QED BY <1>3, <2>1, <2>2 DEF Sweep
<1>4. ASSUME NEW r \in Runs, NEW w \in Owners, Heartbeat(r, w) PROVE \A s \in Runs : Calm(s)
    BY <1>4 DEF Heartbeat, Calm
<1>5. CASE TickStep \/ TickAbort \/ Advance \/ UNCHANGED vars
  <2>1. UNCHANGED row
      BY <1>5 DEF TickStep, TickLeases, TickDeadlines, TickPush, PushSelect, TickEnd,
                  TickAbort, Advance, vars
  <2> QED BY <2>1 DEF row, Calm
<1> QED BY <1>1, <1>2, <1>3, <1>4, <1>5

\* The requests that start a run, by an owner the server draws.
LEMMA DrawnSteps ==
    ASSUME TypeOK, Unused # {},
           \/ \E q \in Queues : Claim(FreshOwner, q, 1)
           \/ \E r \in Runs : Begin(r, FreshOwner)
    PROVE  Drawn
<1>1. ASSUME NEW q \in Queues, Claim(FreshOwner, q, 1) PROVE Drawn
    BY <1>1 DEF Claim, Drawn, Calm
<1>2. ASSUME NEW r \in Runs, Begin(r, FreshOwner) PROVE Drawn
    BY <1>2 DEF Begin, SetLease, Drawn, Calm, TypeOK
<1> QED BY <1>1, <1>2
-----------------------------------------------------------------------------
(* The sessions.                                                           *)

SessionType == [pc: PCs, run: Runs \cup {None}, owner: Owners \cup {None}, attempt: Nat]

OthersStay(p) == \A q \in Procs \ {p} : sess'[q] = sess[q]

\* A process starts to execute a run under a name the server drew: the attempt
\* that the row counts, if the row is under that name.
Starts(p) ==
    /\ Unused # {} /\ sess'[p].pc \in {"working", "session"}
    /\ sess'[p].run \in Runs /\ sess'[p].owner = FreshOwner
    /\ sess'[p].attempt = attempt'[sess'[p].run]

\* It goes on or stops: under the name and in the attempt it has.
GoesOn(p) ==
    \/ sess'[p] = sess[p]
    \/ sess'[p].pc = "idle"
    \/ sess'[p].pc = "fetched" /\ sess'[p].run \in Runs
    \/ /\ sess[p].pc = "working" /\ sess'[p].pc = "failing"
       /\ sess'[p].run = sess[p].run /\ sess'[p].owner = sess[p].owner
       /\ sess'[p].attempt = sess[p].attempt

\* The session of p is replaced.
LEMMA BecomeStep ==
    ASSUME STypeOK, NEW p \in Procs, NEW s \in SessionType, Become(p, s)
    PROVE  STypeOK' /\ OthersStay(p) /\ sess'[p] = s
    BY DEF STypeOK, SessionType, Become, OthersStay

LEMMA QuitStep ==
    ASSUME STypeOK, NEW p \in Procs, Quit(p)
    PROVE  STypeOK' /\ OthersStay(p) /\ GoesOn(p)
<1>1. NoSession \in SessionType /\ NoSession.pc = "idle"
    BY DEF NoSession, SessionType, PCs
<1> QED BY <1>1, BecomeStep DEF Quit, GoesOn

LEMMA FailingStep ==
    ASSUME STypeOK, NEW p \in Procs, sess[p].pc = "working", Goto(p, "failing")
    PROVE  STypeOK' /\ OthersStay(p) /\ GoesOn(p)
<1> DEFINE s == [sess[p] EXCEPT !.pc = "failing"]
<1>1. sess[p] \in SessionType
    BY DEF STypeOK, SessionType
<1>2. /\ s \in SessionType /\ s.pc = "failing" /\ s.run = sess[p].run
      /\ s.owner = sess[p].owner /\ s.attempt = sess[p].attempt
    BY <1>1 DEF SessionType, PCs
<1>3. Become(p, s)
    BY DEF Goto, Become
<1> HIDE DEF s
<1> QED BY <1>2, <1>3, BecomeStep DEF GoesOn

LEMMA FetchStep ==
    ASSUME STypeOK, NEW p \in Procs, NEW r \in Runs, Fetch(p, r)
    PROVE  STypeOK' /\ OthersStay(p) /\ GoesOn(p)
<1> DEFINE k == [pc |-> "fetched", run |-> None, owner |-> None, attempt |-> 0]
           s == [pc |-> "fetched", run |-> r, owner |-> None, attempt |-> 0]
<1>1. [NoSession EXCEPT !.pc = "fetched"] = k /\ [k EXCEPT !.run = r] = s
    BY DEF NoSession
<1>2. s \in SessionType /\ s.pc = "fetched" /\ s.run = r
    BY DEF SessionType, PCs
<1>3. Become(p, s)
    BY <1>1 DEF Fetch
<1> HIDE DEF s
<1> QED BY <1>2, <1>3, BecomeStep DEF GoesOn

\* A process executes what was begun or claimed for it.
LEMMA StartStep ==
    ASSUME STypeOK, TypeOK', NEW p \in Procs, NEW r \in Runs, NEW pc \in {"working", "session"},
           Unused # {},
           Become(p, [pc |-> pc, run |-> r, owner |-> FreshOwner, attempt |-> attempt'[r]])
    PROVE  STypeOK' /\ OthersStay(p) /\ Starts(p)
<1> DEFINE s == [pc |-> pc, run |-> r, owner |-> FreshOwner, attempt |-> attempt'[r]]
<1>1. attempt'[r] \in Nat
    BY DEF TypeOK
<1>2. s \in SessionType /\ s.pc = pc /\ s.run = r /\ s.owner = FreshOwner /\ s.attempt = attempt'[r]
    BY <1>1, FreshIsUnused DEF SessionType, PCs
<1> HIDE DEF s
<1> QED BY <1>2, BecomeStep DEF Starts, s

\* What a step does: the server acts beside the sessions; or one process goes
\* on, and the row it reports to is calm; or it starts under a drawn name.
SessionStep ==
    /\ STypeOK'
    /\ (\A r \in Runs : Calm(r)) \/ Drawn
    /\ \/ sess' = sess
       \/ \E p \in Procs : OthersStay(p) /\ (GoesOn(p) \/ Starts(p))

LEMMA SessionSteps ==
    ASSUME TypeOK, TypeOK', STypeOK, SessionsSound, [SNext]_svars
    PROVE  SessionStep
<1>1. CASE (Server \/ Clock) /\ UNCHANGED sess
  <2>1. \A r \in Runs : Calm(r)
      BY <1>1, CalmSteps DEF Server, Clock, Reconcile, Report
  <2> QED BY <1>1, <2>1 DEF SessionStep, STypeOK
<1>2. ASSUME NEW p \in Procs, WorkLoop(p) PROVE SessionStep
  <2>1. Unused # {} /\ \E q \in Queues : Claim(FreshOwner, q, 1)
      BY <1>2, WorkLoopCalls
  <2>2. Drawn
      BY <2>1, DrawnSteps
  <2>3. CASE WorkClaim(p)
    <3>1. STypeOK' /\ OthersStay(p) /\ Starts(p)
        BY <2>1, <2>3, StartStep DEF WorkClaim
    <3> QED BY <2>2, <3>1 DEF SessionStep
  <2>4. CASE WorkClaimLost(p)
      BY <2>2, <2>4 DEF WorkClaimLost, SessionStep, STypeOK
  <2> QED BY <1>2, <2>3, <2>4 DEF WorkLoop
<1>3. ASSUME NEW p \in Procs, RunCall(p) PROVE SessionStep
  <2>1. ASSUME NEW r \in Runs, Fetch(p, r) PROVE SessionStep
    <3>1. \A s \in Runs : Calm(s)
        BY <2>1, CalmSteps DEF Fetch
    <3> QED BY <2>1, <3>1, FetchStep DEF SessionStep
  <2>2. ASSUME NEW pc \in {"working", "session"}, BeginFetched(p, pc) PROVE SessionStep
    <3>1. sess[p].run \in Runs
        BY <2>2 DEF BeginFetched, SessionsSound
    <3>2. Drawn
        BY <2>2, <3>1, DrawnSteps DEF BeginFetched
    <3>3. STypeOK' /\ OthersStay(p) /\ Starts(p)
        BY <2>2, <3>1, StartStep DEF BeginFetched
    <3> QED BY <3>2, <3>3 DEF SessionStep
  <2>3. ASSUME NEW pc \in {"working", "session"}, BeginCompleted(p, pc) PROVE SessionStep
    <3>1. sess[p].run \in Runs /\ attempt' = attempt
        BY <2>3 DEF BeginCompleted, SessionsSound, vars, row
    <3>2. \A s \in Runs : Calm(s)
        BY <2>3, CalmSteps DEF BeginCompleted
    <3>3. STypeOK' /\ OthersStay(p) /\ Starts(p)
        BY <2>3, <3>1, StartStep DEF BeginCompleted
    <3> QED BY <3>2, <3>3 DEF SessionStep
  <2>4. CASE BeginThrows(p)
    <3>1. \A s \in Runs : Calm(s)
        BY <2>4, CalmSteps DEF BeginThrows
    <3> QED BY <2>4, <3>1, QuitStep DEF BeginThrows, SessionStep
  <2>5. CASE BeginLost(p)
    <3>1. Drawn
        BY <2>5, DrawnSteps DEF BeginLost, SessionsSound
    <3> QED BY <2>5, <3>1, QuitStep DEF BeginLost, SessionStep
  <2> QED BY <1>3, <2>1, <2>2, <2>3, <2>4, <2>5 DEF RunCall
<1>4. ASSUME NEW p \in Procs, Execute(p) \/ Session(p) \/ Crash(p) PROVE SessionStep
  <2>1. \A s \in Runs : Calm(s)
    <3>1. CASE UNCHANGED vars
        BY <3>1, CalmSteps
    <3>2. CASE sess[p].pc # "idle" /\ (CompleteHandled(sess[p].run) \/ FailHandled(sess[p].run))
        BY <3>2, ReportCalls, CalmSteps DEF SessionsSound
    <3>3. CASE sess[p].pc = "session" /\ Heartbeat(sess[p].run, sess[p].owner)
        BY <3>3, CalmSteps DEF SessionsSound, Holds
    <3> QED BY <1>4, <3>1, <3>2, <3>3
        DEF Execute, Session, Crash, ReportComplete, CompleteResponseLost, WorkflowThrows,
            SeesCancel, ReportFail, ReportFailLost, Beat, SessionEnds
  <2>2. STypeOK' /\ (sess' = sess \/ (OthersStay(p) /\ GoesOn(p)))
    <3>1. CASE Quit(p)
        BY <3>1, QuitStep
    <3>2. CASE sess[p].pc = "working" /\ Goto(p, "failing")
        BY <3>2, FailingStep
    <3>3. CASE UNCHANGED sess
        BY <3>3 DEF STypeOK
    <3> QED BY <1>4, <3>1, <3>2, <3>3
        DEF Execute, Session, Crash, ReportComplete, CompleteResponseLost, WorkflowThrows,
            SeesCancel, ReportFail, ReportFailLost, Beat, SessionEnds
  <2> QED BY <2>1, <2>2 DEF SessionStep
<1>5. CASE UNCHANGED svars
  <2>1. \A s \in Runs : Calm(s)
      BY <1>5, CalmSteps DEF svars
  <2> QED BY <1>5, <2>1 DEF svars, SessionStep, STypeOK
<1> QED BY <1>1, <1>2, <1>3, <1>4, <1>5 DEF SNext

-----------------------------------------------------------------------------
(* The theorems about the SDK.                                             *)

SdkInv == IInv /\ STypeOK /\ SessionsSound /\ LatestAttemptOwnsLease

LEMMA SdkInit == SInit => SdkInv
    BY InvInit DEF SInit, SdkInv, STypeOK, SessionsSound, LatestAttemptOwnsLease, NoSession, PCs, Holds

LEMMA SdkStep ==
    ASSUME SdkInv, [SNext]_svars
    PROVE  SdkInv'
<1>1. IInv'
    BY SdkStepIsNext, InvStep DEF SdkInv
<1>2. SessionStep
    BY <1>1, SessionSteps DEF SdkInv, IInv
<1>3. SessionsSound'
  <2> SUFFICES ASSUME NEW q \in Procs
               PROVE  /\ sess'[q].pc # "idle" => sess'[q].run \in Runs
                      /\ Holds(q)' => sess'[q].owner \in Owners
      BY DEF SessionsSound
  <2>1. CASE Starts(q)
      BY <2>1, FreshIsUnused DEF Starts
  <2>2. CASE GoesOn(q)
      BY <2>2 DEF GoesOn, SdkInv, SessionsSound, Holds
  <2>3. CASE sess'[q] = sess[q]
      BY <2>3 DEF SdkInv, SessionsSound, Holds
  <2> QED BY <1>2, <2>1, <2>2, <2>3 DEF SessionStep, OthersStay
<1>4. LatestAttemptOwnsLease'
  <2> SUFFICES ASSUME NEW q \in Procs, Holds(q)', leaseOwner'[sess'[q].run] = sess'[q].owner
               PROVE  sess'[q].attempt = attempt'[sess'[q].run]
      BY DEF LatestAttemptOwnsLease
  <2>1. CASE Starts(q)
      BY <2>1 DEF Starts
  <2>2. CASE /\ Holds(q) /\ sess'[q].run = sess[q].run /\ sess'[q].owner = sess[q].owner
             /\ sess'[q].attempt = sess[q].attempt
    <3>1. sess[q].run \in Runs /\ sess[q].owner \in Owners
        BY <2>2 DEF SdkInv, SessionsSound, Holds
    <3>2. Calm(sess[q].run)
        BY <1>2, <2>2, <3>1, FreshIsUnused DEF SessionStep, Drawn
    <3>3. leaseOwner[sess[q].run] = sess[q].owner /\ attempt'[sess[q].run] = attempt[sess[q].run]
        BY <2>2, <3>1, <3>2, NoneAssumption DEF Calm
    <3> QED BY <2>2, <3>3 DEF SdkInv, LatestAttemptOwnsLease
  <2>3. CASE ~Starts(q)
    <3>1. sess'[q] = sess[q] \/ GoesOn(q)
        BY <1>2, <2>3 DEF SessionStep, OthersStay
    <3> QED BY <2>2, <3>1 DEF GoesOn, Holds
  <2> QED BY <2>1, <2>3
<1> QED BY <1>1, <1>2, <1>3, <1>4 DEF SdkInv, SessionStep

\* The inductive invariant of the server and the SDK together.
THEOREM SdkInvariant == SSpec => []SdkInv
    BY SdkInit, SdkStep, PTL DEF SSpec

\* Whatever processes do with crashes and lost requests and responses, they use
\* the server as RunLifecycle allows: what is proved of any callers holds.
THEOREM SdkIsACaller == SSpec => Spec
<1>1. SdkInv /\ [SNext]_svars => [Next]_vars
    BY SdkStepIsNext DEF SdkInv
<1>2. SInit => Init
    BY DEF SInit
<1> QED BY <1>1, <1>2, SdkInvariant, PTL DEF SSpec, Spec

\* The types of the sessions.
THEOREM SessionsTyped == SSpec => []STypeOK
<1>1. SdkInv => STypeOK
    BY DEF SdkInv
<1> QED BY <1>1, SdkInvariant, PTL

\* A process that still owns the lease executes the latest attempt.
THEOREM LatestAttemptIsOwner == SSpec => []LatestAttemptOwnsLease
<1>1. SdkInv => LatestAttemptOwnsLease
    BY DEF SdkInv
<1> QED BY <1>1, SdkInvariant, PTL

\* A process that lost its lease does not get it back.
THEOREM LostLeasesStayLost == SSpec => LostLeaseStaysLost
<1> DEFINE Lost == \A p \in Procs : (/\ Holds(p) /\ sess'[p] = sess[p]
                                     /\ leaseOwner[sess[p].run] # sess[p].owner)
                                    => leaseOwner'[sess[p].run] # sess[p].owner
<1>1. SdkInv /\ SdkInv' /\ [SNext]_svars => [Lost]_svars
  <2> SUFFICES ASSUME SdkInv, SdkInv', [SNext]_svars, NEW p \in Procs, Holds(p),
                      leaseOwner[sess[p].run] # sess[p].owner
               PROVE  leaseOwner'[sess[p].run] # sess[p].owner
      OBVIOUS
  <2>1. SessionStep
      BY SessionSteps DEF SdkInv, IInv
  <2>2. sess[p].run \in Runs /\ sess[p].owner \in Owners
      BY DEF SdkInv, SessionsSound, Holds
  <2> QED BY <2>1, <2>2, FreshIsUnused, NoneAssumption DEF SessionStep, Drawn, Calm
<1> QED BY <1>1, SdkInvariant, PTL DEF SSpec, LostLeaseStaysLost
-----------------------------------------------------------------------------
(* Worker loops.                                                           *)

\* A loop is one of the things the SDK does, and only pulls.
LEMMA LoopIsSdk == [LoopNext]_svars => [SNext]_svars
    BY DEF LoopNext, SNext, Server

LEMMA LoopPulls ==
    ASSUME STypeOK, SessionsSound, [LoopNext]_svars
    PROVE  [PullNext \/ Configure \/ TickAbort]_vars
<1>1. CASE ((\E r \in Runs : Submit(r) \/ Cancel(r)) \/ Reconcile) \/ Clock
    BY <1>1 DEF PullNext, Report, Clock
<1>2. ASSUME NEW p \in Procs, WorkLoop(p) PROVE Pull
    BY <1>2, WorkLoopCalls, OneIsPulled, FreshIsUnused
<1>3. ASSUME NEW p \in Procs, Execute(p) \/ Crash(p)
      PROVE  UNCHANGED vars \/ \E r \in Runs : Report(r)
  <2>1. CASE UNCHANGED vars
      BY <2>1
  <2>2. CASE sess[p].pc # "idle" /\ (CompleteHandled(sess[p].run) \/ FailHandled(sess[p].run))
      BY <2>2, ReportCalls DEF SessionsSound
  <2> QED BY <1>3, <2>1, <2>2
      DEF Execute, Crash, ReportComplete, CompleteResponseLost, WorkflowThrows, SeesCancel,
          ReportFail, ReportFailLost
<1>4. CASE UNCHANGED svars
    BY <1>4 DEF svars
<1> QED BY <1>1, <1>2, <1>3, <1>4 DEF LoopNext, PullNext

\* Whatever worker loops crash and whatever they lose, no job is attempted more
\* often than it asked for.
THEOREM LoopsKeepAttempts == LoopSpec => []AttemptsWithinMax
<1>1. LoopSpec => SSpec
    BY LoopIsSdk, PTL DEF LoopSpec, SSpec
<1>2. SdkInv /\ [LoopNext]_svars => [PullNext \/ Configure \/ TickAbort]_vars
    BY LoopPulls DEF SdkInv
<1>3. SInit => Init
    BY DEF SInit
<1>4. LoopSpec => PullSpec
    BY <1>1, <1>2, <1>3, SdkInvariant, PTL DEF LoopSpec, PullSpec
<1> QED BY <1>4, AttemptsAreCapped, PTL
=============================================================================
