------------------------------ MODULE QueueRate ------------------------------
(***************************************************************************)
(* The claims of RunLifecycle with their history.  A row keeps the time of *)
(* its last claim only; the rate limit of a queue is about all of them.    *)
(***************************************************************************)
EXTENDS RunLifecycle

VARIABLE claims     \* every claim so far: which run, its attempt, when

rvars == <<vars, claims>>

RInit == Init /\ claims = {}

RClaim(w, q, limit) ==
    /\ Claim(w, q, limit)
    /\ claims' = claims \cup {[run |-> r, attempt |-> attempt'[r], at |-> now] :
                              r \in {s \in Runs : attempt'[s] # attempt[s]}}

RNext ==
    \/ \E w \in Owners, q \in Queues, n \in 1..Cardinality(Runs) : RClaim(w, q, n)
    \/ /\ \/ \E r \in Runs : Submit(r) \/ Report(r)
          \/ Configure
          \/ Reconcile \/ TickAbort
          \/ Advance
       /\ UNCHANGED claims

RSpec == RInit /\ [][RNext]_rvars

ClaimsWithin(q, t) == {c \in claims : job[c.run].queue = q /\ c.at > t - Minute /\ c.at <= t}

\* docs/testing.md: "per-queue concurrency caps and rate limits hold across
\* competing claims": a claim that would leave more claims of the queue in the
\* last minute than its rate in force is not granted.  It holds for jobs that
\* are claimed once; a retried job counts once however often it is claimed.
RateHolds ==
    [][\A q \in Queues : \/ ClaimsWithin(q, now)' = ClaimsWithin(q, now)
                         \/ claims' = claims
                         \/ config[q].rate = NoCap
                         \/ Cardinality(ClaimsWithin(q, now)') <= config[q].rate]_rvars
=============================================================================
