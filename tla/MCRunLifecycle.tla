--------------------------- MODULE MCRunLifecycle ---------------------------
(* Small instances of RunLifecycle.                                        *)
EXTENDS RunLifecycle, RetryPolicy, TLC

CONSTANTS r1, r2, w1, w2, q1, k1

MCBackoff(n) == RetryBackoff(1, 2, n)

\* A webhook run, a queue job, and a job with retries, a key and a deadline,
\* and the job of a schedule that has the same key.
Hooked == [queue |-> None, key |-> None, max |-> 1, runAt |-> NoTime, delay |-> 0,
           deadline |-> NoTime, priority |-> 0, webhook |-> TRUE, scheduled |-> FALSE]
Once   == [Hooked EXCEPT !.queue = q1, !.webhook = FALSE]
Dated  == [Once EXCEPT !.max = 2, !.key = k1, !.deadline = 1, !.runAt = 1]
Fired  == [Once EXCEPT !.max = 2, !.key = k1, !.scheduled = TRUE]

LifecycleJobs == {Hooked, Dated, Fired}
StarvedJobs   == {Hooked, Once}

RunSymmetry == Permutations(Runs) \cup Permutations(Owners)
=============================================================================
