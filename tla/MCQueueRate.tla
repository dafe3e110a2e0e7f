----------------------------- MODULE MCQueueRate -----------------------------
(* Small instances of QueueRate.                                           *)
EXTENDS QueueRate, RetryPolicy, TLC

CONSTANTS r1, r2, w1, q1

MCBackoff(n) == RetryBackoff(1, 2, n)

Once  == [queue |-> q1, key |-> None, max |-> 1, runAt |-> NoTime, delay |-> 0,
          deadline |-> NoTime, priority |-> 0, webhook |-> FALSE, scheduled |-> FALSE]
Twice == [Once EXCEPT !.max = 2]

OnceJobs  == {Once}
TwiceJobs == {Twice}

RunSymmetry == Permutations(Runs)
=============================================================================
