---------------------------- MODULE MCSdkWorkers ----------------------------
(* Small instances of SdkWorkers.                                          *)
EXTENDS SdkWorkers, RetryPolicy, TLC

CONSTANTS r1, r2, w1, w2, w3, w4, p1, p2, q1

MCBackoff(n) == RetryBackoff(1, 2, n)

Plain == [queue |-> None, key |-> None, max |-> 1, runAt |-> NoTime, delay |-> 0,
          deadline |-> NoTime, priority |-> 0, webhook |-> TRUE, scheduled |-> FALSE]
Twice == [Plain EXCEPT !.queue = q1, !.max = 2]

BothJobs  == {Plain, Twice}
QueueJobs == {Twice}

ProcSymmetry == Permutations(Procs)
=============================================================================
