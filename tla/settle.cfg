SPECIFICATION LoopSpec
CONSTANTS
    r1 = r1 r2 = r2 w1 = w1 w2 = w2 w3 = w3 w4 = w4 p1 = p1 p2 = p2 q1 = q1
    None = None
    Runs = {r1}
    Procs = {p1, p2}
    Owners = {w1, w2, w3}
    Queues = {q1}
    Keys = {}
    PushQueues = {}
    Jobs <- QueueJobs
    Caps = {}
    Lease = 1 Minute = 1 Horizon = 1
    Backoff <- MCBackoff
    MaxAttempts = 2
    SweepLimit = 2 PushLimit = 1
    MaxTime = 12 MaxBegins = 2
INVARIANTS AttemptsWithinMax
PROPERTIES JobsSettle
