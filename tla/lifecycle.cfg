SPECIFICATION Spec
CONSTANTS
    r1 = r1 r2 = r2 w1 = w1 w2 = w2 q1 = q1 k1 = k1
    None = None
    Runs = {r1, r2}
    Owners = {w1, w2}
    Queues = {q1}
    Keys = {k1}
    PushQueues = {q1}
    Jobs <- LifecycleJobs
    Caps = {}
    Lease = 1 Minute = 1 Horizon = 1
    Backoff <- MCBackoff
    MaxAttempts = 2
    SweepLimit = 1 PushLimit = 1
    MaxTime = 2 MaxBegins = 2
SYMMETRY RunSymmetry
INVARIANTS EventLogAgrees DedupeExact SnapshotStillTrue
PROPERTIES CancelledIsFinal LeaseIsALock
