SPECIFICATION RSpec
CONSTANTS
    r1 = r1 r2 = r2 w1 = w1 q1 = q1
    None = None
    Runs = {r1, r2}
    Owners = {w1}
    Queues = {q1}
    Keys = {}
    PushQueues = {q1}
    Jobs <- OnceJobs
    Caps = {1}
    Lease = 1 Minute = 2 Horizon = 1
    Backoff <- MCBackoff
    MaxAttempts = 1
    SweepLimit = 2 PushLimit = 1
    MaxTime = 3 MaxBegins = 0
SYMMETRY RunSymmetry
PROPERTIES StartsWithinCap RateHolds
