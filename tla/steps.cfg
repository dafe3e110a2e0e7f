SPECIFICATION Spec
CONSTANTS
    s1 = s1 s2 = s2 p1 = p1 p2 = p2 w1 = w1 w2 = w2 w3 = w3 h1 = h1 h2 = h2
    None = None
    Steps = {s1}
    Procs = {p1, p2}
    Owners = {w1, w2, w3}
    Hashes = {h1, h2}
    Decision <- Parked
    Lease = 1 Retries = 1
    MaxTime = 2 MaxAttempt = 2
CHECK_DEADLOCK FALSE
SYMMETRY CallSymmetry
INVARIANTS OutputIsFromLastAttempt InputsAgree
PROPERTIES CompletedStepIsFinal StepLeaseIsALock
