SPECIFICATION FairSpec
CONSTANTS
    g1 = g1 c1 = c1 c2 = c2 a1 = a1 a2 = a2
    chDone = chDone chNew = chNew
    None = None
    Gates = {g1}
    Callers = {c1, c2}
    Approvers = {a1, a2}
    Stored = {chDone}
    Inline = {chNew}
    Wants <- MCWants
    MaxCalls <- MCMaxCalls
    MaxFaults = 1
CHECK_DEADLOCK FALSE
INVARIANTS AnswersAgree LogTellsGate HeardIsCommitted UnsettledIsQueued
PROPERTIES DecidesOnce WaiterReleased
