SPECIFICATION FairSpec
CONSTANTS
    s1 = s1 s2 = s2 q1 = q1 q2 = q2 k1 = k1 k2 = k2
    Never = Never None = None
    Calendar <- MCCalendar
    Fields <- MCFields
    Horizon = 8
    Names = {s1}
    c1 = c1 c2 = c2 c3 = c3 c4 = c4
    Crons = {c1, c2, c3, c4}
    Terms <- MCTerms
    Queues = {q1}
    Ticks = {k1, k2}
    MaxTime = 3
    MaxPuts = 2
    MaxFaults = 1
INVARIANTS ActiveFireUnique FiresAscend NoMinuteSkipped NextIsMeant
PROPERTIES DueIsSwept
