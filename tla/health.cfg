SPECIFICATION FairSpec
CONSTANTS
    Country = {c1, c2}
    Node = {n1}
    None = None
    failures = 1
    cooldown = 1
    MaxTime = 1
    MaxRequests = 1
CHECK_DEADLOCK FALSE
INVARIANT Paced
INVARIANT PausedByGlobalFailure
PROPERTY RoundEnds
