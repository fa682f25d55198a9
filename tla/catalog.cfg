SPECIFICATION Spec
CONSTANTS
    n1 = n1
    n2 = n2
    c1 = c1
    c2 = c2
    Node = {n1, n2}
    Country = {c1, c2}
    Documents <- DocumentSet
    Latencies <- LatencySet
    Wanted <- WantedSet
    Caller = {x1, x2}
    None = None
    freshFor = 1
    latencyFor = 1
    MaxTime = 1
    MaxCalls = 2
    MaxUpdates = 1
SYMMETRY Symmetry
CHECK_DEADLOCK FALSE
INVARIANT NodesFromDocument
PROPERTY RefreshedOnce
PROPERTY ChoiceBest
