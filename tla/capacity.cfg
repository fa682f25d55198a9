SPECIFICATION Spec
CONSTANTS
    Country = {c1, c2}
    Configured = {c1, c2}
    Node = {n1}
    Port = {p1}
    Limits = {1, 2}
    None = None
    autoRestartLimit = 2
    MaxSwitch = 0
    MaxLaunch = 2
    MaxRequests = 3
    Kinds = {"start", "stop", "limit"}
SYMMETRY Symmetry
CHECK_DEADLOCK FALSE
CONSTRAINT Undisturbed
INVARIANT Capacity
