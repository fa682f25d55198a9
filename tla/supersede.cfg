SPECIFICATION Spec
CONSTANTS
    Country = {c1}
    Configured = {c1}
    Node = {n1}
    Port = {p1, p2}
    Limits = {1}
    None = None
    autoRestartLimit = 1
    MaxSwitch = 2
    MaxLaunch = 1
    MaxRequests = 3
    Kinds = {"start", "stop", "node", "cancel"}
CHECK_DEADLOCK FALSE
INVARIANT PendingOwned
INVARIANT NoOrphan
PROPERTY CutoverVerified
