SPECIFICATION Spec
CONSTANTS
    Country = {c1}
    Configured = {c1}
    Node = {n1}
    Port = {p1}
    Limits = {1}
    None = None
    autoRestartLimit = 2
    MaxSwitch = 0
    MaxLaunch = 2
    MaxRequests = 3
    Kinds = {"start", "stop"}
CHECK_DEADLOCK FALSE
INVARIANT ReadyIsAcquirable
