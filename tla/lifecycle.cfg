SPECIFICATION Spec
CONSTANTS
    Country = {c1}
    Configured = {c1}
    Node = {n1}
    Port = {p1}
    Limits = {1}
    None = None
    autoRestartLimit = 2
    MaxSwitch = 1
    MaxLaunch = 2
    MaxRequests = 3
    Kinds = {"start", "stop", "node", "cancel", "limit", "upstream", "shutdown"}
CHECK_DEADLOCK FALSE
INVARIANT TypeOK
INVARIANT CountedHasProcess
INVARIANT ShutdownLeavesNoProcess
INVARIANT WaiterExists
INVARIANT RestartNotLost
PROPERTY NoLaunchAfterShutdown
PROPERTY ImplementsFleet
