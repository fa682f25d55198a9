SPECIFICATION FairSpec
CONSTANTS
    Country = {c1}
    Configured = {c1}
    Node = {n1}
    Port = {p1}
    Limits = {1}
    None = None
    autoRestartLimit = 1
    MaxSwitch = 1
    MaxLaunch = 1
    MaxRequests = 3
    Kinds = {"stop", "node", "cancel", "shutdown"}
CHECK_DEADLOCK FALSE
PROPERTY SwitchResolves
PROPERTY StartResolves
PROPERTY StopCompletes
PROPERTY ShutdownDrains
