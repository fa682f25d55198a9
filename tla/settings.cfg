SPECIFICATION Spec
CONSTANTS
    k1 = k1
    a1 = a1
    u1 = u1
    p1 = p1
    Handler = {x1, x2}
    Inst = {t1}
    Key = {k1}
    Address = {a1}
    User = {u1}
    Pass = {p1}
    None = None
    Torn = Torn
    socks = 19050
    Initial <- InitialSet
    Requested <- RequestSet
    MaxRequests = 2
    MaxCrashes = 1
SYMMETRY Symmetry
CHECK_DEADLOCK FALSE
INVARIANT FileCurrent
INVARIANT RestartAccepted
INVARIANT Applied
INVARIANT TorFollows
PROPERTY NoLostUpdate
