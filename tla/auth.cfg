SPECIFICATION Spec
CONSTANTS
    Client = {c1}
    Password = {p1, p2}
    Token = {t1, t2}
    None = None
    Empty = Empty
    Partial = Partial
    loginFailureLimit = 2
    loginBlockDuration = 2
    loginRecordLifetime = 2
    sessionLifetime = 2
    MaxWait = 1
    MaxTime = 3
    MaxChanges = 2
    MaxCrashes = 1
SYMMETRY Symmetry
CHECK_DEADLOCK FALSE
INVARIANT LastPasswordCounts
INVARIANT FailuresPaced
INVARIANT RefusedOnlyAfterFailure
PROPERTY SessionKept
