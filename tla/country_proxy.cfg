SPECIFICATION FairSpec
CONSTANTS
    Country = {c1, c2}
    Key = {key1, key2}
    None = None
    Handler = {h1, h2}
    Client = {k1}
    MaxKeys = 2
CHECK_DEADLOCK FALSE
INVARIANT NoSelfConflict
INVARIANT RevokedKeyRefused
PROPERTY ListenersClose
PROPERTY OldKeyExpires
