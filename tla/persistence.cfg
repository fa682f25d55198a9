SPECIFICATION Spec
CONSTANTS
    Country = {c1, c2}
    Choice = {n1, n2}
    None = None
    Writer = {w1, w2}
    Main = w1
    MaxChanges = 5
    MaxCrashes = 2
SYMMETRY Symmetry
CHECK_DEADLOCK FALSE
INVARIANT DiskCurrent
INVARIANT RestoreKeepsPending
INVARIANT RestoresActive
