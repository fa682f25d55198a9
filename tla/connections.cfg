SPECIFICATION FairSpec
CONSTANTS
    Country = {c1}
    Inst = {i0, i1}
    None = None
    Conn = {k1, k2}
CHECK_DEADLOCK FALSE
INVARIANT CountExact
PROPERTY DrainGraceful
PROPERTY DrainEnds
