\* Three calls over two keys and two inputs; every statement may fail.
SPECIFICATION FairSpec
CONSTANTS
    None = None
    Call = {c1, c2, c3}
    Key = {k1, k2}
    Input = {i1, i2}
CHECK_DEADLOCK FALSE
INVARIANTS
    PerformedOnce
PROPERTIES
    KeepsPromise
    EveryCallEnds
