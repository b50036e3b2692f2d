\* The operation throws after its commit, or its instance dies.
SPECIFICATION Spec
CONSTANTS
    None = None
    Call = {c1, c2}
    Key = {k1}
    Input = {i1}
CHECK_DEADLOCK FALSE
INVARIANTS
    EffectIsStored
