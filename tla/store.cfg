SPECIFICATION Spec
CONSTANTS
    NTrans = 3
    Keys = {k1, k2}
    MaxOps = 5
    MaxServing = 2
    MaxBlobs = 3
VIEW MCView
SYMMETRY Symmetry
INVARIANTS
    CountsAreRight
    UndefinedOnlyOnAbort
