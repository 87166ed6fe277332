SPECIFICATION Spec
CONSTANTS
    NTrans = 3
    Keys = {k1, k2}
    MaxOps = 4
    MaxServing = 1
    MaxBlobs = 3
VIEW MCView
SYMMETRY Symmetry
INVARIANT
    KeysOutliveTheirEntries
