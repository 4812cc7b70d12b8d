CONSTANTS
    Ids = {i, j}
    Calls = {c1, c2, c3}
    MaxBigint = 1
    MaxSeqNo = 2
    MaxBatch = 2
    MaxLimit = 1
SPECIFICATION Spec
SYMMETRY Symmetry
INVARIANTS
    Gapless
    Acknowledged
PROPERTIES
    Implements
CHECK_DEADLOCK FALSE
