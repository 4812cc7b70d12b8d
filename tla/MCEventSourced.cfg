CONSTANTS
    Incarnations = {i1, i2}
    REPLAY_PAGE = 2
    MaxCommands = 2
    MaxBatch = 2
    MaxFailures = 1
SPECIFICATION Spec
SYMMETRY IncarnationSymmetry
INVARIANTS
    StateIsPrefix
    Serializable
    ContinuedDurable
    SnapshotIsPrefix
    RecoveryIsComplete
PROPERTIES
    ActsAsOne
