CONSTANTS
    Incarnations = {i1, i2}
    REPLAY_PAGE = 1
    MaxCommands = 2
    MaxBatch = 1
    MaxFailures = 0
SPECIFICATION FairSpec
PROPERTIES
    RecoveryEnds
    StopHonoured
