SPECIFICATION FairSpec
CONSTANTS
    Names = {n1, n2}
    MaxCommands = 4
    MAX_RESTARTS = 1
INVARIANTS
    ReadingsAreAwaited
    ReadsOwnWrites
PROPERTY
    AverageResolves
CHECK_DEADLOCK FALSE
