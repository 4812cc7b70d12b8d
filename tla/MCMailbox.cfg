CONSTANTS
    Senders = {s1, s2}
    Capacities = {0, 1, 2}
    MaxSends = 2
SPECIFICATION FairSpec
INVARIANTS
    CountBalanced
    CapacityRespected
    TerminationReported
PROPERTIES
    RoomAgain
CHECK_DEADLOCK FALSE
