SPECIFICATION FairSpec
CONSTANTS
    Asks = {a1, a2, a3}
    Capacity = 2
INVARIANTS
    OutcomeIsTrue
    LoggedIsLost
PROPERTY
    AskResolves
CHECK_DEADLOCK FALSE
