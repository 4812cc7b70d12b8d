SPECIFICATION Spec
CONSTANTS
    Asks = {a1}
    Capacity = 1
INVARIANTS
    LateReplyLogged
CHECK_DEADLOCK FALSE
