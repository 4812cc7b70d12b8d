SPECIFICATION Spec
CONSTANTS
    MinBackoff = 1
    MaxBackoff = 40
    MaxDuration = 1000
    Width = 3
    MaxRestarts = 6
    ResetAfter = 2
    MaxRun = 3
INVARIANTS
    DelayDoubles
CHECK_DEADLOCK FALSE
