CONSTANTS
    Actors = {r, a, b}
    Root = r
    System = sys
    Restarting = {r}
    MaxRestarts = 1
    MaxTells = 0
    MaxWatches = 1
    MaxFailures = 1
SPECIFICATION FairSpec
PROPERTIES
    StopTerminates
    WatchResolves
CHECK_DEADLOCK FALSE
