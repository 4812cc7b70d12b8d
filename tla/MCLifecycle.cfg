CONSTANTS
    Actors = {r, a, b}
    Root = r
    System = sys
    Restarting = {r}
    MaxRestarts = 1
    MaxTells = 1
    MaxWatches = 1
    MaxFailures = 2
SPECIFICATION Spec
SYMMETRY ActorSymmetry
INVARIANTS
    ChildrenFirst
    OneGeneration
    AtMostOneLateCall
    TerminatedMeansGone
    NoLostSignal
    SignalProvesTermination
    SignalLast
    RegistrationsMatch
CHECK_DEADLOCK FALSE
