CONSTANTS
    Keys = {k1}
    Stubborn = {}
    Actors = {1, 2, 3, 4, 5}
    Buffer = 2
    Capacity = 1
    MaxMessages = 4
    MaxStops = 2
    MaxFailures = 2
SPECIFICATION Spec
INVARIANTS
    OneIncarnation
    TablesAgree
    SenderOrder
    Accounted
    PassivationLossless
    BufferKept
