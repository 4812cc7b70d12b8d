CONSTANTS
    Keys = {k1, k2}
    Stubborn = {k2}
    Actors = {1, 2, 3, 4, 5, 6}
    Buffer = 1
    Capacity = 1
    MaxMessages = 2
    MaxStops = 0
    MaxFailures = 1
SPECIFICATION FairSpec
PROPERTIES
    
    SweepsForever
