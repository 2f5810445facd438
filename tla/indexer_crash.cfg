SPECIFICATION FairSpec
CONSTANTS
    Consumers = {a, b}
    Objects = {o1, o2}
    None = None
    MaxEvents = 2
    MaxCrashes = 1
    MaxFaults = 1
    MaxMoves = 1
CHECK_DEADLOCK FALSE
INVARIANTS
    TypeOK
    NoEventLost
    QuiescentMeansIndexed
    OneSetOfPoints
PROPERTIES
    NeverGoesBack
    EventuallyHandled
