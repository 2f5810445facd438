SPECIFICATION FairSpec
CONSTANT Requests = {r, s}
CHECK_DEADLOCK FALSE
INVARIANTS
    OneMessageAfterStop
    HandsOneMessage
PROPERTIES
    ShutdownEnds
    HandedOverIsAnswered
