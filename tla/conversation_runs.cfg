SPECIFICATION FairSpec
CONSTANTS
    Requests = {r1, r2}
    Attaching = {r1}
    RECURSION_LIMIT = 5
    MAX_ATTEMPTS = 2
    MaxSummaries = 1
    MaxOverlapped = 0
    MaxFaults = 1
    MaxCrashes = 1
CHECK_DEADLOCK FALSE
INVARIANTS
    TypeOK
    CallsAreAnswered
    AnsweredIsRemembered
PROPERTY RunsEnd
