SPECIFICATION Spec
CONSTANTS
    Threads = {t1, t2}
    Keys = {k1, k2}
    None = None
    TTL = 1
    MaxTime = 3
    MaxItems = 2
SYMMETRY Symmetry
INVARIANT TypeOK
PROPERTIES
    LiveEntriesArePinned
    ServedItemsAreYoung
    KeepsContract
