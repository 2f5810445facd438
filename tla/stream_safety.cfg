SPECIFICATION Spec
CONSTANTS
    Requests = {r1, r2, r3}
    Conversations = {c1, c2}
    None = None
    MaxWorkers = 2
    MaxChunks = 1
SYMMETRY Symmetry
INVARIANTS
    TypeOK
    LockDiscipline
    CleanedUnlessAbandoned
    DeletesAnEntry
PROPERTY KeepsContract
