SPECIFICATION Spec
CONSTANTS
    Callers = {a, b}
    Files = {f}
    Passages = {p, q}
    None = None
    MaxVersion = 2
    MaxFaults = 1
    MaxCrashes = 1
SYMMETRY Symmetry
INVARIANTS
    TypeOK
    
    VersionsAreCounted
PROPERTY OldVersionsStay
