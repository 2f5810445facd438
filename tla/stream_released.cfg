SPECIFICATION Spec
CONSTANTS
    Requests = {r1, r2}
    Conversations = {c1}
    None = None
    MaxWorkers = 2
    MaxChunks = 1
INVARIANT NothingLeftBehind
