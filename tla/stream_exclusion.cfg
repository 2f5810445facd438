SPECIFICATION Spec
CONSTANTS
    Requests = {r1, r2, r3}
    Conversations = {c1}
    None = None
    MaxWorkers = 2
    MaxChunks = 0
INVARIANT ConversationExclusion
