SPECIFICATION FairSpec
CONSTANTS
    Callers = {a, b}
    Hashed = {h1, h2}
    Rest = {r1}
    None = None
    Failure = Failure
    Raised = Raised
    MaxPrompts = 2
INVARIANTS
    TypeOK
    CompilesOnlyMissing
    AnswersWhatWasAsked
PROPERTY EveryCallReturns
