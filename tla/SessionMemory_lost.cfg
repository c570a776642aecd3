CONSTANTS
    h1 = h1
    h2 = h2
    Handlers <- TwoHandlers
    Rounds = 1
    MaxMessages = 6
    MaxHistory = 6
    Blank <- NoBlank
    NoHandler = NoHandler
    Serial = FALSE
    EagerExpiry = FALSE
    Faults = FALSE
SPECIFICATION Spec
INVARIANTS
    OwnTurnInContext
CHECK_DEADLOCK FALSE
