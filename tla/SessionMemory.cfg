CONSTANTS
    h1 = h1
    h2 = h2
    Handlers <- TwoHandlers
    Rounds = 3
    MaxMessages = 7
    MaxHistory = 3
    Blank <- BlankTurns
    NoHandler = NoHandler
    Serial = TRUE
    EagerExpiry = FALSE
    Faults = FALSE
    BusyRounds = 2
    BusyMessages = 3
    BusyHistory = 3
    BusyBlank <- BlankTurns
SPECIFICATION ModesSpec
INVARIANTS
    TurnsOnceInOrder
    SerialContext
PROPERTIES
    SerialMirrored
CHECK_DEADLOCK FALSE
