SPECIFICATION EitherSpec
CONSTANTS
    c1 = c1
    c2 = c2
    c3 = c3
    Callers <- ThreeCallers
    MaxAttempts = 4
    NumServers = 3
INVARIANTS OneHandshake SessionIsCurrent PendingIsTimed FailureIsIsolated ContainersAccounted
PROPERTY CallsEnd
CHECK_DEADLOCK FALSE
