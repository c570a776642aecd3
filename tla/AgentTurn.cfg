SPECIFICATION Spec
CONSTANTS
    t1 = t1
    t2 = t2
    s1 = s1
    s2 = s2
    NoSession = NoSession
    Turns <- OneTurn
    Sessions <- TwoSessions
    MaxSteps = 3
    MaxCalls = 2
    MaxAsks = 3
INVARIANTS CallsAnswered ExecutedOnce EndIsLast NoStrayCommand
PROPERTY TurnEnds
CHECK_DEADLOCK FALSE
