SPECIFICATION Spec
CONSTANTS
    t1 = t1
    t2 = t2
    s1 = s1
    s2 = s2
    NoSession = NoSession
    Turns <- TwoTurns
    Sessions <- TwoSessions
    MaxSteps = 3
    MaxCalls = 1
    MaxAsks = 3
INVARIANT ToolsStayHome
CHECK_DEADLOCK FALSE
