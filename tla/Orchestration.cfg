SPECIFICATION RunsSpec
CONSTANTS
    c = c
    x = x
    h1 = h1
    h2 = h2
    s1 = s1
    s2 = s2
    None = None
    NoHandler = NoHandler
    Handlers <- TwoHandlers
    Sessions <- TwoSessions
    Agents <- TwoAgents
    Names <- TwoNames
    AgentOf <- Lookup
    NameOf <- ProperName
    DefaultName = "Claude"
    RecursionLimit = 7
    Faults = TRUE
    Answers <- Plain
    Blank <- BlankTurn
    Observed = h1
SYMMETRY Alike
INVARIANTS HooksReleased SessionsIsolated MirroredAtMostOnce AnsweredMeansMirrored NobodyLeftWaiting
PROPERTY OnItsOwn
CHECK_DEADLOCK FALSE
