SPECIFICATION RunsSpec
CONSTANTS
    c = c
    x = x
    h1 = h1
    h2 = h2
    s1 = s1
    s2 = s2
    None = None
    NoHandler = NoHandler
    Handlers <- TwoHandlers
    Sessions <- OneSession
    Agents <- TwoAgents
    Names <- TwoNames
    AgentOf <- Lookup
    NameOf <- ProperName
    DefaultName = "Claude"
    RecursionLimit = 7
    Faults = FALSE
    Answers <- Plain
    Blank <- NoTurn
    Observed = h1
INVARIANT EveryTurnMirrored
CHECK_DEADLOCK FALSE
