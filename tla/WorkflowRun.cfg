SPECIFICATION Spec
CONSTANTS
    c = c
    x = x
    None = None
    Agents <- TwoAgents
    Names <- FourNames
    AgentOf <- Lookup
    NameOf <- ProperName
    DefaultName = "Claude"
    RecursionLimit = 14
    MaxMentions = 2
INVARIANTS CompleteIsLast TurnsAnnounced ReviewIsTold NoTurnAfterFailure EndIsAnnounced TurnsAreBounded
CHECK_DEADLOCK FALSE
