SPECIFICATION EitherSpec
CONSTANTS
    r1 = r1
    r2 = r2
    m1 = m1
    m2 = m2
    Requests <- TwoRequests
    Messages <- TwoMessages
    MaxFailures = 4
    k1 = k1
    k2 = k2
    p1 = p1
    p2 = p2
    p3 = p3
    Connections <- TwoConnections
    Prompts <- ThreePrompts
    Absent = Absent
    Torn = Torn
    None = None
    MaxEdits = 1
    MaxRefreshes = 1
    MaxDeletions = 1
INVARIANTS DeletedMeansGone EstablishedIsReady CacheIsCurrent ConversationIsKept
PROPERTIES OnlyDeletionRejects QueuedIsCarriedOut
CHECK_DEADLOCK FALSE
