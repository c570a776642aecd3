SPECIFICATION Spec
CONSTANTS
    s1 = s1
    s2 = s2
    Sessions <- TwoSessions
    NoSession = NoSession
    Lists <- SomeLists
    Silent = Silent
    MaxLinks = 2
    MaxClients = 3
    MaxFaults = 1
    MaxItems = 1
INVARIANTS OneSocket ViewOfSession ManagerAgrees
PROPERTIES EntrySettles EntryEnds
CHECK_DEADLOCK FALSE
