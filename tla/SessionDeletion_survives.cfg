SPECIFICATION Spec
CONSTANTS
    r1 = r1
    r2 = r2
    m1 = m1
    m2 = m2
    Requests <- OneRequest
    Messages <- OneMessage
    MaxFailures = 0
INVARIANT DeletedEverywhere
CHECK_DEADLOCK FALSE
