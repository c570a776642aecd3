SPECIFICATION EitherSpec
CONSTANTS
    Events = {e1, e2, e3, e4}
    MaxLines = 5
    MaxSize = 2
    MaxFileSize = 3
    MaxNow = 2
    MaxErrors = 2
INVARIANTS NoLostWakeup LogIsWhole
PROPERTIES ImplementsStream
CHECK_DEADLOCK FALSE
