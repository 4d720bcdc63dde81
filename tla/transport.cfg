CONSTANTS
    RequestSize = 3
    Capacity = 2
    MaxBytes = 3
    Replies <- SmallReplies
    Timeout = 2
    MaxClock = 4
SPECIFICATION Spec
CHECK_DEADLOCK FALSE
INVARIANTS
    ConfirmedOnce
    EndsInTime
PROPERTIES
    NothingSentLater
    RequestEnds
