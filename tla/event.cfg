SPECIFICATION FairSpec
CONSTANTS
    Id = {1, 2}
    Group = {g, h}
    NULL = NULL
    Bit = {b}
    TableLen = 2
    TimerQueueLen = 1
    PollBit = {b, c}
INVARIANTS
    TypeOK
    BoundIsFound
    NoStrandedEvent
    EventsKept
PROPERTIES
    WaitAllOrNothing
    WaitReturns
