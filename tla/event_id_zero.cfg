SPECIFICATION FairSpec
CONSTANTS
    Id = {0, 1}
    Group = {g, h}
    NULL = NULL
    Bit = {b}
    TableLen = 2
    TimerQueueLen = 1
    PollBit = {b}
INVARIANTS
    BoundIsFound
