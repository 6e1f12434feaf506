SPECIFICATION Spec
CONSTANTS
    Buffers <- MCBuffers
    FirstPool <- MCFirstPool
    Lengths = {2}
    Sender = {t1, t2}
    Addr = {a, b}
    Ctx = {x, y}
    Null = Null
    Polling = {TRUE, FALSE}
    HdrSize = 1
    ItemSize = 2
    LenMod = 4
    SizeMod = 8
    Sizes = {1, 2, 7}
    SendSizes = {1, 3}
SYMMETRY Symmetry
INVARIANTS
    TypeOK
    ListSound
    OneSenderPerBuffer
    WaitingOnlyExcused
    CalledIsListed
PROPERTIES
    HeaderStable
