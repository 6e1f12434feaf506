SPECIFICATION FairSpec
CONSTANTS
    Buffers <- MCBuffers
    FirstPool <- MCFirstPool
    Lengths = {2}
    Sender = {t1}
    Addr = {a, b}
    Ctx = {x, y}
    Null = Null
    Polling = {FALSE}
    HdrSize = 1
    ItemSize = 2
    LenMod = 4
    SizeMod = 8
    Sizes = {1}
    SendSizes = {1}
PROPERTIES
    Dispatched
