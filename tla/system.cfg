SPECIFICATION FairSpec
CONSTANTS
    NULL = NULL
    HpPool = 2400
    RtcPool = 64
    SizeMod = 65536
    QueueId = {"q"}
    RpmsgId = {"rpmsg"}
    EventId = {"event"}
    RawId = {"raw"}
    Shapes <- MCShapes
    RawSize = 5
    HpCells = 4
    RtcCells = 3
    RtcOwn = 2
    Images <- MCImages
    RtcOver = 4
    MaxClaims = 2
    MaxChars = 5
    LineLen = 3
    ServiceBufs = 2
    HalfBits = 8
    HalfExp = 3
    Operand <- MCOperands
    Formats <- MCFormats
    Lines = {0, 7, 10, 4095, 9999, 10000, 65535}
CHECK_DEADLOCK FALSE
INVARIANTS
    TypeOK
    MemoryDisjoint
    PairedRings
    ClaimWakes
    PrintsKept
    LibraryExact
PROPERTIES
    SupplicantServes
