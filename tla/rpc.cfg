SPECIFICATION FairSpec
CONSTANTS
    MaxCmds = 3
    CmdId = {a}
    None = None
    Buffers = 2
    QueueLen = 1
    SrvTblLen = 1
    IdMod = 3
    MaxSessions = 3
CHECK_DEADLOCK FALSE
INVARIANTS
    TypeOK
    OwnResponse
    BuffersAccounted
PROPERTIES
    CommandSettles
