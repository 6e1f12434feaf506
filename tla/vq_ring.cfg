SPECIFICATION Spec
CONSTANTS
    Size = 2
    IdxMod = 8
    MaxItemSize = 2
    AllocSizes = {1, 3}
    SendSizes = {1, 2, 3}
    Notify = TRUE
    Misuse = TRUE
    SubcoreSide = "none"
    CntMod = 4
INVARIANTS
    TypeOK
    TakenSlotReady
    OwnedOnce
    NoLostUpdate
    NoLostWakeup
PROPERTIES
    ImplementsChannel
    SentAsGiven
