SPECIFICATION Spec
CONSTANTS
    Size = 2
    IdxMod = 4
    MaxItemSize = 1
    AllocSizes = {1}
    SendSizes = {1, 2}
    Notify = TRUE
    Misuse = FALSE
    SubcoreSide = "master"
    CntMod = 4
INVARIANTS
    ClaimCoversBuffer
