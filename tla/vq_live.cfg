SPECIFICATION FairSpec
CONSTANTS
    Size = 2
    IdxMod = 4
    MaxItemSize = 1
    AllocSizes = {1}
    SendSizes = {1}
    Notify = TRUE
    Misuse = FALSE
    SubcoreSide = "remote"
    CntMod = 4
INVARIANTS
    ClaimCoversBuffer
    ClaimsBalanced
PROPERTIES
    Delivered
    FullRingDrains
