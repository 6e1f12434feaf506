SPECIFICATION FairSpec
CONSTANTS
    Id = {1}
    Handler = {h}
    None = None
    TableLen = 2
    SleepOption = TRUE
    MaxTriggers = 3
INVARIANTS
    TypeOK
    NoStrandedBit
    OwedWillRun
    ClaimsExact
PROPERTY
    TriggersServed
