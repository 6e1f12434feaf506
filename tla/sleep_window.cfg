SPECIFICATION SleepSpec
CONSTANTS
    MaxClaims = 2
INVARIANTS
    StallWoken
