SPECIFICATION Spec
CONSTANTS
    Limit = 2
    Window = 3
    Second = 2
    FallibleStore = TRUE
    MaxTime = 8
    MaxCalls = 6
INVARIANTS
    BurstAtMostTwice
    RefusalIsEarned
    RetryAfterCovers
