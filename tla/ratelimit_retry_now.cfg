SPECIFICATION Spec
CONSTANTS
    Limit = 2
    Window = 3
    Second = 2
    FallibleStore = FALSE
    MaxTime = 8
    MaxCalls = 6
INVARIANTS
    RetryIsLater
