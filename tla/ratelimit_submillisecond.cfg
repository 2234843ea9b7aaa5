SPECIFICATION Spec
CONSTANTS
    Limit = 1
    Window = 0
    Second = 2
    FallibleStore = FALSE
    MaxTime = 2
    MaxCalls = 5
INVARIANTS
    FewPerMillisecond
