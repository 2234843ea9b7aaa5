SPECIFICATION Spec
CONSTANTS
    Pieces = 1
    PerEvent = 1
    MaxIdle = 0
INVARIANTS
    ClosedAfterTerminal
