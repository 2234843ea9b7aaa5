SPECIFICATION Spec
CONSTANTS
    Strategies = {a, b}
    Clients = {c1}
    FallibleRepo = FALSE
    MaxAsks = 1
INVARIANT MissingIdIsRefused
