SPECIFICATION Spec
CONSTANTS
    Strategies = {a, b}
    Clients = {c1}
    FallibleRepo = TRUE
    MaxAsks = 3
INVARIANTS
    ExportIsBacked
    ToldStaysTrue
