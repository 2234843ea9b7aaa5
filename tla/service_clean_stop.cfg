SPECIFICATION Spec
CONSTANTS
    Generations = {g1}
    FallibleRepo = FALSE
    MaxBoots = 1
INVARIANTS
    CleanStopSettles
