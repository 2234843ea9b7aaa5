SPECIFICATION Spec
CONSTANTS
    Free = Free
    Requests = {r1, r2, r3}
    StoreFaults = {"reserve", "resolve", "map", "release"}
    FallibleRepo = TRUE
    Crashes = TRUE
    Expires = TRUE
SYMMETRY RequestSymmetry
INVARIANTS
    ReplayIsCompleted
    OneOwnerUnlessBypassed
