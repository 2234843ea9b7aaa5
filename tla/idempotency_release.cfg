SPECIFICATION Spec
CONSTANTS
    Free = Free
    Requests = {r1, r2, r3}
    StoreFaults = {}
    FallibleRepo = FALSE
    Crashes = FALSE
    Expires = FALSE
PROPERTY
    ReleaseDeletesOwn
