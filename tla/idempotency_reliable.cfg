SPECIFICATION FairSpec
CONSTANTS
    Free = Free
    Requests = {r1, r2}
    StoreFaults = {"reserve", "resolve", "map"}
    FallibleRepo = FALSE
    Crashes = FALSE
    Expires = TRUE
INVARIANT
    MappedWillSettle
PROPERTY
    ReservationEnds
