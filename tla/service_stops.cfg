SPECIFICATION FairSpec
CONSTANTS
    Generations = {g1, g2}
    FallibleRepo = TRUE
    MaxBoots = 2
INVARIANTS
    ResourcesOutlastTheirUsers
    CleanStopSparesWhoStayed
    DoneIsDurable
    StuckHasItsCause
PROPERTIES
    StopEnds
