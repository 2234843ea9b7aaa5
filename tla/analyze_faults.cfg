SPECIFICATION FairSpec
CONSTANTS
    Requests = {r1, r2}
    Urls = {shop, localhost}
    Analyzable = {shop}
    Ttl = 2
    FallibleCache = TRUE
    MaxTime = 3
    None = None
INVARIANTS
    AnswersAreAnalyses
    FailureHasItsCause
    ServedWithinTtl
PROPERTIES
    DisconnectEnds
