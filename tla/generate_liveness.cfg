SPECIFICATION FairSpec
CONSTANTS
    Aggregate = Aggregate
    Strategies = {anchor, freemium}
    MaxTokens = 1
    FallibleRepo = FALSE
PROPERTIES
    NoGoroutineLeaks
    DisconnectSettles
    ClientIsTold
