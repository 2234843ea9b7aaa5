SPECIFICATION Spec
CONSTANTS
    Aggregate = Aggregate
    Strategies = {anchor, freemium, value_based}
    MaxTokens = 1
    FallibleRepo = TRUE
SYMMETRY StrategySymmetry
INVARIANTS
    CompletedIsWhole
    DoneIsBacked
    StrategyInOrder
    SentryOnce
    SentryIsFailure
PROPERTIES
    NothingAfterVerdict
    ImplementsRecord
