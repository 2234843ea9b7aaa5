SPECIFICATION FairSpec
CONSTANTS
    Pieces = 5
    PerEvent = 3
    MaxIdle = 2
INVARIANTS
    TokensAreTheText
    SameAsStructured
PROPERTIES
    KeepsPromise
    CancelCloses
