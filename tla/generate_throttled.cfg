SPECIFICATION ThrottledSpec
CONSTANTS
    Aggregate = Aggregate
    Strategies = {anchor, freemium}
    MaxTokens = 1
    FallibleRepo = FALSE
PROPERTY
    DisconnectSettles
