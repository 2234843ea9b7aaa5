\* One site, analyzed twice, with and without keywords, and the requests that
\* can be made of it, with a key of the client's own or none.
SPECIFICATION ContentSpec
CONSTANTS
    Contents = {"site"}
    Words = {"saas"}
    Times = {1, 2}
    Asks <- MCAsks
    Headers = {"", "key"}
    MaxKept = 2
INVARIANTS
    ReplayIsWhatWasAsked
    ResendIsReplayed
    AnalysisIsWhatIsPriced
