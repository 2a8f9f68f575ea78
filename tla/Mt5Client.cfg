SPECIFICATION FairSpec
CONSTANTS
    Requests = {r1, r2}
    Payloads = {}
    NoRequest = NoRequest
    MaxBoots = 2
    PageLimit = 2
    MaxLives = 2
    MaxMishaps = 3
CHECK_DEADLOCK FALSE
INVARIANTS
    OneUnresolved
    ToldTruth
    NothingKnownUntold
PROPERTIES
    PositionsExplained
    OutcomeIsTold
