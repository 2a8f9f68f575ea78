SPECIFICATION Spec
CONSTANTS
    Unit = 2
    ResidualLimit = 0
    Gated = FALSE
    Carry = FALSE
    Budget = 0
    Requotes = FALSE
    Tickets = {1, 2}
    OpenTickets = {}
    Quantities = {2}
    Fills = {2}
    OneSided = FALSE
    MaxOrders = 1
    MaxTrades = 1
    WritesFail = TRUE
    MaxMishaps = 2
CHECK_DEADLOCK FALSE
INVARIANTS
    HedgesInTurn
PROPERTIES
    ExternalFreezeStays
