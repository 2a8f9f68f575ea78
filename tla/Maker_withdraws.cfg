SPECIFICATION LoopSpec
CONSTANTS
    Unit = 2
    ResidualLimit = 0
    Gated = TRUE
    Carry = FALSE
    Budget = 0
    Requotes = TRUE
    Tickets = {1, 2}
    OpenTickets = {2}
    Quantities = {2}
    Fills = {2}
    OneSided = TRUE
    MaxOrders = 1
    MaxTrades = 1
    WritesFail = FALSE
    MaxMishaps = 2
CHECK_DEADLOCK FALSE
PROPERTIES
    QuotesWithdrawn
