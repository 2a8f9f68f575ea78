SPECIFICATION Spec
CONSTANTS
    Unit = 4
    ResidualLimit = 2
    Gated = FALSE
    Carry = TRUE
    Budget = 4
    Requotes = FALSE
    Tickets = {1, 2, 3}
    OpenTickets = {}
    Quantities = {2, 4}
    Fills = {2, 3, 4}
    OneSided = FALSE
    MaxOrders = 1
    MaxTrades = 2
    WritesFail = FALSE
    MaxMishaps = 1
CHECK_DEADLOCK FALSE
INVARIANTS
    ExposureWithinBudget
    FillsAccounted
PROPERTIES
    OpensLevel
