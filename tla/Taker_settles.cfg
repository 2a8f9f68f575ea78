SPECIFICATION FairSpec
CONSTANTS
    Unit = 2
    Modes = {"paper"}
    Tickets <- MCTickets
    OpenTickets <- MCOpenTickets
    Positions <- MCPositions
    Quantities = {4}
    Fills = {1, 2, 3, 4}
    MaxOrders = 1
    MaxTrades = 2
    WritesFail = FALSE
    MaxMishaps = 1
CHECK_DEADLOCK FALSE
PROPERTIES
    HedgeSettles
