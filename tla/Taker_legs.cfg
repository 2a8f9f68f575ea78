SPECIFICATION Spec
CONSTANTS
    Unit = 2
    Modes = {"paper"}
    Tickets <- MCTickets
    OpenTickets <- MCOpenTickets
    Positions <- MCPositions
    Quantities = {4}
    Fills = {1, 2, 3, 4}
    MaxOrders = 1
    MaxTrades = 2
    WritesFail = TRUE
    MaxMishaps = 2
CHECK_DEADLOCK FALSE
INVARIANTS
    LegSentOnce
    SentIsDurable
    FillsAccounted
PROPERTIES
    StopNeverForgotten
