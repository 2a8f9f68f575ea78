SPECIFICATION Spec
CONSTANTS
    Unit = 2
    Modes = {"paper", "live", "one-shot", "exit"}
    Tickets <- MCTickets
    OpenTickets <- MCOpenTickets
    Positions <- MCPositions
    Quantities = {2}
    Fills = {1, 2}
    MaxOrders = 2
    MaxTrades = 2
    WritesFail = TRUE
    MaxMishaps = 2
CHECK_DEADLOCK FALSE
INVARIANTS
    GateImpliesFlat
    OneShotOnce
