SPECIFICATION Spec
CONSTANTS
    Unit = 4
    Tickets <- MCTickets
    OpenTickets <- MCOpenTickets
    MaxOunces = 2
    MaxDrift = 1
    MaxLeaves = 6
    MaxWaiting = 4
    Quantities = {4}
    SourceMax = 6
    HedgeMax = 2
    MinKeep = 4
    MaxUnhedged = 8
    Capacity = 4
    MaxOrders = 2
    TradeSizes = {2, 4}
    MaxTurns = 3
    Clients = {c1, c2}
    FeeTrades = {t1, t2}
    MaxClock = 2
    MaxCrashes = 2
    Rows = {1, 2, 3}
    End = 2
    Limit = 2
    Orders = {o1, o2}
    Ounces = 1
    MaxMishaps = 2
    Asked = {o1, o2}
    MaxOutages = 2
CHECK_DEADLOCK FALSE
INVARIANTS
    HedgedToHalfAnOunce
    AdmissionHolds
    JointRiskWithinLimits
    DrainedIsLevel
    
    StoreRemembers
    AllReported
    HedgedOnce
    NoQuestionLost

    
    
    
