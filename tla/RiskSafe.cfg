SPECIFICATION RiskSpec
CONSTANTS
    b = b
    e = e
    Symbols = {b, e}
    Quantity <- Quantities
    Prices = {1, 2}
    StartCash = 5
    MaxOpenPositions = 2
    MaxTradeNotional = 2
    MaxSymbolPosition = 2
    MaxAggregateAllocation = 3
    MinCashReserve = 1
    MaxSlip = 1
    MaxOrders = 3
    MaxEquity = 4
    MaxDay = 1
    MaxLoss = 1
    DropNum = 1
    DropDen = 2
    BarPrices = {1, 2, 3}
    BarOpens = {1, 3}
    RunCash = 5
    Scale = 10
    Slip = 1
    FeeScale = 10
    Fee = 1
    FeeInQuote = TRUE
    Fast = 1
    Slow = 2
    SymbolLimit = 1
    Cent = 7
    MaxBars = 6
    Bars = 8
    DefaultBars = 2
    MaxCandles = 8
    MaxWindows = 4
    MaxActive = 2
    MaxStored = 2
    MaxPending = 1
    ReviewTtl = 1
    MaxReviews = 2
    MaxJobs = 3
    MaxClock = 1
INVARIANTS
    ReserveKept
    BuysWithinSamples
    Parity
    RunsAsReviewed
CHECK_DEADLOCK FALSE
