SPECIFICATION AccountSpec
CONSTANTS
    o1 = o1
    o2 = o2
    f1 = f1
    f2 = f2
    Orders <- MCOrders
    Fills <- MCFills
    OrderOf <- MCOrderOf
    Vague <- MCVague
    Opening = Opening
    Deposit = Deposit
    Unit = 2
    OpeningUsd = 8
    Sizes = {1, 2}
    Prices = {1, 3}
    Fees = {0, 1}
    FeeAssets = {"usd", "coin"}
    Transfers = {"in"}
    MaxFills = 3
    Coins = {"b"}
    Bids = {1, 2}
    Cash = 3
    DayLength = 2
    StaleAfter = 1
    OneListing = TRUE
    MaxClock = 3
    MaxBuys = 2
    MaxSamples = 3
    MaxFaults = 1
SYMMETRY AlikeFills
CONSTRAINT OneAtATime
INVARIANTS
    NothingEntersUnseen
    DivergenceIsWhatIsMissing
    CostIsReal
    PnlIsReal
CHECK_DEADLOCK FALSE
