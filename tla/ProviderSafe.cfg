SPECIFICATION ProviderSpec
CONSTANTS
    c1 = c1
    c2 = c2
    Calls = {c1, c2}
    Capacity = 1
    MaxRetries = 1
    Threshold = 2
    Recovery = 1
    Patience = 1
    a = a
    b = b
    Orders = {a, b}
    Quantity = 2
    Schedule <- HalfThenAll
    Quotes = {2, 4}
    Spread = 1
    Scale = 2
    Slip = 1
    FeeRate = 1
    StartDollars = 50
    Providers = {"coinbase", "gemini"}
    Others = {"x", "y"}
    PageLimit = 1
    MaxPages = 2
    Margin = 1
    Skew = 1
    MaxClock = 2
    Size = 3
    Targets = {1, 2, 4}
    CancelIsFinal = TRUE
    MaxAsked = 3
    Tasks = {"cycle", "page"}
    Pages = 2
    Fresh = 2
    MaxWrites = 2
    Budget = 14
    Reserve = 2
INVARIANTS
    AppliedOnce
    BooksFollowFills
    WithinTotal
    LeavesNothing
PROPERTIES
    EveryCallEnds
    AnswersHold
    WritesSeen
CHECK_DEADLOCK FALSE
