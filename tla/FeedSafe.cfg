SPECIFICATION FeedSpec
CONSTANTS
    btc = btc
    eth = eth
    sol = sol
    r1 = r1
    r2 = r2
    r3 = r3
    None = None
    Symbols = {btc, eth, sol}
    Trading = {btc}
    Bad = {eth}
    Requests = {r1, r2}
    Limit = 2
    Bucket = 1
    MaxBackoff = 1
    Switchers = {r1, r2, r3}
    EnvOn = TRUE
    MaxSaves = 5
    MaxTasks = 2
    Reach = 3
    Page = 2
    Retention = 3
    Batch = 2
    Windows = {4}
    Intervals = {1, 2}
    MaxPoints = 2
    StaleAfter = 1
    Bound = 3
    HistoryBars = 3
    PageSize = 2
    Lapses = TRUE
    MaxBucket = 7
    Timeout = 2
    HealthyAfter = 2
    Threshold = 3
    Window = 7
    Interval = 10
    BaseDelay = 1
    MaxDelay = 2
    Punctual = FALSE
INVARIANTS
    RunsAsSaved
    BarsAreWhole
PROPERTIES
    EachCoinCollected
    EmitsNewBuckets
    StormClears
