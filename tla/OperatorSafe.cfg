SPECIFICATION OperatorSpec
CONSTANTS
    r1 = r1
    r2 = r2
    b1 = b1
    e1 = e1
    e2 = e2
    o1 = o1
    o2 = o2
    i1 = i1
    Requests = {r1, r2}
    Browsers = {b1}
    Emitters = {e1, e2}
    Destinations = 1
    MaxMoves = 1
    MaxRaised = 3
    MaxRestarts = 1
    Rows = {1, 2, 3}
    Gates = {"known", "idle"}
    MaxClock = 2
    MaxWindow = 2
    MaxLimit = 1
    Orders = {o1, o2}
    Interval = 1
    DayLength = 2
    Window = 3
    Threshold = 2
    StormSpan = 2
    Incidents = {i1}
    Priced = {"live"}
    MaxDays = 3
    MaxRecords = 3
    MaxStops = 1
    s1 = s1
    s2 = s2
    c1 = c1
    c2 = c2
    Nil = Nil
    Sessions = {s1, s2}
    TTL = 1
    Items = {c1, c2}
    TwoRoles = TRUE
    LastTick = 2
INVARIANTS
    CurrentSinceOverlap
    WalkIsExact
    LineageWhole
    PassIsEarned
    SignedOutStaysOut
PROPERTIES
    EveryAlertListed
CHECK_DEADLOCK FALSE
