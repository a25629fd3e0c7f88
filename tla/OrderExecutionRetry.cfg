SPECIFICATION FairSpec
CONSTANTS
    Orders = {o1}
    Fills = {f1, f2}
    NoOrder = NoOrder
    VenueLag = FALSE
    DirectSubmit = TRUE
    MaxSends = 2
PROPERTIES
    EventuallyAccounted
