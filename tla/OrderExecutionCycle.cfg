SPECIFICATION Spec
CONSTANTS
    Orders = {o1, o2}
    Fills = {f1, f2}
    NoOrder = NoOrder
    VenueLag = TRUE
    DirectSubmit = FALSE
    MaxSends = 2
SYMMETRY Symmetry
INVARIANTS
    NoDuplicateOrder
    ClosedNeverReceived
    SettledWithFills
    NoOrphanOrder
PROPERTIES
    KeepsContract
    PostsWithoutDoubt
