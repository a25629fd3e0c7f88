SPECIFICATION Spec
CONSTANTS
    o1 = o1
    o2 = o2
    f1 = f1
    f2 = f2
    Orders <- MCOrders
    Fills <- MCFills
    OrderOf <- MCOrderOf
    Vague <- MCVague
    Opening = Opening
    Deposit = Deposit
SYMMETRY AlikeFills
CONSTRAINT OneAtATime
INVARIANTS
    CountsWhatSnapshotLacks
