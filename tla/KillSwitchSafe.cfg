SPECIFICATION Spec
CONSTANTS
    MaxTransitions = 4
    DiskFails = TRUE
    FileLoss = TRUE
INVARIANTS
    StopsHold
    KeptUntilSaved
PROPERTIES
    LoweringIsJournaled
