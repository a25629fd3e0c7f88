SPECIFICATION Spec
CONSTANTS
    MaxTransitions = 2
    DiskFails = TRUE
    FileLoss = FALSE
INVARIANTS
    NothingForgotten
