SPECIFICATION FairSpec
CONSTANTS
    PendingTimeout = 2
    NeverSentHaltThreshold = 3
INVARIANTS
    OneLateOrder
    DecidesWithoutDoubt
PROPERTIES
    StreakEndsInHalt
    ResolvedOrHalted
