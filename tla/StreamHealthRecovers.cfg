SPECIFICATION LiveSpec
CONSTANTS
    Timeout = 2
    HealthyAfter = 3
    Threshold = 3
    Window = 5
    Interval = 7
    BaseDelay = 1
    MaxDelay = 2
    Punctual = TRUE
PROPERTIES
    Recovers
