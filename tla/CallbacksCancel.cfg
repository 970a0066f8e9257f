CONSTANTS
    Readers = {}
    MaxCapacity = 1
    MaxCalls = 1
SPECIFICATION CallbackFairSpec
PROPERTY CancelledSessionEnds
CHECK_DEADLOCK FALSE
