CONSTANTS
    Foreign = {f1}
    Io = io
    Generations = {g1}
    MaxPosts = 2
    MaxDepth = 3
SPECIFICATION TunFairSpec
PROPERTIES
    TunStopEnds
    InlineProceeds
CHECK_DEADLOCK FALSE
