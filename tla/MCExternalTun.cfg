CONSTANTS
    Foreign = {f1}
    Io = io
    Generations = {g1, g2}
    MaxPosts = 2
    MaxDepth = 3
SPECIFICATION TunSpec
INVARIANTS
    TunInv
    ConnectedFirst
SYMMETRY Symmetry
CHECK_DEADLOCK FALSE
