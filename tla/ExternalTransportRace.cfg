CONSTANTS
    Foreign = {f1}
    Io = io
    Nobody = Nobody
    Generations = {g1}
    Parents = {p1}
    NoParent = NoParent
    NoGeneration = NoGeneration
    MaxPosts = 1
SPECIFICATION TransportSpec
INVARIANTS
    SessionStateSerialized
CHECK_DEADLOCK FALSE
