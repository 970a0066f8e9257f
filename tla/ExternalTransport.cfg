CONSTANTS
    Foreign = {f1}
    Io = io
    Nobody = Nobody
    Generations = {g1, g2}
    Parents = {p1, p2}
    NoParent = NoParent
    NoGeneration = NoGeneration
    MaxPosts = 1
SPECIFICATION TransportFairSpec
INVARIANTS
    TransportInv
    ParentsAlive
    OwnGeneration
PROPERTIES
    AcceptedDelivered
    IoNeverStuck
CHECK_DEADLOCK FALSE
