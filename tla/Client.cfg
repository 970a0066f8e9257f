CONSTANTS
    Threads = {t1, t2, t3}
    NoThread = NoThread
SPECIFICATION ClientFairSpec
INVARIANTS
    ClientInv
    ConfigurationSerialized
    NoUseAfterFree
    StartedPointerLive
PROPERTIES
    OneSession
    AcceptedStopEnds
    DroppedIsFreed
CHECK_DEADLOCK FALSE
