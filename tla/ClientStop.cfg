CONSTANTS
    Threads = {t1, t2}
    NoThread = NoThread
SPECIFICATION ClientFairSpec
PROPERTIES
    StopEndsConnect
CHECK_DEADLOCK FALSE
