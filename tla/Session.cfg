CONSTANTS
    NoThread = NoThread
    Tasks = {a, b}
    Worker = worker
    Driver = driver
    Blocking = blocking
    Threads = {a, b, worker, driver, blocking}
    Capacity = 1
SPECIFICATION SessionSpec
INVARIANTS
    SessionInv
    StopNotLost
    SessionStoppable
    ActiveWhileDriven
    ClosureExcludesSession
    ResultAfterCleanup
PROPERTIES
    ClientSpec
CHECK_DEADLOCK FALSE
