CONSTANTS
    NoThread = NoThread
    Tasks = {a}
    Worker = worker
    Driver = driver
    Blocking = blocking
    Threads = {a, worker, driver, blocking}
    Capacity = 1
SPECIFICATION SessionFairSpec
PROPERTIES
    CancelEndsSession
    RequestsSettle
    SetupReleased
    ResultDelivered
CHECK_DEADLOCK FALSE
