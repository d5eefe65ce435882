\* A call let in while closed never gets out of Release.
SPECIFICATION FairSpec
CONSTANTS
    Threads = {t1, t2, t3}
    FailureThreshold = 1
    SuccessThreshold = 1
    Timeout = 2
    MaxConcurrent = 1
PROPERTIES
    ExecuteReturns
\* Every goroutine may end up parked in Release, where nothing wakes it.
CHECK_DEADLOCK FALSE
