\* Safety: five goroutines, two failures to trip, two successes to close.
SPECIFICATION Spec
CONSTANTS
    Threads = {t1, t2, t3, t4, t5}
    FailureThreshold = 2
    SuccessThreshold = 2
    Timeout = 1
    MaxConcurrent = 1
SYMMETRY ThreadSymmetry
INVARIANTS
    TypeOK
    SlotsHeldByCalls
PROPERTIES
    TripsOnlyAfterFailures
    ClosesOnlyAfterSuccesses
\* Every goroutine may end up parked in Release, where nothing wakes it.
CHECK_DEADLOCK FALSE
