SPECIFICATION FairSpec
CONSTANTS
    t1 = t1
    t2 = t2
    t3 = t3
    t4 = t4
    t5 = t5
    Threads = {t1, t2, t3, t4, t5}
    MinConnections = 3
    MaxConnections = 3
INVARIANTS Accounting OvershootNeedsThreads NoLostWakeup
PROPERTY ShutdownReleasesWaiters
CHECK_DEADLOCK FALSE
