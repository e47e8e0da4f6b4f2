SPECIFICATION Spec
CONSTANTS
    t1 = t1  t2 = t2
    Threads <- TwoThreads
    LOW_LEVEL_ENTRIES = 5
    MaxPages = 2
INVARIANT AssertsHold
CHECK_DEADLOCK FALSE
