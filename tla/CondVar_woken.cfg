SPECIFICATION FairSpec
CONSTANTS
    t1 = t1  t2 = t2  t3 = t3
    NULL = NULL
    Threads <- ThreeThreads
PROPERTIES WokenReturn
CHECK_DEADLOCK FALSE
