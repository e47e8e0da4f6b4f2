SPECIFICATION FairSpec
CONSTANTS
    t1 = t1  t2 = t2  t3 = t3
    NULL = NULL
    Threads <- ThreeThreads
INVARIANTS TypeOK TouchesLiveEntries ListExact Rendezvous
PROPERTIES CallsReturn
CHECK_DEADLOCK FALSE
