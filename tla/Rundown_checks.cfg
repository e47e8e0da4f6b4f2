SPECIFICATION FairSpec
CONSTANTS
    t1 = t1  t2 = t2  t3 = t3
    r1 = r1  r2 = r2
    Threads <- ThreeThreads
    Refs <- TwoRefs
    WaitBlockAddr = 9
INVARIANTS TypeOK RundownProtects WaitBlockInUse SanityChecks CountsReferences
PROPERTIES NoNewReference WaitReturns Implements
