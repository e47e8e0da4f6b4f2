SPECIFICATION Spec
CONSTANTS
    t1 = t1  t2 = t2  t3 = t3
    NULL = NULL
    Threads <- ThreeThreads
    Ops <- AllOps
SYMMETRY Symmetry
INVARIANTS TypeOK TouchesLiveBlocks CountsHolders WakeupPending ListIntact SanityChecks
PROPERTIES Implements
