SPECIFICATION FairSpec
CONSTANTS
    t1 = t1  t2 = t2  t3 = t3  h1 = h1  o1 = o1  o2 = o2
    NULL = NULL
    Threads <- ThreeThreads
    Handles <- OneHandle
    Objects <- TwoObjects
INVARIANTS TypeOK EntryExclusive FreeEntriesEmpty TouchesLiveBlocks WaitersListed WakeupPending
PROPERTIES CallsReturn
