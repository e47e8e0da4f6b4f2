SPECIFICATION FairSpec
CONSTANTS
    t1 = t1  t2 = t2  t3 = t3  irp1 = irp1  irp2 = irp2
    Threads <- ThreeThreads
    Tags <- TwoTags
INVARIANTS TypeOK RemoveProtects CountExact TrackingSound
PROPERTIES RemoveReturns
CHECK_DEADLOCK FALSE
