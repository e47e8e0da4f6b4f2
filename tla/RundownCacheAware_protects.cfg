SPECIFICATION Spec
CONSTANTS
    t1 = t1  t2 = t2
    r1 = r1  r2 = r2
    Threads <- TwoThreads
    Refs <- TwoRefs
    KeNumberProcessors = 3
    Number = 2
    MaxSkew = 2
INVARIANTS RundownProtects
