SPECIFICATION Spec
CONSTANTS
    t1 = t1  t2 = t2  t3 = t3  p1 = p1
    NULL = NULL  GRANTED = GRANTED
    Threads <- ThreeThreads
    Pointers <- OnePointer
    InitialTableSize = 3
    TableIncrement = 4
    MaxRecursion = 1
CHECK_DEADLOCK FALSE
INVARIANTS SharersCounted
