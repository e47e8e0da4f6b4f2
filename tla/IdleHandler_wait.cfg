SPECIFICATION Spec
CONSTANTS
    e1 = e1  e2 = e2  e3 = e3
    Tables <- ThreeTables
    NULL = NULL
INVARIANTS WaitProtectsIdle
