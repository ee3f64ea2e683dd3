CONSTANTS
    HeapSize = 204
    DirCap = 2
    PayloadSizes = {8, 72}
    Users = {1}
    ObjPerms <- MCAllPerms
    NewPerms <- MCNewPerms
    CallerPerms <- MCAllPerms
    MaxId = 3
    Mortal = {"shm_alloc"}
SPECIFICATION Spec
INVARIANTS
    StoresTypeOK
    FreeListConsistent
    LiveDisjoint
    CountersInRange
    IterationComplete
    IdsUnique
    ObjectsDurable
PROPERTY
    CallsAreAtomic
CHECK_DEADLOCK FALSE
