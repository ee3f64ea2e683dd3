CONSTANTS
    HeapSize = 200
    DirCap = 2
    PayloadSizes = {8, 72}
    Users = {1, 2}
    ObjPerms <- MCObjPerms
    CallerPerms <- MCCallerPerms
    Names = {"a", "long1"}
    Trunc <- MCTruncLong
    MaxId = 2
SPECIFICATION Spec
INVARIANTS
    DirectoryMatchesHeap
    LookupLeadsToBlock
PROPERTIES
    ImplementsPromise
    EveryCallKept
