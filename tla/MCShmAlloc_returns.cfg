CONSTANTS
    HeapSize = 268
    DirCap = 3
    PayloadSizes = {8, 16, 72}
    Users = {1}
    ObjPerms <- MCAllPerms
    CallerPerms <- MCAllPerms
    Names = {"a"}
    Trunc <- MCTrunc
    MaxId = 4
SPECIFICATION Spec
INVARIANT ResizeReturns
