CONSTANTS
    HeapSize = 268
    DirCap = 3
    PayloadSizes = {8, 72}
    Users = {1}
    ObjPerms <- MCAllPerms
    CallerPerms <- MCAllPerms
    Names = {"a"}
    Trunc <- MCTrunc
    MaxId = 3
SPECIFICATION PayloadSpec
INVARIANT ZeroFilled
