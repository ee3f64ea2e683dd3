CONSTANTS
    HeapSize = 204
    DirCap = 2
    PayloadSizes = {8, 72}
    Users = {1, 2}
    ObjPerms <- MCObjPerms
    CallerPerms <- MCCallerPerms
    Names = {"a"}
    Trunc <- MCTrunc
    MaxId = 3
SPECIFICATION WrapSpec
INVARIANTS
    WrapTypeOK
    ResolvedStaysOwn
    RaiiHonoured
    DestroyedOnce
