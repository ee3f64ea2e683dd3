CONSTANTS
    HeapSize = 200
    DirCap = 2
    PayloadSizes = {8, 72}
    Users = {1}
    ObjPerms <- MCObjPerms
    CallerPerms <- MCCallerPerms
    Names = {"a"}
    Trunc <- MCTrunc
    MaxId = 3
    GrantPerms <- MCGrantPerms
    EpochMod = 65536
    BoundMod = 64
    MaxCaps = 2
SPECIFICATION CapSpec
INVARIANTS
    CapTypeOK
    DerefSound
    CapsNeverWiden
