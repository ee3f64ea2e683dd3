CONSTANTS
    HeapSize = 268
    DirCap = 3
    PayloadSizes = {0, 8, 72, 80}
    Users = {1}
    ObjPerms <- MCAllPerms
    CallerPerms <- MCAllPerms
    Names = {"a"}
    Trunc <- MCTrunc
    MaxId = 3
SPECIFICATION PayloadSpec
INVARIANTS
    TypeOK
    HeapTiled
    FreeListSound
    FullyCoalesced
    ObjectsFitTheirBlocks
    EmptyMeansWhole
    WalksAgree
    AccountingExact
    NothingInherited
PROPERTIES
    OthersUndisturbed
    ContentsKept
