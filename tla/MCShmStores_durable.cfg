CONSTANTS
    HeapSize = 204
    DirCap = 2
    PayloadSizes = {8, 72}
    Users = {1}
    ObjPerms <- MCAllPerms
    NewPerms <- MCNewPerms
    CallerPerms <- MCAllPerms
    MaxId = 3
    Mortal = {}
SPECIFICATION Spec
INVARIANT MetadataDurable
