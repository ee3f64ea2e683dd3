CONSTANTS
    Procs = {1, 2, 3}
    Files = {1, 2}
    Backend = "POSIX"
    Kinds = {"ns"}
    Fingerprint <- MCFingerprint
    Orderly = TRUE
SPECIFICATION RegionSpec
INVARIANTS
    RegionTypeOK
    HostCountExact
    NothingLeaked
    OnlyKindredAttached
