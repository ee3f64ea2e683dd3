CONSTANTS
    Procs = {1, 2}
    Files = {1}
    Backend = "POSIX"
    Kinds = {"ns"}
    Fingerprint <- MCFingerprint
    Orderly = FALSE
SPECIFICATION RegionSpec
INVARIANT OthersSeeCompleteState
