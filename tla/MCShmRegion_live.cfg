CONSTANTS
    Procs = {1, 2, 3}
    Files = {1}
    Backend = "DAX"
    Kinds = {}
    Fingerprint <- MCFingerprint
    Orderly = TRUE
SPECIFICATION FairRegionSpec
PROPERTY
    CallsReturn
