SPECIFICATION FairSpec
CONSTANTS
    NumRG = 4
    Jobs <- MCJobs
    Copied <- MCCopied
    Bytes <- MCBytes
    Limit = 4
    Batch = 3
    SlowStart = TRUE
    Workers = {w1, w2}
    Items = 1
    Cuttable = {2, 3, 4}
    CanFail = TRUE
    CanQuit = TRUE
INVARIANTS
    BytesBeforeUse
    ChargedWhileResident
PROPERTIES
    ImplementsWindow
    ScanEndsUnlessLeaked
