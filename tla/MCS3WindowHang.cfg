SPECIFICATION FairSpec
CONSTANTS
    NumRG = 4
    Jobs <- MCJobs
    Copied <- MCCopied
    Bytes <- MCBytes
    Limit = 4
    Batch = 3
    SlowStart = TRUE
    Workers = {w1}
    Items = 1
    Cuttable = {2}
    CanFail = FALSE
    CanQuit = FALSE
PROPERTIES
    ScanEnds
