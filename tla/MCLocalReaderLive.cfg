SPECIFICATION FairSpec
CONSTANTS
    Readers = {r1, r2}
    Workers = {w1, w2}
    NumRG = 3
    NumFiles = 2
    FileOf <- MCSmallFileOf
    Units <- MCSmallUnits
    Holds <- MCSmallHolds
    Pruned = {}
    Work <- MCSmallWork
    Items = 2
    Window = 1
    LedgerLimit = 2
    Draws = {0, 1}
    CanFail = TRUE
    CanQuit = TRUE
PROPERTIES
    ScanEnds
