SPECIFICATION FairSpec
CONSTANTS
    Workers = {w1, w2, w3}
    NumBlocks = 4
    Ends <- MCEnds
    Items <- MCItems
    Ahead = 3
    Limit = 3
    CanRefuse = TRUE
    Nobody = Nobody
INVARIANTS
    MergedInOrder
    FewTables
    DecodeKept
    FirstFailureTold
PROPERTIES
    WorkersEnd
