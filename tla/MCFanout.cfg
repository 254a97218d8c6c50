SPECIFICATION FairSpec
CONSTANTS
    Functions = {"w:7", "w:6", "w:live"}
    Published = {"w:7", "w:6"}
    Versions = {"v6", "v7", "v8"}
    Speaks = {"v7", "v8"}
    Code0 <- MCCode
    Table <- MCTable
    Schema <- MCSchema
    Expand <- MCExpand
    Requests <- MCRequests
    Precision = 1000
    MaxQueries = 2
    MaxDeploys = 2
INVARIANTS
    AnswerIsWhole
    InputsAfterAcknowledgement
PROPERTIES
    QueryEnds
CHECK_DEADLOCK FALSE
