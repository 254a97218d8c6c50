SPECIFICATION Spec
CONSTANTS
    PageLen = 2
    Block = 4
    Gap = 2
    Size = 9
    RGs = 2
    Starts = {0, 4, 7}
    Lengths = {2, 5}
    MaxPlanned = 3
    Requests <- MCRequests
    Saved <- MCSaved
    Most <- MCMost
    MaxOdd <- MCMaxOdd
    MaxGrowth = 1
    MaxExports = 2
INVARIANTS
    PagesComeAndGoOnce
    CheckIsExact
    ToolsAgree
    OneGeneration
    CellsAreBorneOut
CHECK_DEADLOCK FALSE
