SPECIFICATION FairSpec
CONSTANTS
    a = a
    b = b
    Users = {a, b}
    Size <- MCSize
    NumSlots = 3
    Opens = 1
    Regions <- MCRegions
    CanFail = TRUE
INVARIANTS
    RegionOutlivesItsThreads
    ListsHoldTheThreads
PROPERTIES
    CallersReturn
CHECK_DEADLOCK FALSE
