SPECIFICATION FairSpec
CONSTANTS
    a = a
    b = b
    Users = {b}
    Size <- MCOneSize
    NumSlots = 1
    Opens = 1
    Regions <- MCOneRegion
    CanFail = FALSE
PROPERTIES
    ReleaseReturns
CHECK_DEADLOCK FALSE
