SPECIFICATION Spec
CONSTANTS
    Readers = {r1, r2}
    Workers = {w1, w2}
    NumRG <- MCNumRG
    NumFiles = 1
    FileOf <- MCFileOf
    Units <- MCUnits
    Holds <- MCHolds
    Pruned <- MCPruned
    Work <- MCWork
    Items = 1
    Window = 4
    LedgerLimit = 7
    Draws = {0, 4}
    CanFail = TRUE
    CanQuit = TRUE
SYMMETRY Symmetry
INVARIANTS
    InMemoryWhileHeld
    AccountsBalance
    WindowBound
PROPERTIES
    ImplementsWindow
