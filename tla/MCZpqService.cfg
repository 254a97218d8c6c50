SPECIFICATION FairSpec
CONSTANTS
    h = h
    c = c
    r = r
    main = main
    other = other
    Nobody = Nobody
    Callers = {h, c}
    Readers = {r}
    Closers = {main, other}
    Finishers = {"user", "iterator"}
    Ceiling = 1
    Sizes = {1, 2}
    MaxBatches = 1
    Handlers = {h}
    Main = main
INVARIANTS
    NoCallOutlivesContext
    OneCloseEver
    BudgetKept
PROPERTIES
    StartsInOrder
    CloseReturns
    StopEnds
