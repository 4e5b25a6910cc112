CONSTANTS
    Threads = {a, b}
    Main = a
    Locals = {}
    Globals = {g}
    Sizes = {3}
    PoolWords = 12
    WordBytes = 8
    MaxPools = 2
    MaxTypes = 1
    MayBlock = TRUE
    CallsCollect = TRUE
SPECIFICATION Spec
CHECK_DEADLOCK FALSE
INVARIANTS
    ReachableMarked
