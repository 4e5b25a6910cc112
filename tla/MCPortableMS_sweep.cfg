CONSTANTS
    Threads = {a, b}
    Main = a
    Locals = {}
    Globals = {g, h}
    Sizes = {4}
    PoolWords = 12
    WordBytes = 8
    MaxPools = 2
    MaxTypes = 1
    MayBlock = FALSE
    CallsCollect = FALSE
SPECIFICATION Spec
CHECK_DEADLOCK FALSE
INVARIANTS
    HeapParses
    FreeListExact
    SweptHeapIsLive
PROPERTIES
    ImplementsObjectGraph
