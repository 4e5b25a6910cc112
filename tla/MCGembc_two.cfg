CONSTANTS
    Vars = {x, y}
    Members = {f}
    Generations = 2
    PoolSize = 2
    CardSize = 2
    MaxPools = 1
    CallsCollect = FALSE
    Null = Null
SPECIFICATION Spec
INVARIANTS
    RememberedComplete
    ScanMeetsObjects
PROPERTIES
    ImplementsObjectGraph
