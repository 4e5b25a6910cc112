CONSTANTS
    Vars = {x, y}
    Members = {f}
    Generations = 3
    PoolSize = 1
    CardSize = 1
    MaxPools = 1
    CallsCollect = TRUE
    Null = Null
SPECIFICATION FairSpec
INVARIANTS
    TypeOk
    HeapClosed
    NothingUnseen
PROPERTIES
    ImplementsObjectGraph
    CollectionEnds
