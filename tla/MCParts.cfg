CONSTANTS
    Threads = {t1, t2, t3}
    NoThread = NoThread
    Rounds = 2
    MaxMade = 3
    Lists = {k, l}
    Nodes = {1, 2, 3, 4}
    Elements = {a, b}
    Null = Null
    Maps = {m, n}
    Keys = {0, 4, 8}
    Hash <- HashIsKey
    Values = {a, b}
    MaxSize = 8
    Absent = Absent
SPECIFICATION PartsSpec
INVARIANTS
    TypeOk
    NobodyLeavesEarly
    ChainsRight
    TableExact
PROPERTIES
    ImplementsCountedBarrier
    WaitsReturnIfIntact
    ImplementsSequences
    ImplementsFunctions
CHECK_DEADLOCK FALSE
