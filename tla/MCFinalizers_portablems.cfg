CONSTANTS
    Threads = {t, u}
    Objects = {x, y}
    Entries = {1, 2}
    Collector = "portablems"
    Null = Null
SPECIFICATION Spec
CHECK_DEADLOCK FALSE
INVARIANTS
    EntriesKept
PROPERTIES
    OnlyTheDead
    ReadyGetsCalled
