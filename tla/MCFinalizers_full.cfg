CONSTANTS
    Threads = {t, u}
    Objects = {x, y}
    Entries = {1, 2}
    Collector = "gembc"
    Null = Null
SPECIFICATION Spec
CHECK_DEADLOCK FALSE
PROPERTIES
    OnlyTheDead
