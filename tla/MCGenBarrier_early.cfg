CONSTANTS
    Threads = {t1, t2, t3}
    NoThread = NoThread
    Rounds = 3
    MaxMade = 2
SPECIFICATION FairSpec
CHECK_DEADLOCK FALSE
PROPERTIES
    WaitsReturn
