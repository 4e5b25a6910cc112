CONSTANTS
    Threads = {t1, t2, t3}
    Main = t1
    NoThread = NoThread
    Barriers = 4
    SpawnMayFail = FALSE
    TimeoutIsLock = FALSE
SPECIFICATION FairSpec
CHECK_DEADLOCK TRUE
INVARIANTS
    ThreadCountExact
    BarrierCurrent
    PhaseAgreement
PROPERTIES
    ImplementsSafeRegion
    CollectionCompletes
    YieldReturns
