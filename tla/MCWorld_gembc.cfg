CONSTANTS
    Threads = {t1, t2, t3}
    Main = t1
    NoThread = NoThread
    Barriers = 3
    SpawnMayFail = TRUE
    TimeoutIsLock = FALSE
SPECIFICATION Spec
CHECK_DEADLOCK FALSE
INVARIANTS
    TypeOk
    WorldStopped
    RootsComplete
    SeenStopStaysRaised
    PhaseAgreement
PROPERTIES
    BarrierNotLost
    ImplementsSafeRegion
