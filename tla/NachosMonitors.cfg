SPECIFICATION FairSpec
CONSTANTS
    t0 = t0
    t1 = t1
    t2 = t2
    t3 = t3
    mutex = mutex
    NoThread = NoThread
    Thread = {t0, t1, t2, t3}
    Main = t0
    N = 4
    BarrierCount = 3
    UserSemaphore = {mutex}
    Initial <- MCInitial
    Programs <- MCPrograms
CHECK_DEADLOCK FALSE
INVARIANTS
    TypeOK
    MutualExclusion
    MonitorPromises
PROPERTIES
    AllFinish
