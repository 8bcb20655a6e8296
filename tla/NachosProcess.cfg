SPECIFICATION FairSpec
CONSTANTS
    t0 = t0
    t1 = t1
    t2 = t2
    Thread = {t0, t1, t2}
    Main = t0
    NumPhysPages = 4
    SharedPages = 2
    StackPages = 1
    MaxOpenFiles = 5
    MaxSemaphores = 2
    Programs <- MCPrograms
CHECK_DEADLOCK FALSE
INVARIANTS
    ConsoleHeld
    MemoryShared
    HandlesInStep
PROPERTIES
    CallsReturn
