SPECIFICATION SimSpec
CONSTANTS
    t0 = t0
    t1 = t1
    Thread = {t0, t1}
    Main = t0
    ByteBits = 2
    PageSize = 16
    UserStackSize = 16
    NumPhysPages = 8
    GPRegister = {0, 1, 2, 3, 4, 5, 29, 31}
    Images <- OrImages
CHECK_DEADLOCK FALSE
INVARIANTS
    SimulatorsAgree
