SPECIFICATION FairSpec
CONSTANTS
    s1 = s1
    s2 = s2
    a1 = a1
    a2 = a2
    a3 = a3
    f1 = f1
    f2 = f2
    broken = broken
    ending = ending
    Server = {s1}
    Addr = {a1}
    Figure = {f1, f2}
    Host <- AloneHost
    Announced <- AloneHost
    Reach <- AloneReach
    Catalogues <- AloneCatalogues
    Beginnings <- AloneBeginnings
    EndPieces = {}
    NoAddr = NoAddr
    NoServer = NoServer
    Absent = {absent}
    NoAnswer = {noAnswer}
    Garbled = {garbled}
    MaxRetries = 3
    MaxStarts <- AloneRestart
    MaxForkStarts = 2
    MaySlow = FALSE
    MayLose = FALSE
    SaysOff = FALSE
CHECK_DEADLOCK FALSE
INVARIANT
    ListedFiguresAreReachable
PROPERTIES
    RefinesRegistry
    DeadServersLeave
    CatalogueConverges
    GetsAreAnswered
    ForkLearnsOfRunningServers
