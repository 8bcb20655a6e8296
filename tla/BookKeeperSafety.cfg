SPECIFICATION Spec
CONSTANTS
    s1 = s1
    s2 = s2
    a1 = a1
    a2 = a2
    a3 = a3
    f1 = f1
    f2 = f2
    broken = broken
    ending = ending
    Server = {s1, s2}
    Addr = {a1, a2}
    Figure = {f1, f2}
    Host <- ContainerHost
    Announced <- ContainerHost
    Reach <- ContainerReach
    Catalogues <- OneCatalogue
    Beginnings <- PrefixBeginnings
    EndPieces = {ending}
    NoAddr = NoAddr
    NoServer = NoServer
    Absent = {absent}
    NoAnswer = {noAnswer}
    Garbled = {garbled}
    MaxRetries = 1
    MaxStarts <- OneStart
    MaxForkStarts = 1
    MaySlow = TRUE
    MayLose = TRUE
    SaysOff = TRUE
CHECK_DEADLOCK FALSE
INVARIANTS
    TypeOK
    CatalogueProvenance
PROPERTIES
    RegistrationIsExclusive
    NotFoundIsHonest
