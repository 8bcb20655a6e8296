SPECIFICATION FilesSpec
CONSTANTS
    maker = maker
    user = user
    a = a
    b = b
    NoName = NoName
    Caller = {maker, user}
    Name = {a, b}
    Value = {0, 1, 2}
    NumSectors = 10
    SectorSize = 2
    NumDirEntries = 2
    InFirst = 1
    NumDirect = 4
    MaxCrashes = 1
    TransferSize = 2
    ContentSize = 2
    Scripts <- MCScripts
CHECK_DEADLOCK FALSE
INVARIANTS
    FilesApart
PROPERTIES
    RefinesPromise
