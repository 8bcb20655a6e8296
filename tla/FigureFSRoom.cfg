SPECIFICATION Spec
CONSTANTS
    n1 = n1
    n2 = n2
    n3 = n3
    Name = {n1, n2, n3}
    NoName = NoName
    MaxPieces = 3
    Slots = 5
    LastBlock = 6
    Letters = {2, 4}
    MaxCrashes = 2
SYMMETRY Symmetric
CONSTRAINT Room
CHECK_DEADLOCK FALSE
INVARIANTS
    TypeOK
    WrittenFiguresStayWithRoom
    CrashLosesOneBlock
PROPERTY
    RefinesStore
