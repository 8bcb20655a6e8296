SPECIFICATION FairSpec
CONSTANTS
    f1 = f1
    f2 = f2
    f3 = f3
    f4 = f4
    Figure = {f1, f2, f3, f4}
    Listed = {f1, f2, f3}
    OnDisk <- MCOnDisk
    Capacity = 7
    Length <- MCLength
CHECK_DEADLOCK FALSE
INVARIANTS
    TypeOK
    OneTurn
    IndicesMeet
PROPERTIES
    FittingAnswersFollow
    RequestsAnswered
