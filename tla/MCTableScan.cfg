SPECIFICATION Spec
CONSTANTS
    f1 = f1
    f2 = f2
    DataFiles <- MCTwoFiles
    DeleteFiles <- MCDeleteFiles
    MaxSnap = 2
    MaxVersion = 3
    MaxClock = 3
    MaxCommit = 1
    Skew = 1
    Nothing = Nothing
    NoReport = NoReport
INVARIANTS
    TypeOK
    AgesAreExtreme
    MissingMeansExpired
PROPERTIES
    IsPointInTime
CHECK_DEADLOCK FALSE
