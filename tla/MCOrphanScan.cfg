SPECIFICATION Spec
CONSTANTS
    f1 = f1
    f2 = f2
    DataFiles <- MCTwoFiles
    MaxSnap = 2
    MaxVersion = 3
    MaxClock = 4
    MaxCommit = 1
    GracePeriod = 0
    DefaultGrace = 3
    MaxWalk = 1
    PreviewN = 1
    Prefix <- MCDataPrefix
    RefSpelling = "file"
    ListSpelling = "bare"
    Timeless <- MCTimeless
    NamedMetadata <- MCNamedMetadata
INVARIANTS
    TypeOK
    LiveNeverFlagged
    SnapshotLocked
    
CHECK_DEADLOCK FALSE
