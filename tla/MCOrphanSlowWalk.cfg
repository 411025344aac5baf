SPECIFICATION Spec
CONSTANTS
    f1 = f1
    f2 = f2
    DataFiles <- MCOneFile
    MaxSnap = 1
    MaxVersion = 1
    MaxClock = 5
    MaxCommit = 1
    GracePeriod = 2
    DefaultGrace = 3
    MaxWalk = 3
    PreviewN = 0
    Prefix <- MCTablePrefix
    RefSpelling = "file"
    ListSpelling = "bare"
    Timeless <- MCNone
    NamedMetadata <- MCNamedMetadata
INVARIANTS
    ConcurrentFilesExcluded
CHECK_DEADLOCK FALSE
