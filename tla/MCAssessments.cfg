SPECIFICATION Spec
CONSTANTS
    Base <- MCBase
    Policies <- MCPolicies
    FileSets <- MCFileSets
    MaxFigure = 2
    PartitionSizes <- MCPartitionSizes
    MaxWindow = 4
    StreamingMaxInterval = 30
    BatchMinInterval = 360
    Steps <- MCSteps
    MaxCommits = 5
    FileBytes = {0, 1, 2}
    TimeSteps <- MCTimeSteps
    MaxTimelineCommits = 3
INVARIANTS
    PatternFitsHistory
    SkewNeverMissed
    NoGainFromNeglect
    NoBytesInvented
PROPERTIES
    OnlyTheWindowCounts
CHECK_DEADLOCK FALSE
