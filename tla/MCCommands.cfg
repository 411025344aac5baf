SPECIFICATION Spec
CONSTANTS
    f1 = f1
    f2 = f2
    d = d
    Null = Null
    DataFiles <- MCFiles
    DeleteFiles <- MCDeleteFiles
    Groups <- MCGroups
    Sample <- MCSample
    Columns = {"a", "b"}
    MaxSnap = 2
    MaxVersion = 3
    MaxClock = 1
    MaxCommit = 1
    MaxFilesValues = {1, 2}
    RowsValues = {2, 3}
    Confidence = 50
    Layouts <- MCLayouts
    HdfsData = {f1}
    Limits = {1, 2}
INVARIANTS
    TypeOK
    OneSnapshotSampled
    ExhaustiveIsExact
    ReportIsExact
CHECK_DEADLOCK FALSE
