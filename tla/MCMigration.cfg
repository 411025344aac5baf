SPECIFICATION Spec
CONSTANTS
    f1 = f1
    f2 = f2
    d = d
    Null = Null
    DataFiles <- MCFiles
    DeleteFiles <- MCDeleteFiles
    Groups <- MCGroups
    Sample <- MCSample
    Columns = {"a", "b"}
    MaxSnap = 2
    MaxVersion = 3
    MaxClock = 1
    MaxCommit = 1
    MaxFilesValues = {1}
    RowsValues = {3}
    Confidence = 50
    Layouts <- MCLayouts
    HdfsData = {f1}
    Limits = {2}
INVARIANTS
    ZeroIsClean
CHECK_DEADLOCK FALSE
