SPECIFICATION BenchSpec
CONSTANTS
    j1 = j1
    j2 = j2
    j3 = j3
    Jobs <- MCJobs
    Tables <- MCTables
    Arguments <- MCTables
    IdOf <- MCIdOf
    Tags <- MCTags
    FileName <- MCFileName
    Length <- MCLength
    MaxState = 1
INVARIANTS
    BenchTypeOK
    DeltaOfACapture
SYMMETRY MCSymmetry
CHECK_DEADLOCK FALSE
