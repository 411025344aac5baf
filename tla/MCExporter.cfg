SPECIFICATION FairSpec
CONSTANTS
    t1 = t1
    t2 = t2
    c1 = c1
    Tables <- MCTables
    Clients <- MCClients
    MaxChange = 1
    MaxPass = 2
    Unread = Unread
INVARIANTS
    TypeOK
    RepliesAreWholeScans
PROPERTIES
    RepliesNeverGoBack
    ChangesAreExported
    KeepsScanning
    CancelEnds
CHECK_DEADLOCK FALSE
