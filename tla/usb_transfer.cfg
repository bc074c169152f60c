CONSTANTS
    NakLimit = 2
    RetryLimit = 2
    XferTimeout = 1
    ClockMod = 2
    MaxData = 2
    MaxReports = 2
    MaxLate = 1
SPECIFICATION FairSpec
INVARIANTS
    TypeOK
    OwnResult
    RequestDone
    ReportsInOrder
PROPERTIES
    TransferEnds
