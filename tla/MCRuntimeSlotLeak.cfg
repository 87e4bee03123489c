SPECIFICATION FairSpec
CONSTANTS
    d1 = d1  d2 = d2  p1 = p1  j1 = j1  j2 = j2
    Deletes <- OneDelete
    Purgers <- OnePurger
    Jobs <- OneJob
    QueueSize = 1
    BatchMax = 1
    ImportBatch = 2
    FileRows = 1
    MaxActive = 1
    Confirmable <- Totals
    MaxRows = 1
    MaxCrashes = 1
    StorageFails = TRUE

PROPERTY JobsSettle
