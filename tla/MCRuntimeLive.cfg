SPECIFICATION FairSpec
CONSTANTS
    d1 = d1  d2 = d2  p1 = p1  j1 = j1  j2 = j2
    Deletes <- TwoDeletes
    Purgers <- OnePurger
    Jobs <- OneJob
    QueueSize = 2
    BatchMax = 1
    ImportBatch = 2
    FileRows = 2
    MaxActive = 1
    Confirmable <- Totals
    MaxRows = 2
    MaxCrashes = 1
    StorageFails = FALSE
INVARIANT SettledJobsSaved
PROPERTIES DeletesAdvance JobsAdvance DeleteAnswered JobsSettle
