SPECIFICATION FairSpec
CONSTANTS
    w1 = w1  w2 = w2  f1 = f1  f2 = f2
    Writers <- TwoWriters
    Requests <- TwoRequests
    Cap = 2
    Keep = 2
    MaxBorn = 3
    IdsReused = FALSE
INVARIANT NothingLost
PROPERTIES FeedAdvances CatchesUp
