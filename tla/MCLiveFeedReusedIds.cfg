SPECIFICATION FairSpec
CONSTANTS
    w1 = w1  w2 = w2  f1 = f1  f2 = f2
    Writers <- OneWriter
    Requests <- OneRequest
    Cap = 2
    Keep = 2
    MaxBorn = 4
    IdsReused = TRUE
PROPERTY CatchesUp
