SPECIFICATION Spec
CONSTANTS
    a1 = a1  a2 = a2
    Adders = {a1, a2}
    Batches <- SomeBatches
    Spacing = 1
    MaxTime = 1
    MaxTxns = 3
SYMMETRY Either
INVARIANT AlertsSpaced
