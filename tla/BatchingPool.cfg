\* Sentences of one, two or four tokens in batches of at most four padded
\* words: two short ones, or one long one, fill a batch.
CONSTANTS
    Sentences <- MCSentences
    Lengths = {1, 2, 4}
    WorkerCounts = {0, 2, 3}
    InitialBuckets = 3
    MiniBatchWords = 4
    Unbounded = 99
SPECIFICATION Spec
INVARIANTS
    NothingStranded
    ForecastExact
    CapShares
PROPERTY ImplementsBatchQueue
CHECK_DEADLOCK FALSE
