\* A five-token sentence, longer than mini-batch-words, as the second leg of a
\* pivot can produce (TextProcessor::processFromAnnotation does not wrap).
CONSTANTS
    Sentences <- MCSentences
    Lengths = {1, 5}
    WorkerCounts = {3}
    InitialBuckets = 3
    MiniBatchWords = 4
    Unbounded = 99
SPECIFICATION Spec
INVARIANT NoBoundStalls
CHECK_DEADLOCK FALSE
