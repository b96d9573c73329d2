\* Two goroutines that forward two chunks each.
CONSTANTS
    Workers = {w1, w2}
    Handler = Handler
    NoWorker = NoWorker
    Chunks <- SomeChunks
    MaxChunks = 2
SPECIFICATION Spec
INVARIANTS
    SendsExclusive
    ChunksInOrder
    ResultsAccounted
PROPERTIES
    ImplementsServerStream
CHECK_DEADLOCK FALSE
