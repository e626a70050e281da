CONSTANTS
    a = a
    b = b
    w1 = w1
    w2 = w2
    Workers = {w1, w2}
    Callers = {a, b}
    Batch <- Batches
    Plain = {b}
    BufferSize = 1
    MaxReads = 3
SPECIFICATION FairSpec
CHECK_DEADLOCK FALSE
INVARIANTS TypeOK NoJobLost StopGraceful
PROPERTIES PoolEnds CallReturns
