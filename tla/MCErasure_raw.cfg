CONSTANTS
    Requests = {q1}
    Applications = {1}
    Enrichments = {e1}
    Processors = {lw}
    LifecycleWorker = lw
    NoRequest = NoRequest
    ReencryptBatch = 1
    MaxErasureFaults = 0
SPECIFICATION ErasureSpec
CHECK_DEADLOCK FALSE
INVARIANT
    NothingIsLeft
