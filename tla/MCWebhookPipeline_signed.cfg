CONSTANTS
    SignedKeys = {k1}
    IntegratedKeys = {}
    InlineKeys = {}
    Requests = {r1}
    Workers = {w1}
    NoKey = NoKey
    NoWorker = NoWorker
    MaxTries = 1
    MaxStalls = 1
    MaxCopies = 1
    MaxFaults = 0
SPECIFICATION Spec
INVARIANTS
    AckedIsScheduled
CHECK_DEADLOCK FALSE
