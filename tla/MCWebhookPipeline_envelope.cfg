CONSTANTS
    SignedKeys = {}
    IntegratedKeys = {k2}
    InlineKeys = {}
    Requests = {r1}
    Workers = {w1}
    NoKey = NoKey
    NoWorker = NoWorker
    MaxTries = 1
    MaxStalls = 1
    MaxCopies = 1
    MaxFaults = 0
SPECIFICATION Spec
PROPERTIES
    JobsReachTheirHandler
CHECK_DEADLOCK FALSE
