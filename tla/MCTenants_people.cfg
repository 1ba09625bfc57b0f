CONSTANTS
    Processes = {p1, p2}
    Versions = {1, 2}
    NoKey = NoKey
    NoProcess = NoProcess
    MaxKmsFaults = 1
    Requests = {q1, q2}
    Applications = {1, 2}
    Enrichments = {e1}
    Processors = {lw, admin}
    LifecycleWorker = lw
    NoRequest = NoRequest
    ReencryptBatch = 1
    MaxErasureFaults = 1
    Snapshots = {1, 2}
    LinkApplications = {1, 2}
    Moments = {1, 2}
    People = {n1}
    Linkers = {k1, k2}
    NoApplication = NoApplication
    Nobody = Nobody
    LinkWindow = 0
    LinkBatch = 1
    MaxLinkFaults = 1
SPECIFICATION TenantsSpec
CHECK_DEADLOCK FALSE
INVARIANTS
    KeysAreAccountedFor
    
PROPERTIES
    
    LinksAreRight
    
