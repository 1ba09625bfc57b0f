CONSTANTS
    Publishers = {p1}
    Subs = {s1}
    Deliveries = {d1, d2}
    Workers = {w1, w2}
    NoSub = NoSub
    NoPublisher = NoPublisher
    NoDelivery = NoDelivery
    NoWorker = NoWorker
    MaxTries = 2
    MaxStalls = 1
    MaxPublishes = 1
    MaxFaults = 2
    Replicas = {w1, w2}
    AlertSlots = {1, 2}
    RuleWindow = 1
    LockTTL = 1
    MaxLag = 1
    MaxAlertFaults = 1
    MaxReopenings = 1
    Schedules = {m1, m2}
    BadSchedules = {m2}
    Sweepers = {w1, w2}
    NoTime = NoTime
    Period = 1
    SweepBatch = 2
    MaxReportTime = 1
    MaxReportFaults = 1
    Executors = {w1, w2}
    Exports = {d1, d2}
    NoExport = NoExport
    NoExecutor = NoExecutor
    ExportTries = 2
    MaxExportFaults = 1
    MaxExportStalls = 1
SPECIFICATION WorkersSpec
CHECK_DEADLOCK FALSE
INVARIANTS
    DeliveriesAreAccountedFor
    
    ScheduledExportsAreSound
PROPERTIES
    OnlyFaultsUndoSuccess
    
    WorkersKeepUp
