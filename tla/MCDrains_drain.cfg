CONSTANTS
    SignedKeys = {k1}
    IntegratedKeys = {}
    InlineKeys = {}
    Requests = {r1}
    Workers = {w1, w2}
    NoKey = NoKey
    NoWorker = NoWorker
    MaxTries = 2
    MaxStalls = 1
    MaxCopies = 1
    MaxFaults = 2
    UsageEvents = {v1, v2}
    Days = {day1, day2}
    PullCounts = {0, 1, 2}
    Collectives = {0, 1, 2}
    Breakpoint = 2
    BaseCost = 1
    BaseCharge = 2
    NoUsage = NoUsage
    MeterTries = 2
    MaxMeterFaults = 2
    VendorEvents = {v1, v2}
    References = {f1}
    NoReport = NoReport
    VendorTries = 2
    MaxVendorFaults = 1
    Calls = {c1, c2, c3}
    Window = 4
    ThresholdNum = 1
    ThresholdDen = 2
    Cooldown = 3
    CallTimeout = 2
    Decisions = {1, 2, 3}
    Polled = {1, 3}
    PollReplicas = {w1, w2}
    PollBatch = 2
    PollParallel = 2
    MaxPollFaults = 1
SPECIFICATION DrainsSpec
CHECK_DEADLOCK FALSE
INVARIANTS
    TypeOK
    
    AnnouncedAtMostOnce
    JobOutcomeIsVisible
    ReportsAreBookedRight
    HalfOpenHasOneProbe
    ReportsHangTogether
PROPERTIES
    CooldownIsNotExtended
    ScheduledWorkEnds
    
