CONSTANTS
    SignedKeys = {k1}
    IntegratedKeys = {k2}
    InlineKeys = {k3}
    Requests = {r1, r2}
    Workers = {}
    NoKey = NoKey
    NoWorker = NoWorker
    MaxTries = 1
    MaxStalls = 1
    MaxCopies = 1
    MaxFaults = 0
    OrgEvents = {o1}
    Operators = {u1, u2}
    Replayers = {y1, y2}
    NoEvent = NoEvent
    MaxCopiesOfEvent = 2
    MaxOffboardFaults = 1
SPECIFICATION EventsSpec
SYMMETRY Interchangeable
CHECK_DEADLOCK FALSE
INVARIANTS
    
    OneAppenderPerKey
    
    OneProcessorPerInlineKey
    StatusTellsWhereEventsAre
