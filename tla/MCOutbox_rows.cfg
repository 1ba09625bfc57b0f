CONSTANTS
    Rows = {1, 2, 3}
    Sweepers = {s1, s2}
    Operators = {o1}
    NoRow = NoRow
    BatchSize = 2
    MaxAttempts = 2
    MaxFaults = 1
    MaxReplays = 1
SPECIFICATION FairSpec
INVARIANTS
    TypeOK
    SweepersNeverShareARow
    DuplicatesNeedFaults
    NothingIsDropped
PROPERTIES
    
    
    EveryRowSettles
CHECK_DEADLOCK FALSE
