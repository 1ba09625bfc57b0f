CONSTANTS
    Events = {e1, e2, e3}
    Ids = {1, 2, 3}
    RowTimes = {1, 2}
    Limit = 1
    NoListRow = NoListRow
    NoCursor = NoCursor
    LedgerRows = {l1}
    NoDay = NoDay
    LastDay = 1
    DaysPerMonth = 2
    RollupSlots = {s1, s2}
    NoRollupJob = NoRollupJob
    RollupTries = 2
    MaxTicks = 2
    MaxRollupFaults = 1
    Pushes = {e1, e2, e3}
    NoPush = NoPush
    RowNames = {s1, s2}
    Days = {1, 2}
SPECIFICATION BooksSpec
SYMMETRY Interchangeable
CHECK_DEADLOCK FALSE
INVARIANTS
    BooksAreSound
    PagesCoverTheList
