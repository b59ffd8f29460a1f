SPECIFICATION IssuingSpec
CONSTANTS
    e1 = e1
    w1 = w1
    w2 = w2
    None = None
    Enrollments = {e1}
    InvoiceIds = {1, 2, 3}
    PaymentKeys = {}
    Workers = {w1, w2}
    Requests = {}
    MaxDay = 3
    DueDays = 1
    RetryDays = 1
    SuspendStage = 2
    MaxCrashes = 1
    Recurring = {e1}
    Cycle = 4
    PeriodDays <- MCPeriods
    YearOf <- MCYearOf
INVARIANTS
    NoDoubleBilling
    NoSkippedPeriod
    CursorCovered
    NeverEarly
PROPERTIES
    CatchesUp
CHECK_DEADLOCK FALSE
