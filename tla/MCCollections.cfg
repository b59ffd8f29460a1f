SPECIFICATION MCSpec
CONSTANTS
    e1 = e1
    k1 = k1
    k2 = k2
    w1 = w1
    w2 = w2
    q1 = q1
    q2 = q2
    None = None
    Enrollments = {e1}
    InvoiceIds = {1}
    PaymentKeys = {k1, k2}
    Workers = {w1, w2}
    Requests = {q1, q2}
    MaxDay = 2
    DueDays = 0
    RetryDays = 1
    SuspendStage = 2
    MaxCrashes = 1
    Recurring = {e1}
    Cycle = 1
    PeriodDays <- MCPeriods
    YearOf <- MCYearOf
    ChargeableStatuses = {"open", "paid", "uncollectible"}
INVARIANTS
    PaidIsPaidFor
    LadderConsistent
    WholeLadder
    SuspendedWithInvoice
PROPERTIES
    PaidIsFinal
    RungClimbed
    ChargeReachesInvoice
CHECK_DEADLOCK FALSE
