SPECIFICATION MCSpec
CONSTANTS
    e1 = e1
    k1 = k1
    w1 = w1
    q1 = q1
    t1 = t1
    t2 = t2
    i1 = i1
    i2 = i2
    i3 = i3
    None = None
    Platform = Platform
    Tenants = {t1, t2}
    Items = {i1, i2, i3}
    JobOf <- MCJobOf
    TenantOf <- MCTenantOf
    Poison = {i1}
    Crons <- EitherTick
    MaxFaults = 1
    Enrollments = {e1}
    InvoiceIds = {1, 2}
    PaymentKeys = {k1}
    Workers = {w1}
    Requests = {q1}
    MaxDay = 1
    DueDays = 0
    RetryDays = 1
    SuspendStage = 1
    MaxCrashes = 0
    Recurring = {e1}
    Cycle = 1
    PeriodDays <- MCDaily
    YearOf <- MCYearOf
    ChargeableStatuses = {"open", "paid", "uncollectible"}
    StartDates <- MonthEnds
    MaxPeriods = 13
INVARIANTS
    NumbersUnique
    IssuedTogether
    NothingForgotten
    AnniversaryKept
PROPERTIES
    ImplementsLedger
CHECK_DEADLOCK FALSE
