SPECIFICATION MCSpec
CONSTANTS
    kim = kim
    lee = lee
    e1 = e1
    e2 = e2
    e3 = e3
    Members = {kim, lee}
    Emails = {e1, e2, e3}
    Address <- Addresses
    Accepted <- Accounted
    Callers = {c1, c2}
    Tabs = {t1, t2}
    MaxUsers = 3
    MaxSessions = 3
    MaxTokens = 2
    MaxPasswords = 1
    Workloads <- Logins
    None = None
SYMMETRY Interchangeable
INVARIANT KilledFamilyIsDead
CHECK_DEADLOCK FALSE
