SPECIFICATION MCSpec
CONSTANTS
    Occurrences = {class}
    Members = {m1, m2, m3}
    Callers = {c1, c2}
    Capacities = {1, 2}
    MaxPresent = 1
    Workloads <- BookingAndOneMore
    None = None
    Day = 4
    Week = 2
    LastDay = 5
    Rules <- WeeklyRules
    Zones <- ZonesEastAndWest
    Hours = {0, 2, 3}
    Never = Never
    MaxWindows = 2
SYMMETRY InterchangeableCallers
INVARIANT OnlyOverlapRepeats
INVARIANT ClassInOrder
INVARIANT RemindedAtMostOnce
INVARIANT HorizonComplete
PROPERTY CancelledIsFinal
CHECK_DEADLOCK FALSE
