------------------------- MODULE MCRecurringBilling -------------------------
(* Small instances of RecurringBilling for TLC.                            *)
EXTENDS RecurringBilling, TLC

CONSTANTS e1, w1, w2

\* Two days to a year, so that a run can straddle a new year.
MCYearOf == [d \in Days |-> d \div 2]

\* Periods of a day and of two, and two that end on the same day.
MCPeriods == [e \in Enrollments |-> [d \in 0 .. Cycle - 1 |-> IF d = 1 THEN 2 ELSE 1]]
=============================================================================
