------------------------------ MODULE Calendar ------------------------------
(***************************************************************************)
(* The dates of billing periods: a period ends as many months after its    *)
(* start as the interval of the plan has, on the same day of the month or  *)
(* on its last, and the next one starts there.  Issuing, which only needs  *)
(* that a period has its days, is in RecurringBilling.                     *)
(***************************************************************************)
EXTENDS Integers

CONSTANTS
    StartDates,     \* dates enrolments start on
    MaxPeriods      \* bound: the periods that are billed

VARIABLES
    startDate,      \* of the enrolment
    interval,       \* of its plan
    reached,        \* currentPeriodEnd, or startDate before there is one
    billed          \* the periods billed so far (history)

calendarVars == <<startDate, interval, reached, billed>>

-----------------------------------------------------------------------------
(* The calendar, as Date.UTC has it.                                       *)
Leap(year) == year % 4 = 0 /\ (year % 100 = 0 => year % 400 = 0)
DaysIn(year, month) ==
    CASE month = 2 -> IF Leap(year) THEN 29 ELSE 28
      [] month \in {4, 6, 9, 11} -> 30
      [] OTHER -> 31

Date == [year : Nat, month : 1 .. 12, day : 1 .. 31]
Valid(d) == d \in Date /\ d.day <= DaysIn(d.year, d.month)

\* Date.UTC takes the years below 100 for years of the 20th century.
ASSUME CalendarAssumption ==
    /\ StartDates \subseteq Date
    /\ \A d \in StartDates : Valid(d) /\ d.year >= 100
    /\ MaxPeriods \in Nat

-----------------------------------------------------------------------------
Intervals == {"monthly", "quarterly", "yearly", "none"}
IntervalMonths(i) ==
    CASE i = "monthly" -> 1 [] i = "quarterly" -> 3 [] i = "yearly" -> 12 [] OTHER -> 0

\* Months are counted from year 0.
MonthOf(d) == 12 * d.year + (d.month - 1)
inMonth(count, day) == [year |-> count \div 12, month |-> (count % 12) + 1, day |-> day]
LastDay(count) == DaysIn(count \div 12, (count % 12) + 1)

\* A slip to catch: the days that a month does not have are of the next one.
RolledOver(d, months) ==
    LET count == MonthOf(d) + months
    IN  IF d.day <= LastDay(count) THEN inMonth(count, d.day)
                                   ELSE inMonth(count + 1, d.day - LastDay(count))
AddMonths(d, months) ==
    LET count == MonthOf(d) + months
    IN  inMonth(count, IF d.day <= LastDay(count) THEN d.day ELSE LastDay(count))

-----------------------------------------------------------------------------
CalendarInit ==
    /\ startDate \in StartDates /\ interval \in Intervals
    /\ reached = startDate /\ billed = 0

\* The period that starts where the last one has ended; 'none' has no period.
BillPeriod ==
    /\ IntervalMonths(interval) # 0 /\ billed < MaxPeriods
    /\ reached' = AddMonths(reached, IntervalMonths(interval))
    /\ billed' = billed + 1
    /\ UNCHANGED <<startDate, interval>>

CalendarSpec == CalendarInit /\ [][BillPeriod]_calendarVars

-----------------------------------------------------------------------------
\* However many periods are billed one after the other, the month is the one
\* that counting from the start gives.  The day drifts back where a month on
\* the way is too short and never comes forward again: it stays between the day
\* counted from the start and the shortest month's last.
AnniversaryKept ==
    LET due == AddMonths(startDate, billed * IntervalMonths(interval))
    IN  /\ reached.year = due.year /\ reached.month = due.month
        /\ reached.day <= due.day
        /\ reached.day >= 28 \/ reached.day = startDate.day
=============================================================================
