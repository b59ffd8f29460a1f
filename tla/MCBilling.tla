----------------------------- MODULE MCBilling -----------------------------
(***************************************************************************)
(* Small instances of three parts: billing, the jobs of the worker, which  *)
(* meet it only in what a job does to one item, and the dates of periods.  *)
(* A behaviour is of one of them.                                          *)
(***************************************************************************)
EXTENDS Billing, Jobs, Calendar, TLC

CONSTANTS e1, k1, w1, q1, t1, t2, i1, i2, i3

VARIABLE part

\* New year is between any two days, so that a run can straddle it.
MCYearOf == [d \in Days |-> d]

MCDaily == [e \in Enrollments |-> [d \in 0 .. Cycle - 1 |-> 1]]

\* An item that fails beside one that need not, and one in another tenant.
MCJobOf == i1 :> "billing-run" @@ i2 :> "billing-run" @@ i3 :> "reminders"
MCTenantOf == i1 :> t1 @@ i2 :> t1 @@ i3 :> t2
EitherTick == {{"billing-tick"}, {"reminders-tick"}}

\* The last days of each month, of a leap year and of the year before.
date(y, m, d) == [year |-> y, month |-> m, day |-> d]
MonthEnds ==
    {d \in {date(y, m, e) : y \in {2023, 2024}, m \in 1 .. 12, e \in {1, 28, 29, 30, 31}} :
        Valid(d)}
AnyDate == date(2023, 1, 1)

MCInit ==
    /\ part \in {"billing", "jobs", "calendar"}
    /\ BillingInit /\ JobsInit /\ CalendarInit
    /\ part # "jobs" => crons = {"billing-tick"}
    /\ part # "calendar" => startDate = AnyDate /\ interval = "none"

MCNext ==
    /\ UNCHANGED part
    /\ \/ part = "billing" /\ BillingNext /\ UNCHANGED <<jobsVars, calendarVars>>
       \/ part = "jobs" /\ JobsNext /\ UNCHANGED <<billingVars, calendarVars>>
       \/ part = "calendar" /\ BillPeriod /\ UNCHANGED <<billingVars, jobsVars>>

MCSpec == MCInit /\ [][MCNext]_<<part, billingVars, jobsVars, calendarVars>>
=============================================================================
