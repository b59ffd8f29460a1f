---------------------------- MODULE BillingStore ----------------------------
(***************************************************************************)
(* The billing collections of one tenant as packages/db keeps them in      *)
(* MongoDB (enrollments, invoices, the invoice-number counter, payment     *)
(* attempts), the single-document operations of their repositories, the    *)
(* enrolment endpoints of the api, and the calendar.                       *)
(*                                                                         *)
(* Every operator that changes a collection is one document write, which   *)
(* is all that MongoDB makes atomic here: the code never opens a           *)
(* multi-document transaction.  The services that string these writes      *)
(* together, with other executions in between, are in RecurringBilling     *)
(* and Collections.                                                        *)
(*                                                                         *)
(* Dates are day numbers.  Where a period ends is a function of the plan's *)
(* interval and of the day it starts, as it is when months are added to a  *)
(* date and the day is clamped to the end of the month: periods differ in  *)
(* length, and two that start on different days may end on the same.       *)
(***************************************************************************)
EXTENDS Naturals, FiniteSets

CONSTANTS
    Enrollments,    \* ids of the enrolments (a member on a plan)
    InvoiceIds,     \* ids available to invoices: bounds how many are created
    PaymentKeys,    \* idempotency keys the payment providers hand out
    Recurring,      \* enrolments on a plan whose interval is not 'none'
    Cycle,          \* days after which the calendar repeats (400 years)
    PeriodDays,     \* days of an enrolment's period, by the day of the cycle
                    \* it starts on (Calendar has the dates it stands for)
    MaxDay,         \* last day of the modelled calendar
    YearOf,         \* the UTC year a day falls in
    DueDays,        \* DEFAULT_DUE_DAYS, payment terms
    RetryDays,      \* DUNNING_RETRY_DAYS, days between dunning rungs
    SuspendStage,   \* DUNNING_SUSPEND_STAGE, the last rung of the ladder
    MaxCrashes,     \* how many executions may die half-way
    Workers,        \* executions of jobs by the worker
    Requests,       \* executions of requests by the api
    None            \* null

Days  == 0 .. MaxDay
Years == {YearOf[d] : d \in Days}

ASSUME ConstantsAssumption ==
    /\ MaxDay \in Nat
    /\ DueDays \in Nat
    /\ RetryDays \in Nat \ {0}
    /\ SuspendStage \in Nat \ {0}
    /\ MaxCrashes \in Nat
    /\ Recurring \subseteq Enrollments
    /\ Cycle \in Nat \ {0}
    /\ PeriodDays \in [Enrollments -> [0 .. Cycle - 1 -> Nat \ {0}]]
    /\ YearOf \in [Days -> Nat]
    /\ Workers \cap Requests = {}
    /\ None \notin Nat
    /\ None \notin [year : Nat, seq : Nat]
    /\ None \notin Enrollments
    /\ InvoiceIds \subseteq Nat
    /\ None \notin PaymentKeys

VARIABLES
    today,          \* the clock
    enrollments,    \* the enrollments collection
    invoices,       \* the invoices collection
    counter,        \* the invoicecounters collection: last number of a year
    payments,       \* the paymentattempts collection, by idempotency key
    crashes         \* how many executions have died so far

storeVars == <<today, enrollments, invoices, counter, payments, crashes>>

-----------------------------------------------------------------------------
\* addMonthsUTC: the end of the period that starts on a day.
PeriodEnd(e, start) == start + PeriodDays[e][start % Cycle]

-----------------------------------------------------------------------------
(* Documents.  A document that does not exist yet has status "absent".     *)

EnrollmentStatuses == {"active", "frozen", "cancelled"}

Enrollment ==
    [status : {"absent"} \cup EnrollmentStatuses,
     startDate : Nat,
     currentPeriodEnd : Nat \cup {None}]

NoEnrollment == [status |-> "absent", startDate |-> 0, currentPeriodEnd |-> None]

InvoiceStatuses == {"draft", "open", "paid", "uncollectible"}

InvoiceNumber == [year : Nat, seq : Nat]

Invoice ==
    [status : {"absent"} \cup InvoiceStatuses,
     number : InvoiceNumber \cup {None},
     enrollmentId : Enrollments \cup {None},
     periodStart : Nat \cup {None},
     periodEnd : Nat \cup {None},
     issuedAt : Nat \cup {None},
     dueAt : Nat \cup {None},
     dunningStage : Nat,
     nextRetryAt : Nat \cup {None}]

NoInvoice ==
    [status |-> "absent", number |-> None, enrollmentId |-> None,
     periodStart |-> None, periodEnd |-> None, issuedAt |-> None,
     dueAt |-> None, dunningStage |-> 0, nextRetryAt |-> None]

PaymentAttempt ==
    [invoiceId : InvoiceIds, status : {"succeeded", "failed"}, attemptNo : Nat]

\* null is not a document.
ASSUME NullAssumption == None \notin PaymentAttempt

StoreTypeOK ==
    /\ today \in Days
    /\ enrollments \in [Enrollments -> Enrollment]
    /\ invoices \in [InvoiceIds -> Invoice]
    /\ counter \in [Years -> Nat]
    /\ payments \in [PaymentKeys -> PaymentAttempt \cup {None}]
    /\ crashes \in 0 .. MaxCrashes

StoreInit ==
    /\ today = 0
    /\ enrollments = [e \in Enrollments |-> NoEnrollment]
    /\ invoices = [i \in InvoiceIds |-> NoInvoice]
    /\ counter = [y \in Years |-> 0]
    /\ payments = [k \in PaymentKeys |-> None]
    /\ crashes = 0

-----------------------------------------------------------------------------
(* InvoiceRepository.                                                      *)

Exists(i) == invoices[i].status # "absent"

\* An issued invoice: anything past draft.
Issued(i) == Exists(i) /\ invoices[i].status # "draft"

\* The invoice of an enrolment's period, if there is one.
PeriodInvoices(e, start) ==
    {i \in InvoiceIds : /\ Exists(i)
                        /\ invoices[i].enrollmentId = e
                        /\ invoices[i].periodStart = start}

\* A slip to catch: no index at all.
PeriodNeverTaken(e, start) == FALSE

\* The unique index {tenantId, enrollmentId, periodStart}, partial on
\* invoices that have an enrolment.
PeriodTaken(e, start) == e # None /\ PeriodInvoices(e, start) # {}

\* create: a new document, always a draft without a number.  ObjectIds grow.
CreateInvoice(i, e, start, end) ==
    /\ ~Exists(i)
    /\ \A j \in InvoiceIds : j < i => Exists(j)
    /\ ~PeriodTaken(e, start)
    /\ invoices' = [invoices EXCEPT ![i] =
                       [NoInvoice EXCEPT !.status = "draft",
                                         !.enrollmentId = e,
                                         !.periodStart = start,
                                         !.periodEnd = end]]

\* claimForIssueWithNumber: one guarded write of status, dates and number.
CanClaim(i) == invoices[i].status = "draft"

\* A slip to catch: the claim without its guard on status.
ClaimUnguarded(i, day, num) ==
    invoices' = [invoices EXCEPT ![i].status = "open",
                                 ![i].issuedAt = day,
                                 ![i].dueAt = day + DueDays,
                                 ![i].number = num]

ClaimForIssueWithNumber(i, day, num) ==
    /\ CanClaim(i)
    /\ invoices' = [invoices EXCEPT ![i].status = "open",
                                    ![i].issuedAt = day,
                                    ![i].dueAt = day + DueDays,
                                    ![i].number = num]

\* listDunnable: open, past due, and outside the retry window.
Dunnable(i) ==
    /\ invoices[i].status = "open"
    /\ invoices[i].dueAt < today
    /\ invoices[i].nextRetryAt # None => invoices[i].nextRetryAt <= today

\* A slip to catch: a guard on the stage alone.
CanStepAnyStatus(i, fromStage) == invoices[i].dunningStage = fromStage

\* advanceDunningStep: one write guarded by the stage the caller has read.
CanStep(i, fromStage) ==
    /\ invoices[i].status = "open"
    /\ invoices[i].dunningStage = fromStage

AdvanceDunningStep(i, fromStage, status, retryAt) ==
    /\ CanStep(i, fromStage)
    /\ invoices' = [invoices EXCEPT ![i].status = status,
                                    ![i].dunningStage = fromStage + 1,
                                    ![i].nextRetryAt = retryAt]

\* update, with the patch recordPaymentResult passes: no guard at all.
MarkPaid(i) ==
    invoices' = [invoices EXCEPT ![i].status = "paid",
                                 ![i].dunningStage = 0,
                                 ![i].nextRetryAt = None]

\* A slip to catch: numbers are taken from a count of the year's invoices.
CountedNumber(year) ==
    [year |-> year,
     seq |-> 1 + Cardinality({i \in InvoiceIds :
                                 invoices[i].number # None /\ invoices[i].number.year = year})]

\* allocateInvoiceNumber: the $inc of the year's counter and the number read
\* back from it are one findOneAndUpdate.
NextNumber(year) == [year |-> year, seq |-> counter[year] + 1]

AllocateInvoiceNumber(year) ==
    counter' = [counter EXCEPT ![year] = @ + 1]

-----------------------------------------------------------------------------
(* PaymentAttemptRepository.                                               *)

Attempts(i) ==
    {k \in PaymentKeys : payments[k] # None /\ payments[k].invoiceId = i}

CreateAttempt(k, attempt) ==
    /\ payments[k] = None
    /\ payments' = [payments EXCEPT ![k] = attempt]

-----------------------------------------------------------------------------
(* EnrollmentRepository and the enrolment endpoints.                       *)

\* listDueForBilling: the coarse candidate filter of the billing run.
DueForBilling(e) ==
    /\ enrollments[e].status = "active"
    /\ enrollments[e].startDate <= today
    /\ enrollments[e].currentPeriodEnd # None =>
          enrollments[e].currentPeriodEnd <= today

SetEnrollmentStatus(e, status) ==
    enrollments' = [enrollments EXCEPT ![e].status = status]

SetCurrentPeriod(e, end) ==
    enrollments' = [enrollments EXCEPT ![e].currentPeriodEnd = end]

\* EnrollmentsService.create: active at once, from any start date.
Enroll(e) ==
    /\ enrollments[e].status = "absent"
    /\ \E start \in Days :
          enrollments' = [enrollments EXCEPT ![e] =
                             [NoEnrollment EXCEPT !.status = "active",
                                                  !.startDate = start]]
    /\ UNCHANGED <<today, invoices, counter, payments, crashes>>

\* EnrollmentsService.freeze: from whatever status the enrolment has.
Freeze(e) ==
    /\ enrollments[e].status # "absent"
    /\ SetEnrollmentStatus(e, "frozen")
    /\ UNCHANGED <<today, invoices, counter, payments, crashes>>

\* EnrollmentsService.cancel: from whatever status the enrolment has.
Cancel(e) ==
    /\ enrollments[e].status # "absent"
    /\ SetEnrollmentStatus(e, "cancelled")
    /\ UNCHANGED <<today, invoices, counter, payments, crashes>>

\* The clock the services read; MaxDay bounds it.
NextDay ==
    /\ today < MaxDay
    /\ today' = today + 1
    /\ UNCHANGED <<enrollments, invoices, counter, payments, crashes>>

StoreNext ==
    \/ \E e \in Enrollments : Enroll(e) \/ Freeze(e) \/ Cancel(e)
    \/ NextDay

\* An execution dies: its process restarts with nothing but the collections.
\* MaxCrashes bounds how often.
CrashStep ==
    /\ crashes < MaxCrashes
    /\ crashes' = crashes + 1
    /\ UNCHANGED <<today, enrollments, invoices, counter, payments>>
=============================================================================
