-------------------------- MODULE RecurringBilling --------------------------
(***************************************************************************)
(* Issuing invoices: BillingService.billRecurringForEnrollment (the        *)
(* worker's billing-run), BillingService.issue and issueInvoiceForEnrol-   *)
(* lment (the api).  An execution runs from one await to the next without  *)
(* interruption, so each action below is the code between two database     *)
(* calls together with one of them, and an execution carries what it read  *)
(* in its own record while the others go on.                               *)
(*                                                                         *)
(* BullMQ delivers a job at least once: it may be run again after a crash, *)
(* or by a second worker while the first still runs.  So any worker may    *)
(* start billing any enrolment at any time, and a dead execution is simply *)
(* started again.                                                          *)
(***************************************************************************)
EXTENDS BillingStore

VARIABLE run        \* what each execution is doing and has read

Runs == Workers \cup Requests

RunSteps ==
    {"idle", "read", "lookup", "create", "issue", "allocate", "claim", "advance"}

\* enrollmentId is None for an execution of the api, which only issues;
\* currentPeriodEnd is the cursor as it was when the enrolment was read.
Run ==
    [pc : RunSteps,
     enrollmentId : Enrollments \cup {None},
     currentPeriodEnd : Nat \cup {None},
     invoice : InvoiceIds \cup {None},
     day : Days,
     number : InvoiceNumber \cup {None}]

IdleRun ==
    [pc |-> "idle", enrollmentId |-> None, currentPeriodEnd |-> None,
     invoice |-> None, day |-> 0, number |-> None]

IssuingInit ==
    /\ StoreInit
    /\ run = [r \in Runs |-> IdleRun]

-----------------------------------------------------------------------------
(* computeBillingPeriod: the period after the cursor, which is due once it *)
(* has started; a plan without an interval never has one.                  *)

PeriodStart(e, cursor) ==
    IF cursor = None THEN enrollments[e].startDate ELSE cursor

\* A slip to catch: the period is billed a day ahead.
PeriodDueTomorrow(e, cursor, asOf) ==
    /\ e \in Recurring
    /\ PeriodStart(e, cursor) <= asOf + 1

PeriodDue(e, cursor, asOf) ==
    /\ e \in Recurring
    /\ PeriodStart(e, cursor) <= asOf

-----------------------------------------------------------------------------
(* billRecurringForEnrollment.                                             *)

\* runBillingForTenant has listed this enrolment and comes to it.
SweepEnrollment(r, e) ==
    /\ run[r].pc = "idle"
    /\ DueForBilling(e)
    /\ run' = [run EXCEPT ![r] = [IdleRun EXCEPT !.pc = "read", !.enrollmentId = e]]
    /\ UNCHANGED storeVars

\* The service reads the enrolment, and bills only an active one.
ReadEnrollment(r) ==
    LET enrollment == enrollments[run[r].enrollmentId]
    IN  /\ run[r].pc = "read"
        /\ enrollment.status = "active"
        /\ run' = [run EXCEPT ![r].pc = "lookup",
                              ![r].currentPeriodEnd = enrollment.currentPeriodEnd]
        /\ UNCHANGED storeVars

NotActive(r) ==
    /\ run[r].pc = "read"
    /\ enrollments[run[r].enrollmentId].status # "active"
    /\ run' = [run EXCEPT ![r] = IdleRun]
    /\ UNCHANGED storeVars

\* Nothing is due: the service returns null.
NothingDue(r) ==
    /\ run[r].pc = "lookup"
    /\ ~PeriodDue(run[r].enrollmentId, run[r].currentPeriodEnd, today)
    /\ run' = [run EXCEPT ![r] = IdleRun]
    /\ UNCHANGED storeVars

\* Two slips to catch: an invoice that is found counts as issued; an issued
\* one ends the run.
FoundIsIssued(i) == "advance"

FoundIssuedIsDone(i) == IF CanClaim(i) THEN "issue" ELSE "idle"

\* What an invoice that is found leads to: a draft is resumed, an issued one
\* is kept and only the cursor is left to do.
Resume(i) == IF CanClaim(i) THEN "issue" ELSE "advance"

\* findByEnrollmentPeriod finds the invoice of the period.
ResumeInvoice(r) ==
    LET e == run[r].enrollmentId
        c == run[r].currentPeriodEnd
    IN  /\ run[r].pc = "lookup"
        /\ PeriodDue(e, c, today)
        /\ \E i \in PeriodInvoices(e, PeriodStart(e, c)) :
              run' = [run EXCEPT ![r].invoice = i,
                                 ![r].pc = Resume(i)]
        /\ UNCHANGED storeVars

\* findByEnrollmentPeriod finds nothing.
NoInvoiceYet(r) ==
    LET e == run[r].enrollmentId
        c == run[r].currentPeriodEnd
    IN  /\ run[r].pc = "lookup"
        /\ PeriodDue(e, c, today)
        /\ PeriodInvoices(e, PeriodStart(e, c)) = {}
        /\ run' = [run EXCEPT ![r].pc = "create"]
        /\ UNCHANGED storeVars

\* The draft of the period is created.
CreatePeriodInvoice(r) ==
    LET e == run[r].enrollmentId
        start == PeriodStart(e, run[r].currentPeriodEnd)
    IN  /\ run[r].pc = "create"
        /\ \E i \in InvoiceIds :
              /\ CreateInvoice(i, e, start, PeriodEnd(e, start))
              /\ run' = [run EXCEPT ![r].invoice = i, ![r].pc = "issue"]
        /\ UNCHANGED <<today, enrollments, counter, payments, crashes>>

\* A concurrent run has created it first: the unique index rejects ours and
\* the invoice is looked up again.
LoseCreateRace(r) ==
    LET e == run[r].enrollmentId
    IN  /\ run[r].pc = "create"
        /\ PeriodTaken(e, PeriodStart(e, run[r].currentPeriodEnd))
        /\ run' = [run EXCEPT ![r].pc = "lookup"]
        /\ UNCHANGED storeVars

\* The cursor moves to the end of the period.  The guard compares with the
\* cursor that was read at the start, not with the one stored now.
AdvanceCursor(r) ==
    LET e == run[r].enrollmentId
        c == run[r].currentPeriodEnd
        end == PeriodEnd(e, PeriodStart(e, c))
    IN  /\ run[r].pc = "advance"
        /\ c # None => end > c
        /\ SetCurrentPeriod(e, end)
        /\ run' = [run EXCEPT ![r] = IdleRun]
        /\ UNCHANGED <<today, invoices, counter, payments, crashes>>

-----------------------------------------------------------------------------
(* issue, on its own (POST /invoices/:id/issue), at the end of an ad-hoc   *)
(* invoice, and inside the billing run (ensureIssued).                     *)

RequestIssue(r, i) ==
    /\ run[r].pc = "idle"
    /\ Exists(i)
    /\ run' = [run EXCEPT ![r] = [IdleRun EXCEPT !.pc = "issue", !.invoice = i]]
    /\ UNCHANGED storeVars

\* issueInvoiceForEnrollment: an invoice with neither enrolment nor period,
\* whatever the status of the enrolment it is made out for.
CreateAdHocInvoice(r) ==
    /\ run[r].pc = "idle"
    /\ \E e \in Enrollments : enrollments[e].status # "absent"
    /\ \E i \in InvoiceIds :
          /\ CreateInvoice(i, None, None, None)
          /\ run' = [run EXCEPT ![r] =
                        [IdleRun EXCEPT !.pc = "issue", !.invoice = i]]
    /\ UNCHANGED <<today, enrollments, counter, payments, crashes>>

\* Where an execution goes when its invoice is issued, by itself or by
\* another: the billing run still has its cursor to advance.
AfterIssue(rec) ==
    IF rec.enrollmentId = None THEN IdleRun ELSE [rec EXCEPT !.pc = "advance"]

\* The invoice is still a draft; the clock is read, once.
ReadDraft(r) ==
    /\ run[r].pc = "issue"
    /\ CanClaim(run[r].invoice)
    /\ run' = [run EXCEPT ![r].pc = "allocate", ![r].day = today]
    /\ UNCHANGED storeVars

\* It is not: issue() throws, and ensureIssued() takes the issued invoice.
AlreadyIssued(r) ==
    /\ run[r].pc = "issue"
    /\ ~CanClaim(run[r].invoice)
    /\ run' = [run EXCEPT ![r] = AfterIssue(run[r])]
    /\ UNCHANGED storeVars

\* A slip to catch: the clock is read again for the number.
YearNow(r) == YearOf[today]

\* The year of the number is that of issuedAt.
YearOfIssue(r) == YearOf[run[r].day]

Allocate(r) ==
    LET year == YearOfIssue(r)
    IN  /\ run[r].pc = "allocate"
        /\ AllocateInvoiceNumber(year)
        /\ run' = [run EXCEPT ![r].pc = "claim", ![r].number = NextNumber(year)]
        /\ UNCHANGED <<today, enrollments, invoices, payments, crashes>>

Claim(r) ==
    /\ run[r].pc = "claim"
    /\ ClaimForIssueWithNumber(run[r].invoice, run[r].day, run[r].number)
    /\ run' = [run EXCEPT ![r] = AfterIssue(run[r])]
    /\ UNCHANGED <<today, enrollments, counter, payments, crashes>>

\* Another execution has issued the invoice: its number stays unused.  The
\* re-read that follows finds an issued invoice, since none goes back to
\* draft.
LoseClaim(r) ==
    /\ run[r].pc = "claim"
    /\ ~CanClaim(run[r].invoice)
    /\ run' = [run EXCEPT ![r] = AfterIssue(run[r])]
    /\ UNCHANGED storeVars

-----------------------------------------------------------------------------
\* The process of an execution restarts, or one of its database calls
\* throws: BullMQ will deliver the job again, an api client may or may not
\* retry.
CrashRun(r) ==
    /\ run[r].pc # "idle"
    /\ run' = [run EXCEPT ![r] = IdleRun]
    /\ CrashStep

\* The steps of an execution that has started.
RunStep(r) ==
    \/ ReadEnrollment(r) \/ NotActive(r)
    \/ NothingDue(r) \/ ResumeInvoice(r) \/ NoInvoiceYet(r)
    \/ CreatePeriodInvoice(r) \/ LoseCreateRace(r) \/ AdvanceCursor(r)
    \/ ReadDraft(r) \/ AlreadyIssued(r) \/ Allocate(r) \/ Claim(r) \/ LoseClaim(r)

IssuingNext ==
    \/ \E r \in Workers, e \in Enrollments : SweepEnrollment(r, e)
    \/ \E r \in Requests, i \in InvoiceIds : RequestIssue(r, i)
    \/ \E r \in Requests : CreateAdHocInvoice(r)
    \/ \E r \in Runs : RunStep(r) \/ CrashRun(r)

issuingVars == <<storeVars, run>>

\* A delivered job runs, and the daily billing-tick keeps enqueueing the
\* billing run: a worker always comes to an enrolment that stays due.
IssuingFairness ==
    /\ \A r \in Runs : WF_issuingVars(RunStep(r))
    /\ \A e \in Enrollments :
          SF_issuingVars(\E r \in Workers : SweepEnrollment(r, e))

\* This component on its own, with the enrolment endpoints around it.
IssuingSpec ==
    /\ IssuingInit
    /\ [][IssuingNext \/ (StoreNext /\ UNCHANGED run)]_issuingVars
    /\ IssuingFairness

-----------------------------------------------------------------------------
(* Properties.                                                             *)

(* Types of the store and of the executions.                               *)
IssuingTypeOK == StoreTypeOK /\ run \in [Runs -> Run]

\* The subscription invoices of an enrolment.
InvoicesOf(e) == {i \in InvoiceIds : Exists(i) /\ invoices[i].enrollmentId = e}

(* No double billing: the periods billed to one enrolment never overlap,   *)
(* however many billing runs were re-delivered, raced or crashed, and      *)
(* wherever a slow run has put the cursor back.                            *)
NoDoubleBilling ==
    \A e \in Enrollments : \A i, j \in InvoicesOf(e) :
        i # j => \/ invoices[i].periodEnd <= invoices[j].periodStart
                 \/ invoices[j].periodEnd <= invoices[i].periodStart

(* No skipped period: an invoice is for the first period of its enrolment, *)
(* or the period just before it has been issued (a crash never leaves a    *)
(* draft behind that later runs step over).                                *)
NoSkippedPeriod ==
    \A e \in Enrollments : \A i \in InvoicesOf(e) :
        \/ invoices[i].periodStart = enrollments[e].startDate
        \/ \E j \in InvoicesOf(e) : /\ Issued(j)
                                    /\ invoices[j].periodEnd = invoices[i].periodStart

(* The cursor is never ahead of the invoices: the period that ends at the  *)
(* stored currentPeriodEnd has been issued.                                *)
CursorCovered ==
    \A e \in Enrollments :
        enrollments[e].currentPeriodEnd # None =>
            \E j \in InvoicesOf(e) :
                /\ Issued(j)
                /\ invoices[j].periodEnd = enrollments[e].currentPeriodEnd

\* The numbers in use: printed on an invoice, or held by an execution that
\* has not yet written it.
HeldNumber(r) == run[r].pc = "claim"

(* A number is never handed out twice: two invoices, two executions, or an *)
(* invoice and an execution never have the same one, and the counter is    *)
(* not behind any of them.  So the unique index on the number, the hard    *)
(* backstop of claimForIssueWithNumber, never has to refuse a claim.       *)
NumbersUnique ==
    /\ \A i \in InvoiceIds : invoices[i].number # None =>
          /\ invoices[i].number.seq <= counter[invoices[i].number.year]
          /\ \A j \in InvoiceIds \ {i} : invoices[i].number # invoices[j].number
    /\ \A r, s \in Runs :
          HeldNumber(r) /\ HeldNumber(s) /\ r # s => run[r].number # run[s].number
    /\ \A r \in Runs, i \in InvoiceIds :
          HeldNumber(r) => /\ run[r].number.seq <= counter[run[r].number.year]
                           /\ run[r].number # invoices[i].number

(* A draft has no number, an issued invoice has one, with the year of the  *)
(* day it was issued, and payment terms that run from that day.            *)
IssuedTogether ==
    \A i \in InvoiceIds :
        /\ invoices[i].status = "draft" => invoices[i].number = None
        /\ Issued(i) =>
              /\ invoices[i].number # None
              /\ invoices[i].issuedAt # None
              /\ invoices[i].number.year = YearOf[invoices[i].issuedAt]
              /\ invoices[i].dueAt = invoices[i].issuedAt + DueDays

(* Billing in advance, never early: no period is invoiced before the day   *)
(* it starts.                                                              *)
NeverEarly ==
    \A e \in Enrollments : \A i \in InvoicesOf(e) :
        invoices[i].periodStart <= today

(* The billing cycle catches up: once time stands still (the calendar of   *)
(* the model ends), an enrolment that stays active has every started       *)
(* period invoiced, issued, and its cursor past today; no crash, lost race *)
(* or regressed cursor leaves it stuck due.                                *)
CatchesUp ==
    \A e \in Enrollments :
        <>[](/\ today = MaxDay
             /\ enrollments[e].status = "active"
             /\ e \in Recurring
             /\ enrollments[e].startDate <= today
             => /\ enrollments[e].currentPeriodEnd # None
                /\ enrollments[e].currentPeriodEnd > today)
=============================================================================
