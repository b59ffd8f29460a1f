---------------------------- MODULE Collections ----------------------------
(***************************************************************************)
(* Collecting on issued invoices: BillingService.recordPaymentResult (the  *)
(* outcome of a charge, reported by a payment provider) and                *)
(* BillingService.advanceDunning as the worker's dunning job drives it     *)
(* (runDunningForTenant), with the overdue notice it mails.                *)
(*                                                                         *)
(* As in RecurringBilling an action is the code from one database call to  *)
(* the next.  The provider reports a result at least once, so a delivery   *)
(* may be repeated at any time, also while an earlier one is handled.      *)
(***************************************************************************)
EXTENDS BillingStore

CONSTANT
    ChargeableStatuses  \* statuses an invoice can have when it is charged

ASSUME ChargeableAssumption == ChargeableStatuses \subseteq InvoiceStatuses

VARIABLES
    results,    \* what the provider has decided about the charge of each key
    settling,   \* executions of recordPaymentResult
    dunning,    \* executions of the dunning job
    notices     \* the dunning stages mailed to the member, by invoice

collectionVars == <<results, settling, dunning, notices>>
collectingVars == <<storeVars, collectionVars>>

Result == [invoiceId : InvoiceIds, status : {"succeeded", "failed"}]

Settling ==
    [pc : {"idle", "create", "settle"},
     key : PaymentKeys \cup {None},
     attemptNo : Nat]

\* invoice: the item of the sweep; stage: the dunning stage that was read,
\* or, on the way to the notice, the one the notice will name.
Dunning ==
    [pc : {"idle", "read", "step", "reread", "freeze", "notice"},
     invoice : InvoiceIds \cup {None},
     stage : Nat,
     day : Days]

IdleSettling == [pc |-> "idle", key |-> None, attemptNo |-> 0]
IdleDunning == [pc |-> "idle", invoice |-> None, stage |-> 0, day |-> 0]

CollectingInit ==
    /\ StoreInit
    /\ results = [k \in PaymentKeys |-> None]
    /\ settling = [r \in Requests |-> IdleSettling]
    /\ dunning = [w \in Workers |-> IdleDunning]
    /\ notices = [i \in InvoiceIds |-> {}]

-----------------------------------------------------------------------------
(* The payment provider (external): a charge for an invoice succeeds or    *)
(* fails, under an idempotency key of its own.                             *)
ProviderDecides(k) ==
    /\ results[k] = None
    /\ \E i \in InvoiceIds, s \in {"succeeded", "failed"} :
          /\ invoices[i].status \in ChargeableStatuses
          /\ results' = [results EXCEPT ![k] = [invoiceId |-> i, status |-> s]]
    /\ UNCHANGED <<storeVars, settling, dunning, notices>>

-----------------------------------------------------------------------------
(* recordPaymentResult.                                                    *)

\* A result is delivered, for the first time or again, and the attempts of
\* its invoice are listed: this key is among them, a replay, or it is not.
ReadAttempts(r, k) ==
    /\ settling[r].pc = "idle"
    /\ results[k] # None
    /\ k \notin Attempts(results[k].invoiceId)
    /\ settling' = [settling EXCEPT ![r] =
                       [pc |-> "create", key |-> k,
                        attemptNo |-> Cardinality(Attempts(results[k].invoiceId)) + 1]]
    /\ UNCHANGED <<storeVars, results, dunning, notices>>

\* Two slips to catch: any result settles the invoice, and a success only
\* one that is still open.
SettlesAlways(result) == TRUE

SettlesIfOpen(result) ==
    result.status = "succeeded" /\ invoices[result.invoiceId].status = "open"

Settles(result) == result.status = "succeeded"

\* The attempt is appended; only a success goes on to the invoice.
RecordAttempt(r) ==
    LET k == settling[r].key
    IN  /\ settling[r].pc = "create"
        /\ CreateAttempt(k, [invoiceId |-> results[k].invoiceId,
                             status |-> results[k].status,
                             attemptNo |-> settling[r].attemptNo])
        /\ settling' = [settling EXCEPT ![r] =
                           IF Settles(results[k])
                           THEN [@ EXCEPT !.pc = "settle"] ELSE IdleSettling]
        /\ UNCHANGED <<today, enrollments, invoices, counter, crashes,
                       results, dunning, notices>>

\* A concurrent delivery has appended it: the unique index on the key
\* refuses and the call fails.
RefuseAttempt(r) ==
    /\ settling[r].pc = "create"
    /\ payments[settling[r].key] # None
    /\ settling' = [settling EXCEPT ![r] = IdleSettling]
    /\ UNCHANGED <<storeVars, results, dunning, notices>>

\* The invoice becomes paid, whatever it has become in the meantime.
Settle(r) ==
    /\ settling[r].pc = "settle"
    /\ MarkPaid(results[settling[r].key].invoiceId)
    /\ settling' = [settling EXCEPT ![r] = IdleSettling]
    /\ UNCHANGED <<today, enrollments, counter, payments, crashes,
                   results, dunning, notices>>

CrashSettling(r) ==
    /\ settling[r].pc # "idle"
    /\ settling' = [settling EXCEPT ![r] = IdleSettling]
    /\ CrashStep
    /\ UNCHANGED <<results, dunning, notices>>

-----------------------------------------------------------------------------
(* runDunningForTenant and advanceDunning.                                 *)

\* The sweep has listed this invoice and comes to it.
SweepInvoice(w, i) ==
    /\ dunning[w].pc = "idle"
    /\ Dunnable(i)
    /\ dunning' = [dunning EXCEPT ![w] =
                      [IdleDunning EXCEPT !.pc = "read", !.invoice = i]]
    /\ UNCHANGED <<storeVars, results, settling, notices>>

\* Two slips to catch: the window is not looked at again after the sweep has
\* listed the invoice, and it never ends.
NoRetryWindow(i) == FALSE

EndlessRetryWindow(i) == invoices[i].nextRetryAt # None

\* advanceDunning reads the invoice again: an open one outside its retry
\* window is taken on.
InRetryWindow(i) ==
    invoices[i].nextRetryAt # None /\ today < invoices[i].nextRetryAt

ReadInvoice(w) ==
    LET i == dunning[w].invoice
    IN  /\ dunning[w].pc = "read"
        /\ invoices[i].status = "open"
        /\ ~InRetryWindow(i)
        /\ dunning' = [dunning EXCEPT ![w].pc = "step",
                                      ![w].stage = invoices[i].dunningStage,
                                      ![w].day = today]
        /\ UNCHANGED <<storeVars, results, settling, notices>>

\* The stage of the invoice as it is returned to the sweep.
StageNow(i) == invoices[i].dunningStage

\* Any other is returned as it is, and the sweep takes that for an advance.
NothingToAdvance(w) ==
    LET i == dunning[w].invoice
    IN  /\ dunning[w].pc = "read"
        /\ invoices[i].status # "open" \/ InRetryWindow(i)
        /\ dunning' = [dunning EXCEPT ![w].pc = "notice", ![w].stage = StageNow(i)]
        /\ UNCHANGED <<storeVars, results, settling, notices>>

\* A slip to catch: the ladder has a rung too many.
IsFinalLate(stage) == stage > SuspendStage

IsFinal(stage) == stage >= SuspendStage

\* A slip to catch: suspension is decided by the rung climbed from.
SuspendsLate(i, next) == IsFinal(next - 1) /\ invoices[i].enrollmentId # None

Suspends(i, next) == IsFinal(next) /\ invoices[i].enrollmentId # None

\* The guarded step up the ladder; the last rung gives the invoice up, and
\* goes on to the enrolment it bills.
Step(w) ==
    LET i == dunning[w].invoice
        next == dunning[w].stage + 1
    IN  /\ dunning[w].pc = "step"
        /\ AdvanceDunningStep(i, dunning[w].stage,
                              IF IsFinal(next) THEN "uncollectible" ELSE "open",
                              IF IsFinal(next) THEN None ELSE dunning[w].day + RetryDays)
        /\ dunning' = [dunning EXCEPT
                          ![w].pc = IF Suspends(i, next) THEN "freeze" ELSE "notice",
                          ![w].stage = next]
        /\ UNCHANGED <<today, enrollments, counter, payments, crashes,
                       results, settling, notices>>

\* The step was refused: somebody else has moved the invoice.
LoseStep(w) ==
    /\ dunning[w].pc = "step"
    /\ ~CanStep(dunning[w].invoice, dunning[w].stage)
    /\ dunning' = [dunning EXCEPT ![w].pc = "reread"]
    /\ UNCHANGED <<storeVars, results, settling, notices>>

\* The invoice as it is now is returned.
Reread(w) ==
    /\ dunning[w].pc = "reread"
    /\ dunning' = [dunning EXCEPT ![w].pc = "notice",
                      ![w].stage = StageNow(dunning[w].invoice)]
    /\ UNCHANGED <<storeVars, results, settling, notices>>

\* Suspension: the enrolment is frozen, whatever its status is now.
Suspend(w) ==
    /\ dunning[w].pc = "freeze"
    /\ SetEnrollmentStatus(invoices[dunning[w].invoice].enrollmentId, "frozen")
    /\ dunning' = [dunning EXCEPT ![w].pc = "notice"]
    /\ UNCHANGED <<today, invoices, counter, payments, crashes,
                   results, settling, notices>>

\* onAdvanced: the overdue notice, naming the stage of the invoice that
\* advanceDunning returned.
Notify(w) ==
    /\ dunning[w].pc = "notice"
    /\ notices' = [notices EXCEPT ![dunning[w].invoice] = @ \cup {dunning[w].stage}]
    /\ dunning' = [dunning EXCEPT ![w] = IdleDunning]
    /\ UNCHANGED <<storeVars, results, settling>>

CrashDunning(w) ==
    /\ dunning[w].pc # "idle"
    /\ dunning' = [dunning EXCEPT ![w] = IdleDunning]
    /\ CrashStep
    /\ UNCHANGED <<results, settling, notices>>


SettlingStep(r) == RecordAttempt(r) \/ RefuseAttempt(r) \/ Settle(r)

DunningStep(w) ==
    \/ ReadInvoice(w) \/ NothingToAdvance(w) \/ Step(w) \/ LoseStep(w)
    \/ Reread(w) \/ Suspend(w) \/ Notify(w)

CollectingNext ==
    \/ \E k \in PaymentKeys : ProviderDecides(k)
    \/ \E r \in Requests, k \in PaymentKeys : ReadAttempts(r, k)
    \/ \E r \in Requests : SettlingStep(r) \/ CrashSettling(r)
    \/ \E w \in Workers, i \in InvoiceIds : SweepInvoice(w, i)
    \/ \E w \in Workers : DunningStep(w) \/ CrashDunning(w)

\* A started execution goes on, the daily tick keeps sweeping, and the
\* provider repeats a result until an attempt is on record.
CollectingFairness ==
    /\ \A r \in Requests : WF_collectingVars(SettlingStep(r))
    /\ \A w \in Workers : WF_collectingVars(DunningStep(w))
    /\ \A i \in InvoiceIds :
          SF_collectingVars(\E w \in Workers : SweepInvoice(w, i))
    /\ \A k \in PaymentKeys :
          SF_collectingVars(\E r \in Requests : ReadAttempts(r, k))

\* Stands for RecurringBilling when this component is looked at on its own:
\* an invoice is issued in one step, for the period that starts today or
\* ad hoc.
IssueInvoice(i, e) ==
    /\ ~Exists(i)
    /\ \A j \in InvoiceIds : j < i => Exists(j)
    /\ e # None => enrollments[e].status = "active" /\ ~PeriodTaken(e, today)
    /\ invoices' = [invoices EXCEPT ![i] =
                       [NoInvoice EXCEPT
                           !.status = "open",
                           !.number = NextNumber(YearOf[today]),
                           !.enrollmentId = e,
                           !.periodStart = IF e = None THEN None ELSE today,
                           !.periodEnd = IF e = None THEN None ELSE PeriodEnd(e, today),
                           !.issuedAt = today,
                           !.dueAt = today + DueDays]]
    /\ AllocateInvoiceNumber(YearOf[today])
    /\ UNCHANGED <<today, enrollments, payments, crashes>>

Surroundings ==
    /\ StoreNext \/ \E i \in InvoiceIds, e \in Enrollments \cup {None} : IssueInvoice(i, e)
    /\ UNCHANGED collectionVars

CollectingSpec ==
    /\ CollectingInit
    /\ [][CollectingNext \/ Surroundings]_collectingVars
    /\ WF_collectingVars(NextDay /\ UNCHANGED collectionVars)
    /\ CollectingFairness

-----------------------------------------------------------------------------
(* Properties.                                                             *)

(* Types of the store and of the executions.                               *)
CollectingTypeOK ==
    /\ StoreTypeOK
    /\ results \in [PaymentKeys -> Result \cup {None}]
    /\ settling \in [Requests -> Settling]
    /\ dunning \in [Workers -> Dunning]
    /\ notices \in [InvoiceIds -> SUBSET Nat]

(* A paid invoice has been paid: a succeeded attempt is on record for it,  *)
(* and no dunning job that was under way has left it on the ladder.        *)
PaidIsPaidFor ==
    \A i \in InvoiceIds : invoices[i].status = "paid" =>
        /\ \E k \in Attempts(i) : payments[k].status = "succeeded"
        /\ invoices[i].dunningStage = 0
        /\ invoices[i].nextRetryAt = None

\* A succeeded attempt is on record and no delivery is about to write the
\* invoice, which is not paid.
Unsettled(k) ==
    /\ payments[k] # None
    /\ payments[k].status = "succeeded"
    /\ invoices[payments[k].invoiceId].status # "paid"
    /\ ~\E r \in Requests : settling[r].pc = "settle" /\ settling[r].key = k

(* The comment in recordPaymentResult calls a replayed webhook a clean     *)
(* no-op: when the attempt of a success is on record there is nothing left *)
(* to do for it, whatever has become of the delivery that recorded it.     *)
ReplayIsNoOp == ~\E k \in PaymentKeys : Unsettled(k)

(* The ladder is consistent: an open invoice is below the last rung and    *)
(* has a retry date exactly when it is on the ladder; an invoice is        *)
(* uncollectible exactly at the last rung, with no retry to come.          *)
LadderConsistent ==
    \A i \in InvoiceIds :
        /\ invoices[i].status = "open" =>
              /\ invoices[i].dunningStage < SuspendStage
              /\ (invoices[i].dunningStage = 0) <=> (invoices[i].nextRetryAt = None)
        /\ invoices[i].status = "uncollectible" =>
              /\ invoices[i].dunningStage = SuspendStage
              /\ invoices[i].nextRetryAt = None

(* The member is given the whole ladder: an invoice is given up only after *)
(* its due date and a full retry period for every rung before the last,    *)
(* however many dunning jobs were re-delivered or ran side by side.        *)
WholeLadder ==
    \A i \in InvoiceIds :
        invoices[i].status = "uncollectible" =>
            today > invoices[i].dueAt + (SuspendStage - 1) * RetryDays

(* Paid is final: no dunning step that read the invoice while it was open  *)
(* takes it out of paid.                                                   *)
PaidIsFinal ==
    [][\A i \in InvoiceIds :
          invoices[i].status = "paid" => invoices[i]'.status = "paid"]_collectingVars

(* An invoice is given up together with its enrolment: as long as no       *)
(* execution has died, once nobody is about to suspend it, the enrolment   *)
(* of an uncollectible invoice is not active (a job that dies in between   *)
(* leaves it active: the invoice is no longer open, so no later job comes  *)
(* back for it).                                                           *)
SuspendedWithInvoice ==
    crashes = 0 =>
        \A i \in InvoiceIds :
            /\ invoices[i].status = "uncollectible"
            /\ invoices[i].enrollmentId # None
            /\ ~\E w \in Workers : dunning[w].pc = "freeze" /\ dunning[w].invoice = i
            => enrollments[invoices[i].enrollmentId].status \in {"frozen", "cancelled"}

(* The comment on the dunning sweep says the notice fires once per         *)
(* advanced invoice, after a successful advance: so every notice names a   *)
(* rung of the ladder.                                                     *)
NoticeAfterAdvance == \A i \in InvoiceIds : 0 \notin notices[i]

(* No overdue invoice is forgotten: one the sweep may dun at some stage is *)
(* eventually past that stage, or no longer open, also when its step has   *)
(* been lost to another job or the job has been lost.                      *)
RungClimbed ==
    \A i \in InvoiceIds : \A s \in 0 .. SuspendStage - 1 :
        Dunnable(i) /\ invoices[i].dunningStage = s ~>
            invoices[i].status # "open" \/ invoices[i].dunningStage > s

(* A charge that succeeded reaches the ledger: the provider's result is    *)
(* eventually on record and its invoice paid, whatever races it, unless an *)
(* execution has died.                                                     *)
ChargeReachesInvoice ==
    \A k \in PaymentKeys :
        results[k] # None /\ results[k].status = "succeeded" ~>
            \/ crashes > 0
            \/ results[k] # None /\ invoices[results[k].invoiceId].status = "paid"
=============================================================================
