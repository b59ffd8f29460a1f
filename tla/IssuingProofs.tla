--------------------------- MODULE IssuingProofs ---------------------------
(***************************************************************************)
(* Proofs about RecurringBilling for every number of enrolments, invoices, *)
(* workers and requests, every calendar and any number of crashes; and     *)
(* about the dates of Calendar, that the periods of its intervals are as   *)
(* RecurringBilling assumes them.                                          *)
(***************************************************************************)
EXTENDS RecurringBilling, Calendar, TLAPS

IssuingAction == IssuingNext \/ (StoreNext /\ UNCHANGED run)

-----------------------------------------------------------------------------
(* Type correctness.  That an execution has the fields its step uses is    *)
(* what makes the type invariant inductive.                                *)

HasFields(rec) ==
    /\ rec.pc \in {"read", "lookup", "create", "advance"} =>
          rec.enrollmentId \in Enrollments
    /\ rec.pc \in {"issue", "allocate", "claim"} =>
          rec.invoice \in InvoiceIds
    /\ rec.pc = "claim" =>
          rec.number \in InvoiceNumber /\ rec.number.year \in Years

RunShape == \A r \in Runs : HasFields(run[r])

TypeInv == IssuingTypeOK /\ RunShape

LEMMA YearTypes == /\ Years \subseteq Nat
                   /\ \A d \in Days : YearOf[d] \in Years
  BY ConstantsAssumption DEF Years

LEMMA NoneTypes == /\ None \notin Enrollments
                   /\ None \notin InvoiceIds
                   /\ None \notin Nat
  BY ConstantsAssumption

(* The values that documents and executions start from.                    *)
LEMMA IdleRunFields ==
    /\ IdleRun \in Run
    /\ IdleRun.pc = "idle"
    /\ IdleRun.enrollmentId = None
    /\ IdleRun.currentPeriodEnd = None
  BY ConstantsAssumption DEF IdleRun, Run, RunSteps, Days

LEMMA NoEnrollmentFields ==
    /\ NoEnrollment \in Enrollment
    /\ NoEnrollment.status = "absent"
    /\ NoEnrollment.currentPeriodEnd = None
  BY DEF NoEnrollment, Enrollment

LEMMA NoInvoiceFields ==
    /\ NoInvoice \in Invoice
    /\ NoInvoice.status = "absent"
    /\ NoInvoice.number = None
    /\ NoInvoice.enrollmentId = None
  BY DEF NoInvoice, Invoice

LEMMA TypeInvInit == IssuingInit => TypeInv
  BY ConstantsAssumption, IdleRunFields, NoEnrollmentFields, NoInvoiceFields
  DEF StoreInit, IssuingInit, TypeInv, IssuingTypeOK, StoreTypeOK, RunShape, HasFields,
      Days, PaymentAttempt

(* One execution takes a step: all that has to be shown of it is its new    *)
(* record.                                                                  *)
LEMMA RunUpdate ==
  ASSUME TypeInv, NEW r \in Runs, NEW rec \in Run, HasFields(rec),
         run' = [run EXCEPT ![r] = rec]
  PROVE  run' \in [Runs -> Run] /\ RunShape'
  BY DEF TypeInv, IssuingTypeOK, RunShape, HasFields

LEMMA RunToIdle ==
  ASSUME TypeInv, NEW r \in Runs, run' = [run EXCEPT ![r] = IdleRun]
  PROVE  run' \in [Runs -> Run] /\ RunShape'
<1>1. IdleRun \in Run /\ HasFields(IdleRun)
  BY IdleRunFields DEF HasFields
<1> QED
  BY <1>1, RunUpdate

LEMMA StoreStutter ==
  ASSUME TypeInv, UNCHANGED storeVars
  PROVE  StoreTypeOK'
  BY DEF TypeInv, IssuingTypeOK, StoreTypeOK, storeVars

(* What is known of an execution and of what it works on.                   *)
LEMMA RunFacts ==
  ASSUME TypeInv, NEW r \in Runs
  PROVE  /\ run[r] \in Run
         /\ HasFields(run[r])
         /\ AfterIssue(run[r]) \in Run /\ HasFields(AfterIssue(run[r]))
<1>1. run[r] \in Run /\ HasFields(run[r])
  BY DEF TypeInv, IssuingTypeOK, RunShape
<1>2. IdleRun \in Run /\ HasFields(IdleRun)
  BY IdleRunFields DEF HasFields
<1>3. ASSUME run[r].enrollmentId # None
      PROVE  [run[r] EXCEPT !.pc = "advance"] \in Run
             /\ HasFields([run[r] EXCEPT !.pc = "advance"])
  BY <1>1, <1>3 DEF Run, RunSteps, HasFields
<1> QED
  BY <1>1, <1>2, <1>3 DEF AfterIssue

(* A period ends after it starts.                                           *)
LEMMA PeriodEndTypes ==
  ASSUME NEW e \in Enrollments, NEW start \in Nat
  PROVE  PeriodEnd(e, start) \in Nat /\ start < PeriodEnd(e, start)
<1>1. start % Cycle \in 0 .. Cycle - 1
  BY ConstantsAssumption
<1>2. PeriodDays[e][start % Cycle] \in Nat \ {0}
  BY <1>1, ConstantsAssumption
<1> QED
  BY <1>2 DEF PeriodEnd

LEMMA PeriodTypes ==
  ASSUME TypeInv, NEW r \in Runs, run[r].enrollmentId \in Enrollments
  PROVE  LET e == run[r].enrollmentId
             start == PeriodStart(e, run[r].currentPeriodEnd)
         IN  start \in Nat /\ PeriodEnd(e, start) \in Nat
<1>1. PeriodStart(run[r].enrollmentId, run[r].currentPeriodEnd) \in Nat
  BY DEF PeriodStart, TypeInv, IssuingTypeOK, StoreTypeOK, Run, Enrollment
<1> QED
  BY <1>1, PeriodEndTypes

LEMMA TypeInvStep == TypeInv /\ [IssuingAction]_issuingVars => TypeInv'
<1> SUFFICES ASSUME TypeInv, [IssuingAction]_issuingVars PROVE TypeInv'
  OBVIOUS
<1> SUFFICES StoreTypeOK' /\ run' \in [Runs -> Run] /\ RunShape'
  BY DEF TypeInv, IssuingTypeOK
<1> DEFINE Goal == StoreTypeOK' /\ run' \in [Runs -> Run] /\ RunShape'
<1>a. ASSUME UNCHANGED run PROVE run' \in [Runs -> Run] /\ RunShape'
  BY <1>a DEF TypeInv, IssuingTypeOK, RunShape, HasFields
<1>1. ASSUME NEW e \in Enrollments, Enroll(e), UNCHANGED run PROVE Goal
  <2>1. PICK start \in Days :
            enrollments' = [enrollments EXCEPT ![e] =
                               [NoEnrollment EXCEPT !.status = "active",
                                                    !.startDate = start]]
    BY <1>1 DEF Enroll
  <2>2. [NoEnrollment EXCEPT !.status = "active", !.startDate = start] \in Enrollment
    <3>1. start \in Nat
      BY ConstantsAssumption DEF Days
    <3> QED
      BY <3>1, NoEnrollmentFields DEF Enrollment, EnrollmentStatuses
  <2> QED
    BY <1>1, <1>a, <2>1, <2>2 DEF Enroll, TypeInv, IssuingTypeOK, StoreTypeOK
<1>2. ASSUME NEW e \in Enrollments, Freeze(e), UNCHANGED run PROVE Goal
  BY <1>2, <1>a DEF Freeze, SetEnrollmentStatus, TypeInv, IssuingTypeOK, StoreTypeOK,
              Enrollment, EnrollmentStatuses
<1>3. ASSUME NEW e \in Enrollments, Cancel(e), UNCHANGED run PROVE Goal
  BY <1>3, <1>a DEF Cancel, SetEnrollmentStatus, TypeInv, IssuingTypeOK, StoreTypeOK,
              Enrollment, EnrollmentStatuses
<1>4. ASSUME NextDay, UNCHANGED run PROVE Goal
  BY <1>4, <1>a, ConstantsAssumption DEF NextDay, TypeInv, IssuingTypeOK, StoreTypeOK, Days
<1>5. ASSUME NEW r \in Workers, NEW e \in Enrollments, SweepEnrollment(r, e)
      PROVE Goal
  <2> DEFINE rec == [IdleRun EXCEPT !.pc = "read", !.enrollmentId = e]
  <2>1. rec \in Run /\ HasFields(rec)
    BY IdleRunFields DEF Run, RunSteps, HasFields
  <2>2. run' = [run EXCEPT ![r] = rec] /\ UNCHANGED storeVars
    BY <1>5 DEF SweepEnrollment
  <2> HIDE DEF rec
  <2> QED
    BY <2>1, <2>2, RunUpdate, StoreStutter DEF Runs
<1>6. ASSUME NEW r \in Requests, NEW i \in InvoiceIds, RequestIssue(r, i)
      PROVE Goal
  <2> DEFINE rec == [IdleRun EXCEPT !.pc = "issue", !.invoice = i]
  <2>1. rec \in Run /\ HasFields(rec)
    BY IdleRunFields DEF Run, RunSteps, HasFields
  <2>2. run' = [run EXCEPT ![r] = rec] /\ UNCHANGED storeVars
    BY <1>6 DEF RequestIssue
  <2> HIDE DEF rec
  <2> QED
    BY <2>1, <2>2, RunUpdate, StoreStutter DEF Runs
<1>7. ASSUME NEW r \in Requests, CreateAdHocInvoice(r) PROVE Goal
  <2>1. PICK i \in InvoiceIds :
              /\ CreateInvoice(i, None, None, None)
              /\ run' = [run EXCEPT ![r] = [IdleRun EXCEPT !.pc = "issue", !.invoice = i]]
    BY <1>7 DEF CreateAdHocInvoice
  <2> DEFINE rec == [IdleRun EXCEPT !.pc = "issue", !.invoice = i]
             doc == [NoInvoice EXCEPT !.status = "draft", !.enrollmentId = None,
                                      !.periodStart = None, !.periodEnd = None]
  <2>2. rec \in Run /\ HasFields(rec)
    BY IdleRunFields DEF Run, RunSteps, HasFields
  <2>3. doc \in Invoice
    BY NoInvoiceFields DEF Invoice, InvoiceStatuses
  <2>4. run' = [run EXCEPT ![r] = rec] /\ invoices' = [invoices EXCEPT ![i] = doc]
    BY <2>1 DEF CreateInvoice
  <2> HIDE DEF rec, doc
  <2> QED
    BY <1>7, <2>2, <2>3, <2>4, RunUpdate
    DEF CreateAdHocInvoice, Runs, TypeInv, IssuingTypeOK, StoreTypeOK
<1>8. ASSUME NEW r \in Runs, ReadEnrollment(r) PROVE Goal
  <2> DEFINE c == enrollments[run[r].enrollmentId].currentPeriodEnd
             rec == [run[r] EXCEPT !.pc = "lookup", !.currentPeriodEnd = c]
  <2>1. run[r].enrollmentId \in Enrollments
    BY <1>8, RunFacts DEF ReadEnrollment, HasFields
  <2>2. c \in Nat \cup {None}
    BY <2>1 DEF TypeInv, IssuingTypeOK, StoreTypeOK, Enrollment
  <2>3. run' = [run EXCEPT ![r] = rec] /\ UNCHANGED storeVars
    BY <1>8 DEF ReadEnrollment
  <2> HIDE DEF c
  <2>4. rec \in Run /\ HasFields(rec)
    BY <2>1, <2>2, RunFacts DEF Run, RunSteps, HasFields
  <2> QED
    BY <2>3, <2>4, RunUpdate, StoreStutter
<1>9. ASSUME NEW r \in Runs, NotActive(r) \/ NothingDue(r) PROVE Goal
  BY <1>9, RunToIdle, StoreStutter DEF NotActive, NothingDue
<1>10. ASSUME NEW r \in Runs, ResumeInvoice(r) PROVE Goal
  <2>1. PICK i \in InvoiceIds : run' = [run EXCEPT ![r].invoice = i, ![r].pc = Resume(i)]
    BY <1>10 DEF ResumeInvoice, PeriodInvoices
  <2> DEFINE rec == [run[r] EXCEPT !.invoice = i, !.pc = Resume(i)]
  <2>2. Resume(i) \in {"issue", "advance"}
    BY DEF Resume
  <2>3. run[r].pc = "lookup" /\ UNCHANGED storeVars
    BY <1>10 DEF ResumeInvoice
  <2>4. rec \in Run /\ HasFields(rec)
    BY <2>2, <2>3, RunFacts DEF Run, RunSteps, HasFields
  <2>5. run' = [run EXCEPT ![r] = rec]
    BY <2>1
  <2> QED
    BY <2>3, <2>4, <2>5, RunUpdate, StoreStutter
<1>11. ASSUME NEW r \in Runs, NoInvoiceYet(r) \/ LoseCreateRace(r) \/ ReadDraft(r)
       PROVE Goal
  <2>1. today \in Days
    BY DEF TypeInv, IssuingTypeOK, StoreTypeOK
  <2>2. ASSUME NoInvoiceYet(r) PROVE Goal
    <3> DEFINE rec == [run[r] EXCEPT !.pc = "create"]
    <3>1. rec \in Run /\ HasFields(rec)
      BY <2>2, RunFacts DEF NoInvoiceYet, Run, RunSteps, HasFields
    <3>2. run' = [run EXCEPT ![r] = rec] /\ UNCHANGED storeVars
      BY <2>2 DEF NoInvoiceYet
    <3> QED
      BY <3>1, <3>2, RunUpdate, StoreStutter
  <2>3. ASSUME LoseCreateRace(r) PROVE Goal
    <3> DEFINE rec == [run[r] EXCEPT !.pc = "lookup"]
    <3>1. rec \in Run /\ HasFields(rec)
      BY <2>3, RunFacts DEF LoseCreateRace, Run, RunSteps, HasFields
    <3>2. run' = [run EXCEPT ![r] = rec] /\ UNCHANGED storeVars
      BY <2>3 DEF LoseCreateRace
    <3> QED
      BY <3>1, <3>2, RunUpdate, StoreStutter
  <2>4. ASSUME ReadDraft(r) PROVE Goal
    <3> DEFINE rec == [run[r] EXCEPT !.pc = "allocate", !.day = today]
    <3>1. rec \in Run /\ HasFields(rec)
      BY <2>1, <2>4, RunFacts DEF ReadDraft, Run, RunSteps, HasFields
    <3>2. run' = [run EXCEPT ![r] = rec] /\ UNCHANGED storeVars
      BY <2>4 DEF ReadDraft
    <3> QED
      BY <3>1, <3>2, RunUpdate, StoreStutter
  <2> QED
    BY <1>11, <2>2, <2>3, <2>4
<1>12. ASSUME NEW r \in Runs, CreatePeriodInvoice(r) PROVE Goal
  <2> DEFINE e == run[r].enrollmentId
             start == PeriodStart(e, run[r].currentPeriodEnd)
             end == PeriodEnd(e, start)
  <2>1. PICK i \in InvoiceIds :
              /\ CreateInvoice(i, e, start, end)
              /\ run' = [run EXCEPT ![r].invoice = i, ![r].pc = "issue"]
    BY <1>12 DEF CreatePeriodInvoice
  <2>2. e \in Enrollments /\ start \in Nat /\ end \in Nat
    <3>1. e \in Enrollments
      BY <1>12, RunFacts DEF CreatePeriodInvoice, HasFields
    <3> QED
      BY <3>1, PeriodTypes
  <2>3. run[r].pc = "create" /\ UNCHANGED <<today, enrollments, counter, payments, crashes>>
    BY <1>12 DEF CreatePeriodInvoice
  <2> DEFINE rec == [run[r] EXCEPT !.invoice = i, !.pc = "issue"]
             doc == [NoInvoice EXCEPT !.status = "draft", !.enrollmentId = e,
                                      !.periodStart = start, !.periodEnd = end]
  <2>4. run' = [run EXCEPT ![r] = rec] /\ invoices' = [invoices EXCEPT ![i] = doc]
    BY <2>1 DEF CreateInvoice
  <2>5. rec \in Run /\ HasFields(rec)
    BY RunFacts DEF Run, RunSteps, HasFields
  <2> HIDE DEF start, end, e
  <2>6. doc \in Invoice
    BY <2>2, NoInvoiceFields DEF Invoice, InvoiceStatuses
  <2> HIDE DEF doc, rec
  <2> QED
    BY <2>3, <2>4, <2>5, <2>6, RunUpdate DEF TypeInv, IssuingTypeOK, StoreTypeOK
<1>13. ASSUME NEW r \in Runs, AdvanceCursor(r) PROVE Goal
  <2> DEFINE e == run[r].enrollmentId
             end == PeriodEnd(e, PeriodStart(e, run[r].currentPeriodEnd))
  <2>1. e \in Enrollments /\ end \in Nat
    <3>1. e \in Enrollments
      BY <1>13, RunFacts DEF AdvanceCursor, HasFields
    <3> QED
      BY <3>1, PeriodTypes
  <2>2. /\ enrollments' = [enrollments EXCEPT ![e].currentPeriodEnd = end]
        /\ run' = [run EXCEPT ![r] = IdleRun]
        /\ UNCHANGED <<today, invoices, counter, payments, crashes>>
    BY <1>13 DEF AdvanceCursor, SetCurrentPeriod
  <2> HIDE DEF e, end
  <2>3. enrollments' \in [Enrollments -> Enrollment]
    BY <2>1, <2>2 DEF TypeInv, IssuingTypeOK, StoreTypeOK, Enrollment
  <2> QED
    BY <2>2, <2>3, RunToIdle DEF TypeInv, IssuingTypeOK, StoreTypeOK
<1>14. ASSUME NEW r \in Runs, AlreadyIssued(r) \/ LoseClaim(r) PROVE Goal
  BY <1>14, RunFacts, RunUpdate, StoreStutter DEF AlreadyIssued, LoseClaim
<1>15. ASSUME NEW r \in Runs, Allocate(r) PROVE Goal
  <2> DEFINE year == YearOfIssue(r)
             rec == [run[r] EXCEPT !.pc = "claim", !.number = NextNumber(year)]
  <2>1. year \in Years /\ year \in Nat
    BY RunFacts, YearTypes DEF YearOfIssue, Run
  <2>2. /\ counter' = [counter EXCEPT ![year] = @ + 1]
        /\ run' = [run EXCEPT ![r] = rec]
        /\ run[r].pc = "allocate"
        /\ UNCHANGED <<today, enrollments, invoices, payments, crashes>>
    BY <1>15 DEF Allocate, AllocateInvoiceNumber
  <2>3. NextNumber(year) \in InvoiceNumber /\ NextNumber(year).year \in Years
    BY <2>1 DEF NextNumber, InvoiceNumber, TypeInv, IssuingTypeOK, StoreTypeOK
  <2> HIDE DEF year
  <2>4. counter' \in [Years -> Nat]
    BY <2>1, <2>2 DEF TypeInv, IssuingTypeOK, StoreTypeOK
  <2>5. rec \in Run /\ HasFields(rec)
    BY <2>2, <2>3, RunFacts DEF Run, RunSteps, HasFields
  <2> HIDE DEF rec
  <2> QED
    BY <2>2, <2>4, <2>5, RunUpdate DEF TypeInv, IssuingTypeOK, StoreTypeOK
<1>16. ASSUME NEW r \in Runs, Claim(r) PROVE Goal
  <2> DEFINE i == run[r].invoice
             day == run[r].day
             num == run[r].number
  <2>1. i \in InvoiceIds /\ num \in InvoiceNumber /\ day \in Nat /\ day + DueDays \in Nat
    BY <1>16, RunFacts, ConstantsAssumption DEF Claim, HasFields, Run, Days
  <2>2. /\ invoices' = [invoices EXCEPT ![i].status = "open", ![i].issuedAt = day,
                                        ![i].dueAt = day + DueDays, ![i].number = num]
        /\ run' = [run EXCEPT ![r] = AfterIssue(run[r])]
        /\ UNCHANGED <<today, enrollments, counter, payments, crashes>>
    BY <1>16 DEF Claim, ClaimForIssueWithNumber
  <2>3. invoices[i] \in Invoice
    BY <2>1 DEF TypeInv, IssuingTypeOK, StoreTypeOK
  <2> HIDE DEF i, day, num
  <2> DEFINE doc == [invoices[i] EXCEPT !.status = "open", !.issuedAt = day,
                                        !.dueAt = day + DueDays, !.number = num]
  <2>4. doc \in Invoice
    BY <2>1, <2>3 DEF Invoice, InvoiceStatuses
  <2>5. invoices' = [invoices EXCEPT ![i] = doc]
    BY <2>2
  <2> HIDE DEF doc
  <2> QED
    BY <2>2, <2>4, <2>5, RunFacts, RunUpdate DEF TypeInv, IssuingTypeOK, StoreTypeOK
<1>17. ASSUME NEW r \in Runs, CrashRun(r) PROVE Goal
  <2>1. crashes' \in 0 .. MaxCrashes
    BY <1>17, ConstantsAssumption DEF CrashRun, CrashStep, TypeInv, IssuingTypeOK, StoreTypeOK
  <2>2. /\ run' = [run EXCEPT ![r] = IdleRun]
        /\ UNCHANGED <<today, enrollments, invoices, counter, payments>>
    BY <1>17 DEF CrashRun, CrashStep
  <2> QED
    BY <2>1, <2>2, RunToIdle DEF TypeInv, IssuingTypeOK, StoreTypeOK
<1>18. CASE UNCHANGED issuingVars
  BY <1>18, <1>a, StoreStutter DEF issuingVars
<1> QED
  BY <1>1, <1>2, <1>3, <1>4, <1>5, <1>6, <1>7, <1>8, <1>9, <1>10, <1>11, <1>12,
     <1>13, <1>14, <1>15, <1>16, <1>17, <1>18
  DEF IssuingAction, IssuingNext, StoreNext, RunStep

(* Type correctness of the store and of the executions that issue invoices, *)
(* whatever jobs are repeated, raced or lost.                               *)
THEOREM IssuingTypeCorrect == IssuingSpec => []IssuingTypeOK
<1>1. TypeInv => IssuingTypeOK
  BY DEF TypeInv
<1> QED
  BY TypeInvInit, TypeInvStep, <1>1, PTL DEF IssuingSpec, IssuingAction

-----------------------------------------------------------------------------
(***************************************************************************)
(* Invoice numbers are unique, and dated by the invoice they are on: proof *)
(* of NumbersUnique and IssuedTogether for every number of executions,     *)
(* invoices and crashes and every calendar.                                *)
(*                                                                         *)
(* A number lives in the counter, then in an execution, then on an         *)
(* invoice.  NumbersUnique speaks of all three, and is inductive with the  *)
(* two facts below: all numbers are of years that have a counter, and one  *)
(* that is held is of the year of the day its execution has read.          *)
(***************************************************************************)
Numbered(i) == invoices[i].number # None

NumbersDated ==
    /\ \A i \in InvoiceIds : Numbered(i) => invoices[i].number.year \in Years
    /\ \A i \in InvoiceIds : ~Exists(i) => ~Numbered(i)
    /\ \A r \in Runs : HeldNumber(r) => run[r].number.year = YearOf[run[r].day]

NumbersInv == TypeInv /\ NumbersUnique /\ IssuedTogether /\ NumbersDated

NumbersKept == NumbersUnique' /\ IssuedTogether' /\ NumbersDated'

LEMMA NumbersInvInit == IssuingInit => NumbersInv
<1> SUFFICES ASSUME IssuingInit PROVE NumbersInv
  OBVIOUS
<1>1. \A i \in InvoiceIds : invoices[i].status = "absent" /\ invoices[i].number = None
  BY NoInvoiceFields DEF IssuingInit, StoreInit
<1>2. \A r \in Runs : ~HeldNumber(r)
  BY IdleRunFields DEF IssuingInit, HeldNumber
<1> QED
  BY <1>1, <1>2, TypeInvInit
  DEF NumbersInv, NumbersUnique, IssuedTogether, NumbersDated, Numbered, Exists, Issued

(* What an execution on its way to a claim holds.                           *)
LEMMA HeldTypes ==
  ASSUME TypeInv, NEW r \in Runs, HeldNumber(r)
  PROVE  /\ run[r].number \in InvoiceNumber
         /\ run[r].number.year \in Years
         /\ run[r].number # None
         /\ run[r].invoice \in InvoiceIds
  BY RunFacts, ConstantsAssumption DEF HeldNumber, HasFields, InvoiceNumber

(* A step that leaves the counter alone, gives no invoice a number and no   *)
(* execution one to hold.                                                   *)
LEMMA NoNewNumber ==
  ASSUME NumbersInv, UNCHANGED counter,
         \A i \in InvoiceIds :
            \/ invoices'[i] = invoices[i]
            \/ /\ ~Exists(i)
               /\ invoices'[i].status = "draft"
               /\ invoices'[i].number = None,
         \A s \in Runs : HeldNumber(s)' =>
            /\ HeldNumber(s)
            /\ run'[s].number = run[s].number
            /\ run'[s].day = run[s].day
  PROVE  NumbersKept
<1>1. \A i \in InvoiceIds : invoices'[i].number = invoices[i].number
  BY DEF NumbersInv, NumbersDated, Numbered
<1>2. NumbersUnique'
  BY <1>1 DEF NumbersInv, NumbersUnique
<1>3. IssuedTogether'
  BY DEF NumbersInv, IssuedTogether, Issued, Exists
<1>4. NumbersDated'
  BY <1>1 DEF NumbersInv, NumbersDated, Numbered, Exists
<1> QED
  BY <1>2, <1>3, <1>4 DEF NumbersKept

(* In particular a step of an execution that neither allocates nor claims.  *)
LEMMA RunNoNumber ==
  ASSUME NumbersInv, UNCHANGED <<counter, invoices>>, NEW r \in Runs, NEW rec,
         run' = [run EXCEPT ![r] = rec], rec.pc # "claim"
  PROVE  NumbersKept
<1>1. run'[r] = rec /\ \A s \in Runs \ {r} : run'[s] = run[s]
  BY DEF NumbersInv, TypeInv, IssuingTypeOK
<1>2. \A s \in Runs : HeldNumber(s)' =>
            /\ HeldNumber(s)
            /\ run'[s].number = run[s].number
            /\ run'[s].day = run[s].day
  BY <1>1 DEF HeldNumber
<1> QED
  BY <1>2, NoNewNumber

LEMMA AllocateKeepsNumbers ==
  ASSUME NumbersInv, NEW r \in Runs, Allocate(r)
  PROVE  NumbersKept
<1> DEFINE day == run[r].day
<1>1. PICK y \in Years : y = YearOf[day] /\ y \in Nat
  BY RunFacts, YearTypes DEF NumbersInv, Run
<1>2. PICK n \in InvoiceNumber : n = NextNumber(y) /\ n.year = y /\ n.seq = counter[y] + 1
  <2>1. counter[y] \in Nat
    BY DEF NumbersInv, TypeInv, IssuingTypeOK, StoreTypeOK
  <2>2. /\ NextNumber(y) \in InvoiceNumber
        /\ NextNumber(y).year = y /\ NextNumber(y).seq = counter[y] + 1
    BY <1>1, <2>1 DEF NextNumber, InvoiceNumber
  <2> QED
    BY <2>2
<1> DEFINE rec == [run[r] EXCEPT !.pc = "claim", !.number = n]
<1>3. /\ counter' = [counter EXCEPT ![y] = @ + 1]
      /\ run' = [run EXCEPT ![r] = rec]
      /\ UNCHANGED invoices
  <2>1. /\ counter' = [counter EXCEPT ![YearOf[day]] = @ + 1]
        /\ run' = [run EXCEPT ![r].pc = "claim", ![r].number = NextNumber(YearOf[day])]
        /\ UNCHANGED invoices
    BY DEF Allocate, AllocateInvoiceNumber, YearOfIssue
  <2>2. YearOf[day] = y /\ NextNumber(y) = n
    BY <1>1, <1>2
  <2> HIDE DEF day
  <2> QED
    BY <2>1, <2>2
<1>4. rec.pc = "claim" /\ rec.number = n /\ rec.day = day
  BY RunFacts DEF NumbersInv, Run
<1> HIDE DEF rec
<1>5. run'[r] = rec /\ \A s \in Runs \ {r} : run'[s] = run[s]
  BY <1>3 DEF NumbersInv, TypeInv, IssuingTypeOK
<1>6. /\ counter[y] \in Nat /\ counter'[y] = counter[y] + 1
      /\ \A z \in Years : counter[z] \in Nat /\ counter[z] <= counter'[z]
  <2>1. counter \in [Years -> Nat] /\ counter' = [counter EXCEPT ![y] = counter[y] + 1]
    BY <1>3 DEF NumbersInv, TypeInv, IssuingTypeOK, StoreTypeOK
  <2>2. counter'[y] = counter[y] + 1 /\ \A z \in Years \ {y} : counter'[z] = counter[z]
    BY <2>1
  <2>3. \A z \in Years : counter[z] \in Nat
    BY <2>1
  <2> QED
    BY <1>1, <2>2, <2>3
<1>7. \A i \in InvoiceIds : Numbered(i) =>
         /\ invoices[i].number.year \in Years
         /\ invoices[i].number.seq \in Nat
         /\ invoices[i].number.seq <= counter[invoices[i].number.year]
  BY DEF NumbersInv, NumbersUnique, NumbersDated, Numbered, TypeInv, IssuingTypeOK,
         StoreTypeOK, Invoice, InvoiceNumber
<1>8. \A s \in Runs : HeldNumber(s) =>
         /\ run[s].number.year \in Years
         /\ run[s].number.seq \in Nat
         /\ run[s].number.seq <= counter[run[s].number.year]
  BY HeldTypes DEF NumbersInv, NumbersUnique, InvoiceNumber
<1>9. n # None
  BY ConstantsAssumption DEF InvoiceNumber
<1>10. \A i \in InvoiceIds : n # invoices[i].number
  BY <1>2, <1>6, <1>7, <1>9 DEF Numbered
<1>11. \A s \in Runs : HeldNumber(s) => n # run[s].number
  BY <1>2, <1>6, <1>8
<1>12. \A s \in Runs \ {r} : HeldNumber(s)' <=> HeldNumber(s)
  BY <1>5 DEF HeldNumber
<1>13. NumbersUnique'
  <2>1. ASSUME NEW i \in InvoiceIds, invoices'[i].number # None
        PROVE  /\ invoices'[i].number.seq <= counter'[invoices'[i].number.year]
               /\ \A j \in InvoiceIds \ {i} : invoices'[i].number # invoices'[j].number
    <3>1. invoices[i].number.seq <= counter'[invoices[i].number.year]
      <4>1. Numbered(i)
        BY <2>1, <1>3 DEF Numbered
      <4>2. counter'[invoices[i].number.year] \in Nat
        BY <4>1, <1>7, <1>3 DEF NumbersInv, TypeInv, IssuingTypeOK, StoreTypeOK
      <4> QED
        BY <4>1, <4>2, <1>6, <1>7
    <3> QED
      BY <2>1, <3>1, <1>3 DEF NumbersInv, NumbersUnique
  <2>2. ASSUME NEW s \in Runs, NEW t \in Runs, HeldNumber(s)', HeldNumber(t)', s # t
        PROVE  run'[s].number # run'[t].number
    BY <2>2, <1>4, <1>5, <1>11, <1>12 DEF NumbersInv, NumbersUnique
  <2>3. ASSUME NEW s \in Runs, NEW i \in InvoiceIds, HeldNumber(s)'
        PROVE  /\ run'[s].number.seq <= counter'[run'[s].number.year]
               /\ run'[s].number # invoices'[i].number
    <3>1. CASE s = r
      BY <3>1, <1>2, <1>3, <1>4, <1>5, <1>6, <1>10
    <3>2. CASE s # r
      <4>1. HeldNumber(s) /\ run'[s] = run[s]
        BY <2>3, <3>2, <1>5, <1>12
      <4>2. counter'[run[s].number.year] \in Nat
        BY <4>1, <1>8, <1>3 DEF NumbersInv, TypeInv, IssuingTypeOK, StoreTypeOK
      <4>3. run[s].number.seq <= counter'[run[s].number.year]
        BY <4>1, <4>2, <1>6, <1>8
      <4> QED
        BY <4>1, <4>3, <1>3 DEF NumbersInv, NumbersUnique
    <3> QED
      BY <3>1, <3>2
  <2> QED
    BY <2>1, <2>2, <2>3 DEF NumbersUnique
<1>14. IssuedTogether'
  BY <1>3 DEF NumbersInv, IssuedTogether, Issued, Exists
<1>15. NumbersDated'
  BY <1>1, <1>2, <1>3, <1>4, <1>5, <1>12 DEF NumbersInv, NumbersDated, Numbered, Exists
<1> QED
  BY <1>13, <1>14, <1>15 DEF NumbersKept

LEMMA ClaimKeepsNumbers ==
  ASSUME NumbersInv, NEW r \in Runs, Claim(r)
  PROVE  NumbersKept
<1>1. TypeInv /\ HeldNumber(r)
  BY DEF NumbersInv, Claim, HeldNumber
<1>2. PICK i \in InvoiceIds, n \in InvoiceNumber, day \in Days :
            /\ run[r].invoice = i /\ run[r].number = n /\ run[r].day = day
            /\ n # None
  BY <1>1, HeldTypes, RunFacts DEF Run
<1> DEFINE doc == [invoices[i] EXCEPT !.status = "open", !.issuedAt = day,
                                      !.dueAt = day + DueDays, !.number = n]
<1>3. /\ doc.status = "open" /\ doc.number = n
      /\ doc.issuedAt = day /\ doc.dueAt = day + DueDays
  BY <1>1 DEF TypeInv, IssuingTypeOK, StoreTypeOK, Invoice
<1>4. /\ invoices' = [invoices EXCEPT ![i] = doc]
      /\ run' = [run EXCEPT ![r] = AfterIssue(run[r])]
      /\ invoices[i].status = "draft"
      /\ UNCHANGED counter
  BY <1>2 DEF Claim, ClaimForIssueWithNumber, CanClaim
<1> HIDE DEF doc
<1>5. /\ invoices'[i] = doc
      /\ \A j \in InvoiceIds \ {i} : invoices'[j] = invoices[j]
      /\ run'[r] = AfterIssue(run[r])
      /\ \A s \in Runs \ {r} : run'[s] = run[s]
  BY <1>1, <1>4 DEF TypeInv, IssuingTypeOK, StoreTypeOK
<1>6. ~HeldNumber(r)' /\ \A s \in Runs \ {r} : HeldNumber(s)' <=> HeldNumber(s)
  <2>1. AfterIssue(run[r]).pc # "claim"
    BY <1>1, RunFacts, IdleRunFields DEF AfterIssue, Run
  <2> QED
    BY <1>5, <2>1 DEF HeldNumber
<1>7. /\ n.seq <= counter[n.year]
      /\ n.year \in Years /\ n.year = YearOf[day]
      /\ \A j \in InvoiceIds : n # invoices[j].number
      /\ \A s \in Runs \ {r} : HeldNumber(s) => n # run[s].number
  BY <1>1, <1>2, HeldTypes DEF NumbersInv, NumbersUnique, NumbersDated
<1>8. NumbersUnique'
  <2>1. ASSUME NEW j \in InvoiceIds, invoices'[j].number # None
        PROVE  /\ invoices'[j].number.seq <= counter'[invoices'[j].number.year]
               /\ \A k \in InvoiceIds \ {j} : invoices'[j].number # invoices'[k].number
    BY <2>1, <1>3, <1>4, <1>5, <1>7 DEF NumbersInv, NumbersUnique
  <2>2. ASSUME NEW s \in Runs, NEW t \in Runs, HeldNumber(s)', HeldNumber(t)', s # t
        PROVE  run'[s].number # run'[t].number
    BY <2>2, <1>5, <1>6 DEF NumbersInv, NumbersUnique
  <2>3. ASSUME NEW s \in Runs, NEW j \in InvoiceIds, HeldNumber(s)'
        PROVE  /\ run'[s].number.seq <= counter'[run'[s].number.year]
               /\ run'[s].number # invoices'[j].number
    <3>1. s # r /\ HeldNumber(s) /\ run'[s] = run[s]
      BY <2>3, <1>5, <1>6
    <3> QED
      BY <3>1, <1>3, <1>4, <1>5, <1>7 DEF NumbersInv, NumbersUnique
  <2> QED
    BY <2>1, <2>2, <2>3 DEF NumbersUnique
<1>9. IssuedTogether'
  <2>1. day # None
    BY ConstantsAssumption DEF Days
  <2> QED
    BY <2>1, <1>2, <1>3, <1>5, <1>7 DEF NumbersInv, IssuedTogether, Issued, Exists
<1>10. NumbersDated'
  BY <1>3, <1>5, <1>6, <1>7 DEF NumbersInv, NumbersDated, Numbered, Exists
<1> QED
  BY <1>8, <1>9, <1>10 DEF NumbersKept

(* An invoice that is created has no number yet.                            *)
LEMMA CreateHasNoNumber ==
  ASSUME TypeInv, NEW i \in InvoiceIds, NEW e, NEW start, NEW end,
         CreateInvoice(i, e, start, end)
  PROVE  \A j \in InvoiceIds :
            \/ invoices'[j] = invoices[j]
            \/ /\ ~Exists(j)
               /\ invoices'[j].status = "draft"
               /\ invoices'[j].number = None
<1> DEFINE doc == [NoInvoice EXCEPT !.status = "draft", !.enrollmentId = e,
                                    !.periodStart = start, !.periodEnd = end]
<1>1. doc.status = "draft" /\ doc.number = None
  BY NoInvoiceFields DEF Invoice
<1>2. invoices' = [invoices EXCEPT ![i] = doc] /\ ~Exists(i)
  BY DEF CreateInvoice
<1> HIDE DEF doc
<1> QED
  BY <1>1, <1>2 DEF TypeInv, IssuingTypeOK, StoreTypeOK

LEMMA CreateKeepsNumbers ==
  ASSUME NumbersInv, NEW r \in Runs, CreatePeriodInvoice(r) \/ CreateAdHocInvoice(r)
  PROVE  NumbersKept
<1>1. TypeInv /\ UNCHANGED counter
  BY DEF NumbersInv, CreatePeriodInvoice, CreateAdHocInvoice
<1>2. PICK rec :
            /\ \E i \in InvoiceIds : \E e, start, end : CreateInvoice(i, e, start, end)
            /\ run' = [run EXCEPT ![r] = rec]
            /\ rec.pc = "issue"
  <2>1. CASE CreatePeriodInvoice(r)
    <3>1. PICK i \in InvoiceIds :
              /\ \E e, start, end : CreateInvoice(i, e, start, end)
              /\ run' = [run EXCEPT ![r].invoice = i, ![r].pc = "issue"]
      BY <2>1 DEF CreatePeriodInvoice
    <3> DEFINE rec == [run[r] EXCEPT !.invoice = i, !.pc = "issue"]
    <3>2. run' = [run EXCEPT ![r] = rec]
      BY <3>1
    <3>3. rec.pc = "issue"
      BY <1>1, RunFacts DEF Run
    <3> QED
      BY <3>1, <3>2, <3>3
  <2>2. CASE CreateAdHocInvoice(r)
    <3>1. PICK i \in InvoiceIds :
              /\ CreateInvoice(i, None, None, None)
              /\ run' = [run EXCEPT ![r] = [IdleRun EXCEPT !.pc = "issue", !.invoice = i]]
      BY <2>2 DEF CreateAdHocInvoice
    <3> DEFINE rec == [IdleRun EXCEPT !.pc = "issue", !.invoice = i]
    <3>2. rec.pc = "issue"
      BY IdleRunFields DEF Run
    <3> QED
      BY <3>1, <3>2
  <2> QED
    BY <2>1, <2>2
<1>3. \A s \in Runs : HeldNumber(s)' =>
            /\ HeldNumber(s)
            /\ run'[s].number = run[s].number
            /\ run'[s].day = run[s].day
  BY <1>1, <1>2 DEF HeldNumber, TypeInv, IssuingTypeOK
<1> QED
  BY <1>1, <1>2, <1>3, CreateHasNoNumber, NoNewNumber

-----------------------------------------------------------------------------
(* The steps of an execution that change neither invoices nor counter.      *)
LEMMA OtherRunKeepsNumbers ==
  ASSUME NumbersInv, NEW r \in Runs, UNCHANGED <<counter, invoices>>,
         \/ \E e \in Enrollments : SweepEnrollment(r, e)
         \/ \E i \in InvoiceIds : RequestIssue(r, i)
         \/ ReadEnrollment(r) \/ ResumeInvoice(r) \/ NoInvoiceYet(r)
         \/ LoseCreateRace(r) \/ ReadDraft(r)
         \/ NotActive(r) \/ NothingDue(r) \/ AdvanceCursor(r) \/ CrashRun(r)
         \/ AlreadyIssued(r) \/ LoseClaim(r)
  PROVE  NumbersKept
<1> SUFFICES \E rec : run' = [run EXCEPT ![r] = rec] /\ rec.pc # "claim"
  BY RunNoNumber
<1>0. run[r] \in Run
  BY RunFacts DEF NumbersInv
<1>1. ASSUME NEW e \in Enrollments, SweepEnrollment(r, e)
      PROVE  \E rec : run' = [run EXCEPT ![r] = rec] /\ rec.pc # "claim"
  <2> DEFINE rec == [IdleRun EXCEPT !.pc = "read", !.enrollmentId = e]
  <2>1. rec.pc = "read"
    BY IdleRunFields DEF Run
  <2> QED
    BY <1>1, <2>1 DEF SweepEnrollment
<1>2. ASSUME NEW i \in InvoiceIds, RequestIssue(r, i)
      PROVE  \E rec : run' = [run EXCEPT ![r] = rec] /\ rec.pc # "claim"
  <2> DEFINE rec == [IdleRun EXCEPT !.pc = "issue", !.invoice = i]
  <2>1. rec.pc = "issue"
    BY IdleRunFields DEF Run
  <2> QED
    BY <1>2, <2>1 DEF RequestIssue
<1>3. CASE ReadEnrollment(r)
  <2> DEFINE c == enrollments[run[r].enrollmentId].currentPeriodEnd
             rec == [run[r] EXCEPT !.pc = "lookup", !.currentPeriodEnd = c]
  <2>1. rec.pc = "lookup"
    BY <1>0 DEF Run
  <2>2. run' = [run EXCEPT ![r] = rec]
    BY <1>3 DEF ReadEnrollment
  <2> QED
    BY <2>1, <2>2
<1>4. CASE ResumeInvoice(r)
  <2>1. PICK i \in InvoiceIds : run' = [run EXCEPT ![r].invoice = i, ![r].pc = Resume(i)]
    BY <1>4 DEF ResumeInvoice, PeriodInvoices
  <2> DEFINE rec == [run[r] EXCEPT !.invoice = i, !.pc = Resume(i)]
  <2>2. rec.pc # "claim"
    BY <1>0 DEF Run, Resume
  <2>3. run' = [run EXCEPT ![r] = rec]
    BY <2>1
  <2> QED
    BY <2>2, <2>3
<1>5. CASE NoInvoiceYet(r)
  <2> DEFINE rec == [run[r] EXCEPT !.pc = "create"]
  <2>1. rec.pc = "create" /\ run' = [run EXCEPT ![r] = rec]
    BY <1>0, <1>5 DEF NoInvoiceYet, Run
  <2> QED
    BY <2>1
<1>6. CASE LoseCreateRace(r)
  <2> DEFINE rec == [run[r] EXCEPT !.pc = "lookup"]
  <2>1. rec.pc = "lookup" /\ run' = [run EXCEPT ![r] = rec]
    BY <1>0, <1>6 DEF LoseCreateRace, Run
  <2> QED
    BY <2>1
<1>7. CASE ReadDraft(r)
  <2> DEFINE rec == [run[r] EXCEPT !.pc = "allocate", !.day = today]
  <2>1. rec.pc = "allocate" /\ run' = [run EXCEPT ![r] = rec]
    BY <1>0, <1>7 DEF ReadDraft, Run
  <2> QED
    BY <2>1
<1>8. CASE NotActive(r) \/ NothingDue(r) \/ AdvanceCursor(r) \/ CrashRun(r)
  BY <1>8, IdleRunFields DEF NotActive, NothingDue, AdvanceCursor, CrashRun
<1>9. CASE AlreadyIssued(r) \/ LoseClaim(r)
  <2>1. AfterIssue(run[r]).pc # "claim"
    BY <1>0, IdleRunFields DEF AfterIssue, Run
  <2> QED
    BY <1>9, <2>1 DEF AlreadyIssued, LoseClaim
<1> QED
  BY <1>1, <1>2, <1>3, <1>4, <1>5, <1>6, <1>7, <1>8, <1>9

LEMMA NumbersInvStep == NumbersInv /\ [IssuingAction]_issuingVars => NumbersInv'
<1> SUFFICES ASSUME NumbersInv, [IssuingAction]_issuingVars PROVE NumbersInv'
  OBVIOUS
<1>t. TypeInv'
  BY TypeInvStep DEF NumbersInv
<1> SUFFICES NumbersKept
  BY <1>t DEF NumbersInv, NumbersKept
<1>1. ASSUME StoreNext \/ UNCHANGED storeVars, UNCHANGED run PROVE NumbersKept
  <2>1. UNCHANGED <<counter, invoices>>
    BY <1>1 DEF StoreNext, Enroll, Freeze, Cancel, NextDay, storeVars
  <2> QED
    BY <1>1, <2>1, NoNewNumber DEF HeldNumber
<1>2. ASSUME NEW r \in Workers, NEW e \in Enrollments, SweepEnrollment(r, e)
      PROVE  NumbersKept
  BY <1>2, OtherRunKeepsNumbers DEF SweepEnrollment, storeVars, Runs
<1>3. ASSUME NEW r \in Requests, NEW i \in InvoiceIds, RequestIssue(r, i)
      PROVE  NumbersKept
  BY <1>3, OtherRunKeepsNumbers DEF RequestIssue, storeVars, Runs
<1>4. ASSUME NEW r \in Requests, CreateAdHocInvoice(r) PROVE NumbersKept
  BY <1>4, CreateKeepsNumbers DEF Runs
<1>5. ASSUME NEW r \in Runs, RunStep(r) \/ CrashRun(r) PROVE NumbersKept
  <2>1. CASE CreatePeriodInvoice(r)
    BY <2>1, CreateKeepsNumbers
  <2>2. CASE Allocate(r)
    BY <2>2, AllocateKeepsNumbers
  <2>3. CASE Claim(r)
    BY <2>3, ClaimKeepsNumbers
  <2>4. CASE \/ ReadEnrollment(r) \/ ResumeInvoice(r) \/ NoInvoiceYet(r)
             \/ LoseCreateRace(r) \/ ReadDraft(r)
             \/ NotActive(r) \/ NothingDue(r) \/ AdvanceCursor(r) \/ CrashRun(r)
             \/ AlreadyIssued(r) \/ LoseClaim(r)
    <3>1. UNCHANGED <<counter, invoices>>
      BY <2>4
      DEF ReadEnrollment, ResumeInvoice, NoInvoiceYet, LoseCreateRace, ReadDraft, NotActive,
          NothingDue, AdvanceCursor, CrashRun, CrashStep, AlreadyIssued, LoseClaim, storeVars
    <3> QED
      BY <2>4, <3>1, OtherRunKeepsNumbers
  <2> QED
    BY <1>5, <2>1, <2>2, <2>3, <2>4 DEF RunStep
<1> QED
  BY <1>1, <1>2, <1>3, <1>4, <1>5 DEF IssuingAction, IssuingNext, issuingVars

-----------------------------------------------------------------------------
LEMMA NumbersInvariant == IssuingSpec => []NumbersInv
  BY NumbersInvInit, NumbersInvStep, PTL DEF IssuingSpec, IssuingAction

(* No number is on two invoices, or on one and about to be written on       *)
(* another, whichever jobs and requests issue at the same time or die on    *)
(* the way.                                                                 *)
THEOREM NumbersNeverReused == IssuingSpec => []NumbersUnique
<1>1. NumbersInv => NumbersUnique
  BY DEF NumbersInv
<1> QED
  BY NumbersInvariant, <1>1, PTL

(* An invoice gets its number, its dates and its status at once, and the    *)
(* number is of the year of the day it was issued, at a turn of the year    *)
(* too.                                                                     *)
THEOREM NumberedWhenIssued == IssuingSpec => []IssuedTogether
<1>1. NumbersInv => IssuedTogether
  BY DEF NumbersInv
<1> QED
  BY NumbersInvariant, <1>1, PTL

-----------------------------------------------------------------------------
(* Periods.  No enrolment is ever billed twice for a day                   *)
(* (NoDoubleBilling), none is skipped and the cursor is covered, for every *)
(* number of executions and crashes, and every calendar.                   *)
(*                                                                         *)
(* The unique index only says that no two invoices of an enrolment start   *)
(* on the same day.  That their periods do not overlap either needs more:  *)
(* the periods of an enrolment form one chain, so that one which starts    *)
(* where another ends, and at which none starts yet, comes after all.      *)
(* And it needs that the cursor an execution carries, however stale, is    *)
(* the end of a period that has been issued.                               *)

(* The invoices of an enrolment are for periods of its plan.               *)
PlanPeriods ==
    \A e \in Enrollments : \A i \in InvoicesOf(e) :
        /\ enrollments[e].status # "absent"
        /\ e \in Recurring
        /\ invoices[i].periodStart \in Nat
        /\ invoices[i].periodEnd = PeriodEnd(e, invoices[i].periodStart)
        /\ enrollments[e].startDate <= invoices[i].periodStart

OnePerPeriod ==
    \A e \in Enrollments : \A i, j \in InvoicesOf(e) :
        i # j => invoices[i].periodStart # invoices[j].periodStart

FirstPeriodBilled ==
    \A e \in Enrollments : InvoicesOf(e) # {} =>
        \E i \in InvoicesOf(e) : invoices[i].periodStart = enrollments[e].startDate

(* Only the last period of an enrolment has none that follows it.          *)
OneFrontier ==
    \A e \in Enrollments : \A j \in InvoicesOf(e) :
        \/ \E u \in InvoicesOf(e) : invoices[u].periodStart = invoices[j].periodEnd
        \/ \A u \in InvoicesOf(e) : invoices[u].periodEnd <= invoices[j].periodEnd

InvoicesInv ==
    /\ PlanPeriods
    /\ OnePerPeriod
    /\ FirstPeriodBilled
    /\ OneFrontier
    /\ NoSkippedPeriod
    /\ NoDoubleBilling

(* The cursor an execution has read is the end of an issued period.        *)
RunCovered(r) ==
    LET e == run[r].enrollmentId
        c == run[r].currentPeriodEnd
    IN  e # None =>
           /\ enrollments[e].status # "absent"
           /\ c # None => \E j \in InvoicesOf(e) : Issued(j) /\ invoices[j].periodEnd = c

(* The invoice an execution works on is that of the period it has computed, *)
(* and issued when the execution comes to move the cursor.                  *)
RunInvoice(r) ==
    LET e == run[r].enrollmentId
        i == run[r].invoice
    IN  /\ run[r].pc = "create" => e \in Recurring
        /\ run[r].pc \in {"issue", "allocate", "claim", "advance"} =>
              /\ i \in InvoiceIds
              /\ Exists(i)
              /\ e # None =>
                    /\ invoices[i].enrollmentId = e
                    /\ invoices[i].periodStart = PeriodStart(e, run[r].currentPeriodEnd)
        /\ run[r].pc = "advance" => Issued(i)

RunsInv == \A r \in Runs : RunCovered(r) /\ RunInvoice(r)

PeriodsInv == TypeInv /\ InvoicesInv /\ CursorCovered /\ RunsInv

-----------------------------------------------------------------------------
(* What no step ever undoes: an invoice keeps its enrolment and period and *)
(* is not un-issued, an enrolment keeps its start date.                    *)
Monotone ==
    /\ \A i \in InvoiceIds : Exists(i) =>
          /\ invoices'[i].status # "absent"
          /\ Issued(i) => invoices'[i].status # "draft"
          /\ invoices'[i].enrollmentId = invoices[i].enrollmentId
          /\ invoices'[i].periodStart = invoices[i].periodStart
          /\ invoices'[i].periodEnd = invoices[i].periodEnd
    /\ \A e \in Enrollments : enrollments[e].status # "absent" =>
          /\ enrollments'[e].status # "absent"
          /\ enrollments'[e].startDate = enrollments[e].startDate

NoNewPeriod ==
    \A i \in InvoiceIds :
        invoices'[i].status # "absent" /\ invoices'[i].enrollmentId # None => Exists(i)

LEMMA SameInvoices ==
  ASSUME Monotone, NoNewPeriod, NEW e \in Enrollments
  PROVE  InvoicesOf(e)' = InvoicesOf(e)
  BY NoneTypes DEF Monotone, NoNewPeriod, InvoicesOf, Exists

LEMMA MoreInvoices ==
  ASSUME Monotone, NEW e \in Enrollments, NEW i \in InvoicesOf(e)
  PROVE  /\ i \in InvoicesOf(e)'
         /\ Issued(i) => Issued(i)'
         /\ invoices'[i].periodStart = invoices[i].periodStart
         /\ invoices'[i].periodEnd = invoices[i].periodEnd
  BY DEF Monotone, InvoicesOf, Exists, Issued

(* A step that creates no subscription invoice leaves the invariants of the *)
(* invoices alone.                                                          *)
LEMMA InvoicesKept ==
  ASSUME InvoicesInv, Monotone, NoNewPeriod
  PROVE  InvoicesInv'
<1>1. ASSUME NEW e \in Enrollments, NEW i \in InvoicesOf(e)'
      PROVE  /\ i \in InvoicesOf(e)
             /\ enrollments[e].status # "absent"
             /\ enrollments'[e].status # "absent"
             /\ enrollments'[e].startDate = enrollments[e].startDate
             /\ Issued(i) => Issued(i)'
             /\ invoices'[i].periodStart = invoices[i].periodStart
             /\ invoices'[i].periodEnd = invoices[i].periodEnd
  <2>1. i \in InvoicesOf(e) /\ enrollments[e].status # "absent"
    BY SameInvoices DEF InvoicesInv, PlanPeriods
  <2> QED
    BY <2>1, MoreInvoices DEF Monotone
<1>2. PlanPeriods'
  BY <1>1 DEF InvoicesInv, PlanPeriods
<1>3. OnePerPeriod'
  BY <1>1 DEF InvoicesInv, OnePerPeriod
<1>4. NoDoubleBilling'
  BY <1>1 DEF InvoicesInv, NoDoubleBilling
<1>5. ASSUME NEW e \in Enrollments, InvoicesOf(e)' # {}
      PROVE  \E i \in InvoicesOf(e)' : invoices'[i].periodStart = enrollments'[e].startDate
  <2>1. PICK i \in InvoicesOf(e) : invoices[i].periodStart = enrollments[e].startDate
    BY <1>5, SameInvoices DEF InvoicesInv, FirstPeriodBilled
  <2> QED
    BY <2>1, <1>1, SameInvoices
<1>6. ASSUME NEW e \in Enrollments, NEW i \in InvoicesOf(e)'
      PROVE  \/ invoices'[i].periodStart = enrollments'[e].startDate
             \/ \E j \in InvoicesOf(e)' : /\ Issued(j)'
                                          /\ invoices'[j].periodEnd = invoices'[i].periodStart
  <2>1. CASE invoices[i].periodStart = enrollments[e].startDate
    BY <2>1, <1>1
  <2>2. CASE \E j \in InvoicesOf(e) : /\ Issued(j)
                                      /\ invoices[j].periodEnd = invoices[i].periodStart
    BY <2>2, <1>1, SameInvoices
  <2> QED
    BY <2>1, <2>2, <1>1 DEF InvoicesInv, NoSkippedPeriod
<1>7. ASSUME NEW e \in Enrollments, NEW j \in InvoicesOf(e)'
      PROVE  \/ \E u \in InvoicesOf(e)' : invoices'[u].periodStart = invoices'[j].periodEnd
             \/ \A u \in InvoicesOf(e)' : invoices'[u].periodEnd <= invoices'[j].periodEnd
  <2>1. CASE \E u \in InvoicesOf(e) : invoices[u].periodStart = invoices[j].periodEnd
    BY <2>1, <1>1, SameInvoices
  <2>2. CASE \A u \in InvoicesOf(e) : invoices[u].periodEnd <= invoices[j].periodEnd
    BY <2>2, <1>1
  <2> QED
    BY <2>1, <2>2, <1>1 DEF InvoicesInv, OneFrontier
<1> QED
  BY <1>2, <1>3, <1>4, <1>5, <1>6, <1>7
  DEF InvoicesInv, FirstPeriodBilled, NoSkippedPeriod, OneFrontier

LEMMA CursorKept ==
  ASSUME CursorCovered, Monotone,
         \A e \in Enrollments :
            enrollments'[e].currentPeriodEnd \in {None, enrollments[e].currentPeriodEnd}
  PROVE  CursorCovered'
  BY MoreInvoices DEF CursorCovered

(* An execution that does not take the step still holds what it held.       *)
LEMMA RunKept ==
  ASSUME TypeInv, Monotone, NEW s \in Runs, RunCovered(s), RunInvoice(s), run'[s] = run[s]
  PROVE  (RunCovered(s) /\ RunInvoice(s))'
<1>1. run[s].enrollmentId \in Enrollments \cup {None}
  BY RunFacts DEF Run
<1>2. RunCovered(s)'
  BY <1>1, MoreInvoices DEF RunCovered, Monotone
<1>3. RunInvoice(s)'
  BY <1>1 DEF RunCovered, RunInvoice, Monotone, Exists, Issued, PeriodStart
<1> QED
  BY <1>2, <1>3

-----------------------------------------------------------------------------
(* A period that starts where an issued one ends, and where none starts yet, *)
(* comes after all.                                                         *)
LEMMA NewPeriod ==
  ASSUME TypeInv, InvoicesInv,
         NEW e \in Enrollments, NEW c \in Nat \cup {None},
         c # None => \E j \in InvoicesOf(e) : Issued(j) /\ invoices[j].periodEnd = c,
         PeriodInvoices(e, PeriodStart(e, c)) = {}
  PROVE  LET start == PeriodStart(e, c)
         IN  /\ start \in Nat
             /\ enrollments[e].startDate <= start
             /\ \/ InvoicesOf(e) = {} /\ start = enrollments[e].startDate
                \/ \E j \in InvoicesOf(e) : Issued(j) /\ invoices[j].periodEnd = start
             /\ \A u \in InvoicesOf(e) : /\ invoices[u].periodStart # start
                                        /\ invoices[u].periodEnd <= start
<1> DEFINE start == PeriodStart(e, c)
           first == enrollments[e].startDate
<1>1. first \in Nat
  BY DEF TypeInv, IssuingTypeOK, StoreTypeOK, Enrollment
<1>2. \A u \in InvoicesOf(e) : invoices[u].periodStart # start
  BY DEF PeriodInvoices, InvoicesOf
<1>3. CASE c = None
  <2>1. start = first
    BY <1>3 DEF PeriodStart
  <2>2. InvoicesOf(e) = {}
    BY <1>2, <2>1 DEF InvoicesInv, FirstPeriodBilled
  <2> QED
    BY <1>1, <2>1, <2>2
<1>4. CASE c # None
  <2>1. start = c /\ c \in Nat
    BY <1>4 DEF PeriodStart
  <2>2. PICK j \in InvoicesOf(e) : Issued(j) /\ invoices[j].periodEnd = c
    BY <1>4
  <2>3. /\ invoices[j].periodStart \in Nat
        /\ c = PeriodEnd(e, invoices[j].periodStart)
        /\ first <= invoices[j].periodStart
    BY <2>2 DEF InvoicesInv, PlanPeriods
  <2>4. first <= c
    BY <1>1, <2>1, <2>3, PeriodEndTypes
  <2>5. \A u \in InvoicesOf(e) : invoices[u].periodEnd <= c
    BY <1>2, <2>1, <2>2 DEF InvoicesInv, OneFrontier
  <2> QED
    BY <1>2, <2>1, <2>2, <2>4, <2>5
<1> QED
  BY <1>3, <1>4

-----------------------------------------------------------------------------
(* The induction, by what a step changes.                                   *)

Kept == InvoicesInv' /\ CursorCovered' /\ RunsInv'

(* A step of the store that leaves the executions where they are.           *)
LEMMA StoreKeeps ==
  ASSUME PeriodsInv, Monotone, NoNewPeriod, UNCHANGED run,
         \A e \in Enrollments :
            enrollments'[e].currentPeriodEnd \in {None, enrollments[e].currentPeriodEnd}
  PROVE  Kept
<1>1. RunsInv'
  BY RunKept DEF PeriodsInv, RunsInv
<1> QED
  BY <1>1, InvoicesKept, CursorKept DEF Kept, PeriodsInv

LEMMA OthersKept ==
  ASSUME PeriodsInv, Monotone, NEW r \in Runs,
         \A s \in Runs \ {r} : run'[s] = run[s],
         (RunCovered(r) /\ RunInvoice(r))'
  PROVE  RunsInv'
  BY RunKept DEF PeriodsInv, RunsInv

LEMMA StoreUnchanged ==
  ASSUME UNCHANGED <<enrollments, invoices>>
  PROVE  Monotone /\ NoNewPeriod
  BY DEF Monotone, NoNewPeriod, Exists, Issued

(* A step of one execution that only reads.                                 *)
LEMMA RunKeeps ==
  ASSUME PeriodsInv, UNCHANGED <<enrollments, invoices>>, NEW r \in Runs,
         \A s \in Runs \ {r} : run'[s] = run[s],
         (RunCovered(r) /\ RunInvoice(r))'
  PROVE  Kept
  BY StoreUnchanged, OthersKept, InvoicesKept, CursorKept DEF Kept, PeriodsInv

LEMMA IdleHolds ==
  ASSUME NEW r \in Runs, run'[r].pc = "idle", run'[r].enrollmentId = None
  PROVE  (RunCovered(r) /\ RunInvoice(r))'
  BY DEF RunCovered, RunInvoice

(* The fields of an execution after an update of some of them.              *)
LEMMA RunFields ==
  ASSUME TypeInv, NEW r \in Runs, NEW rec, run' = [run EXCEPT ![r] = rec]
  PROVE  run'[r] = rec /\ \A s \in Runs \ {r} : run'[s] = run[s]
  BY DEF TypeInv, IssuingTypeOK

(* An execution whose invoice is issued, by itself or by another.           *)
LEMMA IssuedHolds ==
  ASSUME PeriodsInv, Monotone, NEW r \in Runs, run[r].pc \in {"issue", "claim"},
         run' = [run EXCEPT ![r] = AfterIssue(run[r])],
         NEW i \in InvoiceIds, run[r].invoice = i, Issued(i)'
  PROVE  /\ (RunCovered(r) /\ RunInvoice(r))'
         /\ \A s \in Runs \ {r} : run'[s] = run[s]
<1> DEFINE e == run[r].enrollmentId
<1>1. TypeInv /\ RunCovered(r) /\ RunInvoice(r)
  BY DEF PeriodsInv, RunsInv
<1>2. run'[r] = AfterIssue(run[r]) /\ \A s \in Runs \ {r} : run'[s] = run[s]
  BY <1>1, RunFields
<1>3. CASE e = None
  BY <1>2, <1>3, IdleRunFields, IdleHolds DEF AfterIssue
<1>4. CASE e # None
  <2>1. /\ run'[r].pc = "advance"
        /\ run'[r].enrollmentId = e
        /\ run'[r].currentPeriodEnd = run[r].currentPeriodEnd
        /\ run'[r].invoice = i
    BY <1>1, <1>2, <1>4, RunFacts DEF AfterIssue, Run
  <2>2. e \in Enrollments
    BY <1>1, <1>4, RunFacts DEF Run
  <2>3. RunCovered(r)'
    BY <1>1, <2>1, <2>2, MoreInvoices DEF RunCovered, Monotone
  <2>4. /\ i \in InvoiceIds /\ Exists(i)
        /\ invoices[i].enrollmentId = e
        /\ invoices[i].periodStart = PeriodStart(e, run[r].currentPeriodEnd)
    BY <1>1, <1>4 DEF RunInvoice
  <2>5. enrollments[e].status # "absent"
    BY <1>1, <1>4 DEF RunCovered
  <2>6. RunInvoice(r)'
    BY <2>1, <2>2, <2>4, <2>5 DEF RunInvoice, Monotone, PeriodStart, Exists, Issued
  <2> QED
    BY <1>2, <2>3, <2>6
<1> QED
  BY <1>3, <1>4

LEMMA PeriodsInvInit == IssuingInit => PeriodsInv
<1> SUFFICES ASSUME IssuingInit PROVE PeriodsInv
  OBVIOUS
<1>1. \A e \in Enrollments : InvoicesOf(e) = {}
  BY NoInvoiceFields DEF IssuingInit, StoreInit, InvoicesOf, Exists
<1>2. InvoicesInv
  BY <1>1 DEF InvoicesInv, PlanPeriods, OnePerPeriod, FirstPeriodBilled,
              OneFrontier, NoSkippedPeriod, NoDoubleBilling
<1>3. CursorCovered
  BY NoEnrollmentFields DEF IssuingInit, StoreInit, CursorCovered
<1>4. RunsInv
  BY IdleRunFields DEF IssuingInit, RunsInv, RunCovered, RunInvoice
<1> QED
  BY <1>2, <1>3, <1>4, TypeInvInit DEF PeriodsInv

-----------------------------------------------------------------------------
(* The step that adds a period.                                             *)
LEMMA CreateKeeps ==
  ASSUME PeriodsInv, NEW r \in Runs, CreatePeriodInvoice(r)
  PROVE  Kept
<1>1. TypeInv /\ InvoicesInv /\ CursorCovered /\ RunCovered(r) /\ RunInvoice(r)
  BY DEF PeriodsInv, RunsInv
<1>2. run[r].pc = "create" /\ UNCHANGED enrollments
  BY DEF CreatePeriodInvoice
<1>3. PICK e \in Enrollments, c \in Nat \cup {None} :
            /\ run[r].enrollmentId = e
            /\ run[r].currentPeriodEnd = c
  BY <1>1, <1>2, RunFacts DEF HasFields, Run
<1> DEFINE start == PeriodStart(e, c)
           end == PeriodEnd(e, start)
<1>4. PICK i \in InvoiceIds :
            /\ CreateInvoice(i, e, start, end)
            /\ run' = [run EXCEPT ![r].invoice = i, ![r].pc = "issue"]
  BY <1>3 DEF CreatePeriodInvoice
<1>e. e # None /\ e \in Recurring
  BY <1>1, <1>2, <1>3, NoneTypes DEF RunInvoice
<1>5. enrollments[e].status # "absent"
      /\ (c # None => \E j \in InvoicesOf(e) : Issued(j) /\ invoices[j].periodEnd = c)
  BY <1>1, <1>3, <1>e DEF RunCovered
<1>6. PeriodInvoices(e, start) = {} /\ ~Exists(i)
  BY <1>4, <1>3, <1>e DEF CreateInvoice, PeriodTaken
<1>7. /\ start \in Nat
      /\ enrollments[e].startDate <= start
      /\ \/ InvoicesOf(e) = {} /\ start = enrollments[e].startDate
         \/ \E j \in InvoicesOf(e) : Issued(j) /\ invoices[j].periodEnd = start
      /\ \A u \in InvoicesOf(e) :
            /\ invoices[u].periodStart # start
            /\ invoices[u].periodEnd <= start
  BY <1>1, <1>3, <1>5, <1>6, NewPeriod
<1>8. /\ invoices'[i].status = "draft"
      /\ invoices'[i].enrollmentId = e
      /\ invoices'[i].periodStart = start
      /\ invoices'[i].periodEnd = end
      /\ \A j \in InvoiceIds \ {i} : invoices'[j] = invoices[j]
  <2> DEFINE doc == [NoInvoice EXCEPT !.status = "draft", !.enrollmentId = e,
                                      !.periodStart = start, !.periodEnd = end]
  <2>1. invoices' = [invoices EXCEPT ![i] = doc]
    BY <1>4 DEF CreateInvoice
  <2>2. /\ doc.status = "draft" /\ doc.enrollmentId = e
        /\ doc.periodStart = start /\ doc.periodEnd = end
    BY NoInvoiceFields DEF Invoice
  <2> HIDE DEF doc
  <2> QED
    BY <1>1, <2>1, <2>2 DEF TypeInv, IssuingTypeOK, StoreTypeOK
<1>9. Monotone
  BY <1>2, <1>6, <1>8 DEF Monotone, Exists, Issued
<1>10. /\ InvoicesOf(e)' = InvoicesOf(e) \cup {i}
       /\ i \notin InvoicesOf(e)
       /\ \A x \in Enrollments \ {e} : InvoicesOf(x)' = InvoicesOf(x)
  BY <1>6, <1>8 DEF InvoicesOf, Exists
<1>11. \A x \in Enrollments : \A j \in InvoicesOf(x) :
          /\ invoices'[j] = invoices[j]
          /\ Issued(j)' <=> Issued(j)
  BY <1>6, <1>8 DEF InvoicesOf, Exists, Issued
<1>12. end \in Nat /\ start < end
  BY <1>7, PeriodEndTypes
<1>13. InvoicesInv'
  <2>1. PlanPeriods'
    BY <1>1, <1>2, <1>3, <1>e, <1>5, <1>7, <1>8, <1>10, <1>11, <1>12 DEF InvoicesInv, PlanPeriods
  <2>2. OnePerPeriod'
    BY <1>1, <1>7, <1>8, <1>10, <1>11 DEF InvoicesInv, OnePerPeriod
  <2>3. FirstPeriodBilled'
    BY <1>1, <1>2, <1>7, <1>8, <1>10, <1>11 DEF InvoicesInv, FirstPeriodBilled
  <2>4. NoSkippedPeriod'
    BY <1>1, <1>2, <1>7, <1>8, <1>10, <1>11 DEF InvoicesInv, NoSkippedPeriod
  <2>5. NoDoubleBilling'
    BY <1>1, <1>7, <1>8, <1>10, <1>11 DEF InvoicesInv, NoDoubleBilling
  <2>6. ASSUME NEW x \in Enrollments, NEW j \in InvoicesOf(x)'
        PROVE  \/ \E u \in InvoicesOf(x)' : invoices'[u].periodStart = invoices'[j].periodEnd
               \/ \A u \in InvoicesOf(x)' : invoices'[u].periodEnd <= invoices'[j].periodEnd
    <3>1. CASE x # e
      BY <3>1, <1>1, <1>10, <1>11 DEF InvoicesInv, OneFrontier
    <3>2. ASSUME x = e, NEW u \in InvoicesOf(e) PROVE invoices'[u].periodEnd <= end
      <4>1. /\ invoices'[u].periodEnd = PeriodEnd(e, invoices[u].periodStart)
            /\ invoices[u].periodStart \in Nat
            /\ invoices'[u].periodEnd <= start
        BY <1>1, <1>7, <1>11 DEF InvoicesInv, PlanPeriods
      <4> HIDE DEF start, end
      <4> QED
        BY <4>1, <1>7, <1>12, PeriodEndTypes
    <3>3. CASE x = e /\ j = i
      BY <3>2, <3>3, <1>8, <1>10, <1>12
    <3>4. CASE x = e /\ j # i
      <4>1. j \in InvoicesOf(e) /\ invoices'[j] = invoices[j]
        BY <3>4, <1>10, <1>11
      <4>2. CASE \E u \in InvoicesOf(e) : invoices[u].periodStart = invoices[j].periodEnd
        BY <3>4, <4>1, <4>2, <1>10, <1>11
      <4>3. CASE \A u \in InvoicesOf(e) : invoices[u].periodEnd <= invoices[j].periodEnd
        <5>1. PICK v \in InvoicesOf(e) : invoices[v].periodEnd = start
          BY <4>1, <1>7
        <5>2. /\ invoices[j].periodEnd = PeriodEnd(e, invoices[j].periodStart)
              /\ invoices[j].periodStart \in Nat
          BY <4>1, <1>1 DEF InvoicesInv, PlanPeriods
        <5>3. invoices[j].periodEnd = start
          <6> HIDE DEF start
          <6>1. invoices[j].periodEnd \in Nat
            BY <5>2, PeriodEndTypes
          <6> QED
            BY <6>1, <5>1, <4>1, <4>3, <1>7
        <5> QED
          BY <3>4, <4>1, <5>3, <1>8, <1>10
      <4> QED
        BY <4>1, <4>2, <4>3, <1>1 DEF InvoicesInv, OneFrontier
    <3> QED
      BY <3>1, <3>3, <3>4
  <2>7. OneFrontier'
    BY <2>6 DEF OneFrontier
  <2> QED
    BY <2>1, <2>2, <2>3, <2>4, <2>5, <2>7 DEF InvoicesInv
<1>14. CursorCovered'
  BY <1>1, <1>2, <1>9, CursorKept
<1>15. /\ run'[r].pc = "issue" /\ run'[r].invoice = i
       /\ run'[r].enrollmentId = e /\ run'[r].currentPeriodEnd = c
       /\ \A s \in Runs \ {r} : run'[s] = run[s]
  <2> DEFINE rec == [run[r] EXCEPT !.invoice = i, !.pc = "issue"]
  <2>1. run' = [run EXCEPT ![r] = rec]
    BY <1>4
  <2>2. /\ rec.pc = "issue" /\ rec.invoice = i
        /\ rec.enrollmentId = e /\ rec.currentPeriodEnd = c
    BY <1>1, <1>3, RunFacts DEF Run
  <2> HIDE DEF rec
  <2> QED
    BY <1>1, <2>1, <2>2, RunFields
<1>16. RunCovered(r)'
  BY <1>1, <1>2, <1>3, <1>e, <1>9, <1>15, MoreInvoices DEF RunCovered, Monotone
<1>17. RunInvoice(r)'
  BY <1>2, <1>8, <1>15 DEF RunInvoice, Exists, PeriodStart, start
<1> QED
  BY <1>9, <1>13, <1>14, <1>15, <1>16, <1>17, OthersKept DEF Kept

-----------------------------------------------------------------------------
(* The steps of an execution that only read.                                *)

LEMMA ToIdleKeeps ==
  ASSUME PeriodsInv, NEW r \in Runs, UNCHANGED <<enrollments, invoices>>,
         run' = [run EXCEPT ![r] = IdleRun]
  PROVE  Kept
  BY RunFields, IdleRunFields, IdleHolds, RunKeeps DEF PeriodsInv

LEMMA ReadKeeps ==
  ASSUME PeriodsInv, NEW r \in Runs, ReadEnrollment(r)
  PROVE  Kept
<1> DEFINE rec == [run[r] EXCEPT !.pc = "lookup",
                                 !.currentPeriodEnd = enrollments[run[r].enrollmentId].currentPeriodEnd]
<1>1. TypeInv /\ CursorCovered /\ RunCovered(r) /\ UNCHANGED <<enrollments, invoices>>
  BY DEF PeriodsInv, RunsInv, ReadEnrollment, storeVars
<1>2. PICK e \in Enrollments : run[r].enrollmentId = e
  BY <1>1, RunFacts DEF ReadEnrollment, HasFields
<1>3. run' = [run EXCEPT ![r] = rec]
  BY DEF ReadEnrollment
<1>4. /\ rec.pc = "lookup" /\ rec.enrollmentId = e
      /\ rec.currentPeriodEnd = enrollments[e].currentPeriodEnd
  BY <1>1, <1>2, RunFacts DEF Run
<1> HIDE DEF rec
<1>5. run'[r] = rec /\ \A s \in Runs \ {r} : run'[s] = run[s]
  BY <1>1, <1>3, RunFields
<1>6. enrollments[e].status # "absent"
  BY <1>1, <1>2, NoneTypes DEF RunCovered
<1>7. RunCovered(r)'
  <2>1. enrollments[e].currentPeriodEnd # None =>
           \E j \in InvoicesOf(e) : /\ Issued(j)
                                    /\ invoices[j].periodEnd = enrollments[e].currentPeriodEnd
    BY <1>1 DEF CursorCovered
  <2> QED
    BY <1>1, <1>4, <1>5, <1>6, <2>1 DEF RunCovered, InvoicesOf, Exists, Issued
<1>8. RunInvoice(r)'
  BY <1>4, <1>5 DEF RunInvoice
<1> QED
  BY <1>1, <1>5, <1>7, <1>8, RunKeeps

(* An execution moves on with the same enrolment and cursor.                *)
LEMMA SameCursor ==
  ASSUME PeriodsInv, NEW r \in Runs, UNCHANGED <<enrollments, invoices>>,
         run'[r].enrollmentId = run[r].enrollmentId,
         run'[r].currentPeriodEnd = run[r].currentPeriodEnd
  PROVE  RunCovered(r)'
<1>1. RunCovered(r)
  BY DEF PeriodsInv, RunsInv
<1> QED
  BY <1>1 DEF RunCovered, InvoicesOf, Exists, Issued

LEMMA ResumeKeeps ==
  ASSUME PeriodsInv, NEW r \in Runs, ResumeInvoice(r)
  PROVE  Kept
<1>1. TypeInv /\ run[r].pc = "lookup" /\ UNCHANGED <<enrollments, invoices>>
  BY DEF PeriodsInv, ResumeInvoice, storeVars
<1>2. PICK i \in PeriodInvoices(run[r].enrollmentId,
                                 PeriodStart(run[r].enrollmentId, run[r].currentPeriodEnd)) :
            run' = [run EXCEPT ![r].invoice = i, ![r].pc = Resume(i)]
  BY DEF ResumeInvoice
<1> DEFINE rec == [run[r] EXCEPT !.invoice = i, !.pc = Resume(i)]
<1>3. run' = [run EXCEPT ![r] = rec]
  BY <1>2
<1>4. /\ rec.pc = Resume(i) /\ rec.invoice = i
      /\ rec.enrollmentId = run[r].enrollmentId
      /\ rec.currentPeriodEnd = run[r].currentPeriodEnd
  BY <1>1, RunFacts DEF Run
<1> HIDE DEF rec
<1>5. run'[r] = rec /\ \A s \in Runs \ {r} : run'[s] = run[s]
  BY <1>1, <1>3, RunFields
<1>6. RunInvoice(r)'
  BY <1>1, <1>2, <1>4, <1>5
  DEF RunInvoice, PeriodInvoices, Resume, CanClaim, Exists, Issued, PeriodStart
<1> QED
  BY <1>1, <1>4, <1>5, <1>6, SameCursor, RunKeeps

(* The other steps change where an execution is, and leave what it works on. *)
LEMMA MoveKeeps ==
  ASSUME PeriodsInv, NEW r \in Runs,
         NoInvoiceYet(r) \/ LoseCreateRace(r) \/ ReadDraft(r) \/ Allocate(r)
  PROVE  Kept
<1>1. TypeInv /\ RunInvoice(r) /\ run[r] \in Run /\ UNCHANGED <<enrollments, invoices>>
  BY RunFacts
  DEF PeriodsInv, RunsInv, NoInvoiceYet, LoseCreateRace, ReadDraft, Allocate, storeVars
<1>2. /\ run'[r].enrollmentId = run[r].enrollmentId
      /\ run'[r].currentPeriodEnd = run[r].currentPeriodEnd
      /\ run'[r].invoice = run[r].invoice
      /\ \A s \in Runs \ {r} : run'[s] = run[s]
      /\ \/ run'[r].pc = "create" /\ run[r].enrollmentId \in Recurring
         \/ run'[r].pc = "lookup"
         \/ run'[r].pc \in {"allocate", "claim"} /\ run[r].pc \in {"issue", "allocate"}
  <2>1. CASE NoInvoiceYet(r)
    <3> DEFINE rec == [run[r] EXCEPT !.pc = "create"]
    <3>1. run'[r] = rec /\ \A s \in Runs \ {r} : run'[s] = run[s]
      BY <1>1, <2>1 DEF NoInvoiceYet, TypeInv, IssuingTypeOK
    <3> QED
      BY <1>1, <2>1, <3>1 DEF NoInvoiceYet, PeriodDue, Run
  <2>2. CASE LoseCreateRace(r)
    <3> DEFINE rec == [run[r] EXCEPT !.pc = "lookup"]
    <3>1. run'[r] = rec /\ \A s \in Runs \ {r} : run'[s] = run[s]
      BY <1>1, <2>2 DEF LoseCreateRace, TypeInv, IssuingTypeOK
    <3> QED
      BY <1>1, <3>1 DEF Run
  <2>3. CASE ReadDraft(r)
    <3> DEFINE rec == [run[r] EXCEPT !.pc = "allocate", !.day = today]
    <3>1. run'[r] = rec /\ run[r].pc = "issue" /\ \A s \in Runs \ {r} : run'[s] = run[s]
      BY <1>1, <2>3 DEF ReadDraft, TypeInv, IssuingTypeOK
    <3> QED
      BY <1>1, <3>1 DEF Run
  <2>4. CASE Allocate(r)
    <3> DEFINE rec == [run[r] EXCEPT !.pc = "claim", !.number = NextNumber(YearOfIssue(r))]
    <3>1. run' = [run EXCEPT ![r] = rec] /\ run[r].pc = "allocate"
      BY <2>4 DEF Allocate
    <3>2. run'[r] = rec /\ \A s \in Runs \ {r} : run'[s] = run[s]
      BY <1>1, <3>1, RunFields
    <3> QED
      BY <1>1, <3>1, <3>2 DEF Run
  <2> QED
    BY <2>1, <2>2, <2>3, <2>4
<1>3. RunInvoice(r)'
  BY <1>1, <1>2 DEF RunInvoice, Exists, PeriodStart
<1> QED
  BY <1>1, <1>2, <1>3, SameCursor, RunKeeps

-----------------------------------------------------------------------------
(* The steps that start an execution.                                       *)

LEMMA SweepKeeps ==
  ASSUME PeriodsInv, NEW r \in Runs, NEW e \in Enrollments, SweepEnrollment(r, e)
  PROVE  Kept
<1> DEFINE rec == [IdleRun EXCEPT !.pc = "read", !.enrollmentId = e]
<1>1. /\ run' = [run EXCEPT ![r] = rec]
      /\ TypeInv /\ UNCHANGED <<enrollments, invoices>>
      /\ enrollments[e].status # "absent"
  BY DEF SweepEnrollment, storeVars, DueForBilling, PeriodsInv
<1>2. rec.pc = "read" /\ rec.enrollmentId = e /\ rec.currentPeriodEnd = None
  BY IdleRunFields DEF Run
<1> HIDE DEF rec
<1>3. run'[r] = rec /\ \A s \in Runs \ {r} : run'[s] = run[s]
  BY <1>1, RunFields
<1>4. (RunCovered(r) /\ RunInvoice(r))'
  BY <1>1, <1>2, <1>3 DEF RunCovered, RunInvoice
<1> QED
  BY <1>1, <1>3, <1>4, RunKeeps

LEMMA RequestKeeps ==
  ASSUME PeriodsInv, NEW r \in Runs, NEW i \in InvoiceIds, RequestIssue(r, i)
  PROVE  Kept
<1> DEFINE rec == [IdleRun EXCEPT !.pc = "issue", !.invoice = i]
<1>1. /\ run' = [run EXCEPT ![r] = rec]
      /\ TypeInv /\ UNCHANGED <<enrollments, invoices>> /\ Exists(i)
  BY DEF RequestIssue, storeVars, PeriodsInv
<1>2. rec.pc = "issue" /\ rec.enrollmentId = None /\ rec.invoice = i
  BY IdleRunFields DEF Run
<1> HIDE DEF rec
<1>3. run'[r] = rec /\ \A s \in Runs \ {r} : run'[s] = run[s]
  BY <1>1, RunFields
<1>4. (RunCovered(r) /\ RunInvoice(r))'
  BY <1>1, <1>2, <1>3 DEF RunCovered, RunInvoice, Exists
<1> QED
  BY <1>1, <1>3, <1>4, RunKeeps

LEMMA AdHocKeeps ==
  ASSUME PeriodsInv, NEW r \in Runs, CreateAdHocInvoice(r)
  PROVE  Kept
<1>1. PICK i \in InvoiceIds :
            /\ CreateInvoice(i, None, None, None)
            /\ run' = [run EXCEPT ![r] = [IdleRun EXCEPT !.pc = "issue", !.invoice = i]]
  BY DEF CreateAdHocInvoice
<1> DEFINE rec == [IdleRun EXCEPT !.pc = "issue", !.invoice = i]
           doc == [NoInvoice EXCEPT !.status = "draft", !.enrollmentId = None,
                                    !.periodStart = None, !.periodEnd = None]
<1>2. rec.pc = "issue" /\ rec.enrollmentId = None /\ rec.invoice = i
  BY IdleRunFields DEF Run
<1>3. doc.status = "draft" /\ doc.enrollmentId = None
  BY NoInvoiceFields DEF Invoice
<1>4. /\ run' = [run EXCEPT ![r] = rec] /\ invoices' = [invoices EXCEPT ![i] = doc]
      /\ TypeInv /\ CursorCovered /\ InvoicesInv /\ ~Exists(i) /\ UNCHANGED enrollments
  BY <1>1 DEF CreateInvoice, CreateAdHocInvoice, PeriodsInv
<1> HIDE DEF rec, doc
<1>5. /\ invoices'[i] = doc
      /\ \A j \in InvoiceIds \ {i} : invoices'[j] = invoices[j]
  BY <1>4 DEF TypeInv, IssuingTypeOK, StoreTypeOK
<1>6. Monotone
  BY <1>4, <1>5 DEF Monotone, Exists, Issued
<1>7. NoNewPeriod
  BY <1>3, <1>5 DEF NoNewPeriod, Exists
<1>8. run'[r] = rec /\ \A s \in Runs \ {r} : run'[s] = run[s]
  BY <1>4, RunFields
<1>9. (RunCovered(r) /\ RunInvoice(r))'
  BY <1>2, <1>3, <1>5, <1>8 DEF RunCovered, RunInvoice, Exists
<1>10. CursorCovered'
  BY <1>4, <1>6, CursorKept
<1> QED
  BY <1>4, <1>6, <1>7, <1>8, <1>9, <1>10, OthersKept, InvoicesKept DEF Kept

-----------------------------------------------------------------------------
(* The steps that issue an invoice and that move the cursor.                *)

LEMMA IssuedKeeps ==
  ASSUME PeriodsInv, NEW r \in Runs, AlreadyIssued(r) \/ Claim(r) \/ LoseClaim(r)
  PROVE  Kept
<1>1. /\ TypeInv /\ InvoicesInv /\ CursorCovered /\ RunInvoice(r)
      /\ run[r].pc \in {"issue", "claim"}
      /\ run' = [run EXCEPT ![r] = AfterIssue(run[r])]
      /\ UNCHANGED enrollments
  BY DEF PeriodsInv, RunsInv, AlreadyIssued, Claim, LoseClaim, storeVars
<1>2. PICK i \in InvoiceIds : run[r].invoice = i /\ Exists(i)
  BY <1>1 DEF RunInvoice
<1>3. Monotone /\ NoNewPeriod /\ Issued(i)'
  <2>1. CASE Claim(r)
    <3> DEFINE doc == [invoices[i] EXCEPT !.status = "open", !.issuedAt = run[r].day,
                                          !.dueAt = run[r].day + DueDays,
                                          !.number = run[r].number]
    <3>1. invoices[i] \in Invoice
      BY <1>1 DEF TypeInv, IssuingTypeOK, StoreTypeOK
    <3>2. /\ doc.status = "open"
          /\ doc.enrollmentId = invoices[i].enrollmentId
          /\ doc.periodStart = invoices[i].periodStart
          /\ doc.periodEnd = invoices[i].periodEnd
      BY <3>1 DEF Invoice
    <3>3. invoices' = [invoices EXCEPT ![i] = doc]
      BY <1>2, <2>1 DEF Claim, ClaimForIssueWithNumber
    <3> HIDE DEF doc
    <3>4. invoices'[i] = doc /\ \A j \in InvoiceIds \ {i} : invoices'[j] = invoices[j]
      BY <1>1, <3>3 DEF TypeInv, IssuingTypeOK, StoreTypeOK
    <3> QED
      BY <1>1, <1>2, <3>2, <3>4 DEF Monotone, NoNewPeriod, Exists, Issued
  <2>2. CASE AlreadyIssued(r) \/ LoseClaim(r)
    <3>1. UNCHANGED <<enrollments, invoices>> /\ invoices[i].status # "draft"
      BY <1>2, <2>2 DEF AlreadyIssued, LoseClaim, CanClaim, storeVars
    <3> QED
      BY <1>2, <3>1, StoreUnchanged DEF Issued, Exists
  <2> QED
    BY <2>1, <2>2
<1>4. /\ (RunCovered(r) /\ RunInvoice(r))'
      /\ \A s \in Runs \ {r} : run'[s] = run[s]
  BY <1>1, <1>2, <1>3, IssuedHolds
<1>5. CursorCovered'
  BY <1>1, <1>3, CursorKept
<1> QED
  BY <1>1, <1>3, <1>4, <1>5, OthersKept, InvoicesKept DEF Kept

LEMMA AdvanceKeeps ==
  ASSUME PeriodsInv, NEW r \in Runs, AdvanceCursor(r)
  PROVE  Kept
<1>1. /\ TypeInv /\ InvoicesInv /\ CursorCovered /\ RunInvoice(r)
      /\ run[r].pc = "advance"
      /\ run' = [run EXCEPT ![r] = IdleRun]
      /\ UNCHANGED invoices
  BY DEF PeriodsInv, RunsInv, AdvanceCursor
<1>2. PICK e \in Enrollments, c \in Nat \cup {None} :
            run[r].enrollmentId = e /\ run[r].currentPeriodEnd = c
  BY <1>1, RunFacts DEF HasFields, Run
<1> DEFINE end == PeriodEnd(e, PeriodStart(e, c))
<1>3. PICK i \in InvoicesOf(e) : Issued(i) /\ invoices[i].periodStart = PeriodStart(e, c)
  BY <1>1, <1>2, NoneTypes DEF RunInvoice, InvoicesOf
<1>4. invoices[i].periodEnd = end
  BY <1>1, <1>3 DEF InvoicesInv, PlanPeriods
<1>5. enrollments' = [enrollments EXCEPT ![e].currentPeriodEnd = end]
  BY <1>2 DEF AdvanceCursor, SetCurrentPeriod
<1> HIDE DEF end
<1>6. /\ enrollments'[e].currentPeriodEnd = end
      /\ enrollments'[e].status = enrollments[e].status
      /\ enrollments'[e].startDate = enrollments[e].startDate
      /\ \A x \in Enrollments \ {e} : enrollments'[x] = enrollments[x]
  BY <1>1, <1>5 DEF TypeInv, IssuingTypeOK, StoreTypeOK, Enrollment
<1>7. Monotone /\ NoNewPeriod
  BY <1>1, <1>6 DEF Monotone, NoNewPeriod, Exists, Issued
<1>8. CursorCovered'
  BY <1>1, <1>3, <1>4, <1>6 DEF CursorCovered, InvoicesOf, Exists, Issued
<1>9. run'[r] = IdleRun /\ \A s \in Runs \ {r} : run'[s] = run[s]
  BY <1>1, RunFields
<1>10. (RunCovered(r) /\ RunInvoice(r))'
  BY <1>9, IdleRunFields, IdleHolds
<1> QED
  BY <1>1, <1>7, <1>8, <1>9, <1>10, OthersKept, InvoicesKept DEF Kept

-----------------------------------------------------------------------------
LEMMA PeriodsInvStep == PeriodsInv /\ [IssuingAction]_issuingVars => PeriodsInv'
<1> SUFFICES ASSUME PeriodsInv, [IssuingAction]_issuingVars PROVE PeriodsInv'
  OBVIOUS
<1>t. TypeInv'
  BY TypeInvStep DEF PeriodsInv
<1> SUFFICES Kept
  BY <1>t DEF PeriodsInv, Kept
<1>1. ASSUME NEW e \in Enrollments, Enroll(e), UNCHANGED run PROVE Kept
  <2>1. PICK start \in Days :
            enrollments' = [enrollments EXCEPT ![e] =
                               [NoEnrollment EXCEPT !.status = "active",
                                                    !.startDate = start]]
    BY <1>1 DEF Enroll
  <2> DEFINE doc == [NoEnrollment EXCEPT !.status = "active", !.startDate = start]
  <2>2. doc.currentPeriodEnd = None
    BY NoEnrollmentFields DEF Enrollment
  <2>3. enrollments' = [enrollments EXCEPT ![e] = doc]
    BY <2>1
  <2> HIDE DEF doc
  <2>4. /\ enrollments'[e] = doc
        /\ \A x \in Enrollments \ {e} : enrollments'[x] = enrollments[x]
        /\ enrollments[e].status = "absent" /\ UNCHANGED invoices
    BY <1>1, <2>3 DEF Enroll, PeriodsInv, TypeInv, IssuingTypeOK, StoreTypeOK
  <2>5. Monotone /\ NoNewPeriod
    BY <2>4 DEF Monotone, NoNewPeriod, Exists, Issued
  <2> QED
    BY <1>1, <2>2, <2>4, <2>5, StoreKeeps
<1>2. ASSUME NEW e \in Enrollments, Freeze(e) \/ Cancel(e), UNCHANGED run PROVE Kept
  <2>1. PICK status \in {"frozen", "cancelled"} : SetEnrollmentStatus(e, status)
    BY <1>2 DEF Freeze, Cancel
  <2>2. /\ enrollments'[e].status = status
        /\ enrollments'[e].startDate = enrollments[e].startDate
        /\ enrollments'[e].currentPeriodEnd = enrollments[e].currentPeriodEnd
        /\ \A x \in Enrollments \ {e} : enrollments'[x] = enrollments[x]
    BY <2>1 DEF SetEnrollmentStatus, PeriodsInv, TypeInv, IssuingTypeOK, StoreTypeOK, Enrollment
  <2>3. UNCHANGED invoices
    BY <1>2 DEF Freeze, Cancel
  <2>4. Monotone /\ NoNewPeriod
    BY <2>2, <2>3 DEF Monotone, NoNewPeriod, Exists, Issued
  <2> QED
    BY <1>2, <2>2, <2>4, StoreKeeps
<1>3. ASSUME NextDay \/ UNCHANGED storeVars, UNCHANGED run PROVE Kept
  <2>1. UNCHANGED <<enrollments, invoices>>
    BY <1>3 DEF NextDay, storeVars
  <2> QED
    BY <1>3, <2>1, StoreUnchanged, StoreKeeps
<1>4. ASSUME NEW r \in Workers, NEW e \in Enrollments, SweepEnrollment(r, e) PROVE Kept
  BY <1>4, SweepKeeps DEF Runs
<1>5. ASSUME NEW r \in Requests, NEW i \in InvoiceIds, RequestIssue(r, i) PROVE Kept
  BY <1>5, RequestKeeps DEF Runs
<1>6. ASSUME NEW r \in Requests, CreateAdHocInvoice(r) PROVE Kept
  BY <1>6, AdHocKeeps DEF Runs
<1>7. ASSUME NEW r \in Runs, RunStep(r) PROVE Kept
  <2>1. CASE ReadEnrollment(r)
    BY <2>1, ReadKeeps
  <2>2. CASE NotActive(r) \/ NothingDue(r)
    BY <2>2, ToIdleKeeps DEF NotActive, NothingDue, storeVars
  <2>3. CASE ResumeInvoice(r)
    BY <2>3, ResumeKeeps
  <2>4. CASE NoInvoiceYet(r) \/ LoseCreateRace(r) \/ ReadDraft(r) \/ Allocate(r)
    BY <2>4, MoveKeeps
  <2>5. CASE CreatePeriodInvoice(r)
    BY <2>5, CreateKeeps
  <2>6. CASE AdvanceCursor(r)
    BY <2>6, AdvanceKeeps
  <2>7. CASE AlreadyIssued(r) \/ Claim(r) \/ LoseClaim(r)
    BY <2>7, IssuedKeeps
  <2> QED
    BY <1>7, <2>1, <2>2, <2>3, <2>4, <2>5, <2>6, <2>7 DEF RunStep
<1>8. ASSUME NEW r \in Runs, CrashRun(r) PROVE Kept
  BY <1>8, ToIdleKeeps DEF CrashRun, CrashStep
<1> QED
  BY <1>1, <1>2, <1>3, <1>4, <1>5, <1>6, <1>7, <1>8
  DEF IssuingAction, IssuingNext, StoreNext, issuingVars

-----------------------------------------------------------------------------
LEMMA PeriodsInvariant == IssuingSpec => []PeriodsInv
  BY PeriodsInvInit, PeriodsInvStep, PTL DEF IssuingSpec, IssuingAction

(* No two invoices of an enrolment bill the same day, however many workers  *)
(* repeat, race or abandon its billing run.                                 *)
THEOREM NeverBilledTwice == IssuingSpec => []NoDoubleBilling
<1>1. PeriodsInv => NoDoubleBilling
  BY DEF PeriodsInv, InvoicesInv
<1> QED
  BY PeriodsInvariant, <1>1, PTL

(* Every period billed is the first of its enrolment or follows one that    *)
(* has been issued.                                                         *)
THEOREM NeverSkipped == IssuingSpec => []NoSkippedPeriod
<1>1. PeriodsInv => NoSkippedPeriod
  BY DEF PeriodsInv, InvoicesInv
<1> QED
  BY PeriodsInvariant, <1>1, PTL

(* Wherever a slow run puts the cursor, the period that ends there has been *)
(* issued.                                                                  *)
THEOREM CursorBehindInvoices == IssuingSpec => []CursorCovered
<1>1. PeriodsInv => CursorCovered
  BY DEF PeriodsInv
<1> QED
  BY PeriodsInvariant, <1>1, PTL

-----------------------------------------------------------------------------
(* Nothing is billed early.  The clock is read when the period is computed, *)
(* and the invoice created steps later: between the two the period stays    *)
(* due, since time only goes on and the start of an enrolment is fixed.     *)

DueWhenCreated ==
    \A r \in Runs : run[r].pc = "create" =>
        PeriodStart(run[r].enrollmentId, run[r].currentPeriodEnd) <= today

EarlyInv == PeriodsInv /\ NeverEarly /\ DueWhenCreated

EarlyKept == NeverEarly' /\ DueWhenCreated'

LEMMA EarlyInvInit == IssuingInit => EarlyInv
<1>1. ASSUME IssuingInit PROVE NeverEarly /\ DueWhenCreated
  BY <1>1, NoInvoiceFields, IdleRunFields
  DEF IssuingInit, StoreInit, NeverEarly, DueWhenCreated, InvoicesOf, Exists
<1> QED
  BY <1>1, PeriodsInvInit DEF EarlyInv

(* Time goes on, and every date that was set stays as it is.                *)
SameStarts ==
    /\ today <= today'
    /\ \A i \in InvoiceIds :
          invoices'[i].status # "absent" /\ invoices'[i].enrollmentId # None =>
              /\ Exists(i)
              /\ invoices'[i].enrollmentId = invoices[i].enrollmentId
              /\ invoices'[i].periodStart = invoices[i].periodStart
    /\ \A e \in Enrollments :
          enrollments[e].status # "absent" =>
              enrollments'[e].startDate = enrollments[e].startDate

LEMMA NowTypes ==
  ASSUME PeriodsInv
  PROVE  /\ TypeInv /\ today \in Nat /\ today <= today
         /\ \A e \in Enrollments : enrollments[e].startDate \in Nat
         /\ \A r \in Runs : run[r].pc \in {"lookup", "create"} =>
               /\ run[r].enrollmentId \in Enrollments
               /\ run[r].currentPeriodEnd \in Nat \cup {None}
               /\ enrollments[run[r].enrollmentId].status # "absent"
<1>1. TypeInv
  BY DEF PeriodsInv
<1>2. today \in Nat
  BY <1>1, ConstantsAssumption DEF TypeInv, IssuingTypeOK, StoreTypeOK, Days
<1>3. \A e \in Enrollments : enrollments[e].startDate \in Nat
  BY <1>1 DEF TypeInv, IssuingTypeOK, StoreTypeOK, Enrollment
<1>4. ASSUME NEW r \in Runs, run[r].pc \in {"lookup", "create"}
      PROVE  /\ run[r].enrollmentId \in Enrollments
             /\ run[r].currentPeriodEnd \in Nat \cup {None}
             /\ enrollments[run[r].enrollmentId].status # "absent"
  <2>1. /\ run[r].enrollmentId \in Enrollments
        /\ run[r].currentPeriodEnd \in Nat \cup {None}
    BY <1>1, <1>4, RunFacts DEF HasFields, Run
  <2> QED
    BY <1>4, <2>1, NoneTypes DEF PeriodsInv, RunsInv, RunCovered
<1> QED
  BY <1>1, <1>2, <1>3, <1>4

(* An execution is at the creation of an invoice only if it was there, or   *)
(* has just computed that the period is due.                                *)
DueNow(r) ==
    run'[r].pc = "create" =>
        /\ run[r].pc \in {"lookup", "create"}
        /\ run'[r].enrollmentId = run[r].enrollmentId
        /\ run'[r].currentPeriodEnd = run[r].currentPeriodEnd
        /\ \/ run[r].pc = "create"
           \/ PeriodStart(run[r].enrollmentId, run[r].currentPeriodEnd) <= today

LEMMA StillDue ==
  ASSUME EarlyInv, PeriodsInv', SameStarts, NEW r \in Runs, DueNow(r), run'[r].pc = "create"
  PROVE  (PeriodStart(run[r].enrollmentId, run[r].currentPeriodEnd) <= today)'
<1>1. today \in Nat /\ today' \in Nat /\ today <= today'
  BY ConstantsAssumption
  DEF EarlyInv, PeriodsInv, TypeInv, IssuingTypeOK, StoreTypeOK, Days, SameStarts
<1>2. PICK e \in Enrollments, c \in Nat \cup {None} :
            /\ run[r].enrollmentId = e /\ run[r].currentPeriodEnd = c
            /\ run'[r].enrollmentId = e /\ run'[r].currentPeriodEnd = c
            /\ enrollments[e].status # "absent" /\ enrollments[e].startDate \in Nat
  BY NowTypes DEF EarlyInv, DueNow
<1>3. PeriodStart(e, c) <= today
  BY <1>2 DEF EarlyInv, DueWhenCreated, DueNow
<1>4. enrollments'[e].startDate = enrollments[e].startDate
  BY <1>2 DEF SameStarts
<1>5. PeriodStart(e, c) \in Nat
  BY <1>2 DEF PeriodStart
<1>6. PeriodStart(e, c)' = PeriodStart(e, c)
  BY <1>4 DEF PeriodStart
<1> QED
  BY <1>1, <1>2, <1>3, <1>5, <1>6

(* A step that creates no subscription invoice.                             *)
LEMMA StillOnTime ==
  ASSUME EarlyInv, PeriodsInv', SameStarts, \A r \in Runs : DueNow(r)
  PROVE  EarlyKept
<1>1. today \in Nat /\ today' \in Nat
  BY ConstantsAssumption DEF EarlyInv, PeriodsInv, TypeInv, IssuingTypeOK, StoreTypeOK, Days
<1>2. ASSUME NEW e \in Enrollments, NEW i \in InvoicesOf(e)' PROVE invoices'[i].periodStart <= today'
  <2>1. i \in InvoicesOf(e) /\ invoices'[i].periodStart = invoices[i].periodStart
    BY NoneTypes DEF SameStarts, InvoicesOf, Exists
  <2>2. invoices[i].periodStart <= today /\ invoices[i].periodStart \in Nat
    BY <2>1 DEF EarlyInv, NeverEarly, PeriodsInv, InvoicesInv, PlanPeriods
  <2> QED
    BY <1>1, <2>1, <2>2 DEF SameStarts
<1>3. DueWhenCreated'
  BY StillDue DEF DueWhenCreated
<1> QED
  BY <1>2, <1>3 DEF EarlyKept, NeverEarly

(* The step that creates one.                                               *)
LEMMA CreatedOnTime ==
  ASSUME EarlyInv, PeriodsInv', NEW r \in Runs, CreatePeriodInvoice(r)
  PROVE  EarlyKept
<1>1. /\ TypeInv /\ today \in Nat /\ run[r].pc = "create"
      /\ UNCHANGED <<today, enrollments>>
  BY NowTypes DEF EarlyInv, CreatePeriodInvoice
<1>2. PICK e \in Enrollments, c \in Nat \cup {None} :
            run[r].enrollmentId = e /\ run[r].currentPeriodEnd = c
  BY <1>1, NowTypes DEF EarlyInv
<1>3. PICK start : start = PeriodStart(e, c) /\ start <= today
  BY <1>1, <1>2 DEF EarlyInv, DueWhenCreated
<1>4. PICK i \in InvoiceIds :
            /\ CreateInvoice(i, e, start, PeriodEnd(e, start))
            /\ run' = [run EXCEPT ![r].invoice = i, ![r].pc = "issue"]
  BY <1>2, <1>3 DEF CreatePeriodInvoice
<1>5. PICK doc : doc = [NoInvoice EXCEPT !.status = "draft", !.enrollmentId = e,
                                         !.periodStart = start,
                                         !.periodEnd = PeriodEnd(e, start)]
  OBVIOUS
<1>6. doc.periodStart = start /\ invoices' = [invoices EXCEPT ![i] = doc]
  BY <1>4, <1>5 DEF CreateInvoice, NoInvoice
<1>7. invoices'[i] = doc /\ \A j \in InvoiceIds \ {i} : invoices'[j] = invoices[j]
  BY <1>1, <1>6 DEF TypeInv, IssuingTypeOK, StoreTypeOK
<1>8. NeverEarly'
  BY <1>1, <1>3, <1>6, <1>7 DEF EarlyInv, NeverEarly, InvoicesOf, Exists
<1>9. run'[r].pc # "create" /\ \A s \in Runs \ {r} : run'[s] = run[s]
  <2>1. PICK rec : rec = [run[r] EXCEPT !.invoice = i, !.pc = "issue"]
    OBVIOUS
  <2>2. run' = [run EXCEPT ![r] = rec] /\ rec.pc = "issue"
    BY <1>1, <1>4, <2>1, RunFacts DEF Run
  <2> QED
    BY <1>1, <2>2, RunFields
<1>10. DueWhenCreated'
  BY <1>1, <1>9 DEF EarlyInv, DueWhenCreated, PeriodStart
<1> QED
  BY <1>8, <1>10 DEF EarlyKept

(* Who is not at the creation of an invoice after a step.                   *)
LEMMA OnlyMover ==
  ASSUME TypeInv, NEW r \in Runs, NEW rec, run' = [run EXCEPT ![r] = rec], DueNow(r)
  PROVE  \A s \in Runs : DueNow(s)
  BY RunFields DEF DueNow

LEMMA OtherStores ==
  ASSUME PeriodsInv, UNCHANGED <<today, enrollments, invoices>>
  PROVE  SameStarts
  BY NowTypes DEF SameStarts, Exists

LEMMA EarlyInvStep == EarlyInv /\ [IssuingAction]_issuingVars => EarlyInv'
<1> SUFFICES ASSUME EarlyInv, [IssuingAction]_issuingVars PROVE EarlyInv'
  OBVIOUS
<1>t. TypeInv /\ PeriodsInv /\ PeriodsInv' /\ today \in Nat /\ today <= today
  BY PeriodsInvStep, NowTypes DEF EarlyInv
<1> SUFFICES EarlyKept
  BY <1>t DEF EarlyInv, EarlyKept
<1>1. ASSUME UNCHANGED run, SameStarts PROVE EarlyKept
  <2>1. \A r \in Runs : DueNow(r)
    BY <1>1 DEF DueNow
  <2> QED
    BY <1>t, <1>1, <2>1, StillOnTime
<1>2. ASSUME NEW r \in Runs, NEW rec, run' = [run EXCEPT ![r] = rec], rec.pc # "create", SameStarts
      PROVE  EarlyKept
  <2>1. DueNow(r)
    BY <1>t, <1>2, RunFields DEF DueNow
  <2> QED
    BY <1>t, <1>2, <2>1, OnlyMover, StillOnTime
<1>3. ASSUME NEW e \in Enrollments, Enroll(e), UNCHANGED run PROVE EarlyKept
  <2>1. PICK doc : enrollments' = [enrollments EXCEPT ![e] = doc]
    BY <1>3 DEF Enroll
  <2>2. SameStarts
    BY <1>t, <1>3, <2>1
    DEF Enroll, SameStarts, Exists, TypeInv, IssuingTypeOK, StoreTypeOK
  <2> QED
    BY <1>1, <1>3, <2>2
<1>4. ASSUME NEW e \in Enrollments, Freeze(e) \/ Cancel(e), UNCHANGED run PROVE EarlyKept
  <2>1. PICK status : SetEnrollmentStatus(e, status)
    BY <1>4 DEF Freeze, Cancel
  <2>2. /\ \A x \in Enrollments : enrollments'[x].startDate = enrollments[x].startDate
        /\ UNCHANGED <<today, invoices>>
    BY <1>t, <1>4, <2>1
    DEF Freeze, Cancel, SetEnrollmentStatus, TypeInv, IssuingTypeOK, StoreTypeOK, Enrollment
  <2>3. SameStarts
    BY <1>t, <2>2 DEF SameStarts, Exists
  <2> QED
    BY <1>1, <1>4, <2>3
<1>5. ASSUME NextDay \/ UNCHANGED storeVars, UNCHANGED run PROVE EarlyKept
  <2>1. SameStarts
    BY <1>t, <1>5 DEF NextDay, storeVars, SameStarts, Exists
  <2> QED
    BY <1>1, <1>5, <2>1
<1>6. ASSUME NEW r \in Runs, CrashRun(r) PROVE EarlyKept
  <2>1. SameStarts /\ run' = [run EXCEPT ![r] = IdleRun] /\ IdleRun.pc # "create"
    BY <1>t, <1>6, OtherStores, IdleRunFields DEF CrashRun, CrashStep
  <2> QED
    BY <1>2, <2>1
<1>7. ASSUME NEW r \in Runs, NEW e, SweepEnrollment(r, e) PROVE EarlyKept
  <2>1. PICK rec : rec = [IdleRun EXCEPT !.pc = "read", !.enrollmentId = e]
    OBVIOUS
  <2>2. SameStarts /\ run' = [run EXCEPT ![r] = rec] /\ rec.pc = "read"
    BY <1>t, <1>7, <2>1, OtherStores DEF SweepEnrollment, storeVars, IdleRun
  <2> QED
    BY <1>2, <2>2
<1>8. ASSUME NEW r \in Runs, NEW i, RequestIssue(r, i) PROVE EarlyKept
  <2>1. PICK rec : rec = [IdleRun EXCEPT !.pc = "issue", !.invoice = i]
    OBVIOUS
  <2>2. SameStarts /\ run' = [run EXCEPT ![r] = rec] /\ rec.pc = "issue"
    BY <1>t, <1>8, <2>1, OtherStores DEF RequestIssue, storeVars, IdleRun
  <2> QED
    BY <1>2, <2>2
<1>9. ASSUME NEW r \in Requests, CreateAdHocInvoice(r) PROVE EarlyKept
  <2>1. PICK i \in InvoiceIds :
            /\ CreateInvoice(i, None, None, None)
            /\ run' = [run EXCEPT ![r] = [IdleRun EXCEPT !.pc = "issue", !.invoice = i]]
            /\ UNCHANGED <<today, enrollments>>
    BY <1>9 DEF CreateAdHocInvoice
  <2>2. PICK doc : doc = [NoInvoice EXCEPT !.status = "draft", !.enrollmentId = None,
                                           !.periodStart = None, !.periodEnd = None]
    OBVIOUS
  <2>3. doc.enrollmentId = None /\ invoices' = [invoices EXCEPT ![i] = doc]
    BY <2>1, <2>2 DEF CreateInvoice, NoInvoice
  <2>4. SameStarts
    BY <1>t, <2>1, <2>3 DEF SameStarts, Exists, TypeInv, IssuingTypeOK, StoreTypeOK
  <2>5. PICK rec : rec = [IdleRun EXCEPT !.pc = "issue", !.invoice = i]
    OBVIOUS
  <2>6. run' = [run EXCEPT ![r] = rec] /\ rec.pc = "issue" /\ r \in Runs
    BY <2>1, <2>5 DEF IdleRun, Runs
  <2> QED
    BY <1>2, <2>4, <2>6
<1>10. ASSUME NEW r \in Runs, RunStep(r) PROVE EarlyKept
  <2>1. run[r] \in Run
    BY <1>t, RunFacts
  <2>2. CASE NotActive(r) \/ NothingDue(r)
    <3>1. SameStarts /\ run' = [run EXCEPT ![r] = IdleRun] /\ IdleRun.pc # "create"
      BY <1>t, <2>2, OtherStores, IdleRunFields DEF NotActive, NothingDue, storeVars
    <3> QED
      BY <1>2, <3>1
  <2>3. CASE ReadEnrollment(r)
    <3>1. PICK c : c = enrollments[run[r].enrollmentId].currentPeriodEnd
      OBVIOUS
    <3>2. PICK rec : rec = [run[r] EXCEPT !.pc = "lookup", !.currentPeriodEnd = c]
      OBVIOUS
    <3>3. SameStarts /\ run' = [run EXCEPT ![r] = rec] /\ rec.pc = "lookup"
      BY <1>t, <2>1, <2>3, <3>1, <3>2, OtherStores DEF ReadEnrollment, storeVars, Run
    <3> QED
      BY <1>2, <3>3
  <2>4. CASE ResumeInvoice(r)
    <3>1. PICK i : run' = [run EXCEPT ![r].invoice = i, ![r].pc = Resume(i)]
      BY <2>4 DEF ResumeInvoice
    <3>2. PICK pc : pc = Resume(i) /\ pc # "create"
      BY DEF Resume
    <3>3. PICK rec : rec = [run[r] EXCEPT !.invoice = i, !.pc = pc]
      OBVIOUS
    <3>4. SameStarts /\ run' = [run EXCEPT ![r] = rec] /\ rec.pc = pc
      BY <1>t, <2>1, <2>4, <3>1, <3>2, <3>3, OtherStores DEF ResumeInvoice, storeVars, Run
    <3> QED
      BY <1>2, <3>2, <3>4
  <2>5. CASE NoInvoiceYet(r)
    <3>1. PICK rec : rec = [run[r] EXCEPT !.pc = "create"]
      OBVIOUS
    <3>2. /\ SameStarts /\ run' = [run EXCEPT ![r] = rec]
          /\ run[r].pc = "lookup"
          /\ PeriodDue(run[r].enrollmentId, run[r].currentPeriodEnd, today)
          /\ rec.enrollmentId = run[r].enrollmentId
          /\ rec.currentPeriodEnd = run[r].currentPeriodEnd
      BY <1>t, <2>1, <2>5, <3>1, OtherStores DEF NoInvoiceYet, storeVars, Run
    <3>3. DueNow(r)
      BY <1>t, <3>2, RunFields DEF DueNow, PeriodDue
    <3> QED
      BY <1>t, <3>2, <3>3, OnlyMover, StillOnTime
  <2>6. CASE LoseCreateRace(r) \/ ReadDraft(r) \/ Allocate(r)
    <3>1. SameStarts
      BY <1>t, <2>6, OtherStores DEF LoseCreateRace, ReadDraft, Allocate, storeVars
    <3>2. CASE LoseCreateRace(r)
      <4>1. PICK rec : rec = [run[r] EXCEPT !.pc = "lookup"]
        OBVIOUS
      <4>2. rec.pc = "lookup" /\ run' = [run EXCEPT ![r] = rec]
        BY <2>1, <3>2, <4>1 DEF LoseCreateRace, Run
      <4> QED
        BY <1>2, <3>1, <4>2
    <3>3. CASE ReadDraft(r)
      <4>1. PICK rec : rec = [run[r] EXCEPT !.pc = "allocate", !.day = today]
        OBVIOUS
      <4>2. rec.pc = "allocate"
        BY <2>1, <4>1 DEF Run
      <4>3. run' = [run EXCEPT ![r] = rec]
        BY <3>3, <4>1 DEF ReadDraft
      <4> QED
        BY <1>2, <3>1, <4>2, <4>3
    <3>4. CASE Allocate(r)
      <4>1. PICK num : num = NextNumber(YearOfIssue(r))
        OBVIOUS
      <4>2. PICK rec : rec = [run[r] EXCEPT !.pc = "claim", !.number = num]
        OBVIOUS
      <4>3. rec.pc = "claim" /\ run' = [run EXCEPT ![r] = rec]
        BY <2>1, <3>4, <4>1, <4>2 DEF Allocate, Run
      <4> QED
        BY <1>2, <3>1, <4>3
    <3> QED
      BY <2>6, <3>2, <3>3, <3>4
  <2>7. CASE CreatePeriodInvoice(r)
    BY <1>t, <2>7, CreatedOnTime
  <2>8. CASE AdvanceCursor(r)
    <3>1. PICK e, end : enrollments' = [enrollments EXCEPT ![e].currentPeriodEnd = end]
      BY <2>8 DEF AdvanceCursor, SetCurrentPeriod
    <3>2. /\ \A x \in Enrollments : enrollments'[x].startDate = enrollments[x].startDate
          /\ UNCHANGED <<today, invoices>>
          /\ run' = [run EXCEPT ![r] = IdleRun]
      BY <1>t, <2>8, <3>1 DEF AdvanceCursor, TypeInv, IssuingTypeOK, StoreTypeOK, Enrollment
    <3>3. SameStarts /\ IdleRun.pc # "create"
      BY <1>t, <3>2, IdleRunFields DEF SameStarts, Exists
    <3> QED
      BY <1>2, <3>2, <3>3
  <2>9. CASE AlreadyIssued(r) \/ Claim(r) \/ LoseClaim(r)
    <3>a. PICK rec : rec = AfterIssue(run[r])
      OBVIOUS
    <3>1. rec = AfterIssue(run[r]) /\ rec.pc # "create"
      BY <2>1, <3>a, IdleRunFields DEF AfterIssue, Run
    <3>2. run' = [run EXCEPT ![r] = rec] /\ UNCHANGED <<today, enrollments>>
      BY <2>9, <3>1 DEF AlreadyIssued, Claim, LoseClaim, storeVars
    <3>3. \A i \in InvoiceIds :
              /\ invoices'[i].enrollmentId = invoices[i].enrollmentId
              /\ invoices'[i].periodStart = invoices[i].periodStart
              /\ invoices'[i].status # "absent" => invoices[i].status # "absent"
      <4>1. CASE Claim(r)
        <5>1. PICK i, day, num, due :
                  i = run[r].invoice /\ day = run[r].day /\ num = run[r].number
                  /\ due = run[r].day + DueDays
          OBVIOUS
        <5>2. PICK doc : doc = [invoices[i] EXCEPT !.status = "open", !.issuedAt = day,
                                                   !.dueAt = due, !.number = num]
          OBVIOUS
        <5>3. invoices' = [invoices EXCEPT ![i] = doc] /\ invoices[i].status = "draft"
          BY <4>1, <5>1, <5>2 DEF Claim, ClaimForIssueWithNumber, CanClaim
        <5>4. i \in InvoiceIds => /\ doc.enrollmentId = invoices[i].enrollmentId
                                  /\ doc.periodStart = invoices[i].periodStart
          BY <1>t, <5>2 DEF TypeInv, IssuingTypeOK, StoreTypeOK, Invoice
        <5> QED
          BY <1>t, <5>3, <5>4 DEF TypeInv, IssuingTypeOK, StoreTypeOK
      <4>2. CASE AlreadyIssued(r) \/ LoseClaim(r)
        BY <4>2 DEF AlreadyIssued, LoseClaim, storeVars
      <4> QED
        BY <2>9, <4>1, <4>2
    <3>4. SameStarts
      BY <1>t, <3>2, <3>3 DEF SameStarts, Exists
    <3> QED
      BY <1>2, <3>1, <3>2, <3>4
  <2> QED
    BY <1>10, <2>2, <2>3, <2>4, <2>5, <2>6, <2>7, <2>8, <2>9 DEF RunStep
<1> QED
  BY <1>3, <1>4, <1>5, <1>6, <1>7, <1>8, <1>9, <1>10
  DEF IssuingAction, IssuingNext, StoreNext, issuingVars, Runs

(* No period is invoiced before the day it starts, whenever the executions  *)
(* that compute and create it are interrupted or overtaken.                 *)
THEOREM NeverBilledEarly == IssuingSpec => []NeverEarly
<1>1. IssuingSpec => []EarlyInv
  BY EarlyInvInit, EarlyInvStep, PTL DEF IssuingSpec, IssuingAction
<1>2. EarlyInv => NeverEarly
  BY DEF EarlyInv
<1> QED
  BY <1>1, <1>2, PTL

-----------------------------------------------------------------------------
(***************************************************************************)
(* The dates of periods: proof of AnniversaryKept.  Months are counted; a  *)
(* step keeps the count and only ever lowers the day, to the end of a      *)
(* month at most (CalendarInv).                                            *)
(***************************************************************************)
(* Months and their lengths.                                                *)
LEMMA DaysInMonth ==
  ASSUME NEW y \in Nat, NEW m \in 1 .. 12
  PROVE  DaysIn(y, m) \in 28 .. 31
  BY DEF DaysIn

LEMMA CountedMonth ==
  ASSUME NEW n \in Nat
  PROVE  /\ n \div 12 \in Nat /\ (n % 12) + 1 \in 1 .. 12
         /\ 12 * (n \div 12) + (n % 12) = n
         /\ LastDay(n) \in 28 .. 31
<1>1. /\ n \div 12 \in Nat /\ (n % 12) + 1 \in 1 .. 12
      /\ 12 * (n \div 12) + (n % 12) = n
  OBVIOUS
<1> QED
  BY <1>1, DaysInMonth DEF LastDay

LEMMA MonthBack ==
  ASSUME NEW d \in Date
  PROVE  /\ MonthOf(d) \in Nat
         /\ MonthOf(d) \div 12 = d.year /\ (MonthOf(d) % 12) + 1 = d.month
         /\ LastDay(MonthOf(d)) = DaysIn(d.year, d.month)
         /\ d.day \in 1 .. 31
<1>1. d.year \in Nat /\ d.month \in 1 .. 12 /\ d.day \in 1 .. 31
  BY DEF Date
<1>2. /\ MonthOf(d) \in Nat
      /\ MonthOf(d) \div 12 = d.year /\ (MonthOf(d) % 12) + 1 = d.month
  BY <1>1 DEF MonthOf
<1> QED
  BY <1>1, <1>2 DEF LastDay

(* What adding months to a date gives.                                      *)
LEMMA MonthsAdded ==
  ASSUME NEW d \in Date, NEW n \in Nat
  PROVE  /\ Valid(AddMonths(d, n))
         /\ MonthOf(AddMonths(d, n)) = MonthOf(d) + n
         /\ AddMonths(d, n).day = IF d.day <= LastDay(MonthOf(d) + n)
                                  THEN d.day ELSE LastDay(MonthOf(d) + n)
         /\ LastDay(MonthOf(d) + n) \in 28 .. 31
<1> DEFINE count == MonthOf(d) + n
           day == IF d.day <= LastDay(count) THEN d.day ELSE LastDay(count)
<1>1. count \in Nat /\ d.day \in 1 .. 31
  BY MonthBack
<1>2. LastDay(count) \in 28 .. 31
  BY <1>1, CountedMonth
<1>3. day \in 1 .. 31 /\ day <= LastDay(count)
  BY <1>1, <1>2
<1>4. AddMonths(d, n) = [year |-> count \div 12, month |-> (count % 12) + 1, day |-> day]
  BY DEF AddMonths, inMonth
<1> HIDE DEF count, day
<1>5. /\ count \div 12 \in Nat /\ (count % 12) + 1 \in 1 .. 12
      /\ 12 * (count \div 12) + (count % 12) = count
  BY <1>1, CountedMonth
<1>6. AddMonths(d, n) \in Date
  BY <1>3, <1>4, <1>5 DEF Date
<1>7. Valid(AddMonths(d, n))
  BY <1>3, <1>4, <1>6 DEF Valid, LastDay
<1>8. MonthOf(AddMonths(d, n)) = count
  <2>1. AddMonths(d, n).year = count \div 12 /\ AddMonths(d, n).month = (count % 12) + 1
    BY <1>4
  <2>2. 12 * (count \div 12) + (((count % 12) + 1) - 1) = count
    BY <1>1, <1>5
  <2> QED
    BY <2>1, <2>2 DEF MonthOf
<1> QED
  BY <1>2, <1>4, <1>7, <1>8 DEF count, day

LEMMA MonthsOfInterval ==
  ASSUME NEW i \in Intervals PROVE IntervalMonths(i) \in {0, 1, 3, 12}
  BY DEF Intervals, IntervalMonths

(* The month is the one counted from the start, the day one of the start or *)
(* that of a month's end.                                                   *)
CalendarInv ==
    /\ startDate \in Date /\ interval \in Intervals /\ billed \in Nat
    /\ Valid(reached)
    /\ MonthOf(reached) = MonthOf(startDate) + billed * IntervalMonths(interval)
    /\ reached.day <= startDate.day
    /\ reached.day >= 28 \/ reached.day = startDate.day

LEMMA CalendarInvInit == CalendarInit => CalendarInv
<1> SUFFICES ASSUME CalendarInit PROVE CalendarInv
  OBVIOUS
<1>1. startDate \in Date /\ Valid(startDate) /\ interval \in Intervals
  BY CalendarAssumption DEF CalendarInit
<1>2. IntervalMonths(interval) \in {0, 1, 3, 12}
  BY <1>1, MonthsOfInterval
<1>3. MonthOf(startDate) \in Nat /\ startDate.day \in 1 .. 31
  BY <1>1, MonthBack
<1> QED
  BY <1>1, <1>2, <1>3 DEF CalendarInit, CalendarInv

LEMMA CalendarInvStep == CalendarInv /\ [BillPeriod]_calendarVars => CalendarInv'
<1> SUFFICES ASSUME CalendarInv, BillPeriod PROVE CalendarInv'
  BY DEF calendarVars, CalendarInv
<1> DEFINE months == IntervalMonths(interval)
<1>1. months \in {0, 1, 3, 12} /\ months \in Nat
  BY MonthsOfInterval DEF CalendarInv
<1>2. reached \in Date /\ startDate \in Date /\ billed \in Nat
  BY DEF CalendarInv, Valid
<1>3. /\ Valid(reached') /\ MonthOf(reached') = MonthOf(reached) + months
      /\ reached'.day <= reached.day /\ (reached'.day >= 28 \/ reached'.day = reached.day)
      /\ reached'.day \in 1 .. 31
  <2>1. reached.day \in 1 .. 31
    BY <1>2, MonthBack
  <2> QED
    BY <1>1, <1>2, <2>1, MonthsAdded DEF BillPeriod
<1>4. MonthOf(reached') = MonthOf(startDate) + billed' * months
  <2>1. MonthOf(startDate) \in Nat
    BY <1>2, MonthBack
  <2>2. (billed + 1) * months = billed * months + months
    BY <1>1, <1>2
  <2> HIDE DEF months
  <2> QED
    BY <1>1, <1>2, <1>3, <2>1, <2>2 DEF CalendarInv, BillPeriod, months
<1>5. reached.day \in 1 .. 31 /\ startDate.day \in 1 .. 31
  BY <1>2, MonthBack
<1> QED
  BY <1>3, <1>4, <1>5 DEF CalendarInv, BillPeriod

(* Billing month by month, quarter by quarter or year by year never leaves  *)
(* the month that counting from the start gives, from whatever date and for *)
(* however many periods; the day only drifts back, to a month's end at most *)
(* (addMonthsUTC, computeBillingPeriod).                                    *)
THEOREM AnniversaryStays == CalendarSpec => []AnniversaryKept
<1>1. CalendarInv => AnniversaryKept
  <2> SUFFICES ASSUME CalendarInv PROVE AnniversaryKept
    OBVIOUS
  <2> DEFINE n == billed * IntervalMonths(interval)
             due == AddMonths(startDate, n)
  <2>1. startDate \in Date /\ reached \in Date /\ n \in Nat
    BY MonthsOfInterval DEF CalendarInv, Valid
  <2> HIDE DEF n
  <2>2. /\ Valid(due) /\ MonthOf(due) = MonthOf(startDate) + n
        /\ due.day = IF startDate.day <= LastDay(MonthOf(startDate) + n)
                     THEN startDate.day ELSE LastDay(MonthOf(startDate) + n)
    BY <2>1, MonthsAdded
  <2>3. MonthOf(reached) = MonthOf(due)
    BY <2>2 DEF CalendarInv, n
  <2> HIDE DEF due
  <2>4. reached.year = due.year /\ reached.month = due.month
    BY <2>1, <2>2, <2>3, MonthBack DEF Valid
  <2>5. reached.day <= LastDay(MonthOf(startDate) + n)
    BY <2>1, <2>2, <2>3, MonthBack DEF CalendarInv, Valid
  <2>6. reached.day <= due.day
    BY <2>2, <2>5 DEF CalendarInv
  <2> QED
    BY <2>4, <2>6 DEF AnniversaryKept, CalendarInv, due, n
<1> QED
  BY <1>1, CalendarInvInit, CalendarInvStep, PTL DEF CalendarSpec

-----------------------------------------------------------------------------
(***************************************************************************)
(* Periods in days.  A date has a day number; the calendar repeats every   *)
(* 146097 days.  This is what PeriodDays of BillingStore is assumed to be. *)
(***************************************************************************)
LeapDay(y) == IF Leap(y) THEN 1 ELSE 0
YearStart(y) == 365 * y + (y + 3) \div 4 - (y + 99) \div 100 + (y + 399) \div 400
MonthStart(y, m) ==
    CASE m = 1 -> 0 [] m = 2 -> 31 [] m = 3 -> 59 + LeapDay(y) [] m = 4 -> 90 + LeapDay(y)
      [] m = 5 -> 120 + LeapDay(y) [] m = 6 -> 151 + LeapDay(y) [] m = 7 -> 181 + LeapDay(y)
      [] m = 8 -> 212 + LeapDay(y) [] m = 9 -> 243 + LeapDay(y) [] m = 10 -> 273 + LeapDay(y)
      [] m = 11 -> 304 + LeapDay(y) [] m = 12 -> 334 + LeapDay(y)
DayNumber(d) == YearStart(d.year) + MonthStart(d.year, d.month) + d.day

(* Years and months grow by their days.                                     *)
LEMMA YearsGrow ==
  ASSUME NEW y \in Nat, NEW z \in Nat, y < z
  PROVE  YearStart(y) + 365 + LeapDay(y) <= YearStart(z)
<1>1. YearStart(y + 1) = YearStart(y) + 365 + LeapDay(y)
  BY DEF YearStart, LeapDay, Leap
<1>2. YearStart(y + 1) <= YearStart(z)
  BY DEF YearStart
<1>3. /\ YearStart(y) \in Int /\ YearStart(y + 1) \in Int
      /\ YearStart(z) \in Int /\ LeapDay(y) \in Int
  BY DEF YearStart, LeapDay
<1> QED
  BY <1>1, <1>2, <1>3

LEMMA MonthsGrow ==
  ASSUME NEW y \in Nat, NEW m \in 1 .. 12
  PROVE  /\ MonthStart(y, m) \in Nat
         /\ \A n \in 1 .. 12 : m < n => MonthStart(y, m) + DaysIn(y, m) <= MonthStart(y, n)
         /\ MonthStart(y, m) + DaysIn(y, m) <= 365 + LeapDay(y)
  BY DEF MonthStart, DaysIn, LeapDay
LEMMA NumberTypes ==
  ASSUME NEW y \in Nat, NEW m \in 1 .. 12
  PROVE  /\ YearStart(y) \in Int /\ LeapDay(y) \in Nat
         /\ MonthStart(y, m) \in Nat /\ DaysIn(y, m) \in Nat
<1>1. YearStart(y) \in Int /\ LeapDay(y) \in Nat
  BY DEF YearStart, LeapDay
<1>2. MonthStart(y, m) \in Nat
  BY MonthsGrow
<1>3. DaysIn(y, m) \in 28 .. 31
  BY DaysInMonth
<1> QED
  BY <1>1, <1>2, <1>3

LEMMA DateParts ==
  ASSUME NEW d \in Date
  PROVE  d.year \in Nat /\ d.month \in 1 .. 12 /\ d.day \in 1 .. 31
  BY DEF Date

LEMMA DayNumberType ==
  ASSUME NEW d \in Date
  PROVE  /\ YearStart(d.year) \in Int /\ MonthStart(d.year, d.month) \in Int
         /\ DayNumber(d) \in Int
<1>1. d.year \in Nat /\ d.month \in 1 .. 12 /\ d.day \in 1 .. 31
  BY DateParts
<1>2. /\ YearStart(d.year) \in Int /\ LeapDay(d.year) \in Nat
      /\ MonthStart(d.year, d.month) \in Nat /\ DaysIn(d.year, d.month) \in Nat
  BY <1>1, NumberTypes
<1> QED
  BY <1>1, <1>2 DEF DayNumber

(* DayNumber counts days: after a day comes the next of its month, after the *)
(* last of a month the first of the next.                                   *)
LEMMA DaysAreCounted ==
  ASSUME NEW d, Valid(d)
  PROVE  LET next == IF d.day < DaysIn(d.year, d.month)
                     THEN inMonth(MonthOf(d), d.day + 1) ELSE inMonth(MonthOf(d) + 1, 1)
         IN  DayNumber(next) = DayNumber(d) + 1
<1>1. /\ d \in Date /\ d.year \in Nat /\ d.month \in 1 .. 12 /\ d.day \in 1 .. 31
      /\ d.day <= DaysIn(d.year, d.month)
  BY DateParts DEF Valid
<1>2. YearStart(d.year) \in Int /\ MonthStart(d.year, d.month) \in Int
  BY <1>1, DayNumberType
<1>3. CASE d.day < DaysIn(d.year, d.month)
  <2>1. inMonth(MonthOf(d), d.day + 1)
          = [year |-> d.year, month |-> d.month, day |-> d.day + 1]
    BY <1>1, MonthBack DEF inMonth
  <2> QED
    BY <1>1, <1>2, <1>3, <2>1 DEF DayNumber
<1>4. CASE d.day = DaysIn(d.year, d.month) /\ d.month < 12
  <2>1. inMonth(MonthOf(d) + 1, 1) = [year |-> d.year, month |-> d.month + 1, day |-> 1]
    <3>1. MonthOf(d) + 1 = 12 * d.year + d.month
      BY <1>1 DEF MonthOf
    <3>2. /\ (12 * d.year + d.month) \div 12 = d.year
          /\ ((12 * d.year + d.month) % 12) + 1 = d.month + 1
      BY <1>1, <1>4
    <3> QED
      BY <3>1, <3>2 DEF inMonth
  <2>2. MonthStart(d.year, d.month + 1) = MonthStart(d.year, d.month) + d.day
    BY <1>1, <1>4 DEF MonthStart, DaysIn, LeapDay
  <2> QED
    BY <1>1, <1>2, <1>4, <2>1, <2>2 DEF DayNumber
<1>5. CASE d.day = DaysIn(d.year, d.month) /\ d.month = 12
  <2>1. inMonth(MonthOf(d) + 1, 1) = [year |-> d.year + 1, month |-> 1, day |-> 1]
    BY <1>1, <1>5 DEF inMonth, MonthOf
  <2>2. YearStart(d.year + 1) = YearStart(d.year) + 365 + LeapDay(d.year)
    BY <1>1 DEF YearStart, LeapDay, Leap
  <2>3. d.day = 31 /\ MonthStart(d.year, d.month) = 334 + LeapDay(d.year)
        /\ MonthStart(d.year + 1, 1) = 0 /\ LeapDay(d.year) \in Nat
    BY <1>5 DEF DaysIn, MonthStart, LeapDay
  <2> QED
    BY <1>1, <1>2, <1>5, <2>1, <2>2, <2>3 DEF DayNumber
<1> QED
  BY <1>1, <1>3, <1>4, <1>5, DaysInMonth

(* A day of a later month is later.                                         *)
LEMMA LaterMonth ==
  ASSUME NEW d, NEW e, Valid(d), Valid(e), MonthOf(d) < MonthOf(e)
  PROVE  DayNumber(d) < DayNumber(e)
<1>1. /\ d.year \in Nat /\ d.month \in 1 .. 12 /\ d.day \in 1 .. 31
      /\ e.year \in Nat /\ e.month \in 1 .. 12 /\ e.day \in 1 .. 31
      /\ d.day <= DaysIn(d.year, d.month)
  BY DateParts DEF Valid
<1>2. d.year < e.year \/ (d.year = e.year /\ d.month < e.month)
  BY <1>1 DEF MonthOf
<1>3. /\ MonthStart(d.year, d.month) \in Nat /\ MonthStart(e.year, e.month) \in Nat
      /\ DaysIn(d.year, d.month) \in Nat /\ LeapDay(d.year) \in Nat
      /\ YearStart(d.year) \in Int /\ YearStart(e.year) \in Int
  BY <1>1, NumberTypes
<1>4. CASE d.year < e.year
  <2>1. YearStart(d.year) + 365 + LeapDay(d.year) <= YearStart(e.year)
    BY <1>1, <1>4, YearsGrow
  <2>2. MonthStart(d.year, d.month) + DaysIn(d.year, d.month) <= 365 + LeapDay(d.year)
    BY <1>1, MonthsGrow
  <2> QED
    BY <1>1, <1>3, <2>1, <2>2 DEF DayNumber
<1>5. CASE d.year = e.year /\ d.month < e.month
  <2>1. MonthStart(d.year, d.month) + DaysIn(d.year, d.month) <= MonthStart(e.year, e.month)
    BY <1>1, <1>5, MonthsGrow
  <2> QED
    BY <1>1, <1>3, <1>5, <2>1 DEF DayNumber
<1> QED
  BY <1>2, <1>4, <1>5

LEMMA OneDateOfADay ==
  ASSUME NEW d, NEW e, Valid(d), Valid(e), DayNumber(d) = DayNumber(e)
  PROVE  d = e
<1>1. d \in Date /\ e \in Date
  BY DEF Valid
<1>2. DayNumber(d) \in Int /\ MonthOf(d) \in Nat /\ MonthOf(e) \in Nat
  BY <1>1, DayNumberType, MonthBack
<1>3. MonthOf(d) = MonthOf(e)
  BY <1>2, LaterMonth
<1>4. d.year = e.year /\ d.month = e.month
  BY <1>1, <1>3, MonthBack
<1>5. d.day = e.day
  <2>1. YearStart(d.year) + MonthStart(d.year, d.month) \in Int
    BY <1>1, DayNumberType
  <2> QED
    BY <1>1, <1>4, <2>1, DateParts DEF DayNumber
<1> QED
  BY <1>1, <1>4, <1>5 DEF Date

(* 400 years later, n times: the same day of the same month.                *)
Later(d, n) == [year |-> d.year + 400 * n, month |-> d.month, day |-> d.day]

LEMMA YearsRepeat ==
  ASSUME NEW y \in Nat, NEW n \in Nat
  PROVE  /\ y + 400 * n \in Nat
         /\ Leap(y + 400 * n) <=> Leap(y)
         /\ YearStart(y + 400 * n) = YearStart(y) + 146097 * n
<1>1. y + 400 * n \in Nat
  OBVIOUS
<1>2. Leap(y + 400 * n) <=> Leap(y)
  BY DEF Leap
<1>3. YearStart(y + 400 * n) = YearStart(y) + 146097 * n
  BY DEF YearStart
<1> QED
  BY <1>1, <1>2, <1>3

LEMMA LaterIs ==
  ASSUME NEW d, Valid(d), NEW n \in Nat
  PROVE  /\ Valid(Later(d, n))
         /\ DayNumber(Later(d, n)) = DayNumber(d) + 146097 * n
         /\ MonthOf(Later(d, n)) = MonthOf(d) + 4800 * n
<1>1. d \in Date /\ d.year \in Nat /\ d.month \in 1 .. 12 /\ d.day \in 1 .. 31
      /\ d.day <= DaysIn(d.year, d.month)
  BY DateParts DEF Valid
<1>2. /\ Later(d, n).year = d.year + 400 * n /\ Later(d, n).month = d.month
      /\ Later(d, n).day = d.day
  BY DEF Later
<1>3. d.year + 400 * n \in Nat /\ (Leap(d.year + 400 * n) <=> Leap(d.year))
  BY <1>1, YearsRepeat
<1>4. Later(d, n) \in Date
  BY <1>1, <1>3 DEF Later, Date
<1>5. DaysIn(d.year + 400 * n, d.month) = DaysIn(d.year, d.month)
  BY <1>3 DEF DaysIn
<1>6. MonthStart(d.year + 400 * n, d.month) = MonthStart(d.year, d.month)
  BY <1>3 DEF MonthStart, LeapDay
<1>7. YearStart(d.year + 400 * n) = YearStart(d.year) + 146097 * n
  BY <1>1, YearsRepeat
<1>8. YearStart(d.year) \in Int /\ MonthStart(d.year, d.month) \in Int
  BY <1>1, DayNumberType
<1>9. Valid(Later(d, n))
  BY <1>1, <1>2, <1>4, <1>5 DEF Valid
<1>10. DayNumber(Later(d, n)) = DayNumber(d) + 146097 * n
  BY <1>1, <1>2, <1>6, <1>7, <1>8 DEF DayNumber
<1>11. MonthOf(Later(d, n)) = MonthOf(d) + 4800 * n
  BY <1>1, <1>2 DEF MonthOf
<1> QED
  BY <1>9, <1>10, <1>11
(* How long a period is, by its interval in months and the day it starts.   *)
PeriodLength(d, months) == DayNumber(AddMonths(d, months)) - DayNumber(d)

(* A period is at least a day long.                                         *)
LEMMA PeriodIsPositive ==
  ASSUME NEW d, Valid(d), NEW months \in Nat \ {0}
  PROVE  PeriodLength(d, months) \in Nat \ {0}
<1>1. d \in Date /\ Valid(AddMonths(d, months)) /\ AddMonths(d, months) \in Date
      /\ MonthOf(AddMonths(d, months)) = MonthOf(d) + months
  BY MonthsAdded DEF Valid
<1>2. MonthOf(d) < MonthOf(AddMonths(d, months))
  BY <1>1, MonthBack
<1>3. DayNumber(d) < DayNumber(AddMonths(d, months))
  BY <1>1, <1>2, LaterMonth
<1>4. DayNumber(d) \in Int /\ DayNumber(AddMonths(d, months)) \in Int
  BY <1>1, DayNumberType
<1> QED
  BY <1>3, <1>4 DEF PeriodLength

(* The calendar repeats every 400 years: so do the periods.                 *)
LEMMA PeriodsRepeat ==
  ASSUME NEW d, Valid(d), NEW n \in Nat, NEW months \in Nat
  PROVE  PeriodLength(Later(d, n), months) = PeriodLength(d, months)
<1> DEFINE e == Later(d, n)
           dend == AddMonths(d, months)
           eend == AddMonths(e, months)
<1>1. d \in Date /\ Valid(e) /\ e \in Date /\ e.day = d.day
  BY LaterIs DEF Valid, Later
<1>2. MonthOf(e) = MonthOf(d) + 4800 * n /\ DayNumber(e) = DayNumber(d) + 146097 * n
  BY LaterIs
<1>3. /\ Valid(dend) /\ MonthOf(dend) = MonthOf(d) + months
      /\ Valid(eend) /\ MonthOf(eend) = MonthOf(e) + months
  BY <1>1, MonthsAdded
<1>4. Valid(Later(dend, n)) /\ MonthOf(Later(dend, n)) = MonthOf(dend) + 4800 * n
      /\ DayNumber(Later(dend, n)) = DayNumber(dend) + 146097 * n
  BY <1>3, LaterIs
<1>5. MonthOf(Later(dend, n)) = MonthOf(eend)
  <2>1. MonthOf(d) \in Nat /\ MonthOf(e) \in Nat
    BY <1>1, MonthBack
  <2> QED
    BY <1>2, <1>3, <1>4, <2>1
<1>6. LastDay(MonthOf(d) + months) = LastDay(MonthOf(e) + months)
  <2>1. /\ LastDay(MonthOf(d) + months) = DaysIn(dend.year, dend.month)
        /\ LastDay(MonthOf(e) + months) = DaysIn(eend.year, eend.month)
    BY <1>3, MonthBack DEF Valid
  <2>2. eend.year = dend.year + 400 * n /\ eend.month = dend.month
    BY <1>3, <1>4, <1>5, MonthBack DEF Valid, Later
  <2>3. dend.year \in Nat
    BY <1>3, DateParts DEF Valid
  <2>4. Leap(eend.year) <=> Leap(dend.year)
    BY <2>2, <2>3, YearsRepeat
  <2> QED
    BY <2>1, <2>2, <2>4 DEF DaysIn
<1>7. eend.day = dend.day
  BY <1>1, <1>6, MonthsAdded
<1>8. eend = Later(dend, n)
  <2>1. eend \in Date /\ dend \in Date
    BY <1>3 DEF Valid
  <2>2. eend.year = Later(dend, n).year /\ eend.month = Later(dend, n).month
    BY <1>3, <1>4, <1>5, MonthBack DEF Valid
  <2> QED
    BY <1>7, <2>1, <2>2 DEF Date, Later
<1>9. DayNumber(d) \in Int /\ DayNumber(dend) \in Int
  BY <1>1, <1>3, DayNumberType DEF Valid
<1> HIDE DEF e, dend, eend
<1>10. DayNumber(eend) = DayNumber(dend) + 146097 * n
  BY <1>4, <1>8
<1>11. DayNumber(eend) - DayNumber(e) = DayNumber(dend) - DayNumber(d)
  BY <1>2, <1>9, <1>10
<1> QED
  BY <1>11 DEF PeriodLength, e, dend, eend

(* A period has at least a day, and how many it has depends only on the     *)
(* interval and on where in the 400 years of the calendar it starts         *)
(* (addMonthsUTC): the assumption about PeriodDays, with Cycle = 146097.    *)
THEOREM PeriodsFollowTheCalendar ==
  ASSUME NEW months \in Nat \ {0}, NEW d, Valid(d), NEW e, Valid(e)
  PROVE  /\ PeriodLength(d, months) \in Nat \ {0}
         /\ DayNumber(d) % 146097 = DayNumber(e) % 146097 =>
                PeriodLength(d, months) = PeriodLength(e, months)
<1>1. ASSUME NEW x, Valid(x), NEW y, Valid(y), DayNumber(x) % 146097 = DayNumber(y) % 146097,
             DayNumber(x) <= DayNumber(y)
      PROVE  PeriodLength(x, months) = PeriodLength(y, months)
  <2>1. DayNumber(x) \in Int /\ DayNumber(y) \in Int
    BY <1>1, DayNumberType DEF Valid
  <2>2. PICK n \in Nat : DayNumber(y) = DayNumber(x) + 146097 * n
    <3> DEFINE n == (DayNumber(y) \div 146097) - (DayNumber(x) \div 146097)
    <3>1. n \in Nat /\ DayNumber(y) = DayNumber(x) + 146097 * n
      BY <1>1, <2>1
    <3> QED
      BY <3>1
  <2>3. y = Later(x, n)
    BY <1>1, <2>2, LaterIs, OneDateOfADay
  <2> QED
    BY <1>1, <2>3, PeriodsRepeat
<1>2. DayNumber(d) \in Int /\ DayNumber(e) \in Int
  BY DayNumberType DEF Valid
<1> QED
  BY <1>1, <1>2, PeriodIsPositive
=============================================================================
