--------------------------- MODULE CollectionProofs ---------------------------
(***************************************************************************)
(* Money and the dunning ladder: the proofs for Collections, on its own    *)
(* and as a part of Billing, for any number of invoices, charges, jobs and *)
(* deliveries, any calendar, any ladder and any number of crashes.         *)
(*                                                                         *)
(* What goes on around the collecting executions is described once, by     *)
(* Around; both the environment of CollectingSpec and the executions that  *)
(* issue invoices in Billing are instances of it.                          *)
(***************************************************************************)
EXTENDS Billing, IssuingProofs, FiniteSetTheorems, WellFoundedInduction

-----------------------------------------------------------------------------
(* The inductive invariant.                                                *)

\* An execution has the fields its step uses.
SettlingShape ==
    \A r \in Requests : settling[r].pc # "idle" =>
        settling[r].key \in PaymentKeys /\ results[settling[r].key] # None

DunningShape ==
    \A w \in Workers : dunning[w].pc # "idle" =>
        /\ dunning[w].invoice \in InvoiceIds
        /\ Issued(dunning[w].invoice)
        /\ dunning[w].pc = "freeze" => invoices[dunning[w].invoice].enrollmentId # None

\* The attempts on record are finitely many, so they can be counted.
FewAttempts == IsFiniteSet({k \in PaymentKeys : payments[k] # None})

\* An execution about to settle an invoice has recorded a success for it.
Recorded(r) ==
    LET k == settling[r].key
    IN  settling[r].pc = "settle" =>
            /\ payments[k] # None
            /\ payments[k].invoiceId = results[k].invoiceId
            /\ payments[k].status = "succeeded"

Backed(i) ==
    invoices[i].status = "paid" =>
        \E k \in Attempts(i) : payments[k].status = "succeeded"

\* The ladder by what has become of an invoice.  The retry date of an open
\* one leaves a full period for every rung climbed.
OffLadder(i) == invoices[i].dunningStage = 0 /\ invoices[i].nextRetryAt = None

OnLadder(i) ==
    /\ invoices[i].dueAt \in Nat
    /\ invoices[i].dunningStage < SuspendStage
    /\ (invoices[i].dunningStage = 0) <=> (invoices[i].nextRetryAt = None)
    /\ invoices[i].dunningStage # 0 =>
          invoices[i].dueAt + invoices[i].dunningStage * RetryDays < invoices[i].nextRetryAt

GivenUp(i) ==
    /\ invoices[i].dueAt \in Nat
    /\ invoices[i].dunningStage = SuspendStage
    /\ invoices[i].nextRetryAt = None
    /\ invoices[i].dueAt + (SuspendStage - 1) * RetryDays < today

Ladder(i) ==
    /\ invoices[i].status \in {"absent", "draft", "paid"} => OffLadder(i)
    /\ invoices[i].status = "open" => OnLadder(i)
    /\ invoices[i].status = "uncollectible" => GivenUp(i)

\* A dunning job has read a stage that the invoice is not below, and takes
\* it to the next only after the full period of that stage.
InTime(w) ==
    LET i == dunning[w].invoice
        stage == dunning[w].stage
    IN  /\ dunning[w].pc = "read" /\ invoices[i].status = "open" =>
              invoices[i].dueAt < today
        /\ dunning[w].pc = "step" /\ invoices[i].status = "open" =>
              /\ stage <= invoices[i].dunningStage
              /\ dunning[w].day <= today
              /\ stage = invoices[i].dunningStage =>
                    invoices[i].dueAt + stage * RetryDays < dunning[w].day

CollectInv ==
    /\ CollectingTypeOK
    /\ SettlingShape
    /\ DunningShape
    /\ FewAttempts
    /\ \A r \in Requests : Recorded(r)
    /\ \A i \in InvoiceIds : Backed(i) /\ Ladder(i)
    /\ \A w \in Workers : InTime(w)
    /\ SuspendedWithInvoice

-----------------------------------------------------------------------------
(* The records that executions start from.                                 *)
LEMMA IdleFields ==
    /\ IdleSettling \in Settling /\ IdleSettling.pc = "idle"
    /\ IdleDunning \in Dunning /\ IdleDunning.pc = "idle"
    /\ IdleDunning.stage = 0
BY ConstantsAssumption DEF IdleSettling, Settling, IdleDunning, Dunning, Days

LEMMA CollectInvInit == CollectingInit => CollectInv
<1>. SUFFICES ASSUME CollectingInit PROVE CollectInv
    OBVIOUS
<1>1. \A i \in InvoiceIds : /\ invoices[i] = NoInvoice
                            /\ NoInvoice \in Invoice
                            /\ NoInvoice.status = "absent"
                            /\ NoInvoice.dunningStage = 0
                            /\ NoInvoice.nextRetryAt = None
    BY DEF CollectingInit, StoreInit, NoInvoice, Invoice
<1>2. CollectingTypeOK
  <2>1. StoreTypeOK
    BY <1>1, NoEnrollmentFields, YearTypes, ConstantsAssumption
    DEF CollectingInit, StoreInit, StoreTypeOK, Days
  <2>. QED
    BY <2>1, IdleFields DEF CollectingInit, CollectingTypeOK
<1>3. FewAttempts
  <2>1. {k \in PaymentKeys : payments[k] # None} = {}
    BY DEF CollectingInit, StoreInit
  <2>. QED
    BY <2>1, FS_EmptySet DEF FewAttempts
<1>4. \A r \in Requests : settling[r].pc = "idle"
    BY IdleFields DEF CollectingInit
<1>5. \A w \in Workers : dunning[w].pc = "idle"
    BY IdleFields DEF CollectingInit
<1>6. \A i \in InvoiceIds : Backed(i) /\ Ladder(i)
    BY <1>1 DEF Backed, Ladder, OffLadder
<1>. QED
    BY <1>1, <1>2, <1>3, <1>4, <1>5, <1>6
    DEF CollectInv, SettlingShape, DunningShape, Recorded, InTime, SuspendedWithInvoice

-----------------------------------------------------------------------------
(* Steps that leave the collections alone.                                 *)

\* The record of an execution after it has been replaced.
LEMMA SettlingIs ==
    ASSUME CollectInv, NEW r \in Requests, NEW rec \in Settling,
           settling' = [settling EXCEPT ![r] = rec]
    PROVE  /\ settling' \in [Requests -> Settling]
           /\ settling'[r] = rec
           /\ \A q \in Requests \ {r} : settling'[q] = settling[q]
BY DEF CollectInv, CollectingTypeOK

LEMMA DunningIs ==
    ASSUME CollectInv, NEW w \in Workers, NEW rec \in Dunning,
           dunning' = [dunning EXCEPT ![w] = rec]
    PROVE  /\ dunning' \in [Workers -> Dunning]
           /\ dunning'[w] = rec
           /\ \A v \in Workers \ {w} : dunning'[v] = dunning[v]
BY DEF CollectInv, CollectingTypeOK

\* One more execution has died, or none.
Dying == crashes' \in 0 .. MaxCrashes /\ crashes <= crashes'

LEMMA SettlingKeeps ==
    ASSUME CollectInv, NEW r \in Requests, NEW rec \in Settling,
           settling' = [settling EXCEPT ![r] = rec],
           UNCHANGED <<today, enrollments, invoices, counter, payments,
                       results, dunning, notices>>,
           Dying,
           rec.pc # "settle",
           rec.pc # "idle" => rec.key \in PaymentKeys /\ results[rec.key] # None
    PROVE  CollectInv'
<1>1. /\ settling' \in [Requests -> Settling]
      /\ settling'[r] = rec
      /\ \A q \in Requests \ {r} : settling'[q] = settling[q]
    BY SettlingIs
<1>2. CollectingTypeOK'
    BY <1>1 DEF CollectInv, CollectingTypeOK, StoreTypeOK, Dying
<1>3. SettlingShape'
    BY <1>1 DEF CollectInv, SettlingShape
<1>4. \A q \in Requests : Recorded(q)'
    BY <1>1 DEF CollectInv, Recorded
<1>5. \A i \in InvoiceIds : (Backed(i) /\ Ladder(i))'
    BY DEF CollectInv, Backed, Attempts, Ladder, OffLadder, OnLadder, GivenUp
<1>6. DunningShape' /\ FewAttempts' /\ \A w \in Workers : InTime(w)'
    BY DEF CollectInv, DunningShape, Issued, Exists, FewAttempts, InTime
<1>7. SuspendedWithInvoice'
  <2>1. crashes \in Nat /\ crashes' \in Nat /\ crashes <= crashes'
    BY ConstantsAssumption DEF Dying, CollectInv, CollectingTypeOK, StoreTypeOK
  <2>. QED
    BY <2>1 DEF CollectInv, SuspendedWithInvoice
<1>. QED
    BY <1>2, <1>3, <1>4, <1>5, <1>6, <1>7 DEF CollectInv

LEMMA DunningKeeps ==
    ASSUME CollectInv, NEW w \in Workers, NEW rec \in Dunning,
           dunning' = [dunning EXCEPT ![w] = rec],
           UNCHANGED <<today, enrollments, invoices, counter, payments,
                       results, settling>>,
           notices' \in [InvoiceIds -> SUBSET Nat],
           Dying,
           dunning[w].pc = "freeze" => crashes < crashes',
           rec.pc # "freeze",
           rec.pc # "idle" => rec.invoice \in InvoiceIds /\ Issued(rec.invoice),
           InTime(w)'
    PROVE  CollectInv'
<1>1. /\ dunning' \in [Workers -> Dunning]
      /\ dunning'[w] = rec
      /\ \A v \in Workers \ {w} : dunning'[v] = dunning[v]
    BY DunningIs
<1>2. CollectingTypeOK'
    BY <1>1 DEF CollectInv, CollectingTypeOK, StoreTypeOK, Dying
<1>3. DunningShape'
    BY <1>1 DEF CollectInv, DunningShape, Issued, Exists
<1>4. \A v \in Workers : InTime(v)'
  <2>1. ASSUME NEW v \in Workers \ {w} PROVE InTime(v)'
    BY <1>1 DEF CollectInv, InTime
  <2>. QED
    BY <2>1
<1>5. \A i \in InvoiceIds : (Backed(i) /\ Ladder(i))'
    BY DEF CollectInv, Backed, Attempts, Ladder, OffLadder, OnLadder, GivenUp
<1>6. SettlingShape' /\ FewAttempts' /\ \A r \in Requests : Recorded(r)'
    BY DEF CollectInv, SettlingShape, FewAttempts, Recorded
<1>7. SuspendedWithInvoice'
  <2>1. crashes \in Nat /\ crashes' \in Nat /\ crashes <= crashes'
    BY ConstantsAssumption DEF Dying, CollectInv, CollectingTypeOK, StoreTypeOK
  <2>2. CASE dunning[w].pc = "freeze"
    BY <2>1, <2>2 DEF SuspendedWithInvoice
  <2>3. CASE dunning[w].pc # "freeze"
    BY <1>1, <2>1, <2>3 DEF CollectInv, SuspendedWithInvoice
  <2>. QED
    BY <2>2, <2>3
<1>. QED
    BY <1>2, <1>3, <1>4, <1>5, <1>6, <1>7 DEF CollectInv

-----------------------------------------------------------------------------
(* The steps that write: a result, an attempt, an invoice, an enrolment.   *)
LEMMA ProviderKeeps ==
    ASSUME CollectInv, NEW k \in PaymentKeys, ProviderDecides(k)
    PROVE  CollectInv'
<1>1. PICK i \in InvoiceIds, s \in {"succeeded", "failed"} :
          results' = [results EXCEPT ![k] = [invoiceId |-> i, status |-> s]]
    BY DEF ProviderDecides
<1> DEFINE res == [invoiceId |-> i, status |-> s]
<1>2. res \in Result
    BY DEF Result
<1>3. results[k] = None /\ UNCHANGED <<storeVars, settling, dunning, notices>>
    BY DEF ProviderDecides
<1>4. results' = [results EXCEPT ![k] = res]
    BY <1>1
<1>. HIDE DEF res
<1>5. /\ results' \in [PaymentKeys -> Result \cup {None}]
      /\ \A x \in PaymentKeys \ {k} : results'[x] = results[x]
    BY <1>2, <1>4 DEF CollectInv, CollectingTypeOK
<1>6. CollectingTypeOK'
    BY <1>3, <1>5 DEF CollectInv, CollectingTypeOK, StoreTypeOK, storeVars
<1>7. \A r \in Requests : settling[r].pc # "idle" =>
          settling[r].key \in PaymentKeys \ {k}
    BY <1>3 DEF CollectInv, SettlingShape
<1>8. SettlingShape' /\ \A r \in Requests : Recorded(r)'
    BY <1>3, <1>5, <1>7 DEF CollectInv, SettlingShape, Recorded, storeVars
<1>9. /\ \A j \in InvoiceIds : (Backed(j) /\ Ladder(j))'
      /\ DunningShape' /\ FewAttempts' /\ \A w \in Workers : InTime(w)'
      /\ SuspendedWithInvoice'
    BY <1>3 DEF CollectInv, Backed, Attempts, Ladder, OffLadder, OnLadder, GivenUp,
                DunningShape, Issued, Exists, FewAttempts, InTime, SuspendedWithInvoice,
                storeVars
<1>. QED
    BY <1>6, <1>8, <1>9 DEF CollectInv

LEMMA AttemptKeeps ==
    ASSUME CollectInv, NEW r \in Requests, RecordAttempt(r)
    PROVE  CollectInv'
<1>1. PICK k \in PaymentKeys : settling[r].key = k /\ results[k] # None
    BY DEF CollectInv, SettlingShape, RecordAttempt
<1>2. PICK i \in InvoiceIds, s \in {"succeeded", "failed"} :
          results[k].invoiceId = i /\ results[k].status = s
    BY <1>1 DEF CollectInv, CollectingTypeOK, Result
<1>3. settling[r] \in Settling
    BY DEF CollectInv, CollectingTypeOK
<1> DEFINE attempt == [invoiceId |-> i, status |-> s, attemptNo |-> settling[r].attemptNo]
           next == [settling[r] EXCEPT !.pc = "settle"]
<1>4. attempt \in PaymentAttempt /\ attempt # None
    BY <1>3, NullAssumption DEF PaymentAttempt, Settling
<1>5. next \in Settling /\ next.pc = "settle" /\ next.key = k
    BY <1>1, <1>3 DEF Settling
<1>6. attempt.invoiceId = i /\ attempt.status = s
    OBVIOUS
<1>7. /\ payments[k] = None
      /\ payments' = [payments EXCEPT ![k] = attempt]
      /\ settling' = [settling EXCEPT ![r] =
                         IF s = "succeeded" THEN next ELSE IdleSettling]
      /\ UNCHANGED <<today, enrollments, invoices, counter, crashes,
                     results, dunning, notices>>
    BY <1>1, <1>2 DEF RecordAttempt, CreateAttempt, Settles
<1>. HIDE DEF attempt, next
<1>8. /\ payments' \in [PaymentKeys -> PaymentAttempt \cup {None}]
      /\ payments'[k] = attempt
      /\ \A x \in PaymentKeys \ {k} : payments'[x] = payments[x]
    BY <1>4, <1>7 DEF CollectInv, CollectingTypeOK, StoreTypeOK
<1>9. PICK rec \in Settling :
          /\ settling' = [settling EXCEPT ![r] = rec]
          /\ rec.pc = "settle" => rec.key = k /\ s = "succeeded"
          /\ rec.pc # "idle" => rec.key = k
  <2>1. CASE s = "succeeded"
    BY <1>5, <1>7, <2>1
  <2>2. CASE s # "succeeded"
    BY <1>7, <2>2, IdleFields
  <2>. QED
    BY <2>1, <2>2
<1>10. /\ settling' \in [Requests -> Settling]
       /\ settling'[r] = rec
       /\ \A q \in Requests \ {r} : settling'[q] = settling[q]
    BY <1>9, SettlingIs
<1>11. CollectingTypeOK'
    BY <1>7, <1>8, <1>10 DEF CollectInv, CollectingTypeOK, StoreTypeOK
<1>12. SettlingShape'
    BY <1>1, <1>7, <1>9, <1>10 DEF CollectInv, SettlingShape
<1>13. ASSUME NEW q \in Requests PROVE Recorded(q)'
  <2>1. CASE q = r
    BY <1>1, <1>2, <1>4, <1>6, <1>7, <1>8, <1>9, <1>10, <2>1 DEF Recorded
  <2>2. CASE q # r
    BY <1>7, <1>8, <1>10, <2>2 DEF CollectInv, Recorded, SettlingShape
  <2>. QED
    BY <2>1, <2>2
<1>14. FewAttempts'
  <2>1. IsFiniteSet({x \in PaymentKeys : payments[x] # None} \cup {k})
    BY FS_AddElement DEF CollectInv, FewAttempts
  <2>2. {x \in PaymentKeys : payments'[x] # None}
            \subseteq {x \in PaymentKeys : payments[x] # None} \cup {k}
    BY <1>8
  <2>. QED
    BY <2>1, <2>2, FS_Subset DEF FewAttempts
<1>15. ASSUME NEW j \in InvoiceIds PROVE Backed(j)' /\ Ladder(j)'
  <2>1. \A x \in Attempts(j) : x \in Attempts(j)' /\ payments'[x] = payments[x]
    BY <1>7, <1>8 DEF Attempts
  <2>2. Backed(j)'
    BY <1>7, <2>1 DEF CollectInv, Backed
  <2>. QED
    BY <1>7, <2>2 DEF CollectInv, Ladder, OffLadder, OnLadder, GivenUp
<1>16. DunningShape' /\ SuspendedWithInvoice' /\ \A w \in Workers : InTime(w)'
    BY <1>7 DEF CollectInv, DunningShape, Issued, Exists, InTime, SuspendedWithInvoice
<1>. QED
    BY <1>11, <1>12, <1>13, <1>14, <1>15, <1>16 DEF CollectInv

\* An invoice after its document has been replaced.
LEMMA InvoiceIs ==
    ASSUME CollectInv, NEW i \in InvoiceIds, NEW doc \in Invoice,
           invoices' = [invoices EXCEPT ![i] = doc]
    PROVE  /\ invoices' \in [InvoiceIds -> Invoice]
           /\ invoices'[i] = doc
           /\ \A j \in InvoiceIds \ {i} : invoices'[j] = invoices[j]
BY DEF CollectInv, CollectingTypeOK, StoreTypeOK

LEMMA SettleKeeps ==
    ASSUME CollectInv, NEW r \in Requests, Settle(r)
    PROVE  CollectInv'
<1>1. PICK k \in PaymentKeys : settling[r].key = k /\ results[k] # None
    BY DEF CollectInv, SettlingShape, Settle
<1>2. PICK i \in InvoiceIds : results[k].invoiceId = i
    BY <1>1 DEF CollectInv, CollectingTypeOK, Result
<1>3. PICK doc : doc = [invoices[i] EXCEPT !.status = "paid", !.dunningStage = 0,
                                           !.nextRetryAt = None]
    OBVIOUS
<1>4. /\ doc \in Invoice
      /\ doc.status = "paid" /\ doc.dunningStage = 0 /\ doc.nextRetryAt = None
      /\ doc.enrollmentId = invoices[i].enrollmentId
    BY <1>3 DEF CollectInv, CollectingTypeOK, StoreTypeOK, Invoice, InvoiceStatuses
<1>5. /\ invoices' = [invoices EXCEPT ![i] = doc]
      /\ settling' = [settling EXCEPT ![r] = IdleSettling]
      /\ UNCHANGED <<today, enrollments, counter, payments, crashes,
                     results, dunning, notices>>
    BY <1>1, <1>2, <1>3 DEF Settle, MarkPaid
<1>6. /\ invoices' \in [InvoiceIds -> Invoice]
      /\ invoices'[i] = doc
      /\ \A j \in InvoiceIds \ {i} : invoices'[j] = invoices[j]
    BY <1>4, <1>5, InvoiceIs
<1>7. /\ settling' \in [Requests -> Settling]
      /\ settling'[r].pc = "idle"
      /\ \A q \in Requests \ {r} : settling'[q] = settling[q]
    BY <1>5, SettlingIs, IdleFields
<1>8. CollectingTypeOK'
    BY <1>5, <1>6, <1>7 DEF CollectInv, CollectingTypeOK, StoreTypeOK
<1>9. SettlingShape' /\ (\A q \in Requests : Recorded(q)') /\ FewAttempts'
    BY <1>5, <1>7 DEF CollectInv, SettlingShape, Recorded, FewAttempts
<1>10. k \in Attempts(i) /\ payments[k].status = "succeeded"
    BY <1>1, <1>2 DEF CollectInv, Recorded, Settle, Attempts
<1>11. ASSUME NEW j \in InvoiceIds PROVE Backed(j)' /\ Ladder(j)'
  <2>1. CASE j = i
    BY <1>4, <1>5, <1>6, <1>10, <2>1
    DEF Backed, Attempts, Ladder, OffLadder
  <2>2. CASE j # i
    BY <1>5, <1>6, <2>2
    DEF CollectInv, Backed, Attempts, Ladder, OffLadder, OnLadder, GivenUp
  <2>. QED
    BY <2>1, <2>2
<1>12. DunningShape'
    BY <1>4, <1>5, <1>6 DEF CollectInv, DunningShape, Issued, Exists
<1>13. ASSUME NEW w \in Workers PROVE InTime(w)'
  <2>1. CASE dunning[w].pc \in {"read", "step"}
    <3>1. dunning[w].invoice \in InvoiceIds
      BY <2>1 DEF CollectInv, DunningShape
    <3>. QED
      BY <1>4, <1>5, <1>6, <3>1 DEF CollectInv, InTime
  <2>2. CASE dunning[w].pc \notin {"read", "step"}
    BY <1>5, <2>2 DEF InTime
  <2>. QED
    BY <2>1, <2>2
<1>14. SuspendedWithInvoice'
    BY <1>4, <1>5, <1>6 DEF CollectInv, SuspendedWithInvoice
<1>. QED
    BY <1>8, <1>9, <1>11, <1>12, <1>13, <1>14 DEF CollectInv

-----------------------------------------------------------------------------
(* The step up the ladder.                                                 *)
LEMMA NextRung ==
    ASSUME NEW s \in Nat
    PROVE  (s + 1) * RetryDays = s * RetryDays + RetryDays /\ s * RetryDays \in Nat
BY ConstantsAssumption

LEMMA StepKeeps ==
    ASSUME CollectInv, NEW w \in Workers, Step(w)
    PROVE  CollectInv'
<1>1. PICK i \in InvoiceIds : dunning[w].invoice = i
    BY DEF CollectInv, DunningShape, Step
<1>2. PICK s \in Nat, day \in Nat : dunning[w].stage = s /\ dunning[w].day = day
    BY ConstantsAssumption DEF CollectInv, CollectingTypeOK, Dunning, Days
<1>3. PICK next \in Nat : next = s + 1
    OBVIOUS
<1> DEFINE status == IF IsFinal(next) THEN "uncollectible" ELSE "open"
           retry == IF IsFinal(next) THEN None ELSE day + RetryDays
           pc == IF Suspends(i, next) THEN "freeze" ELSE "notice"
<1>4. PICK doc : doc = [invoices[i] EXCEPT !.status = status, !.dunningStage = next,
                                           !.nextRetryAt = retry]
    OBVIOUS
<1>5. PICK rec : rec = [dunning[w] EXCEPT !.pc = pc, !.stage = next]
    OBVIOUS
<1>6. /\ dunning[w].pc = "step"
      /\ invoices[i].status = "open" /\ invoices[i].dunningStage = s
      /\ invoices' = [invoices EXCEPT ![i] = doc]
      /\ dunning' = [dunning EXCEPT ![w] = rec]
      /\ UNCHANGED <<today, enrollments, counter, payments, crashes,
                     results, settling, notices>>
    BY <1>1, <1>2, <1>3, <1>4, <1>5 DEF Step, AdvanceDunningStep, CanStep
<1>7. status \in InvoiceStatuses /\ retry \in Nat \cup {None} /\ pc \in {"freeze", "notice"}
    BY <1>2, ConstantsAssumption DEF InvoiceStatuses
<1>8. /\ doc \in Invoice
      /\ doc.status = status /\ doc.dunningStage = next /\ doc.nextRetryAt = retry
      /\ doc.enrollmentId = invoices[i].enrollmentId
      /\ doc.dueAt = invoices[i].dueAt
  <2>. HIDE DEF status, retry
  <2>. QED
    BY <1>4, <1>7 DEF CollectInv, CollectingTypeOK, StoreTypeOK, Invoice
<1>9. rec \in Dunning /\ rec.pc = pc /\ rec.invoice = i
  <2>. HIDE DEF pc
  <2>. QED
    BY <1>1, <1>5, <1>7 DEF CollectInv, CollectingTypeOK, Dunning
<1>10. /\ status = "uncollectible" => pc = "freeze" \/ invoices[i].enrollmentId = None
       /\ pc = "freeze" => status = "uncollectible" /\ invoices[i].enrollmentId # None
    BY DEF Suspends
<1>11. PICK due \in Nat : invoices[i].dueAt = due
    BY <1>6 DEF CollectInv, Ladder, OnLadder
<1>12. due + s * RetryDays < day /\ day <= today /\ s < SuspendStage
    BY <1>1, <1>2, <1>6, <1>11 DEF CollectInv, InTime, Ladder, OnLadder
<1>13. s * RetryDays \in Nat /\ next * RetryDays = s * RetryDays + RetryDays
    BY <1>3, NextRung
<1>14. /\ status = "uncollectible" =>
            /\ next = SuspendStage /\ retry = None
            /\ due + (SuspendStage - 1) * RetryDays < today
       /\ status = "open" =>
            /\ next < SuspendStage /\ next # 0
            /\ retry # None
            /\ due + next * RetryDays < retry
       /\ status \in {"uncollectible", "open"}
  <2>1. CASE IsFinal(next)
    <3>1. next = SuspendStage /\ SuspendStage - 1 = s
      BY <1>3, <1>12, <2>1, ConstantsAssumption DEF IsFinal
    <3>2. due + s * RetryDays < today
      BY <1>12, <1>13, ConstantsAssumption
      DEF CollectInv, CollectingTypeOK, StoreTypeOK, Days
    <3>. QED
      BY <2>1, <3>1, <3>2
  <2>2. CASE ~IsFinal(next)
    <3>1. next < SuspendStage /\ next # 0
      BY <1>3, <2>2, ConstantsAssumption DEF IsFinal
    <3>2. due + next * RetryDays < day + RetryDays
      <4>1. PICK climbed \in Nat : climbed = s * RetryDays /\ due + climbed < day
        BY <1>12, <1>13
      <4>2. due + (climbed + RetryDays) < day + RetryDays
        BY <4>1, ConstantsAssumption
      <4>. QED
        BY <1>13, <4>1, <4>2
    <3>3. day + RetryDays # None
      BY ConstantsAssumption
    <3>. QED
      BY <2>2, <3>1, <3>2, <3>3
  <2>. QED
    BY <2>1, <2>2
<1>. HIDE DEF status, retry, pc
<1>15. /\ invoices' \in [InvoiceIds -> Invoice]
       /\ invoices'[i] = doc
       /\ \A j \in InvoiceIds \ {i} : invoices'[j] = invoices[j]
    BY <1>6, <1>8, InvoiceIs
<1>16. /\ dunning' \in [Workers -> Dunning]
       /\ dunning'[w] = rec
       /\ \A v \in Workers \ {w} : dunning'[v] = dunning[v]
    BY <1>6, <1>9, DunningIs
<1>17. CollectingTypeOK'
    BY <1>6, <1>15, <1>16 DEF CollectInv, CollectingTypeOK, StoreTypeOK
<1>18. SettlingShape' /\ (\A r \in Requests : Recorded(r)') /\ FewAttempts'
    BY <1>6 DEF CollectInv, SettlingShape, Recorded, FewAttempts
<1>19. ASSUME NEW j \in InvoiceIds PROVE Backed(j)' /\ Ladder(j)'
  <2>1. CASE j = i
    BY <1>6, <1>8, <1>11, <1>14, <1>15, <2>1
    DEF Backed, Ladder, OnLadder, GivenUp
  <2>2. CASE j # i
    BY <1>6, <1>15, <2>2
    DEF CollectInv, Backed, Attempts, Ladder, OffLadder, OnLadder, GivenUp
  <2>. QED
    BY <2>1, <2>2
<1>20. \A j \in InvoiceIds : Issued(j) => Issued(j)'
    BY <1>8, <1>14, <1>15 DEF Issued, Exists
<1>21. DunningShape'
  <2>1. ASSUME NEW v \in Workers, dunning'[v].pc # "idle"
        PROVE  /\ dunning'[v].invoice \in InvoiceIds
               /\ Issued(dunning[v].invoice)
               /\ dunning'[v].invoice = dunning[v].invoice
               /\ dunning'[v].pc = "freeze" =>
                     invoices[dunning[v].invoice].enrollmentId # None
    <3>1. CASE v = w
      BY <1>1, <1>6, <1>9, <1>10, <1>16, <3>1 DEF Issued, Exists
    <3>2. CASE v # w
      BY <1>16, <2>1, <3>2 DEF CollectInv, DunningShape
    <3>. QED
      BY <3>1, <3>2
  <2>2. \A j \in InvoiceIds : invoices'[j].enrollmentId = invoices[j].enrollmentId
    BY <1>8, <1>15
  <2>. QED
    BY <2>1, <2>2, <1>20 DEF DunningShape
<1>22. ASSUME NEW v \in Workers PROVE InTime(v)'
  <2>1. CASE v = w
    BY <1>7, <1>9, <1>16, <2>1 DEF InTime
  <2>2. CASE v # w /\ dunning[v].pc \in {"read", "step"}
    <3>1. PICK j \in InvoiceIds : dunning[v].invoice = j
      BY <2>2 DEF CollectInv, DunningShape
    <3>2. dunning[v].stage \in Nat
      BY DEF CollectInv, CollectingTypeOK, Dunning
    <3>3. CASE j = i
      BY <1>3, <1>6, <1>8, <1>15, <1>16, <2>2, <3>1, <3>2, <3>3 DEF CollectInv, InTime
    <3>4. CASE j # i
      BY <1>6, <1>15, <1>16, <2>2, <3>1, <3>4 DEF CollectInv, InTime
    <3>. QED
      BY <3>3, <3>4
  <2>3. CASE v # w /\ dunning[v].pc \notin {"read", "step"}
    BY <1>16, <2>3 DEF InTime
  <2>. QED
    BY <2>1, <2>2, <2>3
<1>23. SuspendedWithInvoice'
  <2>1. ASSUME NEW j \in InvoiceIds, crashes = 0, invoices'[j].status = "uncollectible",
               invoices'[j].enrollmentId # None,
               ~\E v \in Workers : dunning'[v].pc = "freeze" /\ dunning'[v].invoice = j
        PROVE  enrollments[invoices'[j].enrollmentId].status \in {"frozen", "cancelled"}
    <3>1. CASE j = i
      BY <1>8, <1>9, <1>10, <1>15, <1>16, <2>1, <3>1
    <3>2. CASE j # i
      <4>1. ~\E v \in Workers : dunning[v].pc = "freeze" /\ dunning[v].invoice = j
        BY <1>6, <1>16, <2>1
      <4>. QED
        BY <1>15, <2>1, <3>2, <4>1 DEF CollectInv, SuspendedWithInvoice
    <3>. QED
      BY <3>1, <3>2
  <2>. QED
    BY <1>6, <2>1 DEF SuspendedWithInvoice
<1>. QED
    BY <1>17, <1>18, <1>19, <1>21, <1>22, <1>23 DEF CollectInv

-----------------------------------------------------------------------------
(* The step that suspends.                                                 *)
LEMMA SuspendKeeps ==
    ASSUME CollectInv, NEW w \in Workers, Suspend(w)
    PROVE  CollectInv'
<1>1. PICK i \in InvoiceIds : dunning[w].invoice = i
    BY DEF CollectInv, DunningShape, Suspend
<1>2. PICK e \in Enrollments : invoices[i].enrollmentId = e
    BY <1>1 DEF CollectInv, CollectingTypeOK, StoreTypeOK, Invoice, DunningShape, Suspend
<1>3. PICK rec : rec = [dunning[w] EXCEPT !.pc = "notice"]
    OBVIOUS
<1>4. rec \in Dunning /\ rec.pc = "notice" /\ rec.invoice = i
    BY <1>1, <1>3 DEF CollectInv, CollectingTypeOK, Dunning
<1>5. /\ dunning[w].pc = "freeze"
      /\ enrollments' = [enrollments EXCEPT ![e].status = "frozen"]
      /\ dunning' = [dunning EXCEPT ![w] = rec]
      /\ UNCHANGED <<today, invoices, counter, payments, crashes,
                     results, settling, notices>>
    BY <1>1, <1>2, <1>3 DEF Suspend, SetEnrollmentStatus
<1>6. /\ dunning' \in [Workers -> Dunning]
      /\ dunning'[w] = rec
      /\ \A v \in Workers \ {w} : dunning'[v] = dunning[v]
    BY <1>4, <1>5, DunningIs
<1>7. /\ enrollments' \in [Enrollments -> Enrollment]
      /\ enrollments'[e].status = "frozen"
      /\ \A x \in Enrollments \ {e} : enrollments'[x] = enrollments[x]
    BY <1>5 DEF CollectInv, CollectingTypeOK, StoreTypeOK, Enrollment, EnrollmentStatuses
<1>8. CollectingTypeOK'
    BY <1>5, <1>6, <1>7 DEF CollectInv, CollectingTypeOK, StoreTypeOK
<1>9. SettlingShape' /\ (\A r \in Requests : Recorded(r)') /\ FewAttempts'
    BY <1>5 DEF CollectInv, SettlingShape, Recorded, FewAttempts
<1>10. \A j \in InvoiceIds : (Backed(j) /\ Ladder(j))'
    BY <1>5 DEF CollectInv, Backed, Attempts, Ladder, OffLadder, OnLadder, GivenUp
<1>11. DunningShape' /\ \A v \in Workers : InTime(v)'
    BY <1>1, <1>4, <1>5, <1>6 DEF CollectInv, DunningShape, Issued, Exists, InTime
<1>12. SuspendedWithInvoice'
  <2>1. ASSUME NEW j \in InvoiceIds, crashes = 0, invoices[j].status = "uncollectible",
               invoices[j].enrollmentId # None,
               ~\E v \in Workers : dunning'[v].pc = "freeze" /\ dunning'[v].invoice = j
        PROVE  enrollments'[invoices[j].enrollmentId].status \in {"frozen", "cancelled"}
    <3>1. invoices[j].enrollmentId \in Enrollments
      BY <2>1 DEF CollectInv, CollectingTypeOK, StoreTypeOK, Invoice
    <3>2. CASE invoices[j].enrollmentId = e
      BY <1>7, <3>2
    <3>3. CASE invoices[j].enrollmentId # e
      <4>1. j # i
        BY <1>2, <3>3
      <4>2. ~\E v \in Workers : dunning[v].pc = "freeze" /\ dunning[v].invoice = j
        BY <1>1, <1>6, <2>1, <4>1
      <4>. QED
        BY <1>7, <2>1, <3>1, <3>3, <4>2 DEF CollectInv, SuspendedWithInvoice
    <3>. QED
      BY <3>2, <3>3
  <2>. QED
    BY <1>5, <2>1 DEF SuspendedWithInvoice
<1>. QED
    BY <1>8, <1>9, <1>10, <1>11, <1>12 DEF CollectInv

-----------------------------------------------------------------------------
(* What goes on around: the clock, the enrolment endpoints and whatever    *)
(* issues invoices.  An issued invoice is left alone, one that is not      *)
(* issued comes out of it off the ladder, and a suspension is not undone.  *)
Started(i) ==
    /\ invoices[i].status \in {"draft", "open"}
    /\ OffLadder(i)
    /\ invoices[i].status = "open" => invoices[i].dueAt \in Nat

Around ==
    /\ UNCHANGED <<payments, collectionVars>>
    /\ StoreTypeOK'
    /\ today <= today' /\ crashes <= crashes'
    /\ \A e \in Enrollments :
          enrollments[e].status \in {"frozen", "cancelled"} =>
              enrollments'[e].status \in {"frozen", "cancelled"}
    /\ \A i \in InvoiceIds : \/ invoices'[i] = invoices[i]
                             \/ ~Issued(i) /\ Started(i)'

LEMMA AroundKeeps ==
    ASSUME CollectInv, Around
    PROVE  CollectInv'
<1>1. UNCHANGED <<payments, results, settling, dunning, notices>>
    BY DEF Around, collectionVars
<1>2. /\ today \in Nat /\ today' \in Nat /\ today <= today'
      /\ crashes \in Nat /\ crashes' \in Nat /\ crashes <= crashes'
    BY ConstantsAssumption DEF Around, CollectInv, CollectingTypeOK, StoreTypeOK, Days
<1>3. CollectingTypeOK'
    BY <1>1 DEF Around, CollectInv, CollectingTypeOK
<1>4. SettlingShape' /\ (\A r \in Requests : Recorded(r)') /\ FewAttempts'
    BY <1>1 DEF CollectInv, SettlingShape, Recorded, FewAttempts
<1>5. \A i \in InvoiceIds : Issued(i) => invoices'[i] = invoices[i]
    BY DEF Around
<1>6. ASSUME NEW i \in InvoiceIds PROVE Backed(i)' /\ Ladder(i)'
  <2>1. CASE invoices'[i] = invoices[i]
    <3>1. Backed(i)' /\ (invoices[i].status # "uncollectible" => Ladder(i)')
      BY <1>1, <2>1 DEF CollectInv, Backed, Attempts, Ladder, OffLadder, OnLadder
    <3>2. ASSUME invoices[i].status = "uncollectible" PROVE GivenUp(i)'
      <4>1. /\ invoices[i].dueAt \in Nat
            /\ invoices[i].dunningStage = SuspendStage
            /\ invoices[i].nextRetryAt = None
            /\ invoices[i].dueAt + (SuspendStage - 1) * RetryDays < today
        BY <3>2 DEF CollectInv, Ladder, GivenUp
      <4>2. SuspendStage - 1 \in Nat
        BY ConstantsAssumption
      <4>3. PICK wait \in Nat : wait = (SuspendStage - 1) * RetryDays
        BY <4>2, NextRung
      <4>4. invoices[i].dueAt + wait < today'
        BY <1>2, <4>1, <4>3
      <4>. QED
        BY <2>1, <4>1, <4>3, <4>4 DEF GivenUp
    <3>. QED
      BY <2>1, <3>1, <3>2 DEF Ladder
  <2>2. CASE Started(i)'
    <3>1. /\ Backed(i)' /\ invoices'[i].status \in {"draft", "open"}
          /\ invoices'[i].dunningStage = 0 /\ invoices'[i].nextRetryAt = None
          /\ invoices'[i].status = "open" => invoices'[i].dueAt \in Nat
      BY <2>2 DEF Started, Backed, OffLadder
    <3>. QED
      BY <3>1, ConstantsAssumption DEF Ladder, OnLadder, OffLadder
  <2>. QED
    BY <2>1, <2>2 DEF Around
<1>7. DunningShape'
    BY <1>1, <1>5 DEF CollectInv, DunningShape, Issued, Exists
<1>8. ASSUME NEW w \in Workers PROVE InTime(w)'
  <2>1. CASE dunning[w].pc \in {"read", "step"}
    <3>1. PICK i \in InvoiceIds : dunning[w].invoice = i /\ Issued(i)
      BY <2>1 DEF CollectInv, DunningShape
    <3>2. invoices'[i] = invoices[i] /\ dunning[w].day \in Nat
      BY <1>5, <3>1, ConstantsAssumption DEF CollectInv, CollectingTypeOK, Dunning, Days
    <3>3. invoices[i].status = "open" => invoices[i].dueAt \in Nat
      BY DEF CollectInv, Ladder, OnLadder
    <3>. QED
      BY <1>1, <1>2, <3>1, <3>2, <3>3 DEF CollectInv, InTime
  <2>2. CASE dunning[w].pc \notin {"read", "step"}
    BY <1>1, <2>2 DEF InTime
  <2>. QED
    BY <2>1, <2>2
<1>9. SuspendedWithInvoice'
  <2>1. ASSUME NEW i \in InvoiceIds, crashes' = 0, invoices'[i].status = "uncollectible",
               invoices'[i].enrollmentId # None,
               ~\E w \in Workers : dunning[w].pc = "freeze" /\ dunning[w].invoice = i
        PROVE  enrollments'[invoices'[i].enrollmentId].status \in {"frozen", "cancelled"}
    <3>1. invoices'[i] = invoices[i]
      BY <2>1 DEF Around, Started
    <3>2. invoices[i].enrollmentId \in Enrollments
      BY <2>1, <3>1 DEF CollectInv, CollectingTypeOK, StoreTypeOK, Invoice
    <3>3. enrollments[invoices[i].enrollmentId].status \in {"frozen", "cancelled"}
      BY <1>2, <2>1, <3>1 DEF CollectInv, SuspendedWithInvoice
    <3>. QED
      BY <3>1, <3>2, <3>3 DEF Around
  <2>. QED
    BY <1>1, <2>1 DEF SuspendedWithInvoice
<1>. QED
    BY <1>3, <1>4, <1>6, <1>7, <1>8, <1>9 DEF CollectInv

-----------------------------------------------------------------------------
(* A step of an execution that collects.                                   *)
LEMMA CrashIsDying ==
    ASSUME CollectInv, CrashStep
    PROVE  Dying /\ crashes < crashes'
BY ConstantsAssumption DEF CollectInv, CollectingTypeOK, StoreTypeOK, CrashStep, Dying

LEMMA CalmIsDying ==
    ASSUME CollectInv, UNCHANGED crashes
    PROVE  Dying
BY ConstantsAssumption DEF CollectInv, CollectingTypeOK, StoreTypeOK, Dying

LEMMA DeliveryKeeps ==
    ASSUME CollectInv, NEW r \in Requests,
           \/ \E k \in PaymentKeys : ReadAttempts(r, k)
           \/ RefuseAttempt(r) \/ CrashSettling(r)
    PROVE  CollectInv'
<1>1. CASE \E k \in PaymentKeys : ReadAttempts(r, k)
  <2>1. PICK k \in PaymentKeys : ReadAttempts(r, k)
    BY <1>1
  <2>2. PICK n : n = Cardinality(Attempts(results[k].invoiceId))
    OBVIOUS
  <2>3. n \in Nat
    <3>1. Attempts(results[k].invoiceId) \subseteq {x \in PaymentKeys : payments[x] # None}
      BY DEF Attempts
    <3>2. IsFiniteSet(Attempts(results[k].invoiceId))
      BY <3>1, FS_Subset DEF CollectInv, FewAttempts
    <3>. QED
      BY <2>2, <3>2, FS_CardinalityType
  <2>4. PICK rec : rec = [pc |-> "create", key |-> k, attemptNo |-> n + 1]
    OBVIOUS
  <2>5. rec \in Settling /\ rec.pc = "create" /\ rec.key = k
    BY <2>3, <2>4 DEF Settling
  <2>6. /\ settling' = [settling EXCEPT ![r] = rec] /\ results[k] # None
        /\ UNCHANGED <<storeVars, results, dunning, notices>>
    BY <2>1, <2>2, <2>4 DEF ReadAttempts
  <2>. QED
    BY <2>5, <2>6, SettlingKeeps, CalmIsDying DEF storeVars
<1>2. CASE RefuseAttempt(r)
    BY <1>2, SettlingKeeps, CalmIsDying, IdleFields DEF RefuseAttempt, storeVars
<1>3. CASE CrashSettling(r)
    BY <1>3, SettlingKeeps, CrashIsDying, IdleFields DEF CrashSettling, CrashStep
<1>. QED
    BY <1>1, <1>2, <1>3

LEMMA SweepKeepsLadder ==
    ASSUME CollectInv, NEW w \in Workers, NEW i \in InvoiceIds, SweepInvoice(w, i)
    PROVE  CollectInv'
<1>1. PICK rec : rec = [IdleDunning EXCEPT !.pc = "read", !.invoice = i]
    OBVIOUS
<1>2. rec \in Dunning /\ rec.pc = "read" /\ rec.invoice = i
    BY <1>1, IdleFields DEF Dunning
<1>3. /\ dunning' = [dunning EXCEPT ![w] = rec] /\ dunning[w].pc = "idle" /\ Dunnable(i)
      /\ UNCHANGED <<storeVars, results, settling, notices>>
    BY <1>1 DEF SweepInvoice
<1>4. notices' \in [InvoiceIds -> SUBSET Nat] /\ dunning'[w] = rec
    BY <1>2, <1>3, DunningIs DEF CollectInv, CollectingTypeOK
<1>5. Issued(i) /\ InTime(w)'
    BY <1>2, <1>3, <1>4 DEF Dunnable, Issued, Exists, InTime, storeVars
<1>. QED
    BY <1>2, <1>3, <1>4, <1>5, DunningKeeps, CalmIsDying DEF storeVars

LEMMA ReadInvoiceKeeps ==
    ASSUME CollectInv, NEW w \in Workers, ReadInvoice(w)
    PROVE  CollectInv'
<1>1. PICK i \in InvoiceIds : dunning[w].invoice = i
    BY DEF CollectInv, DunningShape, ReadInvoice
<1>2. PICK s \in Nat : s = invoices[i].dunningStage
    BY DEF CollectInv, CollectingTypeOK, StoreTypeOK, Invoice
<1>3. PICK rec : rec = [dunning[w] EXCEPT !.pc = "step", !.stage = s, !.day = today]
    OBVIOUS
<1>4. /\ rec \in Dunning /\ rec.pc = "step" /\ rec.invoice = i /\ rec.stage = s
      /\ rec.day = today
    BY <1>1, <1>3 DEF CollectInv, CollectingTypeOK, StoreTypeOK, Dunning
<1>5. /\ dunning' = [dunning EXCEPT ![w] = rec] /\ dunning[w].pc = "read"
      /\ invoices[i].status = "open" /\ ~InRetryWindow(i)
      /\ UNCHANGED <<storeVars, results, settling, notices>>
    BY <1>1, <1>2, <1>3 DEF ReadInvoice
<1>6. notices' \in [InvoiceIds -> SUBSET Nat] /\ dunning'[w] = rec
    BY <1>4, <1>5, DunningIs DEF CollectInv, CollectingTypeOK
<1>7. PICK due \in Nat : /\ invoices[i].dueAt = due /\ due < today
                         /\ OnLadder(i)
    BY <1>1, <1>5 DEF CollectInv, InTime, Ladder, OnLadder
<1>8. due + s * RetryDays < today
  <2>1. today \in Nat
    BY ConstantsAssumption DEF CollectInv, CollectingTypeOK, StoreTypeOK, Days
  <2>2. CASE s = 0
    <3>1. s * RetryDays = 0
      BY <2>2, ConstantsAssumption
    <3>. QED
      BY <1>7, <3>1
  <2>3. CASE s # 0
    <3>1. PICK climbed \in Nat : climbed = s * RetryDays
      BY NextRung
    <3>2. PICK retry \in Nat : invoices[i].nextRetryAt = retry /\ due + climbed < retry
      BY <1>2, <1>7, <2>3, <3>1
      DEF OnLadder, CollectInv, CollectingTypeOK, StoreTypeOK, Invoice
    <3>3. retry <= today
      BY <1>5, <2>1, <3>2, ConstantsAssumption DEF InRetryWindow
    <3>. QED
      BY <2>1, <3>1, <3>2, <3>3
  <2>. QED
    BY <2>2, <2>3
<1>9. today <= today
    BY ConstantsAssumption DEF CollectInv, CollectingTypeOK, StoreTypeOK, Days
<1>10. Issued(i) /\ InTime(w)'
    BY <1>2, <1>4, <1>5, <1>6, <1>7, <1>8, <1>9 DEF Issued, Exists, InTime, storeVars
<1>. QED
    BY <1>4, <1>5, <1>6, <1>10, DunningKeeps, CalmIsDying DEF storeVars

LEMMA DunningMoves ==
    ASSUME CollectInv, NEW w \in Workers,
           \/ NothingToAdvance(w) \/ LoseStep(w) \/ Reread(w)
           \/ Notify(w) \/ CrashDunning(w)
    PROVE  CollectInv'
<1>1. dunning[w].pc # "idle"
    BY DEF NothingToAdvance, LoseStep, Reread, Notify, CrashDunning
<1>2. PICK i \in InvoiceIds : dunning[w].invoice = i /\ Issued(i)
    BY <1>1 DEF CollectInv, DunningShape
<1>3. dunning[w] \in Dunning /\ invoices[i].dunningStage \in Nat
    BY DEF CollectInv, CollectingTypeOK, StoreTypeOK, Invoice
<1>4. notices \in [InvoiceIds -> SUBSET Nat]
    BY DEF CollectInv, CollectingTypeOK
<1>5. CASE NothingToAdvance(w) \/ Reread(w)
  <2>1. PICK s \in Nat : s = StageNow(i)
    BY <1>3 DEF StageNow
  <2>2. PICK rec : rec = [dunning[w] EXCEPT !.pc = "notice", !.stage = s]
    OBVIOUS
  <2>3. rec \in Dunning /\ rec.pc = "notice" /\ rec.invoice = i
    BY <1>2, <1>3, <2>2 DEF Dunning
  <2>4. /\ dunning' = [dunning EXCEPT ![w] = rec] /\ dunning[w].pc # "freeze"
        /\ UNCHANGED <<storeVars, results, settling, notices>>
    BY <1>2, <1>5, <2>1, <2>2 DEF NothingToAdvance, Reread
  <2>5. dunning'[w] = rec
    BY <2>3, <2>4, DunningIs
  <2>6. InTime(w)'
    BY <2>3, <2>5 DEF InTime
  <2>. QED
    BY <1>2, <1>4, <2>3, <2>4, <2>6, DunningKeeps, CalmIsDying DEF storeVars
<1>6. CASE LoseStep(w)
  <2>1. PICK rec : rec = [dunning[w] EXCEPT !.pc = "reread"]
    OBVIOUS
  <2>2. rec \in Dunning /\ rec.pc = "reread" /\ rec.invoice = i
    BY <1>2, <1>3, <2>1 DEF Dunning
  <2>3. /\ dunning' = [dunning EXCEPT ![w] = rec] /\ dunning[w].pc # "freeze"
        /\ UNCHANGED <<storeVars, results, settling, notices>>
    BY <1>6, <2>1 DEF LoseStep
  <2>4. dunning'[w] = rec
    BY <2>2, <2>3, DunningIs
  <2>5. InTime(w)'
    BY <2>2, <2>4 DEF InTime
  <2>. QED
    BY <1>2, <1>4, <2>2, <2>3, <2>5, DunningKeeps, CalmIsDying DEF storeVars
<1>7. CASE Notify(w) \/ CrashDunning(w)
  <2>1. /\ dunning' = [dunning EXCEPT ![w] = IdleDunning]
        /\ UNCHANGED <<today, enrollments, invoices, counter, payments, results, settling>>
    BY <1>7 DEF Notify, CrashDunning, CrashStep, storeVars
  <2>2. notices' \in [InvoiceIds -> SUBSET Nat]
    <3>1. CASE Notify(w)
      <4>1. PICK s \in Nat : dunning[w].stage = s
        BY <1>3 DEF Dunning
      <4>2. notices' = [notices EXCEPT ![i] = @ \cup {s}]
        BY <1>2, <3>1, <4>1 DEF Notify
      <4>. QED
        BY <1>4, <4>2
    <3>2. CASE CrashDunning(w)
      BY <1>4, <3>2 DEF CrashDunning
    <3>. QED
      BY <1>7, <3>1, <3>2
  <2>3. Dying /\ (dunning[w].pc = "freeze" => crashes < crashes')
    BY <1>7, CrashIsDying, CalmIsDying DEF Notify, CrashDunning, storeVars
  <2>4. dunning'[w] = IdleDunning
    BY <2>1, IdleFields, DunningIs
  <2>5. InTime(w)'
    BY <2>4, IdleFields DEF InTime
  <2>. QED
    BY <2>1, <2>2, <2>3, <2>5, IdleFields, DunningKeeps
<1>. QED
    BY <1>5, <1>6, <1>7

LEMMA CollectingKeeps ==
    ASSUME CollectInv, CollectingNext
    PROVE  CollectInv'
<1>1. ASSUME NEW k \in PaymentKeys, ProviderDecides(k) PROVE CollectInv'
    BY <1>1, ProviderKeeps
<1>2. ASSUME NEW r \in Requests, NEW k \in PaymentKeys, ReadAttempts(r, k) PROVE CollectInv'
    BY <1>2, DeliveryKeeps
<1>3. ASSUME NEW r \in Requests, SettlingStep(r) \/ CrashSettling(r) PROVE CollectInv'
    BY <1>3, AttemptKeeps, SettleKeeps, DeliveryKeeps DEF SettlingStep
<1>4. ASSUME NEW w \in Workers, NEW i \in InvoiceIds, SweepInvoice(w, i) PROVE CollectInv'
    BY <1>4, SweepKeepsLadder
<1>5. ASSUME NEW w \in Workers, DunningStep(w) \/ CrashDunning(w) PROVE CollectInv'
    BY <1>5, ReadInvoiceKeeps, StepKeeps, SuspendKeeps, DunningMoves DEF DunningStep
<1>. QED
    BY <1>1, <1>2, <1>3, <1>4, <1>5 DEF CollectingNext

-----------------------------------------------------------------------------
(* The surroundings of CollectingSpec.                                     *)
LEMMA StoreIsAround ==
    ASSUME StoreTypeOK, StoreNext, UNCHANGED collectionVars
    PROVE  Around
<1>a. today <= today /\ crashes <= crashes
    BY ConstantsAssumption DEF StoreTypeOK, Days
<1>1. ASSUME NEW e \in Enrollments, Enroll(e) PROVE Around
  <2>1. PICK start \in Days :
            enrollments' = [enrollments EXCEPT ![e] =
                               [NoEnrollment EXCEPT !.status = "active", !.startDate = start]]
    BY <1>1 DEF Enroll
  <2>2. PICK doc : doc = [NoEnrollment EXCEPT !.status = "active", !.startDate = start]
    OBVIOUS
  <2>3. doc \in Enrollment
    <3>1. start \in Nat
      BY ConstantsAssumption DEF Days
    <3>. QED
      BY <2>2, <3>1, NoEnrollmentFields DEF Enrollment, EnrollmentStatuses
  <2>4. /\ enrollments' = [enrollments EXCEPT ![e] = doc] /\ enrollments[e].status = "absent"
        /\ UNCHANGED <<today, invoices, counter, payments, crashes>>
    BY <1>1, <2>1, <2>2 DEF Enroll
  <2>5. /\ enrollments' \in [Enrollments -> Enrollment]
        /\ \A x \in Enrollments \ {e} : enrollments'[x] = enrollments[x]
    BY <2>3, <2>4 DEF StoreTypeOK
  <2>. QED
    BY <1>a, <2>4, <2>5 DEF Around, StoreTypeOK
<1>2. ASSUME NEW e \in Enrollments, Freeze(e) \/ Cancel(e) PROVE Around
  <2>1. PICK s \in {"frozen", "cancelled"} :
            enrollments' = [enrollments EXCEPT ![e].status = s]
    BY <1>2 DEF Freeze, Cancel, SetEnrollmentStatus
  <2>2. /\ enrollments' \in [Enrollments -> Enrollment] /\ enrollments'[e].status = s
        /\ \A x \in Enrollments \ {e} : enrollments'[x] = enrollments[x]
    BY <2>1 DEF StoreTypeOK, Enrollment, EnrollmentStatuses
  <2>3. UNCHANGED <<today, invoices, counter, payments, crashes>>
    BY <1>2 DEF Freeze, Cancel
  <2>4. StoreTypeOK'
    BY <2>2, <2>3 DEF StoreTypeOK
  <2>. QED
    BY <1>a, <2>2, <2>3, <2>4 DEF Around
<1>3. ASSUME NextDay PROVE Around
    BY <1>3, ConstantsAssumption DEF NextDay, Around, StoreTypeOK, Days
<1>. QED
    BY <1>1, <1>2, <1>3 DEF StoreNext

LEMMA IssueIsAround ==
    ASSUME StoreTypeOK, UNCHANGED collectionVars,
           NEW i \in InvoiceIds, NEW e \in Enrollments \cup {None}, IssueInvoice(i, e)
    PROVE  Around
<1>1. PICK n : n = NextNumber(YearOf[today])
    OBVIOUS
<1>2. today \in Nat /\ YearOf[today] \in Years /\ YearOf[today] \in Nat
    BY YearTypes, ConstantsAssumption DEF StoreTypeOK, Days
<1>3. n \in InvoiceNumber
    BY <1>1, <1>2 DEF NextNumber, InvoiceNumber, StoreTypeOK
<1>4. PICK start \in Nat \cup {None}, end \in Nat \cup {None} :
          /\ start = (IF e = None THEN None ELSE today)
          /\ end = (IF e = None THEN None ELSE PeriodEnd(e, today))
    BY <1>2, PeriodEndTypes
<1>5. PICK due \in Nat : due = today + DueDays
    BY <1>2, ConstantsAssumption
<1>6. PICK doc : doc = [NoInvoice EXCEPT !.status = "open", !.number = n,
                            !.enrollmentId = e, !.periodStart = start, !.periodEnd = end,
                            !.issuedAt = today, !.dueAt = due]
    OBVIOUS
<1>7. /\ doc \in Invoice /\ doc.status = "open" /\ doc.dunningStage = 0
      /\ doc.nextRetryAt = None /\ doc.dueAt = due
    BY <1>2, <1>3, <1>6 DEF NoInvoice, Invoice, InvoiceStatuses
<1>8. /\ invoices' = [invoices EXCEPT ![i] = doc] /\ ~Exists(i)
      /\ counter' = [counter EXCEPT ![YearOf[today]] = @ + 1]
      /\ UNCHANGED <<today, enrollments, payments, crashes>>
    BY <1>1, <1>4, <1>5, <1>6 DEF IssueInvoice, AllocateInvoiceNumber
<1>9. /\ invoices' \in [InvoiceIds -> Invoice] /\ invoices'[i] = doc
      /\ \A j \in InvoiceIds \ {i} : invoices'[j] = invoices[j]
    BY <1>7, <1>8 DEF StoreTypeOK
<1>10. counter' \in [Years -> Nat]
    BY <1>2, <1>8 DEF StoreTypeOK
<1>11. StoreTypeOK'
    BY <1>8, <1>9, <1>10 DEF StoreTypeOK
<1>12. Started(i)' /\ ~Issued(i)
    BY <1>7, <1>8, <1>9 DEF Started, OffLadder, Issued
<1>. QED
    BY <1>8, <1>9, <1>11, <1>12, ConstantsAssumption DEF Around, StoreTypeOK, Days

LEMMA CollectInvStep ==
    ASSUME CollectInv, [CollectingNext \/ Surroundings]_collectingVars
    PROVE  CollectInv'
<1>1. CASE CollectingNext
    BY <1>1, CollectingKeeps
<1>2. CASE Surroundings
    BY <1>2, StoreIsAround, IssueIsAround, AroundKeeps
    DEF Surroundings, CollectInv, CollectingTypeOK
<1>3. CASE UNCHANGED collectingVars
  <2>1. Around
    BY <1>3, ConstantsAssumption
    DEF Around, collectingVars, storeVars, collectionVars, StoreTypeOK, CollectInv,
        CollectingTypeOK, Days
  <2>. QED
    BY <2>1, AroundKeeps
<1>. QED
    BY <1>1, <1>2, <1>3

LEMMA CollectInvariant == CollectingSpec => []CollectInv
BY CollectInvInit, CollectInvStep, PTL DEF CollectingSpec

-----------------------------------------------------------------------------
(* Collecting on its own.                                                  *)

\* What the invariant says of the ladder and of what is paid.
LEMMA CollectInvGives ==
    ASSUME CollectInv
    PROVE  /\ CollectingTypeOK /\ PaidIsPaidFor /\ LadderConsistent
           /\ WholeLadder /\ SuspendedWithInvoice
<1>1. ASSUME NEW i \in InvoiceIds, invoices[i].status = "uncollectible"
      PROVE  today > invoices[i].dueAt + (SuspendStage - 1) * RetryDays
  <2>1. /\ invoices[i].dueAt \in Nat
        /\ invoices[i].dueAt + (SuspendStage - 1) * RetryDays < today
    BY <1>1 DEF CollectInv, Ladder, GivenUp
  <2>. QED
    BY <2>1
<1>. QED
    BY <1>1
    DEF CollectInv, PaidIsPaidFor, LadderConsistent, WholeLadder, Backed, Ladder,
        OffLadder, OnLadder, GivenUp

(* Types of the store and of the executions that collect, however many     *)
(* deliveries repeat a result and however many jobs run and die.           *)
THEOREM CollectingTyped == CollectingSpec => []CollectingTypeOK
BY CollectInvariant, CollectInvGives, PTL

(* An invoice is paid only when a succeeded attempt is on record for it,   *)
(* and no dunning job leaves a paid one on the ladder.                     *)
THEOREM PaidWhenPaidFor == CollectingSpec => []PaidIsPaidFor
BY CollectInvariant, CollectInvGives, PTL

(* Stage, status and retry date of an invoice agree, whichever jobs climb  *)
(* side by side and whichever payment comes in between.                    *)
THEOREM LadderAgrees == CollectingSpec => []LadderConsistent
BY CollectInvariant, CollectInvGives, PTL

(* No job, repeated, late or run beside another, gives an invoice up       *)
(* before a full retry period for every rung has passed.                   *)
THEOREM LadderClimbedInFull == CollectingSpec => []WholeLadder
BY CollectInvariant, CollectInvGives, PTL

(* As long as no execution has died, an invoice that is given up takes the *)
(* enrolment it bills out of active with it.                               *)
THEOREM GivenUpIsSuspended == CollectingSpec => []SuspendedWithInvoice
BY CollectInvariant, CollectInvGives, PTL

\* No step but the one of a result takes an issued invoice to paid, and none
\* takes it back.
LEMMA PaidStays ==
    ASSUME CollectInv, CollectingNext \/ Around,
           NEW i \in InvoiceIds, invoices[i].status = "paid"
    PROVE  invoices'[i].status = "paid"
<1>1. CASE Around
    BY <1>1 DEF Around, Issued, Exists
<1>2. ASSUME NEW r \in Requests, Settle(r) PROVE invoices'[i].status = "paid"
    BY <1>2 DEF Settle, MarkPaid, CollectInv, CollectingTypeOK, StoreTypeOK, Invoice
<1>3. ASSUME NEW w \in Workers, Step(w) PROVE invoices'[i].status = "paid"
    BY <1>3 DEF Step, AdvanceDunningStep, CanStep, CollectInv, CollectingTypeOK, StoreTypeOK
<1>4. CASE CollectingNext /\ UNCHANGED invoices
    BY <1>4
<1>5. CollectingNext => \/ \E r \in Requests : Settle(r)
                        \/ \E w \in Workers : Step(w)
                        \/ UNCHANGED invoices
    BY DEF CollectingNext, SettlingStep, DunningStep, ProviderDecides, ReadAttempts,
           RecordAttempt, RefuseAttempt, CrashSettling, CrashStep, SweepInvoice, ReadInvoice,
           NothingToAdvance, LoseStep, Reread, Suspend, Notify, CrashDunning, storeVars
<1>. QED
    BY <1>1, <1>2, <1>3, <1>4, <1>5

(* A payment is never undone: no step, and no job that read the invoice    *)
(* while it was open, takes it out of paid.                                *)
THEOREM PaidForGood == CollectingSpec => PaidIsFinal
<1>1. ASSUME CollectInv, [CollectingNext \/ Surroundings]_collectingVars
      PROVE  [\A i \in InvoiceIds :
                 invoices[i].status = "paid" => invoices[i]'.status = "paid"]_collectingVars
  <2>1. CASE CollectingNext
    BY <1>1, <2>1, PaidStays
  <2>2. CASE Surroundings
    <3>1. Around
      BY <1>1, <2>2, StoreIsAround, IssueIsAround
      DEF Surroundings, CollectInv, CollectingTypeOK
    <3>. QED
      BY <1>1, <3>1, PaidStays
  <2>3. CASE UNCHANGED collectingVars
    BY <2>3
  <2>. QED
    BY <1>1, <2>1, <2>2, <2>3
<1>. QED
    BY CollectInvariant, <1>1, PTL DEF CollectingSpec, PaidIsFinal

-----------------------------------------------------------------------------
(* Collecting in Billing, with the executions that issue.                  *)

\* A step of the issuing executions that leaves enrolments and invoices
\* alone, or changes one document.
LEMMA IssuingIsAround ==
    ASSUME TypeInv, TypeInv', CollectInv, UNCHANGED collectionVars, IssuingNext
    PROVE  Around
<1>a. /\ today <= today /\ crashes <= crashes
      /\ StoreTypeOK /\ StoreTypeOK'
    BY ConstantsAssumption DEF TypeInv, IssuingTypeOK, StoreTypeOK, Days
<1>1. ASSUME UNCHANGED <<today, enrollments, invoices, payments>>, crashes <= crashes'
      PROVE  Around
    BY <1>a, <1>1 DEF Around
<1>2. ASSUME NEW i \in InvoiceIds, NEW doc, ~Issued(i),
             invoices' = [invoices EXCEPT ![i] = doc],
             doc.status \in {"draft", "open"}, doc.dunningStage = 0, doc.nextRetryAt = None,
             doc.status = "open" => doc.dueAt \in Nat,
             UNCHANGED <<today, enrollments, payments, crashes>>
      PROVE  Around
  <2>1. invoices'[i] = doc /\ \A j \in InvoiceIds \ {i} : invoices'[j] = invoices[j]
    BY <1>a, <1>2 DEF StoreTypeOK
  <2>2. Started(i)'
    BY <1>2, <2>1 DEF Started, OffLadder
  <2>. QED
    BY <1>a, <1>2, <2>1, <2>2 DEF Around
<1>3. ASSUME NEW i \in InvoiceIds, NEW e, NEW start, NEW end, CreateInvoice(i, e, start, end),
             UNCHANGED <<today, enrollments, payments, crashes>>
      PROVE  Around
  <2>1. PICK doc : doc = [NoInvoice EXCEPT !.status = "draft", !.enrollmentId = e,
                                           !.periodStart = start, !.periodEnd = end]
    OBVIOUS
  <2>2. doc.status = "draft" /\ doc.dunningStage = 0 /\ doc.nextRetryAt = None
    BY <2>1 DEF NoInvoice
  <2>3. invoices' = [invoices EXCEPT ![i] = doc] /\ ~Issued(i)
    BY <1>3, <2>1 DEF CreateInvoice, Issued
  <2>. QED
    BY <1>2, <1>3, <2>2, <2>3
<1>4. ASSUME NEW r \in Runs, Claim(r) PROVE Around
  <2>1. run[r].invoice \in InvoiceIds /\ run[r].day \in Nat
    BY <1>4, RunFacts, ConstantsAssumption DEF Claim, HasFields, Run, Days
  <2>2. PICK i \in InvoiceIds, day \in Nat : run[r].invoice = i /\ run[r].day = day
    BY <2>1
  <2>3. PICK due \in Nat : due = day + DueDays
    BY ConstantsAssumption
  <2>4. PICK doc : doc = [invoices[i] EXCEPT !.status = "open", !.issuedAt = day,
                                             !.dueAt = due, !.number = run[r].number]
    OBVIOUS
  <2>5. invoices[i] \in Invoice /\ invoices[i].status = "draft" /\ OffLadder(i)
    BY <1>a, <1>4, <2>2
    DEF Claim, ClaimForIssueWithNumber, CanClaim, CollectInv, Ladder, StoreTypeOK
  <2>6. doc.status = "open" /\ doc.dunningStage = 0 /\ doc.nextRetryAt = None /\ doc.dueAt = due
    BY <2>4, <2>5 DEF Invoice, OffLadder
  <2>7. /\ invoices' = [invoices EXCEPT ![i] = doc]
        /\ UNCHANGED <<today, enrollments, counter, payments, crashes>>
    BY <1>4, <2>2, <2>3, <2>4 DEF Claim, ClaimForIssueWithNumber
  <2>. QED
    BY <1>2, <2>5, <2>6, <2>7 DEF Issued
<1>5. ASSUME NEW r \in Runs, AdvanceCursor(r) PROVE Around
  <2>1. PICK e, end : /\ enrollments' = [enrollments EXCEPT ![e].currentPeriodEnd = end]
                      /\ UNCHANGED <<today, invoices, counter, payments, crashes>>
    BY <1>5 DEF AdvanceCursor, SetCurrentPeriod
  <2>2. \A x \in Enrollments : enrollments'[x].status = enrollments[x].status
    BY <1>a, <2>1 DEF StoreTypeOK, Enrollment
  <2>. QED
    BY <1>a, <2>1, <2>2 DEF Around
<1>6. ASSUME NEW r \in Runs, CrashRun(r) PROVE Around
  <2>1. crashes <= crashes' /\ UNCHANGED <<today, enrollments, invoices, payments>>
    BY <1>a, <1>6, ConstantsAssumption DEF CrashRun, CrashStep, StoreTypeOK
  <2>. QED
    BY <1>1, <2>1
<1>7. ASSUME NEW r \in Runs, RunStep(r) PROVE Around
    BY <1>a, <1>1, <1>3, <1>4, <1>5, <1>7
    DEF RunStep, ReadEnrollment, NotActive, NothingDue, ResumeInvoice, NoInvoiceYet,
        CreatePeriodInvoice, LoseCreateRace, ReadDraft, AlreadyIssued, Allocate, LoseClaim,
        storeVars
<1>8. ASSUME NEW r \in Requests, CreateAdHocInvoice(r) PROVE Around
    BY <1>3, <1>8 DEF CreateAdHocInvoice
<1>9. ASSUME UNCHANGED storeVars PROVE Around
    BY <1>a, <1>1, <1>9 DEF storeVars
<1>. QED
    BY <1>6, <1>7, <1>8, <1>9 DEF IssuingNext, SweepEnrollment, RequestIssue

LEMMA BillingStepTyped ==
    ASSUME TypeInv, CollectInv, [BillingNext]_billingVars
    PROVE  TypeInv' /\ CollectInv'
<1>1. CASE IssuingNext /\ UNCHANGED collectionVars
  <2>1. TypeInv'
    BY <1>1, TypeInvStep DEF IssuingAction
  <2>. QED
    BY <1>1, <2>1, IssuingIsAround, AroundKeeps
<1>2. CASE CollectingNext /\ UNCHANGED run
  <2>1. CollectInv'
    BY <1>2, CollectingKeeps
  <2>. QED
    BY <1>2, <2>1
    DEF CollectInv, CollectingTypeOK, TypeInv, IssuingTypeOK, RunShape, HasFields
<1>3. CASE StoreNext /\ UNCHANGED <<run, collectionVars>>
    BY <1>3, TypeInvStep, StoreIsAround, AroundKeeps
    DEF IssuingAction, TypeInv, IssuingTypeOK
<1>4. CASE UNCHANGED billingVars
  <2>1. TypeInv' /\ UNCHANGED collectingVars
    BY <1>4, TypeInvStep DEF billingVars, issuingVars, collectingVars
  <2>. QED
    BY <2>1, CollectInvStep
<1>. QED
    BY <1>1, <1>2, <1>3, <1>4 DEF BillingNext

LEMMA BillingTyped == BillingSpec => [](TypeInv /\ CollectInv)
<1>1. BillingInit => TypeInv /\ CollectInv
    BY TypeInvInit, CollectInvInit DEF BillingInit
<1>. QED
    BY <1>1, BillingStepTyped, PTL DEF BillingSpec

(* What holds of collecting alone holds when invoices are being issued,    *)
(* charged and dunned at the same time, and billing runs die half-way.     *)
THEOREM CollectsAlongside ==
    BillingSpec => [](/\ PaidIsPaidFor /\ LadderConsistent
                      /\ WholeLadder /\ SuspendedWithInvoice)
BY BillingTyped, CollectInvGives, PTL

-----------------------------------------------------------------------------
(* What collecting leaves to issuing.                                      *)

\* The terms of an invoice, which issuing fixes.
SameTerms(i) ==
    /\ invoices'[i].number = invoices[i].number
    /\ invoices'[i].enrollmentId = invoices[i].enrollmentId
    /\ invoices'[i].periodStart = invoices[i].periodStart
    /\ invoices'[i].periodEnd = invoices[i].periodEnd
    /\ invoices'[i].issuedAt = invoices[i].issuedAt
    /\ invoices'[i].dueAt = invoices[i].dueAt

Charged(i) == \E k \in PaymentKeys : results[k] # None /\ results[k].invoiceId = i

\* The one invoice a collecting step may change.
Touches(i) ==
    /\ \A j \in InvoiceIds \ {i} : invoices'[j] = invoices[j]
    /\ SameTerms(i)
    /\ \/ invoices'[i].status = invoices[i].status
       \/ invoices'[i].status = "paid" /\ Charged(i)
       \/ invoices'[i].status = "uncollectible" /\ invoices[i].status = "open"

LEMMA CollectingTouches ==
    ASSUME CollectInv, CollectingNext
    PROVE  /\ UNCHANGED <<today, counter>>
           /\ UNCHANGED invoices \/ \E i \in InvoiceIds : Touches(i)
           /\ \A e \in Enrollments :
                 /\ enrollments'[e].startDate = enrollments[e].startDate
                 /\ enrollments'[e].currentPeriodEnd = enrollments[e].currentPeriodEnd
                 /\ enrollments[e].status # "absent" => enrollments'[e].status # "absent"
<1> DEFINE Goal == /\ UNCHANGED <<today, counter>>
                   /\ UNCHANGED invoices \/ \E i \in InvoiceIds : Touches(i)
                   /\ \A e \in Enrollments :
                         /\ enrollments'[e].startDate = enrollments[e].startDate
                         /\ enrollments'[e].currentPeriodEnd = enrollments[e].currentPeriodEnd
                         /\ enrollments[e].status # "absent" => enrollments'[e].status # "absent"
<1>1. ASSUME NEW r \in Requests, Settle(r) PROVE Goal
  <2>1. PICK k \in PaymentKeys : settling[r].key = k /\ results[k] # None
    BY <1>1 DEF CollectInv, SettlingShape, Settle
  <2>2. PICK i \in InvoiceIds : results[k].invoiceId = i
    BY <2>1 DEF CollectInv, CollectingTypeOK, Result
  <2>3. /\ invoices' = [invoices EXCEPT ![i].status = "paid", ![i].dunningStage = 0,
                                        ![i].nextRetryAt = None]
        /\ UNCHANGED <<today, enrollments, counter>>
    BY <1>1, <2>1, <2>2 DEF Settle, MarkPaid
  <2>4. SameTerms(i) /\ invoices'[i].status = "paid"
    BY <2>3 DEF CollectInv, CollectingTypeOK, StoreTypeOK, Invoice, SameTerms
  <2>5. \A j \in InvoiceIds \ {i} : invoices'[j] = invoices[j]
    BY <2>3 DEF CollectInv, CollectingTypeOK, StoreTypeOK
  <2>. QED
    BY <2>1, <2>2, <2>3, <2>4, <2>5 DEF Touches, Charged
<1>2. ASSUME NEW w \in Workers, Step(w) PROVE Goal
  <2>1. PICK i \in InvoiceIds : dunning[w].invoice = i
    BY <1>2 DEF CollectInv, DunningShape, Step
  <2>a. PICK stage : stage = dunning[w].stage + 1
    OBVIOUS
  <2>b. PICK status : status = IF IsFinal(stage) THEN "uncollectible" ELSE "open"
    OBVIOUS
  <2>c. PICK retry : retry = IF IsFinal(stage) THEN None ELSE dunning[w].day + RetryDays
    OBVIOUS
  <2>d. AdvanceDunningStep(i, dunning[w].stage, status, retry)
    BY <1>2, <2>1, <2>a, <2>b, <2>c DEF Step
  <2>2. /\ status \in {"uncollectible", "open"}
        /\ invoices' = [invoices EXCEPT ![i].status = status, ![i].dunningStage = stage,
                                        ![i].nextRetryAt = retry]
        /\ invoices[i].status = "open"
    BY <2>a, <2>b, <2>d DEF AdvanceDunningStep, CanStep
  <2>3. SameTerms(i) /\ invoices'[i].status = status
    BY <2>2 DEF CollectInv, CollectingTypeOK, StoreTypeOK, Invoice, SameTerms
  <2>4. \A j \in InvoiceIds \ {i} : invoices'[j] = invoices[j]
    BY <2>2 DEF CollectInv, CollectingTypeOK, StoreTypeOK
  <2>5. UNCHANGED <<today, enrollments, counter>>
    BY <1>2 DEF Step
  <2>. QED
    BY <2>2, <2>3, <2>4, <2>5 DEF Touches
<1>3. ASSUME NEW w \in Workers, Suspend(w) PROVE Goal
  <2>1. PICK e : enrollments' = [enrollments EXCEPT ![e].status = "frozen"]
    BY <1>3 DEF Suspend, SetEnrollmentStatus
  <2>2. UNCHANGED <<today, invoices, counter>>
    BY <1>3 DEF Suspend
  <2>. QED
    BY <2>1, <2>2 DEF CollectInv, CollectingTypeOK, StoreTypeOK, Enrollment
<1>4. CASE UNCHANGED <<today, enrollments, invoices, counter>>
    BY <1>4
<1>. QED
    BY <1>1, <1>2, <1>3, <1>4
    DEF CollectingNext, SettlingStep, DunningStep, ProviderDecides, ReadAttempts,
        RecordAttempt, RefuseAttempt, CrashSettling, CrashStep, SweepInvoice, ReadInvoice,
        NothingToAdvance, LoseStep, Reread, Notify, CrashDunning, storeVars

\* Only what has been issued is charged.
ChargedIsIssued ==
    \A k \in PaymentKeys : results[k] # None => Issued(results[k].invoiceId)

BillingInv ==
    /\ CollectInv
    /\ PeriodsInv
    /\ NumbersInv
    /\ ChargedIsIssued

LEMMA CollectingIssues ==
    ASSUME BillingInv, CollectingNext, NEW i \in InvoiceIds
    PROVE  /\ SameTerms(i)
           /\ Issued(i) <=> Issued(i)'
           /\ Exists(i) <=> Exists(i)'
BY CollectingTouches
DEF BillingInv, ChargedIsIssued, Charged, Touches, SameTerms, Issued, Exists

LEMMA CollectingKeepsIssuing ==
    ASSUME BillingInv, CollectingNext, UNCHANGED run
    PROVE  Kept /\ NumbersKept
<1>1. Monotone
  <2>1. \A i \in InvoiceIds : Exists(i) =>
            /\ invoices'[i].status # "absent"
            /\ Issued(i) => invoices'[i].status # "draft"
            /\ invoices'[i].enrollmentId = invoices[i].enrollmentId
            /\ invoices'[i].periodStart = invoices[i].periodStart
            /\ invoices'[i].periodEnd = invoices[i].periodEnd
    BY CollectingIssues DEF Issued, Exists, SameTerms
  <2>. QED
    BY <2>1, CollectingTouches DEF Monotone, BillingInv
<1>2. NoNewPeriod
    BY CollectingIssues DEF NoNewPeriod, Exists
<1>3. Kept
    BY <1>1, <1>2, CollectingTouches, StoreKeeps DEF BillingInv
<1>4. UNCHANGED counter /\ \A i \in InvoiceIds : SameTerms(i)
    BY CollectingTouches, CollectingIssues DEF BillingInv
<1>5. NumbersUnique' /\ NumbersDated'
    BY <1>4, CollectingIssues
    DEF BillingInv, NumbersInv, NumbersUnique, NumbersDated, SameTerms, Numbered, HeldNumber
<1>6. \A i \in InvoiceIds : /\ invoices'[i].status = "draft" => invoices[i].status = "draft"
                            /\ Issued(i)' => Issued(i)
    BY CollectingIssues DEF Issued, Exists
<1>7. IssuedTogether'
    BY <1>4, <1>6 DEF BillingInv, NumbersInv, IssuedTogether, SameTerms
<1>. QED
    BY <1>3, <1>5, <1>7 DEF NumbersKept

LEMMA BillingInvStep ==
    ASSUME "draft" \notin ChargeableStatuses, BillingInv, [BillingNext]_billingVars
    PROVE  BillingInv'
<1>1. TypeInv' /\ CollectInv'
    BY BillingStepTyped DEF BillingInv, PeriodsInv
<1>2. CASE CollectingNext /\ UNCHANGED run
  <2>1. PeriodsInv' /\ NumbersInv'
    BY <1>1, <1>2, CollectingKeepsIssuing
    DEF PeriodsInv, NumbersInv, Kept, NumbersKept
  <2>2. \A i \in InvoiceIds : Issued(i) => Issued(i)'
    BY <1>2, CollectingIssues
  <2>3. ASSUME NEW k \in PaymentKeys, results'[k] # None
        PROVE  \E i \in InvoiceIds : results'[k].invoiceId = i /\ Issued(i)'
    <3>1. CASE results'[k] = results[k]
      <4>1. PICK i \in InvoiceIds : results[k].invoiceId = i
        BY <2>3, <3>1 DEF BillingInv, CollectInv, CollectingTypeOK, Result
      <4>2. Issued(i)
        BY <2>3, <3>1, <4>1 DEF BillingInv, ChargedIsIssued
      <4>. QED
        BY <2>2, <3>1, <4>1, <4>2
    <3>2. CASE results'[k] # results[k]
      <4>1. PICK x \in PaymentKeys : ProviderDecides(x)
        BY <1>2, <3>2
        DEF CollectingNext, SettlingStep, DunningStep, ReadAttempts, RecordAttempt,
            RefuseAttempt, Settle, CrashSettling, SweepInvoice, ReadInvoice,
            NothingToAdvance, Step, LoseStep, Reread, Suspend, Notify, CrashDunning
      <4>2. PICK i \in InvoiceIds, s \in {"succeeded", "failed"} :
                /\ invoices[i].status \in ChargeableStatuses
                /\ results' = [results EXCEPT ![x] = [invoiceId |-> i, status |-> s]]
        BY <4>1 DEF ProviderDecides
      <4>3. results'[k].invoiceId = i
        BY <3>2, <4>2 DEF BillingInv, CollectInv, CollectingTypeOK
      <4>4. Issued(i)
        BY <4>2, ChargeableAssumption DEF Issued, Exists, InvoiceStatuses
      <4>. QED
        BY <2>2, <4>3, <4>4
    <3>. QED
      BY <3>1, <3>2
  <2>4. ChargedIsIssued'
    BY <2>3 DEF ChargedIsIssued, Issued, Exists
  <2>. QED
    BY <1>1, <2>1, <2>4 DEF BillingInv
<1>3. CASE \/ IssuingNext /\ UNCHANGED collectionVars
           \/ StoreNext /\ UNCHANGED <<run, collectionVars>>
           \/ UNCHANGED billingVars
  <2>1. [IssuingAction]_issuingVars
    BY <1>3 DEF IssuingAction, billingVars, issuingVars
  <2>2. PeriodsInv' /\ NumbersInv'
    BY <2>1, PeriodsInvStep, NumbersInvStep DEF BillingInv
  <2>3. Around \/ UNCHANGED <<invoices, results>>
    BY <1>1, <1>3, IssuingIsAround, StoreIsAround
    DEF BillingInv, PeriodsInv, TypeInv, IssuingTypeOK, billingVars, storeVars, collectionVars
  <2>4. ChargedIsIssued'
    <3>1. UNCHANGED results /\ \A i \in InvoiceIds : Issued(i) => invoices'[i] = invoices[i]
      BY <2>3 DEF Around, collectionVars
    <3>2. \A k \in PaymentKeys : results[k] # None => results[k].invoiceId \in InvoiceIds
      BY DEF BillingInv, CollectInv, CollectingTypeOK, Result
    <3>. QED
      BY <3>1, <3>2 DEF BillingInv, ChargedIsIssued, Issued, Exists
  <2>. QED
    BY <1>1, <2>2, <2>4 DEF BillingInv
<1>. QED
    BY <1>2, <1>3 DEF BillingNext

LEMMA BillingInvInit == BillingInit => BillingInv
BY CollectInvInit, PeriodsInvInit, NumbersInvInit
DEF BillingInit, BillingInv, ChargedIsIssued, CollectingInit

LEMMA BillingInvariant ==
    ASSUME "draft" \notin ChargeableStatuses
    PROVE  BillingSpec => []BillingInv
BY BillingInvInit, BillingInvStep, PTL DEF BillingSpec

(* What holds of issuing alone holds when its invoices are charged, dunned *)
(* and given up, and enrolments suspended, under the runs' feet.           *)
THEOREM IssuesAlongside ==
    ASSUME "draft" \notin ChargeableStatuses
    PROVE  BillingSpec => [](/\ NumbersUnique /\ IssuedTogether
                             /\ NoDoubleBilling /\ NoSkippedPeriod /\ CursorCovered)
<1>1. BillingInv => /\ NumbersUnique /\ IssuedTogether
                    /\ NoDoubleBilling /\ NoSkippedPeriod /\ CursorCovered
    BY DEF BillingInv, NumbersInv, PeriodsInv, InvoicesInv
<1>. QED
    BY <1>1, BillingInvariant, PTL

-----------------------------------------------------------------------------
(* Billing implements the invoice ledger.                                  *)

LEMMA Least ==
    ASSUME NEW S, S \subseteq Nat, S # {}
    PROVE  \E m \in S : \A n \in S : m <= n
<1>1. PICK m \in S : \A n \in S : <<n, m>> \notin OpToRel(<, Nat)
    BY WFMin, NatLessThanWellFounded, Zenon
<1>2. ASSUME NEW n \in S PROVE m <= n
  <2>1. m \in Nat /\ n \in Nat
    OBVIOUS
  <2>2. ~(n < m)
    BY <1>1, <2>1, Zenon DEF OpToRel
  <2>. QED
    BY <2>1, <2>2
<1>. QED
    BY <1>2

\* What the ledger shows of an invoice.
LEMMA LedgerReads ==
    ASSUME StoreTypeOK, NEW i \in InvoiceIds
    PROVE  /\ Issued(i) => /\ Posted[i] = EntryOf[i] /\ Posted[i] # None
                           /\ Standing[i] = invoices[i].status
           /\ ~Issued(i) => Posted[i] = None /\ Standing[i] = "none"
<1>1. EntryOf[i] \in Entry
    BY DEF StoreTypeOK, Invoice, EntryOf, Entry
<1>2. Issued(i) <=> i \in IssuedInvoices
    BY DEF IssuedInvoices
<1>. QED
    BY <1>1, <1>2, EntryAssumption DEF Posted, Standing

LEMMA EntryFields ==
    ASSUME NEW i \in InvoiceIds
    PROVE  /\ EntryOf[i].number = invoices[i].number
           /\ EntryOf[i].enrollmentId = invoices[i].enrollmentId
           /\ EntryOf[i].periodStart = invoices[i].periodStart
           /\ EntryOf[i].periodEnd = invoices[i].periodEnd
BY DEF EntryOf

\* An issued invoice is one of a chain that goes back to the first period
\* of its enrolment: if any is issued, the first one is.
LEMMA FirstIsIssued ==
    ASSUME TypeInv, InvoicesInv, NEW e \in Enrollments, NEW u \in InvoicesOf(e), Issued(u)
    PROVE  \E j \in InvoicesOf(e) :
               Issued(j) /\ invoices[j].periodStart = enrollments[e].startDate
<1> DEFINE S == {invoices[j].periodStart : j \in {k \in InvoicesOf(e) : Issued(k)}}
<1>1. S \subseteq Nat /\ S # {}
    BY DEF InvoicesInv, PlanPeriods
<1>2. PICK m \in S : \A n \in S : m <= n
  <2>. HIDE DEF S
  <2>. QED
    BY <1>1, Least
<1>3. PICK j \in InvoicesOf(e) : Issued(j) /\ invoices[j].periodStart = m
    BY <1>2
<1>4. ASSUME NEW k \in InvoicesOf(e), Issued(k), invoices[k].periodEnd = m PROVE FALSE
  <2>1. invoices[k].periodStart \in Nat /\ invoices[k].periodEnd = PeriodEnd(e, invoices[k].periodStart)
    BY DEF InvoicesInv, PlanPeriods
  <2>2. PICK start \in Nat : start = invoices[k].periodStart
    BY <2>1
  <2>3. start < PeriodEnd(e, start) /\ PeriodEnd(e, start) = m /\ m \in Nat
    BY <1>4, <2>1, <2>2, PeriodEndTypes
  <2>4. m <= start
    BY <1>2, <1>4, <2>2
  <2>. QED
    BY <2>2, <2>3, <2>4
<1>. QED
    BY <1>3, <1>4 DEF InvoicesInv, NoSkippedPeriod

\* Steps that leave the ledger as it is.
LEMMA LedgerStutters ==
    ASSUME StoreTypeOK, StoreTypeOK',
           \A i \in InvoiceIds :
               \/ invoices'[i] = invoices[i]
               \/ ~Issued(i) /\ invoices'[i].status = "draft"
    PROVE  UNCHANGED <<Posted, Standing>>
<1>1. ASSUME NEW i \in InvoiceIds
      PROVE  /\ Issued(i)' <=> Issued(i)
             /\ Issued(i) => EntryOf'[i] = EntryOf[i] /\ invoices'[i].status = invoices[i].status
  <2>1. CASE invoices'[i] = invoices[i]
    BY <2>1 DEF Issued, Exists, EntryOf
  <2>2. CASE ~Issued(i) /\ invoices'[i].status = "draft"
    BY <2>2 DEF Issued
  <2>. QED
    BY <2>1, <2>2
<1>2. IssuedInvoices' = IssuedInvoices
    BY <1>1 DEF IssuedInvoices
<1>3. \A i \in IssuedInvoices : i \in InvoiceIds /\ Issued(i)
    BY DEF IssuedInvoices
<1>4. Posted' = Posted
    BY <1>1, <1>2, <1>3 DEF Posted
<1>5. Standing' = Standing
    BY <1>1, <1>2, <1>3 DEF Standing
<1>. QED
    BY <1>4, <1>5

\* A step after which the same invoices are issued, on the same terms, and
\* only the status of one may have changed.
LEMMA SameEntries ==
    ASSUME StoreTypeOK, StoreTypeOK', NEW i \in InvoiceIds, SameTerms(i), Issued(i), Issued(i)',
           \A j \in InvoiceIds \ {i} : invoices'[j] = invoices[j]
    PROVE  /\ UNCHANGED Posted
           /\ Standing' = [Standing EXCEPT ![i] = invoices'[i].status]
<1>1. \A j \in InvoiceIds : Issued(j)' <=> Issued(j)
    BY DEF Issued, Exists
<1>2. \A j \in InvoiceIds : EntryOf'[j] = EntryOf[j]
    BY DEF EntryOf, SameTerms
<1>3. IssuedInvoices' = IssuedInvoices /\ i \in IssuedInvoices
    BY <1>1 DEF IssuedInvoices
<1>4. Posted' = Posted
    BY <1>2, <1>3 DEF Posted
<1>5. \A j \in InvoiceIds \ {i} : invoices'[j].status = invoices[j].status
    OBVIOUS
<1>. QED
    BY <1>3, <1>4, <1>5 DEF Standing

LEMMA CollectingImplements ==
    ASSUME BillingInv, BillingInv', CollectingNext
    PROVE  [Ledger!LedgerNext]_<<Posted, Standing>>
<1>1. StoreTypeOK /\ StoreTypeOK'
    BY DEF BillingInv, CollectInv, CollectingTypeOK
<1>2. CASE UNCHANGED invoices
    BY <1>1, <1>2, LedgerStutters
<1>3. ASSUME NEW i \in InvoiceIds, Touches(i) PROVE [Ledger!LedgerNext]_<<Posted, Standing>>
  <2>1. CASE Issued(i)
    <3>1. Issued(i)' /\ SameTerms(i)
      BY <2>1, CollectingIssues
    <3>2. UNCHANGED Posted /\ Standing' = [Standing EXCEPT ![i] = invoices'[i].status]
      BY <1>1, <1>3, <2>1, <3>1, SameEntries DEF Touches
    <3>3. Posted[i] # None /\ Standing[i] = invoices[i].status
      BY <1>1, <2>1, LedgerReads
    <3>4. CASE invoices'[i].status = invoices[i].status
      BY <3>2, <3>3, <3>4 DEF Standing
    <3>5. CASE invoices'[i].status = "paid"
      BY <3>2, <3>3, <3>5 DEF Ledger!LedgerNext, Ledger!Pay
    <3>6. CASE invoices'[i].status = "uncollectible" /\ invoices[i].status = "open"
      BY <3>2, <3>3, <3>6 DEF Ledger!LedgerNext, Ledger!GiveUp
    <3>. QED
      BY <1>3, <3>4, <3>5, <3>6 DEF Touches
  <2>2. CASE ~Issued(i)
    <3>1. ~Charged(i) /\ invoices[i].status # "open"
      BY <2>2 DEF BillingInv, ChargedIsIssued, Charged, Issued, Exists
    <3>2. invoices'[i].status = invoices[i].status /\ SameTerms(i)
      BY <1>3, <3>1 DEF Touches
    <3>3. \A j \in InvoiceIds : Issued(j)' <=> Issued(j)
      BY <1>3, <3>2 DEF Touches, Issued, Exists
    <3>4. \A j \in InvoiceIds : /\ EntryOf'[j] = EntryOf[j]
                                /\ invoices'[j].status = invoices[j].status
      BY <1>3, <3>2 DEF Touches, SameTerms, EntryOf
    <3>. QED
      <4>1. IssuedInvoices' = IssuedInvoices
        BY <3>3 DEF IssuedInvoices
      <4>. QED
        BY <3>4, <4>1 DEF Posted, Standing
  <2>. QED
    BY <2>1, <2>2
<1>. QED
    BY <1>2, <1>3, CollectingTouches DEF BillingInv

\* The entry of a draft that is claimed goes on from what its enrolment has
\* been billed.
LEMMA ClaimContinues ==
    ASSUME TypeInv, InvoicesInv, NEW i \in InvoiceIds, Exists(i), ~Issued(i),
           NEW e \in Enrollments, invoices[i].enrollmentId = e
    PROVE  /\ \/ \A u \in InvoicesOf(e) : ~Issued(u)
              \/ \E j \in InvoicesOf(e) :
                     Issued(j) /\ invoices[j].periodEnd = invoices[i].periodStart
           /\ \A j \in InvoicesOf(e) :
                  Issued(j) => invoices[j].periodStart # invoices[i].periodStart
           /\ invoices[i].periodStart < invoices[i].periodEnd
<1>1. i \in InvoicesOf(e)
    BY DEF InvoicesOf
<1>2. \A j \in InvoicesOf(e) : Issued(j) => invoices[j].periodStart # invoices[i].periodStart
    BY <1>1 DEF InvoicesInv, OnePerPeriod
<1>3. invoices[i].periodStart < invoices[i].periodEnd
    BY <1>1, PeriodEndTypes DEF InvoicesInv, PlanPeriods
<1>4. CASE invoices[i].periodStart = enrollments[e].startDate
  <2>1. \A u \in InvoicesOf(e) : ~Issued(u)
    BY <1>2, <1>4, FirstIsIssued
  <2>. QED
    BY <1>2, <1>3, <2>1
<1>5. CASE \E j \in InvoicesOf(e) : Issued(j) /\ invoices[j].periodEnd = invoices[i].periodStart
    BY <1>2, <1>3, <1>5
<1>. QED
    BY <1>1, <1>4, <1>5 DEF InvoicesInv, NoSkippedPeriod

LEMMA ClaimAppends ==
    ASSUME BillingInv, BillingInv', NEW r \in Runs, Claim(r)
    PROVE  Ledger!LedgerNext
<1>1. TypeInv /\ StoreTypeOK /\ StoreTypeOK' /\ NumbersInv /\ InvoicesInv /\ HeldNumber(r)
    BY DEF BillingInv, PeriodsInv, TypeInv, IssuingTypeOK, Claim, HeldNumber, CollectInv,
           CollectingTypeOK
<1>2. PICK i \in InvoiceIds, num \in InvoiceNumber, day \in Days :
          run[r].invoice = i /\ run[r].number = num /\ run[r].day = day /\ num # None
    BY <1>1, HeldTypes, RunFacts DEF Run
<1>3. PICK doc : doc = [invoices[i] EXCEPT !.status = "open", !.issuedAt = day,
                                           !.dueAt = day + DueDays, !.number = num]
    OBVIOUS
<1>4. invoices' = [invoices EXCEPT ![i] = doc] /\ invoices[i].status = "draft"
    BY <1>2, <1>3 DEF Claim, ClaimForIssueWithNumber, CanClaim
<1>5. /\ doc.status = "open" /\ doc.number = num
      /\ doc.enrollmentId = invoices[i].enrollmentId
      /\ doc.periodStart = invoices[i].periodStart
      /\ doc.periodEnd = invoices[i].periodEnd
    BY <1>1, <1>3 DEF StoreTypeOK, Invoice
<1>6. invoices'[i] = doc /\ \A j \in InvoiceIds \ {i} : invoices'[j] = invoices[j]
    BY <1>1, <1>4 DEF StoreTypeOK
<1>7. ~Issued(i) /\ Exists(i) /\ Issued(i)' /\ \A j \in InvoiceIds \ {i} : Issued(j)' <=> Issued(j)
    BY <1>4, <1>5, <1>6 DEF Issued, Exists
<1>8. IssuedInvoices' = IssuedInvoices \cup {i} /\ i \notin IssuedInvoices
    BY <1>7 DEF IssuedInvoices
<1>9. \A j \in InvoiceIds \ {i} : EntryOf'[j] = EntryOf[j]
    BY <1>6 DEF EntryOf
<1>a. PICK entry : entry = EntryOf'[i]
    OBVIOUS
<1>10. /\ entry = EntryOf'[i]
       /\ entry.number = num
       /\ entry.enrollmentId = invoices[i].enrollmentId
       /\ entry.periodStart = invoices[i].periodStart
       /\ entry.periodEnd = invoices[i].periodEnd
  <2>1. /\ entry.number = invoices'[i].number
        /\ entry.enrollmentId = invoices'[i].enrollmentId
        /\ entry.periodStart = invoices'[i].periodStart
        /\ entry.periodEnd = invoices'[i].periodEnd
    BY <1>a DEF EntryOf
  <2>. QED
    BY <1>a, <1>5, <1>6, <2>1
<1>11. Posted' = [Posted EXCEPT ![i] = entry]
    BY <1>8, <1>9, <1>10 DEF Posted
<1>12. Standing' = [Standing EXCEPT ![i] = "open"]
  <2>1. invoices'[i].status = "open" /\ \A j \in InvoiceIds \ {i} : invoices'[j] = invoices[j]
    BY <1>5, <1>6
  <2>. QED
    BY <1>8, <2>1 DEF Standing
<1>13. /\ Posted[i] = None /\ Posted'[i] = entry /\ entry # None
       /\ \A j \in InvoiceIds : /\ Posted[j] # None <=> Issued(j)
                                /\ Posted[j] # None => Posted[j] = EntryOf[j]
  <2>1. Posted'[i] = entry
    BY <1>8, <1>10 DEF Posted
  <2>2. EntryOf'[i] \in Entry
    BY <1>1 DEF StoreTypeOK, Invoice, EntryOf, Entry
  <2>. QED
    BY <1>1, <1>7, <1>10, <2>1, <2>2, LedgerReads, EntryAssumption
<1>14. \A j \in InvoiceIds : Posted[j] # None => Posted[j].number # num
    BY <1>1, <1>2, <1>13, EntryFields DEF NumbersInv, NumbersUnique
<1>15. ASSUME entry.enrollmentId # None PROVE Ledger!Continues(entry)
  <2>1. PICK e \in Enrollments : invoices[i].enrollmentId = e /\ entry.enrollmentId = e
    BY <1>1, <1>10, <1>15 DEF StoreTypeOK, Invoice
  <2>2. PICK S : S = Ledger!EntriesOf(e)
    OBVIOUS
  <2>3. \A j : j \in S <=> j \in InvoicesOf(e) /\ Issued(j)
    BY <1>13, <2>2, EntryFields DEF Ledger!EntriesOf, Ledger!Entries, InvoicesOf, Issued
  <2>4. \A j \in S : /\ Posted[j].periodStart = invoices[j].periodStart
                     /\ Posted[j].periodEnd = invoices[j].periodEnd
    BY <1>13, <2>3, EntryFields DEF InvoicesOf
  <2>5. /\ S = {} \/ \E j \in S : Posted[j].periodEnd = entry.periodStart
        /\ \A j \in S : Posted[j].periodStart # entry.periodStart
        /\ entry.periodStart < entry.periodEnd
    BY <1>1, <1>7, <1>10, <2>1, <2>3, <2>4, ClaimContinues
  <2>. QED
    BY <2>1, <2>2, <2>5 DEF Ledger!Continues
<1>16. Ledger!Append(i, entry)
    BY <1>2, <1>10, <1>11, <1>12, <1>13, <1>14, <1>15 DEF Ledger!Append, Ledger!Entries
<1>. QED
    BY <1>13, <1>16 DEF Ledger!LedgerNext

LEMMA IssuingImplements ==
    ASSUME BillingInv, BillingInv', IssuingNext
    PROVE  [Ledger!LedgerNext]_<<Posted, Standing>>
<1>a. StoreTypeOK /\ StoreTypeOK'
    BY DEF BillingInv, CollectInv, CollectingTypeOK
<1>1. CASE UNCHANGED invoices
    BY <1>a, <1>1, LedgerStutters
<1>2. ASSUME NEW i \in InvoiceIds, NEW e, NEW start, NEW end, CreateInvoice(i, e, start, end)
      PROVE  UNCHANGED <<Posted, Standing>>
  <2>1. PICK doc : doc = [NoInvoice EXCEPT !.status = "draft", !.enrollmentId = e,
                                           !.periodStart = start, !.periodEnd = end]
    OBVIOUS
  <2>2. doc.status = "draft"
    BY <2>1 DEF NoInvoice
  <2>3. invoices' = [invoices EXCEPT ![i] = doc] /\ ~Issued(i)
    BY <1>2, <2>1 DEF CreateInvoice, Issued
  <2>4. invoices'[i] = doc /\ \A j \in InvoiceIds \ {i} : invoices'[j] = invoices[j]
    BY <1>a, <2>3 DEF StoreTypeOK
  <2>. QED
    BY <1>a, <2>2, <2>3, <2>4, LedgerStutters
<1>3. ASSUME NEW r \in Runs, RunStep(r) PROVE [Ledger!LedgerNext]_<<Posted, Standing>>
  <2>1. CASE Claim(r)
    BY <2>1, ClaimAppends
  <2>2. CASE CreatePeriodInvoice(r)
    BY <1>2, <2>2 DEF CreatePeriodInvoice
  <2>3. CASE ~Claim(r) /\ ~CreatePeriodInvoice(r)
    BY <1>1, <1>3, <2>3
    DEF RunStep, ReadEnrollment, NotActive, NothingDue, ResumeInvoice, NoInvoiceYet,
        LoseCreateRace, AdvanceCursor, ReadDraft, AlreadyIssued, Allocate, LoseClaim, storeVars
  <2>. QED
    BY <2>1, <2>2, <2>3
<1>4. ASSUME NEW r \in Requests, CreateAdHocInvoice(r) PROVE UNCHANGED <<Posted, Standing>>
    BY <1>2, <1>4 DEF CreateAdHocInvoice
<1>5. CASE \/ \E r \in Workers, e \in Enrollments : SweepEnrollment(r, e)
           \/ \E r \in Requests, i \in InvoiceIds : RequestIssue(r, i)
           \/ \E r \in Runs : CrashRun(r)
  <2>1. UNCHANGED invoices
    BY <1>5 DEF SweepEnrollment, RequestIssue, CrashRun, CrashStep, storeVars
  <2>. QED
    BY <1>1, <2>1
<1>. QED
    BY <1>3, <1>4, <1>5 DEF IssuingNext

LEMMA BillingImplements ==
    ASSUME BillingInv, BillingInv', [BillingNext]_billingVars
    PROVE  [Ledger!LedgerNext]_<<Posted, Standing>>
<1>a. StoreTypeOK /\ StoreTypeOK'
    BY DEF BillingInv, CollectInv, CollectingTypeOK
<1>1. CASE UNCHANGED invoices
    BY <1>a, <1>1, LedgerStutters
<1>2. CASE IssuingNext
    BY <1>2, IssuingImplements
<1>3. CASE CollectingNext
    BY <1>3, CollectingImplements
<1>4. CASE StoreNext \/ UNCHANGED billingVars
  <2>1. UNCHANGED invoices
    BY <1>4 DEF StoreNext, Enroll, Freeze, Cancel, NextDay, billingVars, storeVars
  <2>. QED
    BY <1>1, <2>1
<1>. QED
    BY <1>2, <1>3, <1>4 DEF BillingNext

LEMMA LedgerInitially == BillingInit => Ledger!LedgerInit
<1>. SUFFICES ASSUME BillingInit PROVE Ledger!LedgerInit
    OBVIOUS
<1>1. \A i \in InvoiceIds : invoices[i].status = "absent"
    BY NoInvoiceFields DEF BillingInit, IssuingInit, StoreInit
<1>2. IssuedInvoices = {}
    BY <1>1 DEF IssuedInvoices, Issued, Exists
<1>3. Posted = [i \in InvoiceIds |-> None]
    BY <1>2 DEF Posted
<1>4. Standing = [i \in InvoiceIds |-> "none"]
    BY <1>2 DEF Standing
<1>. QED
    BY <1>3, <1>4 DEF Ledger!LedgerInit

(* Billing implements the invoice ledger, for any number of executions and *)
(* crashes and any calendar, provided no draft is ever charged: the steps  *)
(* of the code are entries appended, paid or given up, or nothing at all.  *)
THEOREM LedgerImplemented ==
    ASSUME "draft" \notin ChargeableStatuses
    PROVE  BillingSpec => ImplementsLedger
<1>1. BillingInv /\ BillingInv' /\ [BillingNext]_billingVars
          => [Ledger!LedgerNext]_<<Posted, Standing>>
    BY BillingImplements
<1>2. [Ledger!LedgerNext]_<<Posted, Standing>> <=> [Ledger!LedgerNext]_(Ledger!ledgerVars)
    BY DEF Ledger!ledgerVars
<1>. QED
    BY <1>1, <1>2, LedgerInitially, BillingInvariant, PTL
    DEF BillingSpec, ImplementsLedger, Ledger!LedgerSpec

=============================================================================
