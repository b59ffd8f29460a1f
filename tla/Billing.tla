------------------------------ MODULE Billing ------------------------------
(***************************************************************************)
(* The billing of a tenant: issuing and collecting together, on the same   *)
(* collections, with the enrolment endpoints and the clock.  A suspension  *)
(* by the dunning job takes an enrolment away from a billing run that is   *)
(* under way; an invoice that is being issued is charged; and an execution *)
(* of either kind may die at any point.                                    *)
(*                                                                         *)
(* One worker runs one job at a time, but a deployment may have several,   *)
(* so a member of Workers has a billing run and a dunning run of its own.  *)
(***************************************************************************)
EXTENDS RecurringBilling, Collections

billingVars == <<storeVars, run, collectionVars>>

BillingInit == IssuingInit /\ CollectingInit

BillingNext ==
    \/ IssuingNext /\ UNCHANGED collectionVars
    \/ CollectingNext /\ UNCHANGED run
    \/ StoreNext /\ UNCHANGED <<run, collectionVars>>

BillingSpec == BillingInit /\ [][BillingNext]_billingVars

-----------------------------------------------------------------------------
(* Properties.                                                             *)

(* Types of the store and of all executions.                               *)
BillingTypeOK == IssuingTypeOK /\ CollectingTypeOK

\* The entry of an issued invoice in the ledger: the fields that issuing
\* fixes for good.
Entry ==
    [number : InvoiceNumber \cup {None},
     enrollmentId : Enrollments \cup {None},
     periodStart : Nat \cup {None},
     periodEnd : Nat \cup {None},
     issuedAt : Nat \cup {None},
     dueAt : Nat \cup {None}]

\* null is not an entry.
ASSUME EntryAssumption == None \notin Entry

EntryOf ==
    [i \in InvoiceIds |->
        [number |-> invoices[i].number,
         enrollmentId |-> invoices[i].enrollmentId,
         periodStart |-> invoices[i].periodStart,
         periodEnd |-> invoices[i].periodEnd,
         issuedAt |-> invoices[i].issuedAt,
         dueAt |-> invoices[i].dueAt]]

\* The ledger as the collections show it: what is in it, and what has become
\* of each entry.
IssuedInvoices == {i \in InvoiceIds : Issued(i)}
Posted == [i \in InvoiceIds |-> IF i \in IssuedInvoices THEN EntryOf[i] ELSE None]
Standing == [i \in InvoiceIds |-> IF i \in IssuedInvoices THEN invoices[i].status ELSE "none"]

Ledger == INSTANCE InvoiceLedger WITH ledger <- Posted, standing <- Standing

(* Billing implements the invoice ledger: whatever executions race, crash  *)
(* or are repeated, the issued invoices are an append-only ledger with     *)
(* unique numbers, in which each subscription invoice bills the period     *)
(* that follows one already there.                                         *)
ImplementsLedger == Ledger!LedgerSpec

=============================================================================
