--------------------------- MODULE InvoiceLedger ---------------------------
(***************************************************************************)
(* What billing promises to bookkeeping, without saying how: the issued    *)
(* invoices of a tenant form a ledger that is only ever appended to.  An   *)
(* entry has a number of its own, bills an enrolment for the period that   *)
(* follows one already in the ledger, and never changes; all that happens  *)
(* to it afterwards is that it is paid or given up.                        *)
(*                                                                         *)
(* Nothing here knows of drafts, counters, cursors, jobs or crashes.       *)
(* Billing implements this module.                                         *)
(***************************************************************************)
EXTENDS Naturals

CONSTANTS
    Enrollments,
    InvoiceIds,
    None

VARIABLES
    ledger,     \* the entry of each invoice that has been issued
    standing    \* what has become of it

ledgerVars == <<ledger, standing>>

Entries == {i \in InvoiceIds : ledger[i] # None}

EntriesOf(e) == {i \in Entries : ledger[i].enrollmentId = e}

LedgerInit ==
    /\ ledger = [i \in InvoiceIds |-> None]
    /\ standing = [i \in InvoiceIds |-> "none"]

\* The entry bills the first period of its enrolment in the ledger, or the
\* one after a period that is there, and not one that is there already.
Continues(entry) ==
    LET billed == EntriesOf(entry.enrollmentId)
    IN  /\ billed = {} \/ \E j \in billed : ledger[j].periodEnd = entry.periodStart
        /\ \A j \in billed : ledger[j].periodStart # entry.periodStart
        /\ entry.periodStart < entry.periodEnd

Append(i, entry) ==
    /\ ledger[i] = None
    /\ entry # None
    /\ entry.number # None
    /\ \A j \in Entries : ledger[j].number # entry.number
    /\ entry.enrollmentId # None => Continues(entry)
    /\ ledger' = [ledger EXCEPT ![i] = entry]
    /\ standing' = [standing EXCEPT ![i] = "open"]

\* Paid at any time after, also once it has been given up.
Pay(i) ==
    /\ ledger[i] # None
    /\ standing' = [standing EXCEPT ![i] = "paid"]
    /\ UNCHANGED ledger

GiveUp(i) ==
    /\ standing[i] = "open"
    /\ standing' = [standing EXCEPT ![i] = "uncollectible"]
    /\ UNCHANGED ledger

\* The next entry of an invoice, if it gets one, is the one it has after the
\* step: an entry has no set of values of its own to range over.
LedgerNext ==
    \E i \in InvoiceIds : Append(i, ledger'[i]) \/ Pay(i) \/ GiveUp(i)

LedgerSpec == LedgerInit /\ [][LedgerNext]_ledgerVars
=============================================================================
