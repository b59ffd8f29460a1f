----------------------------- MODULE AuditTrail -----------------------------
(***************************************************************************)
(* The audit trail of each tenant (packages/db/src/audit-log.ts and        *)
(* packages/gdpr/src/audit.ts): a chain of entries, each holding the hash  *)
(* of the one before.  Appends read the newest entry and then try to       *)
(* create its successor; a unique index lets one of several win, and the   *)
(* others read again.  platform-audit.ts appends to the platform's own     *)
(* chain in the same way.                                                  *)
(*                                                                         *)
(* No entry is ever edited and no two of a tenant have one hash, so its    *)
(* place in the chain stands for its hash.                                 *)
(***************************************************************************)
EXTENDS Naturals, FiniteSets

CONSTANTS
    Tenants,
    Callers,        \* executions of API requests
    MaxActs,        \* bound: things done that are to be audited
    MaxAttempts,    \* MAX_APPEND_ATTEMPTS
    Null            \* no entry, nothing

Acts == 1..MaxActs

ASSUME AuditAssumption ==
    /\ MaxActs \in Nat /\ MaxAttempts \in Nat \ {0}
    /\ Null \notin Nat

VARIABLES
    log,            \* the entries of all tenants
    appends         \* the append each caller is in the middle of

auditVars == <<log, appends>>

Entry == [tenant : Tenants, seq : Nat, prev : Nat \cup {Null}, act : Acts]
Hash(e) == e.seq

AppendCall ==
    [pc : {"none", "head", "create", "failed"}, tenant : Tenants \cup {Null},
     act : Acts \cup {Null}, head : Nat \cup {Null}, attempts : Nat]
NoAppend ==
    [pc |-> "none", tenant |-> Null, act |-> Null, head |-> Null, attempts |-> 0]

AuditInit ==
    /\ log = {}
    /\ appends = [c \in Callers |-> NoAppend]

EntriesOf(t) == {e \in log : e.tenant = t}
Heads(t) == {e \in EntriesOf(t) : \A o \in EntriesOf(t) : o.seq <= e.seq}

StartAppend(c, t, act) ==
    appends' = [appends EXCEPT ![c] =
        [pc |-> "head", tenant |-> t, act |-> act, head |-> Null, attempts |-> 0]]

ReadHead(c) ==
    LET t == appends[c].tenant
    IN  /\ appends[c].pc = "head"
        /\ \/ EntriesOf(t) = {} /\ appends' = [appends EXCEPT ![c].pc = "create",
                                                              ![c].head = Null]
           \/ \E e \in Heads(t) : appends' = [appends EXCEPT ![c].pc = "create",
                                                             ![c].head = Hash(e)]
        /\ UNCHANGED log

Successor(a) ==
    [tenant |-> a.tenant, seq |-> IF a.head = Null THEN 0 ELSE a.head + 1,
     prev |-> a.head, act |-> a.act]

\* The unique indexes of a tenant: seq, prevHash and hash.  A slip to catch: none.
NeverTaken(entry) == FALSE
Taken(entry) ==
    \E e \in EntriesOf(entry.tenant) : e.seq = entry.seq \/ e.prev = entry.prev

\* A slip to catch: the loser of the race takes its append for done.
TakenForDone(a) == "none"
AfterConflict(a) == IF a.attempts + 1 = MaxAttempts THEN "failed" ELSE "head"

CreateEntry(c) ==
    LET a == appends[c]
        entry == Successor(a)
    IN  /\ a.pc = "create"
        /\ IF Taken(entry)
           THEN /\ appends' = [appends EXCEPT ![c].pc = AfterConflict(a),
                                              ![c].attempts = @ + 1]
                /\ UNCHANGED log
           ELSE /\ log' = log \cup {entry}
                /\ appends' = [appends EXCEPT ![c] = NoAppend]

\* The error reaches the client; what was done stays done.
GiveUp(c) ==
    /\ appends[c].pc = "failed"
    /\ appends' = [appends EXCEPT ![c] = NoAppend]
    /\ UNCHANGED log

-----------------------------------------------------------------------------
(* Properties.                                                             *)
AuditTypeOK ==
    /\ log \subseteq Entry
    /\ appends \in [Callers -> AppendCall]

\* The chain of every tenant verifies at any time (verifyChain): one genesis,
\* every other entry on its predecessor, no fork and no gap, whichever appends
\* interleave, are retried or die.
ChainVerifies ==
    \A e \in log :
        /\ \A o \in EntriesOf(e.tenant) : o.seq = e.seq \/ o.prev = e.prev => o = e
        /\ IF e.seq = 0 THEN e.prev = Null
           ELSE \E p \in EntriesOf(e.tenant) : p.seq + 1 = e.seq /\ e.prev = Hash(p)
=============================================================================
