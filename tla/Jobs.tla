-------------------------------- MODULE Jobs --------------------------------
(***************************************************************************)
(* The worker (apps/worker): one queue of jobs, and a process that takes   *)
(* them one at a time.  The clock adds the two ticks, a tick fans out into *)
(* a job per active tenant, and that job sweeps what is due in its tenant. *)
(* What a sweep does to one enrolment, invoice or booking is modelled by   *)
(* RecurringBilling, Collections and Scheduling; here it is done or fails. *)
(*                                                                         *)
(* The queue is BullMQ (external): first in, first out; a job that throws  *)
(* is added again later, up to its attempts; that of a process that died   *)
(* is taken again, once; the next tick of a cron is planned when the last  *)
(* one is taken.                                                           *)
(***************************************************************************)
EXTENDS Naturals, Sequences

CONSTANTS
    Tenants,
    Items,          \* what becomes due: enrolments, invoices, bookings
    JobOf,          \* the job that handles each
    TenantOf,       \* and the tenant it is in
    Poison,         \* the items that nothing can be done for
    Crons,          \* bound: the sets of ticks there are in a behaviour
    MaxFaults,      \* bound: failures of Mongo, Redis or mail, and crashes
    Platform        \* the tenant of a job that has none

Ticks == {"billing-tick", "reminders-tick"}
TenantJobs == {"billing-run", "dunning", "reminders"}

ASSUME JobsAssumption ==
    /\ JobOf \in [Items -> TenantJobs] /\ TenantOf \in [Items -> Tenants]
    /\ Poison \subseteq Items
    /\ MaxFaults \in Nat /\ Crons \subseteq SUBSET Ticks
    /\ Platform \notin Tenants

VARIABLES
    crons,      \* the ticks that are registered: that of reminders with mail
    queue,      \* the jobs that wait
    delayed,    \* the jobs that are to be tried again
    running,    \* the job under way, and what is left of it
    planned,    \* the ticks that the cron will add
    items,      \* what there is to do for each item
    active,     \* the tenants that are not suspended
    owed,       \* history: what was due when its tick was added, and has not
                \* been handled or met with a failure of its own since
    faults

jobsVars == <<crons, queue, delayed, running, planned, items, active, owed, faults>>

NoJob == [name |-> "none", tenant |-> Platform, attempt |-> 0, stalled |-> FALSE, todo |-> {}]
NewJob(name, tenant) == [NoJob EXCEPT !.name = name, !.tenant = tenant, !.attempt = 1]

JobsInit ==
    /\ queue = <<>>
    /\ delayed = {}
    /\ running = NoJob
    /\ crons \in Crons
    /\ planned = crons
    /\ items = [i \in Items |-> "idle"]
    /\ active = Tenants
    /\ owed = {}
    /\ faults = 0

Tries(name) == IF name \in Ticks THEN 2 ELSE 3

\* The jobs a tick adds for a tenant.
Spawned(name) ==
    CASE name = "billing-tick" -> <<"billing-run", "dunning">>
      [] name = "reminders-tick" -> <<"reminders">>
JobsFor(name, t) == [n \in DOMAIN Spawned(name) |-> NewJob(Spawned(name)[n], t)]

-----------------------------------------------------------------------------
(* The database and the clock.                                             *)
Serves(name, job) == \E n \in DOMAIN Spawned(name) : Spawned(name)[n] = job

\* Bound: an item is due once.
BecomeDue(i) ==
    /\ items[i] = "idle" /\ \E name \in crons : Serves(name, JobOf[i])
    /\ items' = [items EXCEPT ![i] = "due"]
    /\ UNCHANGED <<crons, queue, delayed, running, planned, active, owed, faults>>

SuspendTenant(t) ==
    /\ t \in active
    /\ active' = active \ {t}
    /\ UNCHANGED <<crons, queue, delayed, running, planned, items, owed, faults>>

\* Bound: an hour is enough for the jobs of the last tick to be taken.
CronAdds(name) ==
    /\ name \in planned
    /\ \A n \in DOMAIN queue : ~Serves(name, queue[n].name)
    /\ queue' = Append(queue, NewJob(name, Platform))
    /\ planned' = planned \ {name}
    /\ owed' = owed \cup {i \in Items : items[i] = "due" /\ Serves(name, JobOf[i])}
    /\ UNCHANGED <<crons, delayed, running, items, active, faults>>

-----------------------------------------------------------------------------
(* The queue and the process.                                              *)
Fault == faults < MaxFaults /\ faults' = faults + 1

\* What a job reads first: the active tenants, or what is due in its tenant.
Found(job) ==
    IF job.name \in Ticks THEN active
    ELSE {i \in Items : items[i] = "due" /\ JobOf[i] = job.name /\ TenantOf[i] = job.tenant}

\* Whether a job, when it is taken, comes to an item that is due.
Reaches(job, i) ==
    \/ job.name \in Ticks /\ Serves(job.name, JobOf[i])
    \/ job.name = JobOf[i] /\ job.tenant = TenantOf[i]

Take ==
    LET job == Head(queue)
    IN  /\ running = NoJob /\ queue # <<>>
        /\ running' = [job EXCEPT !.todo = Found(job)]
        /\ queue' = Tail(queue)
        /\ planned' = planned \cup ({job.name} \cap Ticks)
        /\ owed' = {i \in owed : Reaches(job, i) => TenantOf[i] \in active \/ job.name \notin Ticks}
        /\ UNCHANGED <<crons, delayed, items, active, faults>>

\* The handler throws: the first read fails, or the claim of a booking.  (A
\* handler that is not implemented throws too, but nothing adds such a job.)
Throw ==
    /\ running # NoJob
    /\ Fault
    /\ running' = NoJob
    /\ IF running.attempt < Tries(running.name)
       THEN /\ delayed' = delayed \cup {[running EXCEPT !.attempt = @ + 1, !.todo = {}]}
            /\ UNCHANGED owed
       ELSE /\ owed' = {i \in owed : ~Reaches(running, i)}
            /\ UNCHANGED delayed
    /\ UNCHANGED <<crons, queue, planned, items, active>>

TryAgain(job) ==
    /\ delayed' = delayed \ {job}
    /\ queue' = Append(queue, job)
    /\ UNCHANGED <<crons, running, planned, items, active, owed, faults>>

\* The process dies and is started again; an unfinished job is found stalled.
Die ==
    /\ running # NoJob
    /\ Fault
    /\ running' = NoJob
    /\ IF ~running.stalled
       THEN /\ queue' = <<[running EXCEPT !.stalled = TRUE, !.todo = {}]>> \o queue
            /\ UNCHANGED owed
       ELSE /\ owed' = {i \in owed : ~Reaches(running, i)}
            /\ UNCHANGED queue
    /\ UNCHANGED <<crons, delayed, planned, items, active>>

Finish ==
    /\ running # NoJob /\ running.todo = {}
    /\ running' = NoJob
    /\ UNCHANGED <<crons, queue, delayed, planned, items, active, owed, faults>>

\* A slip to catch: the first failure ends the loop.
NothingAfterFailure(left, failed) == IF failed THEN {} ELSE left
AfterFailure(left, failed) == left

Left(x, failed) == [running EXCEPT !.todo = AfterFailure(@ \ {x}, failed)]

-----------------------------------------------------------------------------
(* runBillingTick and runRemindersTick.                                    *)
FanOut(t) ==
    /\ running.name \in Ticks /\ t \in running.todo
    /\ queue' = queue \o JobsFor(running.name, t)
    /\ running' = Left(t, FALSE)
    /\ UNCHANGED <<crons, delayed, planned, items, active, owed, faults>>

\* An addition fails: the tenant goes without it, and without what follows it.
FanOutFails(t, n) ==
    /\ running.name \in Ticks /\ t \in running.todo
    /\ n \in DOMAIN Spawned(running.name)
    /\ Fault
    /\ queue' = queue \o SubSeq(JobsFor(running.name, t), 1, n - 1)
    /\ owed' = {i \in owed : TenantOf[i] = t =>
                    \A k \in n .. Len(Spawned(running.name)) : Spawned(running.name)[k] # JobOf[i]}
    /\ running' = Left(t, TRUE)
    /\ UNCHANGED <<crons, delayed, planned, items, active>>

-----------------------------------------------------------------------------
(* runBillingForTenant, runDunningForTenant and runRemindersForTenant.     *)
Sweep(i) ==
    /\ running.name \in TenantJobs /\ i \in running.todo
    /\ i \notin Poison
    /\ items' = [items EXCEPT ![i] = "handled"]
    /\ owed' = owed \ {i}
    /\ running' = Left(i, FALSE)
    /\ UNCHANGED <<crons, queue, delayed, planned, active, faults>>

\* What fails in a billing or dunning run stays due.  A booking has been claimed
\* before its reminder failed, and gets none.
SweepFails(i) ==
    /\ running.name \in TenantJobs /\ i \in running.todo
    /\ IF i \in Poison THEN UNCHANGED faults ELSE Fault
    /\ items' = IF running.name = "reminders" THEN [items EXCEPT ![i] = "missed"] ELSE items
    /\ owed' = owed \ {i}
    /\ running' = Left(i, TRUE)
    /\ UNCHANGED <<crons, queue, delayed, planned, active>>

JobsNext ==
    \/ \E name \in Ticks : CronAdds(name)
    \/ \E job \in delayed : TryAgain(job)
    \/ \E t \in Tenants : SuspendTenant(t) \/ FanOut(t) \/ \E n \in 1 .. 2 : FanOutFails(t, n)
    \/ \E i \in Items : BecomeDue(i) \/ Sweep(i) \/ SweepFails(i)
    \/ Take \/ Throw \/ Die \/ Finish

JobsSpec == JobsInit /\ [][JobsNext]_jobsVars

-----------------------------------------------------------------------------
(* Properties.                                                             *)
JobType ==
    [name : crons \cup TenantJobs, tenant : Tenants \cup {Platform}, attempt : 1 .. 3,
     stalled : BOOLEAN, todo : SUBSET (Tenants \cup Items)]
JobsTypeOK ==
    /\ crons \subseteq Ticks /\ planned \subseteq crons
    /\ queue \in Seq(JobType) /\ delayed \subseteq JobType
    /\ running \in JobType \cup {NoJob}
    /\ items \in [Items -> {"idle", "due", "handled", "missed"}]
    /\ active \subseteq Tenants /\ owed \subseteq Items
    /\ faults \in 0 .. MaxFaults

\* The job under way has yet to come to an item.
StillReaches(i) ==
    \/ /\ running.name \in Ticks /\ Serves(running.name, JobOf[i])
       /\ TenantOf[i] \in running.todo
    \/ running.name = JobOf[i] /\ i \in running.todo

\* What is due when its tick is added has a job that will come to it, until it
\* has been handled or has met with a failure of its own: its handling failed, or
\* an addition to the queue for its tenant, or its job ran out of attempts or died
\* twice, or its tenant was suspended.  So a failure of one item or tenant never
\* costs another, whatever is thrown, dies or is added twice ("per-tenant
\* isolation", "one bad record can't abort the whole run").
NothingForgotten ==
    \A i \in owed :
        /\ items[i] = "due"
        /\ \/ \E n \in DOMAIN queue : Reaches(queue[n], i)
           \/ \E job \in delayed : Reaches(job, i)
           \/ StillReaches(i)
=============================================================================
