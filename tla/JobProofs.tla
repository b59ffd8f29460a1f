------------------------------ MODULE JobProofs ------------------------------
(***************************************************************************)
(* What is due is never forgotten by the worker: the proofs for Jobs, for  *)
(* any number of tenants and items and any bound on the failures.          *)
(***************************************************************************)
EXTENDS Jobs, SequenceTheorems, TLAPS

USE JobsAssumption

-----------------------------------------------------------------------------
(* The queue.                                                              *)

\* Every job of one sequence is in another.
Within(q, s) == \A n \in DOMAIN q : \E m \in DOMAIN s : s[m] = q[n]

LEMMA AppendIsLonger ==
    ASSUME NEW q \in Seq(JobType), NEW job \in JobType
    PROVE  /\ Append(q, job) \in Seq(JobType)
           /\ Within(q, Append(q, job))
           /\ \E m \in DOMAIN Append(q, job) : Append(q, job)[m] = job
<1>1. /\ Append(q, job) \in Seq(JobType)
      /\ Len(Append(q, job)) = Len(q) + 1
      /\ \A i \in 1 .. Len(q) : Append(q, job)[i] = q[i]
      /\ Append(q, job)[Len(q) + 1] = job
    BY AppendProperties
<1>2. /\ DOMAIN q = 1 .. Len(q) /\ Len(q) \in Nat
      /\ DOMAIN Append(q, job) = 1 .. Len(q) + 1
    BY <1>1, LenProperties
<1>. QED
    BY <1>1, <1>2 DEF Within

LEMMA ConcatIsLonger ==
    ASSUME NEW q \in Seq(JobType), NEW r \in Seq(JobType)
    PROVE  q \o r \in Seq(JobType) /\ Within(q, q \o r) /\ Within(r, q \o r)
<1>1. /\ q \o r \in Seq(JobType)
      /\ Len(q \o r) = Len(q) + Len(r)
      /\ \A i \in 1 .. Len(q) + Len(r) :
            (q \o r)[i] = IF i <= Len(q) THEN q[i] ELSE r[i - Len(q)]
    BY ConcatProperties
<1>2. /\ DOMAIN q = 1 .. Len(q) /\ Len(q) \in Nat
      /\ DOMAIN r = 1 .. Len(r) /\ Len(r) \in Nat
      /\ DOMAIN (q \o r) = 1 .. Len(q) + Len(r)
    BY <1>1, LenProperties
<1>3. Within(q, q \o r)
    BY <1>1, <1>2 DEF Within
<1>4. ASSUME NEW n \in DOMAIN r
      PROVE  n + Len(q) \in DOMAIN (q \o r) /\ (q \o r)[n + Len(q)] = r[n]
    BY <1>1, <1>2
<1>5. Within(r, q \o r)
    BY <1>4 DEF Within
<1>. QED
    BY <1>1, <1>3, <1>5

LEMMA OneJob ==
    ASSUME NEW job \in JobType
    PROVE  <<job>> \in Seq(JobType) /\ \E m \in DOMAIN <<job>> : <<job>>[m] = job
<1>1. <<job>> \in Seq(JobType) /\ <<job>>[1] = job /\ DOMAIN <<job>> = 1 .. 1
    OBVIOUS
<1>. QED
    BY <1>1

LEMMA TailIsRest ==
    ASSUME NEW q \in Seq(JobType), q # <<>>
    PROVE  /\ Head(q) \in JobType /\ Tail(q) \in Seq(JobType)
           /\ \A n \in DOMAIN q : q[n] = Head(q) \/ \E m \in DOMAIN Tail(q) : Tail(q)[m] = q[n]
<1>1. /\ Head(q) \in JobType /\ Tail(q) \in Seq(JobType)
      /\ Len(Tail(q)) = Len(q) - 1
      /\ \A i \in 1 .. Len(Tail(q)) : Tail(q)[i] = q[i + 1]
    BY HeadTailProperties
<1>2. /\ DOMAIN q = 1 .. Len(q) /\ Len(q) \in Nat
      /\ DOMAIN Tail(q) = 1 .. Len(q) - 1
    BY <1>1, LenProperties
<1>3. Head(q) = q[1]
    OBVIOUS
<1>4. ASSUME NEW n \in DOMAIN q, n # 1
      PROVE  n - 1 \in DOMAIN Tail(q) /\ Tail(q)[n - 1] = q[n]
    BY <1>1, <1>2, <1>4
<1>. QED
    BY <1>1, <1>3, <1>4

-----------------------------------------------------------------------------
(* The jobs a tick adds.                                                   *)
LEMMA NewJobTyped ==
    ASSUME NEW name \in crons \cup TenantJobs, NEW t \in Tenants \cup {Platform}
    PROVE  /\ NewJob(name, t) \in JobType
           /\ NewJob(name, t).name = name /\ NewJob(name, t).tenant = t
<1>. DEFINE Shape(n, u, a) == [name : {n}, tenant : {u}, attempt : {a}, stalled : {FALSE}, todo : {{}}]
<1>1. NoJob \in Shape("none", Platform, 0)
    BY DEF NoJob
<1>2. PICK unnamed : unnamed = [NoJob EXCEPT !.name = name]
    OBVIOUS
<1>3. unnamed \in Shape(name, Platform, 0)
    BY <1>1, <1>2
<1>4. PICK untried : untried = [unnamed EXCEPT !.tenant = t]
    OBVIOUS
<1>5. untried \in Shape(name, t, 0)
    BY <1>3, <1>4
<1>6. NewJob(name, t) = [untried EXCEPT !.attempt = 1]
    BY <1>2, <1>4 DEF NewJob
<1>7. NewJob(name, t) \in Shape(name, t, 1)
    BY <1>5, <1>6
<1>8. NewJob(name, t).name = name /\ NewJob(name, t).tenant = t
    BY <1>7
<1>9. {name} \subseteq crons \cup TenantJobs /\ {t} \subseteq Tenants \cup {Platform}
      /\ {1} \subseteq 1 .. 3 /\ {FALSE} \subseteq BOOLEAN /\ {{}} \subseteq SUBSET (Tenants \cup Items)
    OBVIOUS
<1>10. Shape(name, t, 1) \subseteq JobType
    BY <1>9, Zenon DEF JobType
<1>. QED
    BY <1>7, <1>8, <1>10

LEMMA SpawnedTyped ==
    ASSUME NEW name \in Ticks
    PROVE  /\ Spawned(name) \in Seq(TenantJobs) /\ Len(Spawned(name)) \in 1 .. 2
           /\ DOMAIN Spawned(name) = 1 .. Len(Spawned(name))
<1>1. CASE name = "billing-tick"
    BY <1>1 DEF Spawned, TenantJobs
<1>2. CASE name = "reminders-tick"
    BY <1>2 DEF Spawned, TenantJobs
<1>. QED
    BY <1>1, <1>2 DEF Ticks

LEMMA JobsForTyped ==
    ASSUME NEW name \in Ticks, NEW t \in Tenants
    PROVE  /\ JobsFor(name, t) \in Seq(JobType)
           /\ DOMAIN JobsFor(name, t) = DOMAIN Spawned(name)
           /\ Len(JobsFor(name, t)) = Len(Spawned(name))
           /\ \A n \in DOMAIN Spawned(name) :
                /\ JobsFor(name, t)[n].name = Spawned(name)[n]
                /\ JobsFor(name, t)[n].tenant = t
<1>1. /\ Len(Spawned(name)) \in Nat
      /\ DOMAIN Spawned(name) = 1 .. Len(Spawned(name))
      /\ \A n \in DOMAIN Spawned(name) : Spawned(name)[n] \in TenantJobs
    BY SpawnedTyped, ElementOfSeq
<1>2. \A n \in DOMAIN Spawned(name) :
        /\ NewJob(Spawned(name)[n], t) \in JobType
        /\ NewJob(Spawned(name)[n], t).name = Spawned(name)[n]
        /\ NewJob(Spawned(name)[n], t).tenant = t
    BY <1>1, NewJobTyped
<1>3. JobsFor(name, t) \in [1 .. Len(Spawned(name)) -> JobType]
    BY <1>1, <1>2 DEF JobsFor
<1>4. JobsFor(name, t) \in Seq(JobType)
    BY <1>1, <1>3, SeqDef
<1>5. Len(JobsFor(name, t)) = Len(Spawned(name))
    BY <1>1, <1>3, <1>4, LenProperties
<1>. QED
    BY <1>1, <1>2, <1>3, <1>4, <1>5 DEF JobsFor

-----------------------------------------------------------------------------
(* The job under way.                                                      *)
LEMMA LeftTyped ==
    ASSUME running \in JobType, NEW x, NEW failed
    PROVE  /\ Left(x, failed) \in JobType
           /\ Left(x, failed).name = running.name
           /\ Left(x, failed).tenant = running.tenant
           /\ Left(x, failed).todo = running.todo \ {x}
BY DEF Left, AfterFailure, JobType

LEMMA TakenTyped ==
    ASSUME NEW job \in JobType, active \subseteq Tenants
    PROVE  /\ [job EXCEPT !.todo = Found(job)] \in JobType
           /\ [job EXCEPT !.todo = Found(job)].name = job.name
           /\ [job EXCEPT !.todo = Found(job)].tenant = job.tenant
           /\ [job EXCEPT !.todo = Found(job)].todo = Found(job)
<1>1. Found(job) \subseteq Tenants \cup Items
    BY DEF Found
<1>. QED
    BY <1>1 DEF JobType

\* What waits to be tried again is the job that was under way.
Again(job) ==
    /\ job \in JobType
    /\ job.name = running.name /\ job.tenant = running.tenant

LEMMA RetryTyped ==
    ASSUME running \in JobType, running.attempt < Tries(running.name)
    PROVE  Again([running EXCEPT !.attempt = @ + 1, !.todo = {}])
<1>1. running.attempt \in 1 .. 3 /\ Tries(running.name) \in {2, 3}
    BY DEF JobType, Tries
<1>2. running.attempt + 1 \in 1 .. 3
    BY <1>1
<1>3. PICK once : once = [running EXCEPT !.attempt = running.attempt + 1]
    OBVIOUS
<1>4. Again(once)
    BY <1>2, <1>3 DEF JobType, Again
<1>5. PICK again : again = [once EXCEPT !.todo = {}]
    OBVIOUS
<1>6. Again(again)
    BY <1>4, <1>5 DEF JobType, Again
<1>. QED
    BY <1>3, <1>5, <1>6

LEMMA StalledTyped ==
    ASSUME running \in JobType
    PROVE  Again([running EXCEPT !.stalled = TRUE, !.todo = {}])
<1>1. PICK once : once = [running EXCEPT !.stalled = TRUE]
    OBVIOUS
<1>2. Again(once)
    BY <1>1 DEF JobType, Again
<1>3. PICK again : again = [once EXCEPT !.todo = {}]
    OBVIOUS
<1>4. Again(again)
    BY <1>2, <1>3 DEF JobType, Again
<1>. QED
    BY <1>1, <1>3, <1>4

-----------------------------------------------------------------------------
(* Types.                                                                  *)
LEMMA InitTyped == JobsInit => JobsTypeOK
BY EmptySeq DEF JobsInit, JobsTypeOK

LEMMA UnderWay ==
    ASSUME JobsTypeOK, running # NoJob
    PROVE  running \in JobType
BY DEF JobsTypeOK

LEMMA NextTyped ==
    ASSUME JobsTypeOK, [JobsNext]_jobsVars
    PROVE  JobsTypeOK'
<1>0. crons' = crons
    BY DEF JobsNext, jobsVars, CronAdds, TryAgain, SuspendTenant, FanOut, FanOutFails, BecomeDue,
           Sweep, SweepFails, Take, Throw, Die, Finish
<1>. /\ JobType' = JobType /\ NoJob' = NoJob
    BY <1>0 DEF JobType
<1>. USE DEF JobsTypeOK
<1>1. ASSUME NEW name \in Ticks, CronAdds(name)  PROVE JobsTypeOK'
  <2>1. queue' \in Seq(JobType)
    BY <1>1, NewJobTyped, AppendIsLonger DEF CronAdds
  <2>. QED
    BY <1>1, <2>1 DEF CronAdds
<1>2. ASSUME NEW job \in delayed, TryAgain(job)  PROVE JobsTypeOK'
  <2>1. queue' \in Seq(JobType)
    BY <1>2, AppendIsLonger DEF TryAgain
  <2>. QED
    BY <1>2, <2>1 DEF TryAgain
<1>3. ASSUME NEW t \in Tenants, SuspendTenant(t)  PROVE JobsTypeOK'
    BY <1>3 DEF SuspendTenant
<1>4. ASSUME NEW t \in Tenants, FanOut(t)  PROVE JobsTypeOK'
  <2>1. running.name \in Ticks /\ running \in JobType
    BY <1>4, UnderWay DEF FanOut, NoJob, Ticks
  <2>2. queue' \in Seq(JobType)
    BY <1>4, <2>1, JobsForTyped, ConcatIsLonger DEF FanOut
  <2>3. running' \in JobType
    BY <1>4, <2>1, LeftTyped DEF FanOut
  <2>. QED
    BY <1>4, <2>2, <2>3 DEF FanOut
<1>5. ASSUME NEW t \in Tenants, NEW n \in 1 .. 2, FanOutFails(t, n)  PROVE JobsTypeOK'
  <2>1. running.name \in Ticks /\ running \in JobType
    BY <1>5, UnderWay DEF FanOutFails, NoJob, Ticks
  <2>2. SubSeq(JobsFor(running.name, t), 1, n - 1) \in Seq(JobType)
    <3>1. n \in DOMAIN Spawned(running.name)
        BY <1>5 DEF FanOutFails
    <3>2. \A k \in 1 .. n - 1 : JobsFor(running.name, t)[k] \in JobType
        BY <2>1, <3>1, SpawnedTyped, JobsForTyped, ElementOfSeq
    <3>. QED
        BY <3>2, SubSeqProperties
  <2>3. queue' \in Seq(JobType)
    BY <1>5, <2>2, ConcatIsLonger DEF FanOutFails
  <2>4. running' \in JobType
    BY <1>5, <2>1, LeftTyped DEF FanOutFails
  <2>5. owed' \subseteq owed /\ faults' \in 0 .. MaxFaults
    BY <1>5 DEF FanOutFails, Fault
  <2>6. UNCHANGED <<crons, delayed, planned, items, active>>
    BY <1>5 DEF FanOutFails
  <2>. QED
    BY <2>3, <2>4, <2>5, <2>6
<1>6. ASSUME NEW i \in Items, BecomeDue(i)  PROVE JobsTypeOK'
    BY <1>6 DEF BecomeDue
<1>7. ASSUME NEW i \in Items, Sweep(i)  PROVE JobsTypeOK'
  <2>1. running \in JobType
    BY <1>7, UnderWay DEF Sweep, NoJob, TenantJobs
  <2>2. running' = Left(i, FALSE)
    BY <1>7 DEF Sweep
  <2>3. running' \in JobType
    BY <2>1, <2>2, LeftTyped
  <2>4. items' \in [Items -> {"idle", "due", "handled", "missed"}]
    BY <1>7 DEF Sweep
  <2>5. owed' \subseteq owed /\ faults' \in 0 .. MaxFaults
    BY <1>7 DEF Sweep, Fault
  <2>6. UNCHANGED <<crons, queue, delayed, planned, active>>
    BY <1>7 DEF Sweep
  <2>. QED
    BY <2>3, <2>4, <2>5, <2>6
<1>8. ASSUME NEW i \in Items, SweepFails(i)  PROVE JobsTypeOK'
  <2>1. running \in JobType
    BY <1>8, UnderWay DEF SweepFails, NoJob, TenantJobs
  <2>2. running' = Left(i, TRUE)
    BY <1>8 DEF SweepFails
  <2>3. running' \in JobType
    BY <2>1, <2>2, LeftTyped
  <2>4. items' \in [Items -> {"idle", "due", "handled", "missed"}]
    BY <1>8 DEF SweepFails
  <2>5. owed' \subseteq owed /\ faults' \in 0 .. MaxFaults
    BY <1>8 DEF SweepFails, Fault
  <2>6. UNCHANGED <<crons, queue, delayed, planned, active>>
    BY <1>8 DEF SweepFails
  <2>. QED
    BY <2>3, <2>4, <2>5, <2>6
<1>9. ASSUME Take  PROVE JobsTypeOK'
  <2>1. Head(queue) \in JobType /\ queue' \in Seq(JobType)
    BY <1>9, TailIsRest DEF Take
  <2>2. running' \in JobType
    BY <1>9, <2>1, TakenTyped DEF Take
  <2>3. planned' \subseteq crons'
    <3>1. Head(queue).name \in crons \cup TenantJobs
        BY <2>1 DEF JobType
    <3>. QED
        BY <1>0, <1>9, <3>1 DEF Take, Ticks, TenantJobs
  <2>4. owed' \subseteq owed
    BY <1>9 DEF Take
  <2>5. UNCHANGED <<crons, delayed, items, active, faults>>
    BY <1>9 DEF Take
  <2>. QED
    BY <2>1, <2>2, <2>3, <2>4, <2>5
<1>10. ASSUME Throw  PROVE JobsTypeOK'
    BY <1>10, UnderWay, RetryTyped DEF Throw, Fault, Again
<1>11. ASSUME Die  PROVE JobsTypeOK'
  <2>1. queue' \in Seq(JobType)
    <3>1. CASE ~running.stalled
      <4>1. <<[running EXCEPT !.stalled = TRUE, !.todo = {}]>> \in Seq(JobType)
        BY <1>11, UnderWay, StalledTyped DEF Die, Again
      <4>. QED
        BY <1>11, <3>1, <4>1, ConcatIsLonger DEF Die
    <3>2. CASE running.stalled
        BY <1>11, <3>2 DEF Die
    <3>. QED
        BY <3>1, <3>2
  <2>. QED
    BY <1>11, <2>1 DEF Die, Fault
<1>12. ASSUME Finish  PROVE JobsTypeOK'
    BY <1>12 DEF Finish
<1>13. CASE UNCHANGED jobsVars
    BY <1>13 DEF jobsVars
<1>. QED
    BY <1>1, <1>2, <1>3, <1>4, <1>5, <1>6, <1>7, <1>8, <1>9, <1>10, <1>11, <1>12, <1>13 DEF JobsNext

\* What is in the queue and under way of the worker are jobs, and what it remembers of
\* the items is one of their states.
THEOREM JobsTyped == JobsSpec => []JobsTypeOK
<1>. QED
    BY InitTyped, NextTyped, PTL DEF JobsSpec

-----------------------------------------------------------------------------
(* Nothing is forgotten.  That needs one thing more: what a sweep has yet  *)
(* to come to is what its job is for, so that the same job, when it is     *)
(* tried again, finds it again.                                            *)
OwnItems ==
    running.name \in TenantJobs =>
        \A i \in running.todo :
            i \in Items => JobOf[i] = running.name /\ TenantOf[i] = running.tenant

Waits(i) == \E n \in DOMAIN queue : Reaches(queue[n], i)
WaitsAgain(i) == \E job \in delayed : Reaches(job, i)
HasJob(i) == Waits(i) \/ WaitsAgain(i) \/ StillReaches(i)
JobsInv == JobsTypeOK /\ OwnItems /\ NothingForgotten

LEMMA ForgottenMeans == NothingForgotten <=> \A i \in owed : items[i] = "due" /\ HasJob(i)
BY DEF NothingForgotten, HasJob, Waits, WaitsAgain

\* A job of a longer queue is found in it.
LEMMA WaitsOn ==
    ASSUME NEW i, Waits(i), Within(queue, queue')
    PROVE  Waits(i)'
BY DEF Waits, Within, Reaches

\* The next try of a job reaches what the job under way still reaches.
LEMMA ReachesAgain ==
    ASSUME JobsTypeOK, OwnItems, NEW i \in Items, StillReaches(i)
    PROVE  /\ Reaches(running, i)
           /\ \A job : Again(job) => Reaches(job, i)
<1>1. JobOf[i] \in TenantJobs
    OBVIOUS
<1>. QED
    BY <1>1 DEF OwnItems, StillReaches, Reaches, Again

LEMMA NextOwn ==
    ASSUME JobsTypeOK, OwnItems, [JobsNext]_jobsVars
    PROVE  OwnItems'
<1>1. CASE UNCHANGED running
    BY <1>1 DEF OwnItems
<1>2. ASSUME running' = NoJob  PROVE OwnItems'
    BY <1>2 DEF OwnItems, NoJob, TenantJobs
<1>3. ASSUME NEW x, NEW failed, running' = Left(x, failed),
             running.name \in Ticks \cup TenantJobs
      PROVE  OwnItems'
  <2>1. running \in JobType
    BY <1>3, UnderWay DEF NoJob, Ticks, TenantJobs
  <2>. QED
    BY <1>3, <2>1, LeftTyped DEF OwnItems
<1>4. ASSUME Take  PROVE OwnItems'
  <2>1. Head(queue) \in JobType /\ running' = [Head(queue) EXCEPT !.todo = Found(Head(queue))]
    BY <1>4, TailIsRest DEF Take, JobsTypeOK
  <2>2. active \subseteq Tenants
    BY DEF JobsTypeOK
  <2>3. /\ running'.name = Head(queue).name /\ running'.tenant = Head(queue).tenant
        /\ running'.todo = Found(Head(queue))
    BY <2>1, <2>2, TakenTyped
  <2>4. ASSUME Head(queue).name \in TenantJobs, NEW i \in Found(Head(queue))
        PROVE  JobOf[i] = Head(queue).name /\ TenantOf[i] = Head(queue).tenant
    BY <2>4 DEF Found, TenantJobs, Ticks
  <2>. QED
    BY <2>3, <2>4 DEF OwnItems
<1>5. ASSUME NEW t \in Tenants, FanOut(t)  PROVE OwnItems'
    BY <1>3, <1>5 DEF FanOut
<1>6. ASSUME NEW t \in Tenants, NEW n \in 1 .. 2, FanOutFails(t, n)  PROVE OwnItems'
    BY <1>3, <1>6 DEF FanOutFails
<1>7. ASSUME NEW i \in Items, Sweep(i)  PROVE OwnItems'
    BY <1>3, <1>7 DEF Sweep
<1>8. ASSUME NEW i \in Items, SweepFails(i)  PROVE OwnItems'
    BY <1>3, <1>8 DEF SweepFails
<1>9. ASSUME Throw \/ Die \/ Finish  PROVE OwnItems'
    BY <1>2, <1>9 DEF Throw, Die, Finish
<1>10. ASSUME NEW name, CronAdds(name)  PROVE OwnItems'
    BY <1>1, <1>10 DEF CronAdds
<1>11. ASSUME NEW x, TryAgain(x) \/ SuspendTenant(x) \/ BecomeDue(x)  PROVE OwnItems'
    BY <1>1, <1>11 DEF TryAgain, SuspendTenant, BecomeDue
<1>. QED
    BY <1>1, <1>4, <1>5, <1>6, <1>7, <1>8, <1>9, <1>10, <1>11 DEF JobsNext, jobsVars

\* The job under way has come to one thing more: nothing else is lost by it.
LEMMA OneLess ==
    ASSUME JobsTypeOK, NEW x, NEW failed, running' = Left(x, failed),
           running.name \in Ticks \cup TenantJobs,
           NEW i \in Items, StillReaches(i),
           IF running.name \in Ticks THEN TenantOf[i] # x ELSE i # x
    PROVE  StillReaches(i)'
<1>1. running \in JobType
    BY UnderWay DEF NoJob, Ticks, TenantJobs
<1>2. /\ running'.name = running.name
      /\ running'.todo = running.todo \ {x}
    BY <1>1, LeftTyped
<1>3. JobOf[i] \in TenantJobs
    OBVIOUS
<1>. QED
    BY <1>2, <1>3 DEF StillReaches, Ticks, TenantJobs

\* The jobs a tick adds for a tenant reach its items.
LEMMA JobForItem ==
    ASSUME NEW name \in Ticks, NEW i \in Items, NEW n \in DOMAIN Spawned(name),
           Spawned(name)[n] = JobOf[i]
    PROVE  Reaches(JobsFor(name, TenantOf[i])[n], i)
<1>1. TenantOf[i] \in Tenants
    OBVIOUS
<1>. QED
    BY <1>1, JobsForTyped DEF Reaches

LEMMA NextRemembers ==
    ASSUME JobsTypeOK, OwnItems, NothingForgotten, [JobsNext]_jobsVars
    PROVE  NothingForgotten'
<1>. SUFFICES ASSUME NEW i \in owed'
              PROVE  items'[i] = "due" /\ HasJob(i)'
    BY DEF NothingForgotten, HasJob, Waits, WaitsAgain
<1>1. owed \subseteq Items /\ \A j \in owed : items[j] = "due" /\ HasJob(j)
    BY ForgottenMeans DEF JobsTypeOK
<1>2. queue \in Seq(JobType)
    BY DEF JobsTypeOK
<1>3. CASE UNCHANGED jobsVars
    BY <1>1, <1>3 DEF jobsVars, HasJob, Waits, WaitsAgain, StillReaches
<1>4. ASSUME NEW name \in Ticks, CronAdds(name)  PROVE items'[i] = "due" /\ HasJob(i)'
  <2>1. name \in crons
    BY <1>4 DEF CronAdds, JobsTypeOK
  <2>2. NewJob(name, Platform) \in JobType /\ NewJob(name, Platform).name = name
    BY <2>1, NewJobTyped
  <2>3. /\ Within(queue, queue')
        /\ \E m \in DOMAIN queue' : queue'[m] = NewJob(name, Platform)
    BY <1>2, <1>4, <2>2, AppendIsLonger DEF CronAdds
  <2>4. CASE i \in owed
    BY <1>1, <1>4, <2>3, <2>4, WaitsOn DEF CronAdds, HasJob, WaitsAgain, StillReaches
  <2>5. CASE i \notin owed
    <3>1. items[i] = "due" /\ Serves(name, JobOf[i])
        BY <1>4, <2>5 DEF CronAdds
    <3>2. Reaches(NewJob(name, Platform), i)
        BY <2>2, <3>1 DEF Reaches
    <3>. QED
        BY <1>4, <2>3, <3>1, <3>2 DEF CronAdds, HasJob, Waits, Reaches
  <2>. QED
    BY <2>4, <2>5
<1>5. ASSUME NEW job \in delayed, TryAgain(job)  PROVE items'[i] = "due" /\ HasJob(i)'
  <2>1. /\ Within(queue, queue')
        /\ \E m \in DOMAIN queue' : queue'[m] = job
    BY <1>2, <1>5, AppendIsLonger DEF TryAgain, JobsTypeOK
  <2>2. CASE Reaches(job, i)
    BY <1>1, <1>5, <2>1, <2>2 DEF TryAgain, HasJob, Waits, Reaches
  <2>3. CASE ~Reaches(job, i)
    BY <1>1, <1>5, <2>1, <2>3, WaitsOn DEF TryAgain, HasJob, WaitsAgain, StillReaches, Reaches
  <2>. QED
    BY <2>2, <2>3
<1>6. ASSUME NEW t \in Tenants, SuspendTenant(t)  PROVE items'[i] = "due" /\ HasJob(i)'
    BY <1>1, <1>6 DEF SuspendTenant, HasJob, Waits, WaitsAgain, StillReaches
<1>7. ASSUME NEW j \in Items, BecomeDue(j)  PROVE items'[i] = "due" /\ HasJob(i)'
    BY <1>1, <1>7 DEF BecomeDue, HasJob, Waits, WaitsAgain, StillReaches, JobsTypeOK
<1>8. ASSUME NEW t \in Tenants, FanOut(t)  PROVE items'[i] = "due" /\ HasJob(i)'
  <2>1. running.name \in Ticks /\ i \in owed /\ items' = items /\ delayed' = delayed
    BY <1>8 DEF FanOut
  <2>2. JobsFor(running.name, t) \in Seq(JobType)
    BY <1>8, <2>1, UnderWay, JobsForTyped DEF NoJob, Ticks
  <2>3. Within(queue, queue') /\ Within(JobsFor(running.name, t), queue')
    BY <1>2, <1>8, <2>2, ConcatIsLonger DEF FanOut
  <2>4. CASE StillReaches(i) /\ TenantOf[i] = t
    <3>1. PICK n \in DOMAIN Spawned(running.name) : Spawned(running.name)[n] = JobOf[i]
        BY <1>1, <2>1, <2>4 DEF StillReaches, Serves, Ticks, TenantJobs
    <3>2. Reaches(JobsFor(running.name, t)[n], i) /\ n \in DOMAIN JobsFor(running.name, t)
        BY <1>1, <2>1, <2>4, <3>1, JobForItem, JobsForTyped
    <3>. QED
        BY <1>1, <2>1, <2>3, <3>2 DEF Within, HasJob, Waits, Reaches
  <2>5. CASE StillReaches(i) /\ TenantOf[i] # t
    BY <1>1, <1>8, <2>1, <2>5, OneLess DEF FanOut, HasJob
  <2>6. CASE ~StillReaches(i)
    BY <1>1, <2>1, <2>3, <2>6, WaitsOn DEF HasJob, WaitsAgain, Reaches
  <2>. QED
    BY <2>4, <2>5, <2>6
<1>9. ASSUME NEW t \in Tenants, NEW n \in 1 .. 2, FanOutFails(t, n)
      PROVE  items'[i] = "due" /\ HasJob(i)'
  <2>1. /\ running.name \in Ticks /\ i \in owed /\ items' = items /\ delayed' = delayed
        /\ n \in DOMAIN Spawned(running.name)
        /\ TenantOf[i] = t => \A k \in n .. Len(Spawned(running.name)) : Spawned(running.name)[k] # JobOf[i]
    BY <1>9 DEF FanOutFails
  <2>2. /\ DOMAIN Spawned(running.name) = 1 .. Len(Spawned(running.name))
        /\ Len(Spawned(running.name)) \in Nat
        /\ JobsFor(running.name, t) \in Seq(JobType)
        /\ DOMAIN JobsFor(running.name, t) = DOMAIN Spawned(running.name)
    BY <2>1, SpawnedTyped, JobsForTyped
  <2>. DEFINE added == SubSeq(JobsFor(running.name, t), 1, n - 1)
  <2>3. \A k \in 1 .. n - 1 : JobsFor(running.name, t)[k] \in JobType
    BY <2>1, <2>2, ElementOfSeq
  <2>4. /\ added \in Seq(JobType) /\ Len(added) = n - 1
        /\ \A k \in 1 .. n - 1 : added[k] = JobsFor(running.name, t)[k]
    BY <2>3, SubSeqProperties
  <2>5. DOMAIN added = 1 .. n - 1
    BY <2>4, LenProperties
  <2>6. Within(queue, queue') /\ Within(added, queue')
    BY <1>2, <1>9, <2>4, ConcatIsLonger DEF FanOutFails
  <2>7. CASE StillReaches(i) /\ TenantOf[i] = t
    <3>1. PICK k \in DOMAIN Spawned(running.name) : Spawned(running.name)[k] = JobOf[i]
        BY <1>1, <2>1, <2>7 DEF StillReaches, Serves, Ticks, TenantJobs
    <3>2. k \in 1 .. n - 1
        BY <2>1, <2>2, <2>7, <3>1
    <3>3. Reaches(added[k], i) /\ k \in DOMAIN added
        BY <1>1, <2>1, <2>4, <2>5, <2>7, <3>1, <3>2, JobForItem
    <3>. QED
        BY <1>1, <2>1, <2>6, <3>3 DEF Within, HasJob, Waits, Reaches
  <2>8. CASE StillReaches(i) /\ TenantOf[i] # t
    BY <1>1, <1>9, <2>1, <2>8, OneLess DEF FanOutFails, HasJob
  <2>9. CASE ~StillReaches(i)
    BY <1>1, <2>1, <2>6, <2>9, WaitsOn DEF HasJob, WaitsAgain, Reaches
  <2>. QED
    BY <2>7, <2>8, <2>9
<1>10. ASSUME NEW j \in Items, Sweep(j) \/ SweepFails(j)
       PROVE  items'[i] = "due" /\ HasJob(i)'
  <2>1. /\ running.name \in TenantJobs /\ i \in owed \ {j} /\ items'[i] = items[i]
        /\ delayed' = delayed /\ queue' = queue
    BY <1>1, <1>10 DEF Sweep, SweepFails, JobsTypeOK
  <2>2. PICK failed : running' = Left(j, failed)
    BY <1>10 DEF Sweep, SweepFails
  <2>3. StillReaches(i) => StillReaches(i)'
    BY <1>1, <2>1, <2>2, OneLess DEF Ticks, TenantJobs
  <2>. QED
    BY <1>1, <2>1, <2>3 DEF HasJob, Waits, WaitsAgain, Reaches
<1>11. ASSUME Take  PROVE items'[i] = "due" /\ HasJob(i)'
  <2>. DEFINE job == Head(queue)
  <2>1. /\ job \in JobType /\ queue' = Tail(queue) /\ i \in owed /\ items' = items
        /\ delayed' = delayed
        /\ Reaches(job, i) => TenantOf[i] \in active \/ job.name \notin Ticks
        /\ running = NoJob
        /\ running' = [job EXCEPT !.todo = Found(job)]
        /\ \A n \in DOMAIN queue : queue[n] = job \/ \E m \in DOMAIN Tail(queue) : Tail(queue)[m] = queue[n]
    BY <1>2, <1>11, TailIsRest DEF Take
  <2>2. running'.name = job.name /\ running'.todo = Found(job)
    BY <2>1, TakenTyped DEF JobsTypeOK
  <2>3. JobOf[i] \in TenantJobs /\ items[i] = "due" /\ i \in Items
    BY <1>1, <2>1
  <2>4. ~StillReaches(i)
    BY <2>1, <2>3 DEF StillReaches, NoJob, Ticks, TenantJobs
  <2>5. CASE Reaches(job, i)
    <3>1. CASE job.name \in Ticks /\ Serves(job.name, JobOf[i])
        BY <2>1, <2>2, <2>3, <2>5, <3>1 DEF Found, StillReaches, HasJob
    <3>2. CASE job.name = JobOf[i] /\ job.tenant = TenantOf[i]
        BY <2>1, <2>2, <2>3, <3>2 DEF Found, StillReaches, HasJob, Ticks, TenantJobs
    <3>. QED
        BY <2>5, <3>1, <3>2 DEF Reaches
  <2>6. CASE ~Reaches(job, i)
    BY <1>1, <2>1, <2>4, <2>6 DEF HasJob, Waits, WaitsAgain, Reaches
  <2>. QED
    BY <2>5, <2>6
<1>12. ASSUME Throw  PROVE items'[i] = "due" /\ HasJob(i)'
  <2>1. /\ i \in owed /\ items' = items /\ queue' = queue /\ running \in JobType
        /\ delayed \subseteq delayed'
        /\ Reaches(running, i) => running.attempt < Tries(running.name)
    BY <1>12, UnderWay DEF Throw
  <2>2. CASE StillReaches(i)
    <3>. DEFINE again == [running EXCEPT !.attempt = @ + 1, !.todo = {}]
    <3>1. Again(again) /\ again \in delayed'
        BY <1>1, <1>12, <2>1, <2>2, ReachesAgain, RetryTyped DEF Throw
    <3>2. Reaches(again, i)
        BY <1>1, <2>1, <2>2, <3>1, ReachesAgain
    <3>. QED
        BY <1>1, <2>1, <3>1, <3>2 DEF HasJob, WaitsAgain, Reaches
  <2>3. CASE ~StillReaches(i)
    BY <1>1, <2>1, <2>3 DEF HasJob, Waits, WaitsAgain, Reaches
  <2>. QED
    BY <2>2, <2>3
<1>13. ASSUME Die  PROVE items'[i] = "due" /\ HasJob(i)'
  <2>. DEFINE again == [running EXCEPT !.stalled = TRUE, !.todo = {}]
  <2>1. /\ i \in owed /\ items' = items /\ delayed' = delayed /\ running \in JobType
        /\ Reaches(running, i) => ~running.stalled
        /\ queue' = IF running.stalled THEN queue ELSE <<again>> \o queue
    BY <1>13, UnderWay DEF Die
  <2>2. Again(again)
    BY <2>1, StalledTyped
  <2>3. <<again>> \in Seq(JobType) /\ \E m \in DOMAIN <<again>> : <<again>>[m] = again
    BY <2>2, OneJob DEF Again
  <2>. HIDE DEF again
  <2>4. Within(queue, <<again>> \o queue) /\ Within(<<again>>, <<again>> \o queue)
    BY <1>2, <2>3, ConcatIsLonger
  <2>5. Within(queue, queue')
    BY <2>1, <2>4 DEF Within
  <2>6. CASE StillReaches(i)
    <3>1. ~running.stalled /\ Reaches(again, i)
        BY <1>1, <2>1, <2>2, <2>6, ReachesAgain
    <3>2. Within(<<again>>, queue')
        BY <2>1, <2>4, <3>1
    <3>3. \E m \in DOMAIN queue' : queue'[m] = again
        BY <2>3, <3>2 DEF Within
    <3>. QED
        BY <1>1, <2>1, <3>1, <3>3 DEF HasJob, Waits, Reaches
  <2>7. CASE ~StillReaches(i)
    BY <1>1, <2>1, <2>5, <2>7, WaitsOn DEF HasJob, WaitsAgain, Reaches
  <2>. QED
    BY <2>6, <2>7
<1>14. ASSUME Finish  PROVE items'[i] = "due" /\ HasJob(i)'
  <2>1. running.todo = {} /\ i \in owed
    BY <1>14 DEF Finish
  <2>2. ~StillReaches(i)
    BY <2>1 DEF StillReaches
  <2>. QED
    BY <1>1, <1>14, <2>1, <2>2 DEF Finish, HasJob, Waits, WaitsAgain, Reaches
<1>. QED
    BY <1>3, <1>4, <1>5, <1>6, <1>7, <1>8, <1>9, <1>10, <1>11, <1>12, <1>13, <1>14 DEF JobsNext

\* The worker forgets nothing: whatever fails, throws, dies, is delayed or added
\* twice, what was due when its tick was added has a job that will come to it, until
\* it has been handled or has met with a failure of its own.
THEOREM NothingIsForgotten == JobsSpec => []NothingForgotten
<1>1. JobsInit => JobsInv
    BY InitTyped DEF JobsInit, JobsInv, OwnItems, NothingForgotten, NoJob, TenantJobs
<1>2. JobsInv /\ [JobsNext]_jobsVars => JobsInv'
    BY NextTyped, NextOwn, NextRemembers DEF JobsInv
<1>3. JobsInv => NothingForgotten
    BY DEF JobsInv
<1>. QED
    BY <1>1, <1>2, <1>3, PTL DEF JobsSpec
=============================================================================
