# Obikai: a verification project in TLA+

Obikai is a system for martial-arts dojos: members and their households, schedules, bookings and
attendance, ranks and gradings, and billing. It is a TypeScript monorepo: a NestJS api
(`apps/api`), a BullMQ worker (`apps/worker`), three web applications, and packages for the domain rules
(`packages/domain`), the MongoDB repositories (`packages/db`), billing (`packages/billing`), the
rank engine, authorization and authentication. The database is a single MongoDB node and **the code never
opens a multi-document transaction**: what is atomic is one document write. Everything the services
promise across several documents rests on unique indexes, guarded single-document updates and
re-running jobs. That is what these specifications are about.

`PROJECT.json` lists the parts with their sources and status, every definition with the lines it
models, every hazard at the line where it bites, the runs, and the theorems.

## Inventory

| Component | State it keeps | Operations | What is hard | What makes it correct |
|---|---|---|---|---|
| Billing: issuing (`packages/billing`, `packages/db/src/billing.ts`) | invoices, number counter per tenant and year, billing cursor of the enrolment | billing-run job, issue request, ad-hoc invoice | at-least-once jobs, two issuers of one draft, death between any two writes, stale snapshot of the cursor, turn of the year | every period billed once, in order, never early; no month skipped by short months; numbers unique; an issued invoice never changes; billing catches up |
| Billing: collecting | payment attempts, status and dunning stage of the invoice, status of the enrolment | recordPaymentResult, advanceDunning, overdue notice | duplicated and concurrent results, payment racing a dunning job, job dying before the suspension | a success settles for good; the ladder is climbed rung by rung with its waiting times; nothing overdue is forgotten |
| Billing: enrolments | enrollments | enrol, freeze, cancel | they change while jobs run | the above holds whenever they change |
| Worker (`apps/worker`) | Redis queue, repeatable ticks | ticks, fan-out over tenants, sweeps, retries | redelivery, partial fan-out, one bad record | what is due is reached unless it failed itself |
| Scheduling (`apps/api/src/scheduling`) | schedules, occurrences, bookings | materialize, book, cancel, promote from the waitlist | seats are counted, then taken; windows meet at a change of the clocks | no class above capacity; no free seat while somebody waits; no class lost or made up |
| Class reminders | reminder claims | send once per booking | the claim precedes the send | at most once |
| Attendance and check-in | attendance records | check in, roster | find-then-record | only for a class that takes place; only overlapping taps repeat a record |
| Ranks (`apps/api/src/rank`, `packages/db/src/rank.ts`) | rank systems, versions, positions, promotions | publish a version, enrol, grade, award | two documents per publication and per award; six awaits on stale reads | history and position agree; versions are consecutive; prerequisites are kept |
| Rank engine (`packages/rank-engine`) | none: a pure evaluator | eligibility | trees of rules, missing facts | progress never moves backwards |
| Sessions and tokens (`apps/api/src/auth`) | users, refresh sessions, one-time tokens | login, rotate, revoke, reset, verify | rotation races, a token consumed before its effect | one live session per family; a new password ends the old sessions |
| Members, invites, erasure | members, invites, memberships | register, invite, accept, erase | four writes in sequence, an erasure walks over every collection of the account | an account is one member's; a completed erasure leaves nothing |
| Authorization, guardianship (`packages/authz`) | roles, edges | permit or deny | a right is taken back while a request runs | every act was allowed when it was done |
| Tenancy (`packages/db/src/tenant-*.ts`) | async-local scope | scopes every query, write and pipeline | pipelines that reach other collections | no call crosses a tenant |
| Audit trail (`packages/gdpr`) | hash chain per tenant | append with retry | two appends on one head | one chain; every act on it once |
| Consents, broadcasts | append-only consents, deliveries | grant, withdraw, send | a withdrawal during a broadcast | nothing is mailed without a consent read in the same request |
| Waivers | templates with versions, signatures | edit, list, sign | an edit between the reading and the signing | signatures of one version are of one text |
| Catalogue: members' records, plans, VAT rates, locations, programs, schedules, disciplines, households | documents | create, patch, remove, link | partial updates and defaults; two editors | one member per e-mail; a patch changes what it names |
| Web apps, API client (`apps/web-*`, `packages/api-client`) | query cache, access token, shared cookie | load, change, invalidate; login, refresh, logout in several tabs | stale cache, overlapping refreshes, lost answers | a page shows its own changes; rotation never signs anybody out |
| Platform plane, reporting, settings, storage, health, adapters, i18n, configuration | single documents, reads, pure I/O | | | |

### How the parts interact

A daily tick enqueues for each active tenant a `billing-run` and a `dunning` job, another one a `reminders` job. The
billing run lists the enrolments that look due and bills each: it reads the enrolment, computes
the period after its cursor, looks the invoice of that period up, creates a draft if there is none
(a unique index on enrolment and period start refuses the second), allocates a number, claims the
draft with it, and moves the cursor. Staff and members issue invoices through the api, on the same
documents. The dunning job lists overdue invoices, moves each one rung up a ladder with a
guarded update, and at the last rung gives the invoice up and freezes the enrolment, which takes it
away from the billing run. A payment provider reports the outcome of a charge: an attempt is
appended and a success marks the invoice paid. These parts share the collections and nothing else: no
calls, locks or messages between them.

A class links schedules (which make it), bookings, check-in and
reminders: they write the same bookings and the same occurrence. Attendance and gradings are what the
rank engine counts. A request passes the tenancy middleware, which loads what the caller may do, then a
service that decides, writes and appends to the audit chain of the tenant. An account is written by
logins, password changes, one-time links, invites, and by the erasure of its member. A browser holds one
cookie for all its tabs, each with an access token and a cache of its own.

## Modules

    BillingStore -- RecurringBilling -- MCRecurringBilling     RecurringBilling, Calendar -- IssuingProofs
          |               |                                                             |
          +-- Collections-|-- MCCollections                                             |
          |               |                                                             |
          +---------------+-- Billing (implements InvoiceLedger) ---------------- CollectionProofs
                                 |
           Jobs, Calendar -- MCBilling                         Jobs -- JobProofs

    Scheduling, Recurrence -- MCScheduling                     ClassProofs
    Criteria -- Ranks, Eligibility -- MCRanks                  Ranks, Eligibility -- RankProofs
    AccountStore -- AuthSessions -- Onboarding -- Accounts -- SessionProofs -- AccountProofs
                        |                            |
                        +-- Browser -----------------+-- MCAccounts
                        |                                      Browser -- SessionProofs
    AuditTrail, Access -- Requests  -+
    Access -- Catalogue, Waivers    -+-- MCRequests            Requests, Waivers, Catalogue,
    TenantGuard, Pages              -+                           TenantGuard, Pages -- RequestProofs

**Granularity.** Node runs one callback at a time, so an execution cannot be interrupted between two
awaits. One action is the code from one database call to the next, with one of the two calls. A
record per execution (`run`, `settling`, `dunning`, `calls`, `edits`, `visits`) holds where it is and what it read; that is
where stale state lives. BullMQ redelivers and a deployment may have several workers, so any worker may start any due item
at any time, also while another works on it. Outside billing an execution is a caller,
which takes up any request or job when it is idle.

**Workloads.** All operations of the api can overlap, but not all pairs touch the same documents, and
all at once is beyond TLC. `Scheduling`, `Ranks`, `Accounts` and `Requests` have a constant `Workloads`, sets of
operations, one of which is chosen initially; the MC modules choose them so that every pair
of operations that share a document is together in one. A module whose state is disjoint from the
other's (`Recurrence`, `Eligibility`, `Browser`, `Jobs`, `Calendar`, and `TenantGuard`, `Catalogue`, `Waivers`, `Pages`) is a part of its own of a
run: a behaviour is of one part, and the variables of the others stand still. The theorems are about each module's own
specification, with all operations at once.

**BillingStore.** `enrollments`, `invoices`, `counter` and `payments` are the collections;
an operator per repository method gives its filter (`CanClaim`, `CanStep`, `Dunnable`,
`DueForBilling`, `PeriodTaken` for the unique index) and its write. `MarkPaid` has no guard because
`InvoiceRepository.update` has none.

**RecurringBilling.** `SweepEnrollment`, `ReadEnrollment`, `NotActive`, `NothingDue`,
`ResumeInvoice`, `NoInvoiceYet`, `CreatePeriodInvoice`, `LoseCreateRace` and `AdvanceCursor` are
`billRecurringForEnrollment` step by step; `ReadDraft`, `AlreadyIssued`, `Allocate`, `Claim` and
`LoseClaim` are `issue` and `ensureIssued`, shared by worker and api. `AdvanceCursor` compares with
the cursor the execution read, as the code does, not with the stored one.

**Calendar** is the dates that RecurringBilling abstracts to day numbers: `AddMonths` is `addMonthsUTC` with its clamping,
`BillPeriod` is `computeBillingPeriod` from one period to the next. `Date.UTC` is modelled by the Gregorian rule of leap years.

**Collections.** `ReadAttempts`, `RecordAttempt`, `RefuseAttempt` and `Settle` are
`recordPaymentResult`; `SweepInvoice` to `Notify` are `runDunningForTenant` around
`advanceDunning`. `NothingToAdvance` leads to a notice, because the sweep takes every return for an advance.
When the component is checked alone, `IssueInvoice` stands for RecurringBilling.

**Billing** runs both on the same store and maps it to **InvoiceLedger**: the entry of an invoice
is what issuing fixes for good, its standing is open, paid or uncollectible. The ledger knows no
drafts, counters, cursors, jobs or crashes; every step of Billing is one of its steps or a stutter.

**Jobs** is the worker's queue over several tenants: a cron adds its tick, the tick fans out to a job per active
tenant, the job sweeps the items that are due; handling an item may fail, an addition may fail, a job may throw and is
retried up to its attempts, a process may die. What the handling of an item does is in the modules above.

**Scheduling** is one class from its materialization to its end: `Materialize` upserts it from the
schedule, `CheckExisting`, `CountSeats`, `InsertBooking` are `BookingsService.create`, `Withdraw`, `ListWaitlist`,
`PromoteIfWaitlisted` are `cancel`, then check-in, the roster and the reminder sweep with its claim. `raced` is a
history variable: two bookings have decided at once, or the capacity was edited, or an execution died. Where
it is FALSE the class is in order; where it is TRUE the code promises nothing, which the hazards say.
**Recurrence** is the expansion of a weekly rule in a zone that changes its clocks, window by window.

**Ranks** publishes versions of a rank system (insert, then link), enrols members, records facts and
awards steps (snapshot, engine, promotion, position). **Criteria** is the leaf evaluation of the rank
engine, **Eligibility** its recursion over nested criteria and the status a student is shown. The recursion is a function
of the depth of a tree (`EvaluateNode` takes the evaluation of the level below), so that it can be proved about.

**AccountStore** holds users, identities, sessions, one-time tokens and members with the operations of
their repositories. **AuthSessions** is login, rotation, logout, passwords and one-time links; **Onboarding**
is registration, invites and erasure; **Accounts** both. **Browser** drives AuthSessions with the requests of the tabs of one browser,
whose answers set the one cookie or are lost.

**Access** is `can()` with the default catalogue. **AuditTrail** is the append that retries on the unique
index. **Requests** composes them: `ResolveMembership` and `LoadEdges` are the middleware, and the members, consent and
broadcast services follow, each mutation with its audit entry. **TenantGuard** applies the guard to
every kind of query, bulk write and aggregation pipeline over rows of two tenants. A pipeline is a sequence of stages, and a stage may
hold pipelines of the level below: a pipeline is judged (`Unsafe`), scoped (`ScopeStage`) and run (`RunStage`) level by level.

**Catalogue** gives every collection its controller (the defaults of the body schema), service (the permission, and
which operations look the row up first) and repository (columns and writes) as records, and two editors at work on
them. **Waivers** is the template and its version counter against those who list and sign. **Pages** is a table of every page
of the three apps with what it queries, changes and invalidates, and the query cache between: `PartialMatch` is how a key that
is named finds the keys it is a prefix of.

### What is abstracted

- A date is a day number. Where a period ends (`addMonthsUTC`) is a function of the plan and of the day the
  period starts, `PeriodDays`, which repeats with the calendar every `Cycle` days and of which only
  this is assumed: a period ends after it starts. So months may differ in length and be clamped (periods that start on
  the 28th and on the 31st of January both end on the 28th of February). That the dates of Calendar meet the assumption, with
  a cycle of 146097 days (400 years), is the theorem `PeriodsFollowTheCalendar`.
- `PeriodDays` and `Recurring` are constant: `PlansService.update` changes the name, whether the plan is
  active, the VAT rate and the credits of a plan, never its interval. A plan can be removed;
  billing then throws `NotFoundError` before it has written anything, which is not modelled.
- The initial state is an empty tenant. The demo data of `seed-demo` (enrolments with a cursor
  and no invoices) is not a state the properties speak of.
- `currentPeriodStart` is left out: no code reads it. So are lines, VAT, totals and the PDF, which are pure.
- The statuses `void` of an invoice and `pending` of an enrolment are never assigned by the code.
  Attempt statuses other than succeeded and failed are stored and have no effect, like failed.
- A result is for an invoice that has been issued (`ChargeableStatuses`): nothing charges a draft.
  Neither `recordPaymentResult` nor `issueInvoiceForEnrollment` has a caller in the applications
  at this commit; they are modelled from their own code, with the provider as an external actor.
- A crash is both the death of the process and a database call that
  throws: either way the execution ends where it is, and the queue or the client may start another.
- In Scheduling and Recurrence a schedule has one class a week or a rule of weekdays; in Ranks time is counted in classes.
- An audit entry's place in its chain stands for its hash, a version of a text for its words, and an e-mail for its
  spelling (`LowerCase`). The order of creation is the order of insertion.

## Runs

| Run | Instance | What it shows |
|---|---|---|
| `recurring` | one enrolment with periods of one and two days, 2 workers, 3 invoices, days 0..3, one crash, the year turns every second day | `NoDoubleBilling`, `NoSkippedPeriod`, `CursorCovered` and `NeverEarly` under redelivery, races and a death; `CatchesUp`: no regressed cursor or half-done period leaves an enrolment stuck |
| `collections` | one invoice, days 0..2, a ladder of 2, and in three shapes 2 charges, 2 deliveries or 2 dunning jobs; an execution may die where there are two jobs | `PaidIsPaidFor`, `LadderConsistent`, `WholeLadder` (the waiting times cannot be raced away), `SuspendedWithInvoice`, `PaidIsFinal`; `RungClimbed` and `ChargeReachesInvoice` as liveness |
| `billing` | one enrolment, 2 invoices, one of each execution, days 0..1, the year turns every day, a ladder of 1; Jobs: 2 tenants, 3 items of which one always fails, one fault; Calendar: 13 periods from the first and the last days of every month of 2023 and 2024 | `NumbersUnique`, `IssuedTogether`, `ImplementsLedger`: the refinement; `NothingForgotten`; `AnniversaryKept` |
| `scheduling` | 3 members, a class of 1 or 2 seats, 2 callers; Recurrence: 5 rules in 4 zones over 2 windows | `ClassInOrder`, `RemindedAtMostOnce`, `OnlyOverlapRepeats`, `CancelledIsFinal`; `HorizonComplete` |
| `ranks` | 2 versions of a ladder of 2 belts, one member, 2 callers, 2 promotions; Eligibility: a leaf and a group of two | `VersionsSound`, `PositionExplained`, `HistoryIsAChain`, `PrerequisiteHeld`; `NeverFurther` |
| `accounts` | 2 members, 3 users, 3 sessions, 2 links, one new password, 2 callers, eight workloads; Browser: 2 tabs | `OneLiveSession`, `OldPasswordOut`, `OnlyNewestLink`, `LinkConsistent`, `ErasedIsGone`; `StaysSignedIn` |
| `requests` | 2 tenants, 2 users with another role in each, 3 members, 2 callers, up to 3 acts; every call through the guard; 2 editors and 2 rows; 4 sessions, one template of 2 texts; one tab | `ChainVerifies`, `OnlyWhatIsAllowed`, `EveryActAudited`; `Isolation`; `EmailIsOneMembers`; `SameVersionSameText`; `ShowsOwnChanges` |
| `lost_payment` | as `collections` | `ReplayIsNoOp` is violated |
| `notice_without_advance` | as `collections` | `NoticeAfterAdvance` is violated |
| `killed_family` | as `accounts`, logins only | `KilledFamilyIsDead` is violated |
| `patched_defaults` | as `requests`, the catalogue | `OnlyNamedFields` is violated |
| `stale_profile` | as `requests`, the pages | `OwnProfile` is violated |

**Bounds.** Two executions are enough for most races, because a race is between one that holds a
snapshot and everything that happens meanwhile, and an execution can run to completion several times
while another waits. Where the code's guards read one document, one document is enough: one invoice for collecting, one
class for booking, one member for awards. Billing: four days and three invoices have periods of unequal length and let a cursor fall two periods behind; two rungs
have a rung that waits and one that is last, and the code's four repeat the first. `MaxCrashes`, `MaxFaults`: how
often something dies or fails; one is enough to interrupt any sequence of writes at any place. Jobs: a behaviour has one of the two crons
(they share nothing but the queue), the next tick is added when the jobs of the last are taken, and an item is due once.
Browser: one end of a session (`FirstEnd`) and one mailed link, because a second login starts a family the first knows nothing of.
Ranks: awards race grading and curriculum marks in one workload and attendance and crashes in others. Requests: the acts of a
behaviour (`MaxActs`) bound the trail, `MaxAttempts` the races an append loses before it gives up. What the bounds cannot show is proved,
with the exceptions named below. Eligibility: criteria nest once (`Depth`). TenantGuard: pipelines nest twice (`Nesting`), one stage
nested twice or two nested once, and a bulk write has one operation, since the guard treats each alone; the theorems are for any depth and length. Deadlock is not checked: with its bounds reached the system rests.

**Fairness.** An execution that has started goes on (`WF` on its steps): nothing in the code waits
for another. Sweeping is strongly fair per item: the daily tick keeps coming and lists what is due,
and an item that becomes due again and again, as under a regressed cursor, is taken in the end. The
same for results, which a provider repeats until they are acknowledged. No fairness is assumed for
requests, freezes, cancellations or crashes. `SuspendedWithInvoice` and
`ChargeReachesInvoice` make an exception for behaviours with a crash: there the code does not keep
them, which the findings and hazards say. That the tick does come to every item is what `NothingForgotten` says of Jobs, as a safety
property: what is due has a job that will come to it, or has met with a failure of its own.

Every property is paired with a mutant of the code it guards (an index dropped, a guard on status
forgotten, a ladder one rung too long, the clock read twice, a version not counted up, ...) under which it fails. The mutated
forms stand before the definitions they replace, marked "a slip to catch".

## Findings

1. **A payment can be lost** (`lost_payment`). `recordPaymentResult` appends the attempt and marks
   the invoice paid in two writes. If it dies in between, the repeated result finds the attempt and returns;
   the comment at line 388 calls that "a clean no-op". The invoice stays open, is dunned, and the
   enrolment is frozen although it has been paid.
2. **A notice without an advance** (`notice_without_advance`). `billing-jobs.ts:94` says the notice fires
   "once per advanced invoice (after a successful advance)". `advanceDunning` returns the invoice
   also when it has left it alone, and the sweep cannot tell: a member who has paid since the sweep
   listed the invoice gets an overdue notice for stage 0.
3. **A killed family lives on** (`killed_family`). Two rotations of one refresh token: the loser takes the race for reuse
   and revokes the family "so neither party can continue" (`token.service.ts:132`), but the winner creates its session only afterwards.
4. **A patch resets what it does not name** (`patched_defaults`). The update schemas are `createSchema.partial()`, and in the
   installed version of zod an absent optional field still takes its default: a PATCH of a member's phone number makes the member a lead again.
5. **The profile of the last user** (`stale_profile`). Logging out leaves the query cache, and the profile form of the next user of the tab
   is filled from it; saving writes the last user's details into the next one's record.

Read in the code, and without a run of their own:

- *Billing.* The "forward-only guard" of the cursor (`billing.service.ts:339`) compares with the cursor the run itself read, so a slow run
  does put it back; `NoDoubleBilling` and `CursorCovered` are proved, and `CatchesUp` checked, in spite of it. A job that
  dies between giving an invoice up and freezing its enrolment leaves it active for good; suspension overwrites a
  cancellation; a crash after an allocation leaves a gap in the numbers, which a comment accepts.
- *Periods.* The day drifts: an enrolment of 31 January is billed to 28 February and from then on to the 28th, because the next period
  is computed from the end of the last and not from `startDate`; `AnniversaryKept` says how far it can go. The comment on `prorateByDays`
  (`packages/domain/src/billing.ts:179`) promises that two parts of an amount add up to it exactly ("property-tested"): 1 split in two halves is 1
  and 1, and the test (`packages/domain/test/billing.test.ts:61`) allows for it. Nothing calls it yet. `startDate` is checked for its digits only, so a 31 February
  can be stored.
- *Attendance.* The comment at `attendance.service.ts:54` says that double-tapping the roster "can't inflate the attendance count": taps that
  overlap do, up to one record per call (`OnlyOverlapRepeats` is the most that holds, and what it guards is that nothing else does).
- *Schedules.* `occurrences.service.ts:101` says COUNT and UNTIL "still bound it absolutely": COUNT starts again with every window.
  East of UTC a class on the day the window ends in can be missed by that window (`rrule.ts:290`, `CutOff`), and is lost unless a later window reaches back to it. A zone
  whose clocks change over midnight could lose a class at the edge of a window.
- *Ranks.* `evaluate.ts:211` says advisory criteria never block readiness: inside an anyOf they do.
- *Waivers.* A signature is for the version the server has then, not the one that was on the page (`waivers.service.ts:176` against
  `packages/domain/src/waiver.ts:5-8`); the comment says fields other than the body are changed "in place (no version bump)", and every update bumps the
  version, so taking a waiver off and on again makes everybody sign again; the text of a replaced version is not kept; `requiresGuardianForMinor` is enforced nowhere.
- *Browser.* Refreshes are not single-flighted (`client.ts:70-93`), so two tabs can present one cookie and the reuse detection ends
  the login, though the header promises "once, then retries"; a mistyped current password is a 401 of an `/auth` path and signs the user out; a tab
  becomes another user silently after a login in another tab; a member form sends the whole record; an answer asked for before an
  invalidation counts as fresh; `/me/dependents` fails as a whole when one minor is gone; "API is idempotent per (member, occurrence)" on the
  attendance page stands against find-then-record.

## Proofs

TLAPS checks the theorems for every value of the constants: any number of enrolments, invoices, workers, callers,
members, tenants and crashes, every calendar, ladder, rule and zone.

| Theorems of | Say | Inductive invariant |
|---|---|---|
| `IssuingProofs` | `IssuingTypeCorrect`, `NeverBilledTwice` (`NoDoubleBilling`), `NeverSkipped` (`NoSkippedPeriod`), `CursorBehindInvoices` (`CursorCovered`), `NeverBilledEarly` (`NeverEarly`), `NumbersNeverReused` (`NumbersUnique`), `NumberedWhenIssued` (`IssuedTogether`); for Calendar `AnniversaryStays` (`AnniversaryKept`), `PeriodsFollowTheCalendar` | `TypeInv`, `PeriodsInv`, `NumbersInv`, `EarlyInv`, `CalendarInv` |
| `CollectionProofs` | `CollectingTyped`, `PaidWhenPaidFor` (`PaidIsPaidFor`), `LadderAgrees` (`LadderConsistent`), `LadderClimbedInFull` (`WholeLadder`), `GivenUpIsSuspended` (`SuspendedWithInvoice`), `PaidForGood` (`PaidIsFinal`); for Billing `CollectsAlongside`, `IssuesAlongside`, `LedgerImplemented` (`ImplementsLedger`) | `CollectInv`, `BillingInv` |
| `JobProofs` | `JobsTyped`, `NothingIsForgotten` (`NothingForgotten`) | `JobsInv` |
| `ClassProofs` | `SchedulingTyped`, `OneReminder` (`RemindedAtMostOnce`), `ClassStaysInOrder` (`ClassInOrder`), `CancellingIsFinal` (`CancelledIsFinal`), `RepeatsOnlyByOverlap` (`OnlyOverlapRepeats`), `HorizonNeverSkips` (`HorizonComplete`) | `TypeInv`, `MailInv`, `OrderInv`, `PresenceInv`, `HorizonInv` |
| `RankProofs` | `RanksTyped`, `PublishedSoundly` (`VersionsSound`), `StandsWhereAwarded` (`PositionExplained`), `PromotionsAreAChain` (`HistoryIsAChain`), `PrerequisitesAreKept` (`PrerequisiteHeld`); for Eligibility `CloserByEveryStep` (`NeverFurther`) | `RanksInv`, `EligibilityInv` |
| `SessionProofs` | `LoginHasOneToken` (`OneLiveSession`), `SignedInForGood` (`StaysSignedIn`) | `SessionsInv`, `BrowserInv` |
| `AccountProofs` | `AccountsTyped`, `OldSessionsEnd` (`OldPasswordOut`), `NewestLinkOnly` (`OnlyNewestLink`), `LinksAgree` (`LinkConsistent`), `ErasedForGood` (`ErasedIsGone`) | `AccountsInv` |
| `RequestProofs` | `ChainAlwaysVerifies` (`ChainVerifies`), `AllowedWhenDone` (`OnlyWhatIsAllowed`), `AuditedExactlyOnce` (`EveryActAudited`), `SignedTextIsOne` (`SameVersionSameText`), `OneMemberOfAnEmail` (`EmailIsOneMembers`), `TenantsAreIsolated` (`Isolation`), `OwnChangesShown` (`ShowsOwnChanges`) | `AuditInv`, `AllowedInv`, `TraceInv`, `WaiversInv`, `CatalogueInv`, `GuardInv`, `PagesInv` |

**Types.** The type invariants are theorems and no runs of their own. None is inductive as it stands: an execution must have the fields its next step uses
(`HasFields`, `CallOK`, `CallShape`).

**Periods.** The unique index only forbids two invoices of an enrolment with the same start. That
periods do not overlap needs `InvoicesInv`: the periods of an enrolment form one chain. Each is as
long as the calendar says and none starts before the enrolment (`PlanPeriods`), the first is there
(`FirstPeriodBilled`), and one that is followed by no other ends last of all (`OneFrontier`). A new period
starts where one ends; the lookup and the unique index have made sure that none starts there yet, so by
`OneFrontier` it comes after all the others (lemma `NewPeriod`). Nothing
about the lengths is used but that they are positive. That it does start where an issued one
ends needs `RunCovered`: the cursor an execution has read, however stale, is the end of an
issued period. `RunInvoice` ties the invoice an execution works on to the period it computed, so that
`AdvanceCursor` writes the end of an issued period. `Monotone` collects what no step undoes
and carries the facts of one execution over the steps of all others.

**Dates.** `CalendarInv` counts months from year 0: the month reached is the first one plus the months billed. That a
period has at least a day is that a later month starts after every day of an earlier one (`LaterMonth`); that 400 years have the same
number of days wherever they start is linear in the counts of leap years (`DaysAreCounted`), and a day number is of one date only (`OneDateOfADay`).

**Numbers.** `NumbersUnique` speaks of the three places a number can be: the counter, an execution
between allocation and claim, and an invoice. With `NumbersDated` (numbers are of years that have a counter, a
document that does not exist has none, a held number is of the year of the day read) it is inductive.

**Collecting.** An execution about to settle has recorded a success for its invoice, the stage a dunning job has read is not above
the stored one, and the retry date of a rung is a full period after the last (`CollectInv`). What goes on around the
collecting executions is described once, by `Around`; the environment of `CollectingSpec` and the steps of
RecurringBilling in Billing are both instances of it, so every collecting invariant holds in Billing, and with
`IssuesAlongside` every issuing one.

**The ledger.** `LedgerImplemented` maps the initial state and every step of Billing. A claim is an `Append`: its number is new by
`NumbersUnique`, its period by `OnePerPeriod`, and it follows one in the ledger, or is the first, by `NoSkippedPeriod` and a least
start. `Settle` is a payment, the last `Step` gives up, and every other step leaves entries and standings alone.

**Classes.** `ClassInOrder` counts: the seats taken and the cancels under way that free one together never
exceed the capacity, and reach it while anybody waits, since a cancel owns its seat until it has handed it on. Who
waits is among the candidates of every cancel (`OrderInv`).

**Attendance.** A call comes to record only while there is no record, and from then on it counts as one that may come: records and calls about to
record are together no more than the calls (`PresenceInv`).

**The horizon.** `HorizonComplete` is about local days and UTC instants. Starts of classes grow with their days, and a window never
reads the day it begins in too late (`AnchorInTime`), so the classes of two adjacent windows join without a gap; a
rule's COUNT is bounded because the walk emits each class of a window at its own place (`Emitted` is injective).

**Jobs.** A queue that grows keeps its jobs, and a job leaves it only for the process that takes it. Besides, what a sweep has
yet to come to is what its job is for (`OwnItems`), so that the same job finds it again when it is retried.

**Ranks.** An award runs six steps on what it read in the first. `CallsInv` says what stale reads are still good
for: a version that was current stays minted, a step that was stood on stays explained. `Numbering` orders the minted versions
around the publication under way, `Chained` says what the award under way has appended.

**Eligibility.** `Better` orders evaluations of a node: satisfied if the other was, with nothing more that blocks, and with every leaf at least as far. As the file of a
student grows a leaf gets better, and a group of better parts is better, an anyOf too, because the part that was best is still there, and better. The levels of the evaluation are a function by recursion on a number, and a level at which a tree got worse would be a least one.
A step's status follows from the criteria that count, and none starts to count that did not.

**Browser.** A session is followed from the answer that carries its token (`AnswersOK`) to the cookie (`CookieOK`) and to the exchange that
retires it (`ExchangeOK`, `OneExchange`). Until then it is live, or its family is spoilt by an answer that was lost, a token presented
twice, or an end of the session, which is what `StaysSignedIn` makes an exception for.

**Accounts.** A family is held by one live session or by one call about to mint its successor (`OneHolder`, over
`FamiliesInUse`). The other four hold together or not at all: an erasure ends for good only if no request holds the account,
an account is linked once only if nobody else could be accepting with it, a new user has no sessions only if
nothing referred to it. `AccountsInv` is their conjunction, and each part has a frame lemma.

**Requests.** The trail only grows, so the hash an append has read stays one of the trail (`HeadKnown`), and the unique indexes
refuse a second successor. A request that has passed its checks holds a right that nothing takes away before
it acts but what `stale` records (`RightsHeld`, `Passed`, `Agreed`). An act is in one place only, on its way to the trail or on it (`InFlight`,
`ActsNumbered`, `Somewhere`, `OnePlace`). A signature is stored with a version and a text that were read together, and
that pair is one that was (`Pinned`, `OfVersion`). The lower-case column under the unique index of e-mails is what its
name says in every row (`RowOK`), as no body can carry it and every write of an e-mail sets it (`EditOK`).

**The tenant guard.** What flows through a scoped pipeline is `Clean`: only documents of the tenant, or made from such documents. Each
stage keeps that, a join because its own pipeline, one level below, starts with the guard's match, and the stages that could not be scoped are refused
as `Unsafe` wherever they are nested. It is an induction over the stages inside one over the depth; that the functions the
recursion defines exist is proved first (`FlowsExist`, `RowsExist`, `UnsafeExists`, `RunExists`, `LevelsExist`). The writes are `Own`:
every row that was there before or after but not both is of the tenant.

**Pages.** An entry may be behind only while a change that has been made is not settled (`OwesNews`), or while it is marked stale and,
if it is shown, asked for again; an answer on its way may be behind only while a change is not settled or if it is marked as asked for before one
(`EntryCurrent`, `AnswerCurrent`). Settling does that marking, because a change that writes what a query reads names its key, but for the keys of
`Lagging`: `NamesWhatItConcerns`, proved page by page from the tables.

**Assumptions.** Each module states what its constants are: numbers are natural, `None` is none of the values
it stands beside, roles and rights are of the known ones, trees and pipelines are made of the leaves and stages the code knows
(`EligibilityAssumption`, `GuardAssumption`). Two say something of the world (a third, `PeriodDays`, is the theorem `PeriodsFollowTheCalendar`). `ChargeableStatuses`: nothing charges a draft (the
hazards list what would happen; the theorems about Billing and the runs assume it). `RecurrenceAssumption`: offsets of a zone
differ by less than a day and no change of its clocks straddles midnight, as none in use in the places the product names does;
one that did could lose a class.

**Only model-checked.** `CatchesUp`, `RungClimbed` and `ChargeReachesInvoice` are liveness under fairness, which is out of this
prover's reach. Every other property of the runs that find no violation is a theorem.

## Not modelled

Line totals, VAT and proration (pure); a draft that is paid; an enrolment that is frozen after the run has read it is billed
once more (a hazard). `identity.emailVerified`; the two reads of `changePassword` are one step; custom roles; the
platform's own audit chain, which appends by the same algorithm; audit entries after invites and erasures; direct messages, templates and push
registrations; tags and the self-service fields of members; the upload and download of waiver documents; `replaceOne`
in a bulk write, which nothing uses; several worker processes in Jobs and the jobs nothing adds; corrections and removals of attendance; drafts of rank
systems beyond their steps; i18n, configuration, storage, health, reporting, settings, adapters: single writes, reads and pure I/O.

## Plan

1. *Done:* the modules above, with every safety and action property of the runs that find no violation proved.
2. Money: line totals, VAT and proration against reference definitions.
3. The validation of rank drafts, and the platform plane.
