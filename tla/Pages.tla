------------------------------- MODULE Pages -------------------------------
(***************************************************************************)
(* The three browser apps: the pages, the queries and changes each makes,  *)
(* and the query cache between them and the API, which one tab keeps for   *)
(* all its pages.  An answer is shown from the cache for as long as it is  *)
(* fresh; a change that succeeds invalidates the keys its page names.      *)
(*                                                                         *)
(* The entries of a cache do not depend on each other, so a behaviour is   *)
(* about one app and the entry of one key of it: the one that is watched.  *)
(* Of the API the model keeps how many of the tab's own changes of what    *)
(* the watched query reads have been made.                                 *)
(***************************************************************************)
EXTENDS Naturals

CONSTANTS
    UsersOf,    \* who signs in to each app, one after the other
    MaxWrites,  \* bound: changes of what the watched query reads
    Nothing     \* no entry, no request, no page, no change, nobody

VARIABLES
    app, watched,   \* what this behaviour is about
    user,       \* who is signed in
    page,       \* the page that is mounted
    cached,      \* the entry of the watched query
    fetch,      \* its request, when there is one under way
    change,     \* the change that is under way
    writes,     \* how many changes the API has made
    form,       \* what the profile form was filled with
    profiles    \* whose profile each change of a profile was filled from (history)

pagesVars == <<app, watched, user, page, cached, fetch, change, writes, form, profiles>>

-----------------------------------------------------------------------------
(* The API bindings: what each call reads or writes.  A list and the one   *)
(* record of it that a page has open are two things.                       *)
MembersApi == [listMembers |-> {"members"}, getMember |-> {"member"},
               createMember |-> {"members"}, updateMember |-> {"members", "member"},
               inviteMember |-> {}]
RankApi == [listDisciplines |-> {"disciplines"}, createDiscipline |-> {"disciplines"},
            listRankStates |-> {"rankStates"}, enrollInDiscipline |-> {"rankStates"},
            getEligibility |-> {"rankStates", "promotions", "attendance"},
            listPromotions |-> {"promotions"}, awardPromotion |-> {"rankStates", "promotions"}]
SchedulingApi == [listPrograms |-> {"programs"}, createProgram |-> {"programs"},
                  listSchedules |-> {"schedules"}, createSchedule |-> {"schedules"},
                  materializeSchedule |-> {"occurrences"}, listOccurrences |-> {"occurrences"},
                  getOccurrence |-> {"occurrence"}, cancelOccurrence |-> {"occurrences", "occurrence"},
                  listOccurrenceBookings |-> {"bookings"}, createBooking |-> {"bookings"},
                  cancelBooking |-> {"bookings"}]
AttendanceApi == [recordAttendance |-> {"attendance"}]
LocationsApi == [listLocations |-> {"locations"}, createLocation |-> {"locations"}]
BillingApi == [listPlans |-> {"plans"}, createPlan |-> {"plans"},
               listMemberInvoices |-> {"invoices"}]
WaiversApi == [listWaiverTemplates |-> {"templates"}, createWaiverTemplate |-> {"templates"},
               updateWaiverTemplate |-> {"templates"}]
SettingsApi == [getBillingProfile |-> {"sellers"}, saveBillingProfile |-> {"sellers"}]
ReportingApi ==
    [getOwnerDashboard |-> {"members", "invoices", "attendance", "enrollments", "plans"}]
MessagesApi == [sendBroadcast |-> {}]
MemberDataApi ==
    [getMe |-> {"sessions"}, getDependents |-> {"guardianships", "minors"},
     myDisciplines |-> {"disciplines"}, myRankStates |-> {"rankStates"},
     myEligibility |-> {"rankStates", "promotions", "attendance"},
     myPromotions |-> {"promotions"}, myInvoices |-> {"invoices"},
     myWaiverStatus |-> {"templates", "signatures"}, signWaiver |-> {"signatures"},
     listPrograms |-> {"programs"}, listOccurrences |-> {"occurrences"},
     myBookings |-> {"bookings"}, bookOccurrence |-> {"bookings"}, cancelBooking |-> {"bookings"},
     selfCheckIn |-> {"attendance"}, myAttendance |-> {"attendance"},
     getMyProfile |-> {"ownMember"}, updateMyProfile |-> {"ownMember"}]
PlatformApi == [listTenants |-> {"tenants"}, getTenant |-> {"tenants"},
                getTenantUsage |-> {"tenants", "members"}, listAudit |-> {"audit"}]

-----------------------------------------------------------------------------
(* The pages.  A key is a sequence, and naming a prefix names it; one that *)
(* holds the time is another one at each mount.                            *)
query(key, reads) == [key |-> key, reads |-> reads]
mutation(writing, keys) == [writes |-> writing, invalidates |-> keys]
view(queries, mutations) == [queries |-> queries, mutations |-> mutations]

DashboardPage == view({query(<<"ownerDashboard">>, ReportingApi.getOwnerDashboard)}, {})
MembersPage == view({query(<<"members", "tag">>, MembersApi.listMembers)},
                    {mutation(MembersApi.createMember, {<<"members">>})})
DisciplineRankSection ==
    view({query(<<"eligibility", "member">>, RankApi.getEligibility),
          query(<<"promotions", "member">>, RankApi.listPromotions)},
         {mutation(RankApi.awardPromotion, {<<"eligibility", "member">>, <<"promotions", "member">>})})
MemberDetailPage ==
    view({query(<<"member", "id">>, MembersApi.getMember),
          query(<<"rankStates", "id">>, RankApi.listRankStates),
          query(<<"disciplines", "active">>, RankApi.listDisciplines),
          query(<<"memberInvoices", "id">>, BillingApi.listMemberInvoices)}
         \cup DisciplineRankSection.queries,
         {mutation(RankApi.enrollInDiscipline, {<<"rankStates", "id">>}),
          mutation(MembersApi.updateMember, {<<"member", "id">>, <<"members">>}),
          mutation(MembersApi.inviteMember, {})}
         \cup DisciplineRankSection.mutations)
DisciplinesPage == view({query(<<"disciplines">>, RankApi.listDisciplines)},
                        {mutation(RankApi.createDiscipline, {<<"disciplines">>})})
LocationsPage == view({query(<<"locations">>, LocationsApi.listLocations)},
                      {mutation(LocationsApi.createLocation, {<<"locations">>})})
PlansPage == view({query(<<"plans">>, BillingApi.listPlans)},
                  {mutation(BillingApi.createPlan, {<<"plans">>})})
ClassesPage ==
    view({query(<<"disciplines", "active">>, RankApi.listDisciplines),
          query(<<"locations">>, LocationsApi.listLocations),
          query(<<"programs">>, SchedulingApi.listPrograms),
          query(<<"schedules">>, SchedulingApi.listSchedules)},
         {mutation(SchedulingApi.createProgram, {<<"programs">>}),
          mutation(SchedulingApi.createSchedule, {<<"schedules">>}),
          mutation(SchedulingApi.materializeSchedule, {})})
OccurrencesPage ==
    view({query(<<"occurrences", "from now">>, SchedulingApi.listOccurrences),
          query(<<"locations">>, LocationsApi.listLocations),
          query(<<"programs">>, SchedulingApi.listPrograms)}, {})
OccurrenceDetailPage ==
    view({query(<<"occurrence", "id">>, SchedulingApi.getOccurrence),
          query(<<"occurrenceBookings", "id">>, SchedulingApi.listOccurrenceBookings),
          query(<<"members">>, MembersApi.listMembers),
          query(<<"locations">>, LocationsApi.listLocations),
          query(<<"programs">>, SchedulingApi.listPrograms)},
         {mutation(SchedulingApi.createBooking, {<<"occurrenceBookings", "id">>}),
          mutation(SchedulingApi.cancelBooking, {<<"occurrenceBookings", "id">>}),
          mutation(SchedulingApi.cancelOccurrence, {<<"occurrence", "id">>}),
          mutation(AttendanceApi.recordAttendance, {})})
WaiversPage ==
    view({query(<<"waiverTemplates">>, WaiversApi.listWaiverTemplates)},
         {mutation(WaiversApi.createWaiverTemplate, {<<"waiverTemplates">>}),
          mutation(WaiversApi.updateWaiverTemplate, {<<"waiverTemplates">>})})
SettingsPage == view({query(<<"billingProfile">>, SettingsApi.getBillingProfile)},
                     {mutation(SettingsApi.saveBillingProfile, {<<"billingProfile">>})})
MessagesPage == view({}, {mutation(MessagesApi.sendBroadcast, {})})

\* Around each page of the member app.
SubjectProvider == view({query(<<"me">>, MemberDataApi.getMe),
                         query(<<"dependents">>, MemberDataApi.getDependents)}, {})
MyProgressPage ==
    view({query(<<"myRankStates", "member">>, MemberDataApi.myRankStates),
          query(<<"disciplines">>, MemberDataApi.myDisciplines),
          query(<<"myEligibility", "member">>, MemberDataApi.myEligibility),
          query(<<"myPromotions", "member">>, MemberDataApi.myPromotions)}, {})
SchedulePage ==
    LET own == {<<"myBookings", "member">>, <<"occurrences", "day">>}
    IN  view({query(<<"programs">>, MemberDataApi.listPrograms),
              query(<<"occurrences", "day">>, MemberDataApi.listOccurrences),
              query(<<"myBookings", "member">>, MemberDataApi.myBookings)},
             {mutation(MemberDataApi.bookOccurrence, own),
              mutation(MemberDataApi.cancelBooking, own),
              mutation(MemberDataApi.selfCheckIn, {<<"myAttendance", "member">>})})
MyAttendancePage == view({query(<<"myAttendance", "member">>, MemberDataApi.myAttendance)}, {})
MyInvoicesPage == view({query(<<"myInvoices", "member">>, MemberDataApi.myInvoices)}, {})
MyWaiversPage == view({query(<<"myWaiverStatus", "member">>, MemberDataApi.myWaiverStatus)},
                      {mutation(MemberDataApi.signWaiver, {<<"myWaiverStatus", "member">>})})
ProfilePage == view({query(<<"myProfile">>, MemberDataApi.getMyProfile)},
                    {mutation(MemberDataApi.updateMyProfile, {<<"myProfile">>})})

TenantsPage == view({query(<<"platform", "tenants">>, PlatformApi.listTenants)}, {})
TenantDetailPage ==
    view({query(<<"platform", "tenant", "slug">>, PlatformApi.getTenant),
          query(<<"platform", "usage", "slug">>, PlatformApi.getTenantUsage)}, {})
AuditPage == view({query(<<"platform", "audit">>, PlatformApi.listAudit)}, {})

AdminApp ==
    [DashboardPage |-> DashboardPage, MembersPage |-> MembersPage,
     MemberDetailPage |-> MemberDetailPage, DisciplinesPage |-> DisciplinesPage,
     LocationsPage |-> LocationsPage, PlansPage |-> PlansPage,
     ClassesPage |-> ClassesPage, OccurrencesPage |-> OccurrencesPage,
     OccurrenceDetailPage |-> OccurrenceDetailPage, WaiversPage |-> WaiversPage,
     SettingsPage |-> SettingsPage, MessagesPage |-> MessagesPage]
MemberApp ==
    LET pages ==
        [MyProgressPage |-> MyProgressPage, SchedulePage |-> SchedulePage,
         MyAttendancePage |-> MyAttendancePage, MyInvoicesPage |-> MyInvoicesPage,
         MyWaiversPage |-> MyWaiversPage, ProfilePage |-> ProfilePage]
    IN  [p \in DOMAIN pages |->
            view(pages[p].queries \cup SubjectProvider.queries, pages[p].mutations)]
PlatformApp == [TenantsPage |-> TenantsPage, TenantDetailPage |-> TenantDetailPage,
                AuditPage |-> AuditPage]

Apps == [admin |-> AdminApp, member |-> MemberApp, platform |-> PlatformApp]
Queries(a) == UNION {Apps[a][p].queries : p \in DOMAIN Apps[a]}
Mutations(a) == UNION {Apps[a][p].mutations : p \in DOMAIN Apps[a]}

-----------------------------------------------------------------------------
(* The query cache (react-query), as the apps configure and use it.        *)
People == UNION {UsersOf[a] : a \in DOMAIN Apps}

\* A request carries the session it is sent in.  old: it was sent before the
\* watched key has been invalidated.
Fetch == [at : {"sent", "answered"}, by : People, writes : Nat, old : BOOLEAN]

\* of: whose data it is; failed: the last request for it failed.
Cached == [at : {"cached"}, of : People, writes : Nat, stale : BOOLEAN,
           old : BOOLEAN, failed : BOOLEAN]

\* of: whose profile the form was filled with.
Changing == [at : {"sent", "done"}, what : UNION {Mutations(a) : a \in DOMAIN Apps},
             by : People, of : People]

ASSUME PagesAssumption ==
    /\ DOMAIN Apps \subseteq DOMAIN UsersOf
    /\ MaxWrites \in Nat
    /\ Nothing \notin People \cup Fetch \cup Cached \cup Changing

PagesInit ==
    /\ app \in DOMAIN Apps /\ watched \in Queries(app)
    /\ user \in UsersOf[app]
    /\ page = Nothing /\ cached = Nothing /\ fetch = Nothing /\ change = Nothing
    /\ writes = 0 /\ form = Nothing /\ profiles = {}

Fresh(e) == e # Nothing /\ ~e.stale
Shows(p) == p # Nothing /\ watched \in Apps[app][p].queries
IsProfile(p) == p = "ProfilePage"
PartialMatch(k, key) == DOMAIN k \subseteq DOMAIN key /\ \A i \in DOMAIN k : k[i] = key[i]
Named(m) == \E k \in m.invalidates : PartialMatch(k, watched.key)
Relevant(m) == m.writes \cap watched.reads # {}

Request == [at |-> "sent", by |-> user, writes |-> 0, old |-> FALSE]

\* The form is filled in once, with the profile there is by then.
Filled(p, answer) ==
    IF IsProfile(p) /\ watched.key = <<"myProfile">> /\ form = Nothing /\ answer # Nothing
    THEN answer ELSE form

\* A page is opened: what is cached is shown, and asked for again unless fresh.
Mount(p) ==
    LET found == IF watched.key = <<"occurrences", "from now">> THEN Nothing ELSE cached
    IN  /\ user # Nothing /\ p \in DOMAIN Apps[app] \ {page}
        /\ page' = p
        /\ cached' = found
        /\ fetch' = IF Shows(p) /\ fetch = Nothing /\ ~Fresh(found)
                    THEN Request ELSE fetch
        /\ form' = IF IsProfile(p) /\ watched.key = <<"myProfile">> THEN found ELSE Nothing
        /\ UNCHANGED <<app, watched, user, change, writes, profiles>>

\* The API answers; the answer arrives.
Serve ==
    /\ fetch # Nothing /\ fetch.at = "sent"
    /\ fetch' = [fetch EXCEPT !.at = "answered", !.writes = writes]
    /\ UNCHANGED <<app, watched, user, page, cached, change, writes, form, profiles>>

Receive ==
    /\ fetch # Nothing /\ fetch.at = "answered"
    /\ cached' = [at |-> "cached", of |-> fetch.by, writes |-> fetch.writes, stale |-> FALSE,
                 old |-> fetch.old, failed |-> FALSE]
    /\ form' = Filled(page, cached')
    /\ fetch' = Nothing
    /\ UNCHANGED <<app, watched, user, page, change, writes, profiles>>

\* A query that fails is not tried again by itself, and its page says so.
Fail ==
    /\ fetch # Nothing
    /\ fetch' = Nothing
    /\ cached' = IF cached = Nothing THEN Nothing ELSE [cached EXCEPT !.failed = TRUE]
    /\ UNCHANGED <<app, watched, user, page, change, writes, form, profiles>>

\* 30 seconds pass; the window gets the focus again; an unused entry is dropped.
GoStale ==
    /\ cached # Nothing /\ ~cached.stale
    /\ cached' = [cached EXCEPT !.stale = TRUE]
    /\ UNCHANGED <<app, watched, user, page, fetch, change, writes, form, profiles>>

Refocus ==
    /\ Shows(page) /\ fetch = Nothing
    /\ ~Fresh(cached)
    /\ fetch' = Request
    /\ UNCHANGED <<app, watched, user, page, cached, change, writes, form, profiles>>

Collect ==
    /\ cached # Nothing /\ ~Shows(page) /\ fetch = Nothing
    /\ cached' = Nothing
    /\ UNCHANGED <<app, watched, user, page, fetch, change, writes, form, profiles>>

\* A form of the page is sent: the profile form needs to be there.
Mutate(m) ==
    /\ page # Nothing /\ m \in Apps[app][page].mutations /\ change = Nothing
    /\ Named(m) \/ Relevant(m)
    /\ IsProfile(page) /\ watched.key = <<"myProfile">> => form # Nothing
    /\ change' = [at |-> "sent", what |-> m, by |-> user,
                  of |-> IF form = Nothing THEN user ELSE form.of]
    /\ UNCHANGED <<app, watched, user, page, cached, fetch, writes, form, profiles>>

\* The API makes the change, or refuses it.
Perform ==
    /\ change # Nothing /\ change.at = "sent"
    /\ writes < MaxWrites
    /\ writes' = IF Relevant(change.what) THEN writes + 1 ELSE writes
    /\ change' = [change EXCEPT !.at = "done"]
    /\ profiles' = IF change.what.writes = MemberDataApi.updateMyProfile
                   THEN profiles \cup {[by |-> change.by, of |-> change.of]} ELSE profiles
    /\ UNCHANGED <<app, watched, user, page, cached, fetch, form>>

Refuse ==
    /\ change # Nothing /\ change.at = "sent"
    /\ change' = Nothing
    /\ UNCHANGED <<app, watched, user, page, cached, fetch, writes, form, profiles>>

\* A slip to catch: only the very key that is named is invalidated.
VeryKey(m) == watched.key \in m.invalidates
Invalidates(m) == Named(m)

\* onSuccess: the entry is stale, and asked for again if it is shown.  A request
\* under way is given up for that only if there is something to show meanwhile.
Settle ==
    /\ change # Nothing /\ change.at = "done"
    /\ change' = Nothing
    /\ IF Invalidates(change.what)
       THEN /\ cached' = IF cached = Nothing THEN Nothing ELSE [cached EXCEPT !.stale = TRUE]
            /\ fetch' = CASE Shows(page) /\ (fetch = Nothing \/ cached # Nothing) -> Request
                          [] fetch # Nothing /\ ~(Shows(page) /\ cached # Nothing) ->
                                [fetch EXCEPT !.old = TRUE]
                          [] OTHER -> fetch
       ELSE UNCHANGED <<cached, fetch>>
    /\ UNCHANGED <<app, watched, user, page, writes, form, profiles>>

\* Signing out and in: the cache of the tab stays.
Logout ==
    /\ user # Nothing
    /\ user' = Nothing /\ page' = Nothing /\ form' = Nothing
    /\ UNCHANGED <<app, watched, cached, fetch, change, writes, profiles>>

Login(u) ==
    /\ user = Nothing
    /\ user' = u
    /\ UNCHANGED <<app, watched, page, cached, fetch, change, writes, form, profiles>>

\* The app is loaded anew.
Reload ==
    /\ page' = Nothing /\ cached' = Nothing /\ fetch' = Nothing /\ change' = Nothing
    /\ form' = Nothing
    /\ UNCHANGED <<app, watched, user, writes, profiles>>

PagesNext ==
    \/ \E p \in DOMAIN Apps[app] : Mount(p)
    \/ Serve \/ Receive \/ Fail \/ GoStale \/ Refocus \/ Collect
    \/ page # Nothing /\ \E m \in Apps[app][page].mutations : Mutate(m)
    \/ Perform \/ Refuse \/ Settle
    \/ Logout \/ \E u \in UsersOf[app] : Login(u)
    \/ Reload

PagesSpec == PagesInit /\ [][PagesNext]_pagesVars

-----------------------------------------------------------------------------
(* Properties.                                                             *)
\* What may lag behind a change until it goes stale or its page is opened again:
\* an award does not name the rank states (their page shows only which disciplines
\* they are of), and nothing names the eligibility that attendance and enrolment
\* count for, the dashboard, or the classes to come.
Lagging == {<<"rankStates", "id">>, <<"eligibility", "member">>, <<"myEligibility", "member">>,
            <<"ownerDashboard">>, <<"occurrences", "from now">>}

\* A page shows the changes made in its tab, on whatever page: when nothing is
\* under way, what it shows was read after them.  Excepted are an answer that was
\* asked for before the change and the page that says it could not load.
ShowsOwnChanges ==
    /\ Shows(page) /\ cached # Nothing /\ fetch = Nothing
    /\ change = Nothing \/ change.at = "sent"
    /\ watched.key \notin Lagging /\ ~cached.old /\ ~cached.failed
    => cached.writes = writes

\* A profile is saved as its owner has seen and edited it: the form was filled
\* with the profile of the member who is signed in.
OwnProfile == \A s \in profiles : s.by = s.of
=============================================================================
