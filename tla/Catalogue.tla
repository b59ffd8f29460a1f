----------------------------- MODULE Catalogue -----------------------------
(***************************************************************************)
(* What a tenant is made of, each collection with its controller, service  *)
(* and repository: locations, programs, schedules, disciplines, plans, VAT *)
(* rates, members and households.  The controllers parse a body, the       *)
(* services check what the actor may do, the repositories write the row;   *)
(* an action is the code from one database call to the next.  Of a row the *)
(* model keeps a name, the columns with a default, and a member's email    *)
(* and household.  The audit of members' changes is in Requests.           *)
(***************************************************************************)
EXTENDS Access

CONSTANTS
    Editors,    \* the requests there can be at a time
    EditorOf,   \* who sends each of them
    RowIds,       \* the rows there can be in a collection
    Emails,
    LowerCase,  \* each email in lower case
    Focuses     \* bound: the collections a behaviour is about [colls] and how many
                \* requests it has [requests]

ASSUME CatalogueAssumption ==
    /\ DOMAIN EditorOf = Editors
    /\ LowerCase \in [Emails -> Emails]
    /\ \A a \in Emails : LowerCase[LowerCase[a]] = LowerCase[a]
    /\ None \notin Emails /\ None \notin RowIds
    /\ \A f \in Focuses : f.requests \in Nat

VARIABLES
    rows,   \* the rows of each collection, None where there is none (yet)
    used,   \* the ids that have been given out
    edits,  \* the requests under way
    begun,  \* how many there have been
    focus   \* what this behaviour is about

catalogueVars == <<rows, used, edits, begun, focus>>

-----------------------------------------------------------------------------
(* What the schemas of the bodies fill in where a field is missing.        *)
LocationDefaults == [timezone |-> "Stockholm"]
ProgramDefaults == [active |-> "yes"]
ScheduleDefaults == [timezone |-> "Stockholm", active |-> "yes"]
DisciplineDefaults == [presentation |-> "belt", active |-> "yes"]
PlanDefaults == [interval |-> "monthly", active |-> "yes"]
MemberDefaults == [status |-> "lead"]
NoDefaults == <<>>

\* One object spread over another.
Over(f, g) == [x \in DOMAIN f \cup DOMAIN g |-> IF x \in DOMAIN f THEN f[x] ELSE g[x]]

\* partial() of the schema library, of version 4 on, makes every field optional
\* and leaves it its default: the default of an optional field is filled in.
Partial(defaults) == defaults
Parse(defaults, body) == Over(body, defaults)

\* The controllers: the defaults in the body of each route.
LocationsController == [create |-> LocationDefaults, update |-> Partial(LocationDefaults)]
ProgramsController ==
    [create |-> ProgramDefaults, update |-> Partial(ProgramDefaults), remove |-> NoDefaults]
SchedulesController ==
    [create |-> ScheduleDefaults, update |-> Partial(ScheduleDefaults), remove |-> NoDefaults]
DisciplinesController ==
    [create |-> DisciplineDefaults, update |-> Partial(DisciplineDefaults)]
PlansController == [create |-> PlanDefaults, update |-> NoDefaults, remove |-> NoDefaults]
VatRatesController == [create |-> NoDefaults, update |-> NoDefaults, remove |-> NoDefaults]
HouseholdsController == [create |-> NoDefaults, link |-> NoDefaults, unlink |-> NoDefaults]
MembersController ==
    [create |-> MemberDefaults, update |-> Partial(MemberDefaults), remove |-> NoDefaults]

\* The services: the resource an actor needs rights to, and the operations
\* that look the row up before they write.
LocationsService == [resource |-> "location", find |-> {"update"}]
ProgramsService == [resource |-> "class", find |-> {}]
SchedulesService == [resource |-> "class", find |-> {}]
DisciplinesService == [resource |-> "discipline", find |-> {}]
PlansService == [resource |-> "membership", find |-> {}]
VatRatesService == [resource |-> "tenantSettings", find |-> {}]
HouseholdsService == [resource |-> "member", find |-> {"link", "unlink"}]
MembersService == [resource |-> "member", find |-> {"update"}]

\* The repositories: the columns and the writes there are.
LocationRepository == [columns |-> {"name", "timezone"}, writes |-> {"create", "update"}]
ProgramRepository == [columns |-> {"name", "active"}, writes |-> {"create", "update", "remove"}]
ClassScheduleRepository ==
    [columns |-> {"name", "timezone", "active"}, writes |-> {"create", "update", "remove"}]
DisciplineRepository ==
    [columns |-> {"name", "presentation", "active"}, writes |-> {"create", "update"}]
PlanRepository ==
    [columns |-> {"name", "interval", "active"}, writes |-> {"create", "update", "remove"}]
VatRateRepository == [columns |-> {"name", "percent"}, writes |-> {"create", "update", "remove"}]
HouseholdRepository == [columns |-> {"name"}, writes |-> {"create", "update"}]
MemberRepository ==
    [columns |-> {"status", "email", "emailLower", "household"},
     writes |-> {"create", "update", "remove"}]

layers(controller, service, repository) ==
    [routes |-> controller, service |-> service, repository |-> repository]
Collections ==
    [location |-> layers(LocationsController, LocationsService, LocationRepository),
     program |-> layers(ProgramsController, ProgramsService, ProgramRepository),
     schedule |-> layers(SchedulesController, SchedulesService, ClassScheduleRepository),
     discipline |-> layers(DisciplinesController, DisciplinesService, DisciplineRepository),
     plan |-> layers(PlansController, PlansService, PlanRepository),
     vatRate |-> layers(VatRatesController, VatRatesService, VatRateRepository),
     household |-> layers(HouseholdsController, HouseholdsService, HouseholdRepository),
     member |-> layers(MembersController, MembersService, MemberRepository)]

-----------------------------------------------------------------------------
(* The bodies clients send.                                                *)
Values(f) ==
    CASE f = "name" -> {"old", "new"}
      [] f = "timezone" -> {"Stockholm", "Lisbon"}
      [] f = "active" -> {"yes", "no"}
      [] f = "presentation" -> {"belt", "sash"}
      [] f = "interval" -> {"monthly", "yearly"}
      [] f = "percent" -> {"low", "high"}
      [] f = "status" -> {"lead", "active"}
      [] f = "email" -> Emails \cup {None}

Given(c) == Collections[c].repository.columns \ {"emailLower", "household"}
Bodies(fields) ==
    {b \in [fields -> UNION {Values(f) : f \in fields}] : \A f \in fields : b[f] \in Values(f)}

\* A new row with or without what has a default; a change of one field.
CreateBodies(c) ==
    Bodies(Given(c)) \cup Bodies(Given(c) \ DOMAIN Collections[c].routes["create"])
UpdateBodies(c) == UNION {Bodies({f}) : f \in Given(c)}
BodiesOf(c, op) ==
    CASE op = "create" -> CreateBodies(c)
      [] op = "update" -> UpdateBodies(c)
      [] OTHER -> {NoDefaults}

-----------------------------------------------------------------------------
NoEdit == [pc |-> "idle", coll |-> None, op |-> None, id |-> None, member |-> None,
           body |-> NoDefaults, patch |-> NoDefaults]

CatalogueInit ==
    /\ rows = [c \in DOMAIN Collections |-> [i \in RowIds |-> None]]
    /\ used = {}
    /\ edits = [e \in Editors |-> NoEdit]
    /\ begun = 0
    /\ focus \in Focuses

Proceed(e, edit) == edits' = [edits EXCEPT ![e] = edit]
Finish(e) == Proceed(e, NoEdit)
Start(e, edit) ==
    /\ edits[e].pc = "idle" /\ begun < focus.requests
    /\ begun' = begun + 1
    /\ Proceed(e, edit)

\* link and unlink are updates of the member.
Permission(c, op) ==
    <<Collections[c].service.resource,
      CASE op = "remove" -> "delete" [] op \in {"link", "unlink"} -> "update" [] OTHER -> op>>

\* The request is parsed and the actor may make it.
Begin(e, c, op, id, body) ==
    /\ op \in DOMAIN Collections[c].routes \cap Collections[c].repository.writes
    /\ body \in BodiesOf(c, op)
    /\ op = "create" => <<c, id>> \notin used
    /\ Can(EditorOf[e], Permission(c, op), None,
           IF c = "member" /\ op = "update" THEN id ELSE None)
    /\ Start(e, [pc |-> IF op \in Collections[c].service.find THEN "find" ELSE "write",
                 coll |-> c, op |-> op, id |-> id, member |-> None, body |-> body,
                 patch |-> Parse(Collections[c].routes[op], body)])
    /\ used' = IF op = "create" THEN used \cup {<<c, id>>} ELSE used
    /\ UNCHANGED <<rows, focus>>

Find(e) ==
    /\ edits[e].pc = "find"
    /\ IF rows[edits[e].coll][edits[e].id] # None
       THEN Proceed(e, [edits[e] EXCEPT !.pc = "write"])
       ELSE Finish(e)
    /\ UNCHANGED <<rows, used, begun, focus>>

Lower(email) == IF email = None THEN None ELSE LowerCase[email]

\* A member's email is stored in lower case too, which is unique.  A slip to
\* catch: a change of the email leaves that column alone.
LowerForgotten(patch) == patch
WithLower(patch) ==
    IF "email" \in DOMAIN patch
    THEN Over([emailLower |-> Lower(patch.email)], patch)
    ELSE patch

MemberFields(input) == Over([emailLower |-> Lower(input.email), household |-> None], input)

Created(c, input) == IF c = "member" THEN MemberFields(input) ELSE input
Updated(c, row, patch) == Over(IF c = "member" THEN WithLower(patch) ELSE patch, row)

EmailTaken(id, row) ==
    /\ row.emailLower # None
    /\ \E i \in RowIds \ {id} : /\ rows["member"][i] # None
                              /\ rows["member"][i].emailLower = row.emailLower

\* The write: nothing is found to write to, a unique index refuses, or it is done.
Write(e) ==
    LET c == edits[e].coll
        id == edits[e].id
        row == rows[c][id]
        next == CASE edits[e].op = "create" -> Created(c, edits[e].patch)
                  [] edits[e].op = "remove" -> None
                  [] OTHER -> Updated(c, row, edits[e].patch)
    IN  /\ edits[e].pc = "write"
        /\ IF \/ edits[e].op # "create" /\ row = None
              \/ c = "member" /\ edits[e].op # "remove" /\ EmailTaken(id, next)
           THEN UNCHANGED rows
           ELSE rows' = [rows EXCEPT ![c][id] = next]
        /\ Finish(e)
        /\ UNCHANGED <<used, begun, focus>>

-----------------------------------------------------------------------------
(* A member is put into a household, or taken out of it.                   *)
BeginLink(e, op, household, m) ==
    /\ op \in {"link", "unlink"}
    /\ Can(EditorOf[e], Permission("household", op), None, None)
    /\ Start(e, [NoEdit EXCEPT !.pc = "household", !.coll = "household", !.op = op,
                                 !.id = household, !.member = m])
    /\ UNCHANGED <<rows, used, focus>>

FindHousehold(e) ==
    /\ edits[e].pc = "household"
    /\ IF rows["household"][edits[e].id] # None
       THEN Proceed(e, [edits[e] EXCEPT !.pc = "member"])
       ELSE Finish(e)
    /\ UNCHANGED <<rows, used, begun, focus>>

FindMember(e) ==
    LET m == rows["member"][edits[e].member]
    IN  /\ edits[e].pc = "member"
        /\ IF m # None /\ (edits[e].op = "unlink" => m.household = edits[e].id)
           THEN Proceed(e, [edits[e] EXCEPT !.pc = "write", !.coll = "member", !.id = edits[e].member,
                               !.body = [household |-> IF edits[e].op = "link"
                                                       THEN edits[e].id ELSE None],
                               !.patch = [household |-> IF edits[e].op = "link"
                                                        THEN edits[e].id ELSE None]])
           ELSE Finish(e)
        /\ UNCHANGED <<rows, used, begun, focus>>

CatalogueNext ==
    \E e \in Editors :
        \/ \E c \in focus.colls, op \in {"create", "update", "remove"}, id \in RowIds :
              \E body \in BodiesOf(c, op) : Begin(e, c, op, id, body)
        \/ /\ "household" \in focus.colls
           /\ \E op \in {"link", "unlink"}, household \in RowIds, m \in RowIds :
                 BeginLink(e, op, household, m)
        \/ Find(e) \/ FindHousehold(e) \/ FindMember(e) \/ Write(e)

CatalogueSpec == CatalogueInit /\ [][CatalogueNext]_catalogueVars

-----------------------------------------------------------------------------
(* Properties.                                                             *)
\* An email, however it is spelt, is that of one member of the tenant at most,
\* through creations and changes that race.
EmailIsOneMembers ==
    \A m, n \in RowIds :
        LET a == rows["member"][m]
            b == rows["member"][n]
        IN  m # n /\ a # None /\ b # None /\ a.email # None /\ b.email # None
                => LowerCase[a.email] # LowerCase[b.email]

\* A change of a row changes what its body names, and nothing else.
OnlyNamedFields ==
    [][\A c \in DOMAIN Collections, id \in RowIds :
          rows[c][id] # None /\ rows'[c][id] \notin {None, rows[c][id]}
              => \E e \in Editors :
                    /\ edits[e].coll = c /\ edits[e].id = id
                    /\ \A f \in DOMAIN rows[c][id] \ {"emailLower"} :
                          \/ rows'[c][id][f] = rows[c][id][f]
                          \/ f \in DOMAIN edits[e].body]_catalogueVars
=============================================================================
