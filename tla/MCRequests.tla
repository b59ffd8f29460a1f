----------------------------- MODULE MCRequests -----------------------------
(***************************************************************************)
(* Two tenants and two users, each of another role in each.  In the first, *)
(* ann is a member and looks after a minor, and bo is on the staff; in the *)
(* second ann is the owner, bo a member and on the staff of one location.  *)
(* A behaviour is of one part: requests of a workload that overlap, a call *)
(* through the tenant guard, changes of the catalogue, waivers, or one tab *)
(* of a browser app.                                                       *)
(***************************************************************************)
EXTENDS Requests, TenantGuard, Catalogue, Waivers, Pages, TLC

CONSTANTS t1, t2, ann, bo, kid, mia, tom, r1, r2, plain, capital, sam, pam, o1, o2

CONSTANT Parts      \* bound: the parts behaviours are of

VARIABLE part

Homes == kid :> t1 @@ mia :> t1 @@ tom :> t2
Accounts == kid :> None @@ mia :> ann @@ tom :> bo

role(name, scope) == [role |-> name, scope |-> scope]
membership(t, u, m, roles) == [tenant |-> t, user |-> u, member |-> m, roles |-> roles]
Roles ==
    {membership(t1, ann, mia, {role("member", {"ALL"})}),
     membership(t1, bo, None, {role("staff", {"ALL"})}),
     membership(t2, ann, None, {role("owner", {"ALL"})}),
     membership(t2, bo, tom, {role("staff", {"east"})})}
Guardianships ==
    {[tenant |-> t1, guardian |-> ann, minor |-> kid, revoked |-> FALSE,
      grants |-> DefaultGuardianGrants]}

load(ops, clients, n) == [ops |-> ops, clients |-> clients, acts |-> n]
Overlaps ==
    {load({"members", "revoke"}, {<<t1, ann>>, <<t1, bo>>}, 1),
     load({"members", "crash"}, {<<t1, bo>>, <<t2, bo>>, <<t2, ann>>}, 2),
     load({"consent"}, {<<t1, ann>>, <<t2, ann>>}, 3),
     load({"consent", "broadcast"}, {<<t1, ann>>, <<t1, bo>>}, 3),
     load({"members", "broadcast"}, {<<t2, ann>>}, 2),
     load({}, {}, 0)}

row(coll, t, id) == [coll |-> coll, tenant |-> t, id |-> id, val |-> 0]
TwoRowsEach ==
    {row("invoices", t1, 1), row("invoices", t2, 2),
     row("members", t1, 1), row("members", t2, 2)}

\* One stage nested twice, or two stages nested once.
OneStage(stages) == {<<>>} \cup {<<s>> : s \in stages}
NestedOnce == Leaves \cup Joins(OneStage(Leaves))
NestedTwice == Leaves \cup Joins(OneStage(NestedOnce))
StagesByDepth == 0 :> Leaves @@ 1 :> NestedOnce @@ 2 :> NestedTwice
ShortPipelines == OneStage(NestedTwice) \cup [1..2 -> NestedOnce]
SingleOps == {<<o>> : o \in BulkOps}

actor(u, m, name, edgesOf) ==
    [user |-> u, member |-> m, roles |-> {role(name, {"ALL"})}, edges |-> edgesOf]
parent == actor(ann, mia, "member", Guardianships)

\* The staff and an owner, who may do everything.
OwnerAndStaff == 1 :> actor(bo, None, "owner", {}) @@ 2 :> actor(ann, None, "staff", {})
Spelling == plain :> plain @@ capital :> plain
about(colls, n) == [colls |-> colls, requests |-> n]
Changes ==
    {about({"member"}, 4), about({"member", "household"}, 3)}
        \cup {about({c}, 3) : c \in {"location", "program", "schedule", "discipline", "plan", "vatRate"}}

\* One who signs for herself in one session and for her child in another, and
\* two owners, or two sessions of one.
Sessions == sam :> parent @@ pam :> parent @@ o1 :> actor(bo, None, "owner", {})
                @@ o2 :> actor(bo, None, "owner", {})
SignsFor == sam :> mia @@ pam :> kid @@ o1 :> None @@ o2 :> None

\* Two members use one browser, one after the other.
Browsers == [admin |-> {"bo"}, member |-> {"mia", "kid"}, platform |-> {"operator"}]

Interchangeable == Permutations(Callers) \cup Permutations(RowIds)

\* The variables of the parts a behaviour is not of keep one value.
MCInit ==
    /\ part \in Parts
    /\ RequestsInit /\ GuardInit /\ CatalogueInit /\ WaiversInit /\ PagesInit
    /\ (part = "requests") = (workload.ops # {})
    /\ part # "catalogue" => focus = CHOOSE f \in Focuses : TRUE
    /\ part # "pages" => watched.key = <<"platform", "audit">> /\ app = "platform"
MCNext ==
    \/ /\ part = "requests" /\ RequestsNext
       /\ UNCHANGED <<part, guardVars, catalogueVars, waiverVars, pagesVars>>
    \/ /\ part = "guard" /\ GuardNext
       /\ UNCHANGED <<part, requestsVars, catalogueVars, waiverVars, pagesVars>>
    \/ /\ part = "catalogue" /\ CatalogueNext
       /\ UNCHANGED <<part, requestsVars, guardVars, waiverVars, pagesVars>>
    \/ /\ part = "waivers" /\ WaiversNext
       /\ UNCHANGED <<part, requestsVars, guardVars, catalogueVars, pagesVars>>
    \/ /\ part = "pages" /\ PagesNext
       /\ UNCHANGED <<part, requestsVars, guardVars, catalogueVars, waiverVars>>
MCSpec ==
    MCInit /\ [][MCNext]_<<part, requestsVars, guardVars, catalogueVars, waiverVars, pagesVars>>
=============================================================================
