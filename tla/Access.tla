------------------------------- MODULE Access -------------------------------
(***************************************************************************)
(* Authorization (packages/authz), pure: what an actor may do in a tenant  *)
(* by a role, to their own records, or to those of a minor they look after.*)
(* A permission is a pair of a resource and an action.                     *)
(***************************************************************************)
EXTENDS Naturals, FiniteSets

CONSTANT None       \* undefined or null

Resources ==
    {"member", "membership", "invoice", "payment", "class", "attendance", "discipline",
     "rankSystem", "promotion", "gradingEvent", "curriculum", "waiver", "location", "role",
     "tenantSettings", "auditLog", "gdprRequest", "announcement"}
Actions ==
    {"create", "read", "update", "delete", "list", "approve", "award", "export", "erase"}
Permissions == Resources \X Actions

Read == {"read", "list"}
Add == {"create"} \cup Read
Edit == {"update"} \cup Add

\* What everyone in the tenant may see.
SharedReads == {"class", "announcement", "discipline"} \X Read

DefaultRolePermissions ==
    [owner |-> Permissions,
     instructor |-> ({"member", "class", "discipline", "rankSystem", "auditLog"} \X Read)
        \cup ({"attendance", "gradingEvent"} \X Edit)
        \cup ({"promotion"} \X (Add \cup {"award", "approve"}))
        \cup ({"curriculum"} \X ({"update"} \cup Read))
        \cup ({"announcement"} \X Add),
     staff |-> ({"member", "membership", "class", "attendance"} \X Edit)
        \cup ({"invoice", "waiver", "announcement"} \X Add)
        \cup ({"payment", "discipline", "rankSystem"} \X Read)
        \cup {<<"tenantSettings", "read">>},
     member |-> SharedReads,
     guardian |-> SharedReads]

DefaultGuardianGrants ==
    ({"member"} \X {"read", "update"})
    \cup ({"invoice", "attendance", "promotion", "curriculum"} \X Read)
    \cup ({"waiver"} \X {"read", "create"})
    \cup ({"class"} \X {"create", "update"})

SelfReadable == {"member", "invoice", "attendance", "promotion", "curriculum"}

\* A scope is {"ALL"} or a set of locations: the latter does not reach what
\* belongs to no location.
LocationCovers(scope, location) == "ALL" \in scope \/ location \in scope

RoleGrants(actor, permission, location) ==
    \E a \in actor.roles :
        /\ LocationCovers(a.scope, location)
        /\ a.role \in DOMAIN DefaultRolePermissions
        /\ permission \in DefaultRolePermissions[a.role]

SelfAccess(actor, permission, owner) ==
    /\ owner # None /\ owner = actor.member
    /\ \/ permission \in {"member"} \X {"read", "update"}
       \/ permission \in SelfReadable \X Read

\* A slip to catch: an edge to one minor opens the records of all.
AnyMinor(edge, actor, owner) == edge.guardian = actor.user
AppliesTo(edge, actor, owner) == edge.guardian = actor.user /\ edge.minor = owner

GuardianAccess(actor, permission, owner) ==
    /\ owner # None
    /\ \E edge \in actor.edges :
          AppliesTo(edge, actor, owner) /\ ~edge.revoked /\ permission \in edge.grants

Can(actor, permission, location, owner) ==
    \/ RoleGrants(actor, permission, location)
    \/ SelfAccess(actor, permission, owner)
    \/ GuardianAccess(actor, permission, owner)
=============================================================================
