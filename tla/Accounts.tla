------------------------------ MODULE Accounts ------------------------------
(***************************************************************************)
(* What the operations of AuthSessions and Onboarding promise about an     *)
(* account: its sessions, its one-time tokens, its link to a member, and   *)
(* its erasure.                                                            *)
(***************************************************************************)
EXTENDS Onboarding

\* Every document and every call has its type (packages/db/src/auth.ts).
AccountsTypeOK ==
    /\ users \in [Users -> User \cup {NoUser}]
    /\ identities \in [Users -> Identity \cup {NoIdentity}]
    /\ sessions \in [Sessions -> Session \cup {NoSession("unused"), NoSession("deleted")}]
    /\ tokens \in [Tokens -> Token \cup {NoToken("unused"), NoToken("deleted")}]
    /\ members \in [Members -> Member]
    /\ memberships \subseteq [user : Users, member : Members]
    /\ calls \in [Callers -> Call]
    /\ killed \subseteq Sessions
    /\ erased \subseteq Members
    /\ raced \subseteq {"password", "token", "account", "erase"}
    /\ workload \in Workloads

\* A login has at most one usable refresh token at any time, and none while a
\* rotation is between retiring one and minting the next: whatever rotations
\* of one token, replays, logouts and crashes interleave.
Minting(f) == {c \in Callers : At(c, "mint") /\ calls[c].family = f}
OneLiveSession ==
    \A f \in Sessions : Cardinality(LiveIn(f)) + Cardinality(Minting(f)) <= 1

\* After the replay of a retired refresh token has revoked its family, or a
\* logout has, "neither party can continue" (token.service.ts): no session of
\* the family is ever live again.
KilledFamilyIsDead == \A f \in killed : LiveIn(f) = {}

\* Once the password of an account has been changed or reset and its sessions
\* revoked, none is live that goes back to a login with an older password; but
\* for a login or a rotation that had passed its check before, or a crash
\* between the two writes.
OldPasswordOut ==
    "password" \notin raced =>
        \A s \in Sessions : LET u == sessions[s].user IN
            (sessions[s].state = "live" /\ Registered(u)) =>
                \/ sessions[s].proof = identities[u].password
                \/ \E c \in Callers : At(c, "revokeAll") /\ calls[c].user = u

\* Only the newest link of a kind works for a user or member, unless two
\* requests for one overlapped between the deletion and the creation.
OnlyNewestLink ==
    "token" \notin raced =>
        \A kind \in Kinds, about \in Users \cup Members :
            Cardinality({t \in Outstanding(kind, about) : Usable(t)}) <= 1

\* The acceptance of an invite, or an erasure, of the member is under way.
Moving(m) ==
    \/ \E c \in Callers : calls[c].member = m /\ (At(c, "membership") \/ At(c, "erase"))
    \/ m \in erased

\* No account is linked to two members; a membership names the member its
\* account is linked to; a linked account exists and its address has been
\* verified; and a linked member is a member of the tenant, unless a crash fell
\* between the writes of an acceptance or an erasure was cut short.
LinkConsistent ==
    /\ \A m, n \in Members :
          members[m].user = members[n].user => m = n \/ members[m].user = None
    /\ \A row \in memberships : members[row.member].user = row.user
    /\ \A m \in Members : members[m].user # None => users[members[m].user].verified = TRUE
    /\ raced \cap {"account", "erase"} = {} =>
          \A m \in Members : members[m].user # None =>
              Moving(m) \/ [user |-> members[m].user, member |-> m] \in memberships

\* An erasure that has run to its end, on its own or after one that was cut
\* short, leaves nothing of the member's account: no membership or invite, no
\* credential, no session, no token.  Except for what a request that had passed
\* its checks before then still writes.
ErasedIsGone ==
    "erase" \notin raced => \A m \in erased :
        LET u == members[m].user
        IN  /\ \A row \in memberships : row.member # m
            /\ Outstanding("invite", m) = {}
            /\ u # None => /\ ~Registered(u)
                           /\ SessionsOf(u) = {}
                           /\ \A kind \in {"reset", "verify"} : Outstanding(kind, u) = {}
=============================================================================
