---------------------------- MODULE AccountStore ----------------------------
(***************************************************************************)
(* The collections behind an account (packages/db/src/auth.ts, member.ts)  *)
(* and the operations of their repositories: users, local identities,      *)
(* refresh sessions, one-time tokens, members and memberships.             *)
(*                                                                         *)
(* Tokens of the three kinds (password reset, e-mail verification, member  *)
(* invite) live in three collections with the same operations; here they   *)
(* are one, keyed by kind.  Ids are numbers, given in order; that of a     *)
(* compensated registration, which nothing refers to, may be given again.  *)
(***************************************************************************)
EXTENDS Naturals, FiniteSets

CONSTANTS
    Members,
    Emails,
    Address,        \* the e-mail of each member at the start, or None
    Accepted,       \* the account each member has at the start, or None
    Callers,        \* executions of API requests
    MaxUsers,       \* bound: accounts ever created
    MaxSessions,    \* bound: sessions ever created
    MaxTokens,      \* bound: one-time tokens ever created
    MaxPasswords,   \* bound: password changes of an account
    Workloads,      \* bound: the sets of operations that overlap in a behaviour
    None            \* null

Users == 1..MaxUsers
Sessions == 1..MaxSessions
Tokens == 1..MaxTokens
Kinds == {"reset", "verify", "invite"}

ASSUME AccountsAssumption ==
    /\ MaxUsers \in Nat /\ MaxSessions \in Nat /\ MaxTokens \in Nat /\ MaxPasswords \in Nat
    /\ None \notin Users \cup Emails \cup Members /\ None \notin BOOLEAN
    /\ Members \cap Users = {}
    /\ Address \in [Members -> Emails \cup {None}]
    /\ Accepted \in [Members -> Users \cup {None}]
    /\ \A m, n \in Members :
          /\ Address[m] = Address[n] => m = n \/ Address[m] = None
          /\ Accepted[m] = Accepted[n] => m = n \/ Accepted[m] = None
          /\ Accepted[m] # None => Address[m] # None
    /\ Workloads \subseteq
           SUBSET {"login", "change", "expire", "register", "reset", "verify",
                   "invite", "edit", "erase", "crash", "browse"}
    /\ Workloads # {}

VARIABLES
    users,          \* accounts: e-mail and whether it is verified
    identities,     \* the password of each account
    sessions,       \* refresh sessions, in families
    tokens,         \* one-time tokens
    members,        \* members: e-mail and account
    memberships,    \* who is a member of the tenant with which account
    calls,          \* what each caller is in the middle of
    killed,         \* history: families revoked because of a replay or a logout
    erased,         \* history: members whose erasure has run to its end
    raced,          \* history: what was written on a stale read, or crashed
    workload        \* the operations this behaviour is made of

accountVars == <<users, identities>>
tenantVars == <<members, memberships>>
history == <<killed, erased, raced, workload>>
accountsVars == <<accountVars, sessions, tokens, tenantVars, calls, history>>

User == [email : Emails \cup {None}, verified : BOOLEAN]
NoUser == [email |-> None, verified |-> None]

\* password counts the passwords set, so equal numbers are equal hashes.
Identity == [email : Emails, password : Nat]
NoIdentity == [email |-> None, password |-> 0]

\* proof: the password the family's login was made with (history).
Session ==
    [state : {"live", "revoked"}, user : Users, family : Sessions,
     expired : BOOLEAN, proof : Nat]
NoSession(state) ==
    [state |-> state, user |-> None, family |-> None, expired |-> FALSE, proof |-> 0]

\* about: the user, or for an invite the member, the token is for.
Token ==
    [state : {"usable", "used", "expired"}, kind : Kinds, about : Users \cup Members,
     email : Emails]
NoToken(state) == [state |-> state, kind |-> None, about |-> None, email |-> None]

Member == [email : Emails \cup {None}, user : Users \cup {None}]

Call ==
    [pc : {"idle", "start", "retire", "retireExpired", "mint", "kill", "set", "revokeAll",
           "clear", "issue", "verify", "recheck", "find", "user", "identity",
           "compensate", "link", "membership", "erase"},
     op : {"login", "rotate", "change", "reset", "verify", "invite", "accept",
           "register", "erase"},
     user : Users \cup {None}, member : Members \cup {None}, email : Emails \cup {None},
     session : Sessions \cup {None}, family : Sessions \cup {None},
     proof : Nat, step : Nat]
Idle ==
    [pc |-> "idle", op |-> "login", user |-> None, member |-> None, email |-> None,
     session |-> None, family |-> None, proof |-> 0, step |-> 0]

Unused(rows) == {i \in DOMAIN rows : rows[i].state = "unused"}
Fresh(S) == CHOOSE i \in S : \A j \in S : i <= j
FreshSession == Fresh(Unused(sessions))
NewUsers == {u \in Users : users[u] = NoUser /\ \A c \in Callers : calls[c].user # u}

Registered(u) == identities[u] # NoIdentity
WithIdentity(e) == {u \in Users : Registered(u) /\ identities[u].email = e}
LiveIn(f) == {s \in Sessions : sessions[s].state = "live" /\ sessions[s].family = f}
Outstanding(kind, about) ==
    {t \in Tokens : tokens[t].kind = kind /\ tokens[t].about = about}

\* An erasure of the member is under way or done.
Erasing(m) == m \in erased \/ \E c \in Callers : calls[c].op = "erase" /\ calls[c].member = m

AccountsInit ==
    LET holders == {m \in Members : Accepted[m] # None}
        holder(u) == CHOOSE m \in holders : Accepted[m] = u
        held(u) == \E m \in holders : Accepted[m] = u
    IN  /\ users = [u \in Users |-> IF held(u)
                        THEN [email |-> Address[holder(u)], verified |-> TRUE] ELSE NoUser]
        /\ identities = [u \in Users |-> IF held(u)
                             THEN [email |-> Address[holder(u)], password |-> 0] ELSE NoIdentity]
        /\ sessions = [s \in Sessions |-> NoSession("unused")]
        /\ tokens = [t \in Tokens |-> NoToken("unused")]
        /\ members = [m \in Members |-> [email |-> Address[m], user |-> Accepted[m]]]
        /\ memberships = {[user |-> Accepted[m], member |-> m] : m \in holders}
        /\ calls = [c \in Callers |-> Idle]
        /\ killed = {}
        /\ erased = {}
        /\ raced = {}
        /\ workload \in Workloads

Continue(c, call) == calls' = [calls EXCEPT ![c] = call]
End(c) == Continue(c, Idle)
At(c, pc) == calls[c].pc = pc
Goto(c, pc) == Continue(c, [calls[c] EXCEPT !.pc = pc])

-----------------------------------------------------------------------------
(* Repositories.                                                           *)
CreateSession(u, f, proof) ==
    sessions' = [sessions EXCEPT ![FreshSession] =
                    [state |-> "live", user |-> u, family |-> f, expired |-> FALSE,
                     proof |-> proof]]

\* revokeFamily and revokeAllForUser retire the live sessions of S.
Revoke(S) ==
    sessions' = [s \in Sessions |-> IF s \in S /\ sessions[s].state = "live"
                                    THEN [sessions[s] EXCEPT !.state = "revoked"]
                                    ELSE sessions[s]]

DeleteTokens(T) ==
    tokens' = [t \in Tokens |-> IF t \in T THEN NoToken("deleted") ELSE tokens[t]]

\* The condition of consumeIfValid, which compares and swaps in one update.
Usable(t) == tokens[t].state = "usable"

\* The unique key of users (e-mail) and of identities (provider and e-mail).
EmailTaken(e) == \E u \in Users : users[u].email = e
IdentityTaken(e) == WithIdentity(e) # {}

\* linkUserId: only a member without an account.  A slip to catch: any member.
AnyMember(m) == TRUE
Linkable(m) == members[m].user = None

-----------------------------------------------------------------------------
(* The clock, and process crashes.                                         *)
Expire ==
    /\ \/ \E s \in Sessions :
             /\ sessions[s].state = "live" /\ ~sessions[s].expired
             /\ sessions' = [sessions EXCEPT ![s].expired = TRUE]
             /\ UNCHANGED tokens
       \/ \E t \in Tokens :
             /\ tokens[t].state = "usable"
             /\ tokens' = [tokens EXCEPT ![t].state = "expired"]
             /\ UNCHANGED sessions
    /\ UNCHANGED <<accountVars, tenantVars, calls, history>>

\* What a crash leaves undone for good, by the step it came before.
LeftUndone(call) ==
    CASE call.pc = "revokeAll" -> {"password"}
      [] call.pc \in {"compensate", "verify", "link", "membership", "erase"} -> {"account"}
      [] OTHER -> {}

Crash(c) ==
    /\ calls[c].pc # "idle"
    /\ End(c)
    /\ raced' = raced \cup LeftUndone(calls[c])
    /\ UNCHANGED <<accountVars, sessions, tokens, tenantVars, killed, erased, workload>>
=============================================================================
