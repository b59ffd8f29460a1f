---------------------------- MODULE AccountProofs ----------------------------
(***************************************************************************)
(* Accounts, passwords, links, memberships and erasures: proof of          *)
(* OldPasswordOut, OnlyNewestLink, LinkConsistent and ErasedIsGone for     *)
(* every number of requests, accounts and members, with every interleaving *)
(* of their steps, expiries and crashes.                                   *)
(*                                                                         *)
(* The invariants hold together or not at all: an erasure ends for good    *)
(* only if no request holds the account it erases, an account is linked    *)
(* once only if nobody else could be accepting with it, and a new user has *)
(* no sessions only if nothing ever referred to it.  AccountsInv is their  *)
(* conjunction, strengthened:                                              *)
(*   TypesInv    the fields a call and a token carry at each step;         *)
(*   UsersInv    nothing refers to a user that is absent, and to one whose *)
(*               credential is being created only its creator does;        *)
(*   LinksInv    who is on the way to a link is verified, linked to nobody *)
(*               yet, and alone with the account;                          *)
(*   TokensInv   two usable links of a kind for the same subject are one,  *)
(*               and there is none while a request is about to issue one;  *)
(*   ErasureInv  the step an erasure has reached says what is gone.        *)
(* A step keeps each part by the frame lemma of the part (UsersKept,       *)
(* LinksKept, TokensKept, PasswordsKept, ErasureKept), so that the lemma   *)
(* of an action says only what the action changes.                         *)
(***************************************************************************)
EXTENDS SessionProofs

\* The fields a call has at each of its steps.
CallShape(a) ==
    /\ a.pc \in {"start", "retire", "mint", "set", "revokeAll", "identity", "compensate",
                 "verify", "link", "membership"} => a.user \in Users
    /\ a.pc \in {"retire", "retireExpired"} => a.session \in Sessions
    /\ a.pc \in {"retire", "mint", "kill"} => a.family \in Sessions
    /\ a.pc \in {"clear", "issue"} =>
          /\ a.op \in Kinds
          /\ IF a.op = "invite" THEN a.member \in Members ELSE a.user \in Users
    /\ a.pc \in {"clear", "issue", "recheck", "find", "user", "identity"} => a.email \in Emails
    /\ a.pc \in {"find", "user", "identity", "compensate"} => a.op \in {"register", "accept"}
    /\ a.pc = "verify" => a.op \in {"verify", "accept"}
    /\ a.pc \in {"recheck", "link", "membership"} => a.op = "accept"
    /\ a.op = "accept" => a.member \in Members
    /\ a.pc = "erase" => /\ a.op = "erase" /\ a.member \in Members
                         /\ a.step \in 1 .. 8
                         /\ a.step > 3 => a.user \in Users
    /\ a.op = "erase" => a.pc = "erase"

\* A token in use names a subject of its kind.
TokenShape(r) ==
    r.state \in {"usable", "used", "expired"} =>
        IF r.kind = "invite" THEN r.about \in Members ELSE r.about \in Users

\* Types, field by field.
TypesInv ==
    /\ AccountsTypeOK
    /\ \A c \in Callers : CallShape(calls[c])
    /\ \A t \in Tokens : TokenShape(tokens[t])

-----------------------------------------------------------------------------
\* Nothing refers to the account, or could be presented for it.
Clean(u) ==
    /\ ~Registered(u)
    /\ \A s \in Sessions : sessions[s].user # u
    /\ \A t \in Tokens : tokens[t].about # u
    /\ \A m \in Members : members[m].user # u

\* Between the insertion of a user and that of its credential.
Creating(a) == a.pc \in {"identity", "compensate"}

\* Users that do not exist, or only half.
UsersInv ==
    /\ \A u \in Users : users[u] = NoUser => Clean(u)
    /\ \A c \in Callers : Creating(calls[c]) =>
          /\ Clean(calls[c].user)
          /\ \A d \in Callers \ {c} : calls[d].user # calls[c].user
    /\ \A c \in Callers : calls[c].user \in Users => users[calls[c].user] # NoUser

\* On the way from a consumed invite to the link.
Accepting(a) == a.op = "accept" /\ a.pc \in {"identity", "compensate", "verify", "link"}

\* Who may come to be linked.
LinksInv ==
    /\ LinkConsistent
    /\ \A c \in Callers : Accepting(calls[c]) =>
          /\ \A m \in Members : members[m].user # calls[c].user
          /\ \A d \in Callers \ {c} :
                Accepting(calls[d]) => calls[d].user # calls[c].user
    /\ \A c \in Callers : At(c, "link") => users[calls[c].user].verified = TRUE
    /\ \A c \in Callers : At(c, "membership") => members[calls[c].member].user = calls[c].user

\* Links that work.
NoUsable(kind, about) == \A t \in Tokens :
    Usable(t) => tokens[t].kind # kind \/ tokens[t].about # about

TokensInv ==
    "token" \notin raced =>
        /\ \A s, t \in Tokens :
              /\ Usable(s) /\ Usable(t)
              /\ tokens[s].kind = tokens[t].kind /\ tokens[s].about = tokens[t].about
              => s = t
        /\ \A c \in Callers : At(c, "issue") => NoUsable(calls[c].op, Subject(calls[c]))

\* What an erasure that has reached the step has taken away.
Gone(m, u, step) ==
    /\ step > 1 => \A row \in memberships : row.member # m
    /\ step > 2 => Outstanding("invite", m) = {}
    /\ step > 5 => ~Registered(u)
    /\ step > 6 => SessionsOf(u) = {}
    /\ step > 7 => Outstanding("reset", u) = {}
    /\ step > 8 => Outstanding("verify", u) = {}

ErasureInv ==
    "erase" \notin raced =>
        /\ \A m \in erased : Gone(m, members[m].user, IF members[m].user = None THEN 4 ELSE 9)
        /\ \A c \in Callers : At(c, "erase") =>
              /\ calls[c].user = members[calls[c].member].user
              /\ Gone(calls[c].member, calls[c].user, calls[c].step)

AccountsInv ==
    TypesInv /\ UsersInv /\ LinksInv /\ TokensInv /\ OldPasswordOut /\ ErasureInv

-----------------------------------------------------------------------------
(* Calls.                                                                  *)
Steps ==
    {"idle", "start", "retire", "retireExpired", "mint", "kill", "set", "revokeAll",
     "clear", "issue", "verify", "recheck", "find", "user", "identity",
     "compensate", "link", "membership", "erase"}

\* Caller c goes on with call a.
Follows(c, a) == Continue(c, a) /\ a \in Call /\ CallShape(a)

LEMMA IdleShape == Idle \in Call /\ CallShape(Idle) /\ Idle.pc = "idle" /\ Idle.user = None
                   /\ Idle.op = "login"
BY DEF Idle, Call, CallShape

LEMMA Moved ==
  ASSUME TypesInv, NEW c \in Callers, NEW a, Follows(c, a)
  PROVE  /\ calls' \in [Callers -> Call]
         /\ calls'[c] = a
         /\ \A d \in Callers \ {c} : calls'[d] = calls[d]
         /\ \A d \in Callers : CallShape(calls'[d])
<1>1. calls \in [Callers -> Call] /\ \A d \in Callers : CallShape(calls[d])
  BY DEF TypesInv, AccountsTypeOK
<1>2. calls' = [calls EXCEPT ![c] = a] /\ a \in Call /\ CallShape(a)
  BY DEF Follows, Continue
<1>3. calls' \in [Callers -> Call] /\ calls'[c] = a
      /\ \A d \in Callers \ {c} : calls'[d] = calls[d]
  BY <1>1, <1>2
<1> QED
  BY <1>1, <1>2, <1>3

LEMMA Ends ==
  ASSUME NEW c \in Callers, End(c)
  PROVE  \E a : Follows(c, a) /\ a = Idle
BY IdleShape DEF End, Follows

\* The fields of a call that goes on to another step.
SameBut(a, b, pc) ==
    /\ a.pc = pc /\ a.op = b.op /\ a.user = b.user /\ a.member = b.member
    /\ a.email = b.email /\ a.session = b.session /\ a.family = b.family
    /\ a.proof = b.proof /\ a.step = b.step

LEMMA GoesTo ==
  ASSUME TypesInv, NEW c \in Callers, NEW pc \in Steps, Goto(c, pc)
  PROVE  \E a : Continue(c, a) /\ a \in Call /\ SameBut(a, calls[c], pc)
<1> DEFINE a == [calls[c] EXCEPT !.pc = pc]
<1>1. calls[c] \in Call
  BY DEF TypesInv, AccountsTypeOK
<1>2. a \in Call
  BY <1>1 DEF Call, Steps
<1>3. SameBut(a, calls[c], pc)
  BY <1>1 DEF Call, SameBut
<1> HIDE DEF a
<1> QED
  BY <1>2, <1>3 DEF Goto, a

-----------------------------------------------------------------------------
(* What most steps leave as it is, group by group.                         *)

\* Sessions lose their life or are deleted; tokens are used, expire or are
\* deleted.
SessionsFade ==
    /\ sessions' \in [Sessions -> Session \cup {NoSession("unused"), NoSession("deleted")}]
    /\ \A s \in Sessions :
          \/ sessions'[s] = NoSession("deleted")
          \/ /\ sessions'[s].user = sessions[s].user
             /\ sessions'[s].proof = sessions[s].proof
             /\ sessions'[s].state = "live" => sessions[s].state = "live"

TokensFade ==
    /\ tokens' \in [Tokens -> Token \cup {NoToken("unused"), NoToken("deleted")}]
    /\ \A t \in Tokens :
          /\ TokenShape(tokens'[t])
          /\ \/ tokens'[t] = NoToken("deleted")
             \/ /\ tokens'[t].kind = tokens[t].kind
                /\ tokens'[t].about = tokens[t].about
                /\ tokens'[t].state = "usable" => tokens[t].state = "usable"

LEMMA TypesKept ==
  ASSUME TypesInv, NEW c \in Callers, NEW a, Follows(c, a),
         users' \in [Users -> User \cup {NoUser}],
         identities' \in [Users -> Identity \cup {NoIdentity}],
         sessions' \in [Sessions -> Session \cup {NoSession("unused"), NoSession("deleted")}],
         tokens' \in [Tokens -> Token \cup {NoToken("unused"), NoToken("deleted")}],
         \A t \in Tokens : TokenShape(tokens'[t]),
         members' \in [Members -> Member],
         memberships' \subseteq [user : Users, member : Members],
         killed' \subseteq Sessions, erased' \subseteq Members,
         raced' \subseteq {"password", "token", "account", "erase"}, UNCHANGED workload
  PROVE  TypesInv'
<1>1. calls' \in [Callers -> Call] /\ \A d \in Callers : CallShape(calls'[d])
  BY Moved
<1>2. workload' \in Workloads
  BY DEF TypesInv, AccountsTypeOK
<1>3. AccountsTypeOK'
  BY <1>1, <1>2 DEF AccountsTypeOK
<1> QED
  BY <1>1, <1>3 DEF TypesInv

\* Nothing points to a user it did not point to before.
LEMMA CleanKept ==
  ASSUME TypesInv, SessionsFade, TokensFade, NEW u \in Users, Clean(u),
         Registered(u)' => Registered(u),
         \A m \in Members : members'[m].user = u => members[m].user = u
  PROVE  Clean(u)'
<1>1. u # None
  BY AccountsAssumption DEF Users
<1>2. \A s \in Sessions : sessions'[s].user # u
  BY <1>1 DEF SessionsFade, NoSession, Clean
<1>3. \A t \in Tokens : tokens'[t].about # u
  BY <1>1 DEF TokensFade, NoToken, Clean
<1> QED
  BY <1>2, <1>3 DEF Clean

LEMMA UsersKept ==
  ASSUME TypesInv, UsersInv, NEW c \in Callers, NEW a, Follows(c, a),
         \A u \in Users : Clean(u) /\ u # calls[c].user => Clean(u)',
         \A u \in Users : users'[u] = NoUser => users[u] = NoUser,
         a.user \in {None, calls[c].user} \/ ~Clean(a.user),
         Creating(a) => Creating(calls[c]) /\ a.user = calls[c].user /\ Clean(a.user)'
  PROVE  UsersInv'
<1>1. /\ calls'[c] = a
      /\ \A d \in Callers \ {c} : calls'[d] = calls[d]
  BY Moved
<1>2. \A u \in Users : users[u] = NoUser => u # calls[c].user
  BY DEF UsersInv
<1>3. \A u \in Users : users'[u] = NoUser => Clean(u)'
  BY <1>2 DEF UsersInv
<1>4. \A d \in Callers : Creating(calls[d]) => calls[d].user \in Users /\ calls[d].user # None
  BY AccountsAssumption DEF TypesInv, CallShape, Creating
<1>5. ASSUME NEW d \in Callers, Creating(calls'[d])
      PROVE  /\ \E u \in Users : u = calls'[d].user /\ Clean(u)'
             /\ \A b \in Callers \ {d} : calls'[b].user # calls'[d].user
  <2>1. CASE d = c
    <3>1. Creating(calls[c]) /\ a.user = calls[c].user /\ Clean(a.user)'
      BY <1>1, <1>5, <2>1
    <3> QED
      BY <1>1, <1>4, <2>1, <3>1 DEF UsersInv
  <2>2. CASE d # c
    <3>1. Creating(calls[d]) /\ calls'[d] = calls[d]
      BY <1>1, <1>5, <2>2
    <3>2. PICK u \in Users : u = calls[d].user /\ Clean(u) /\ u # None
      BY <1>4, <3>1 DEF UsersInv
    <3>3. \A b \in Callers \ {d} : calls[b].user # u
      BY <3>1, <3>2 DEF UsersInv
    <3>4. Clean(u)'
      BY <3>2, <3>3, <2>2
    <3>5. a.user # u
      BY <3>2, <3>3, <2>2
    <3> QED
      BY <1>1, <3>1, <3>2, <3>3, <3>4, <3>5
  <2> QED
    BY <2>1, <2>2
<1>6. ASSUME NEW d \in Callers, calls'[d].user \in Users
      PROVE  users'[calls'[d].user] # NoUser
  <2>1. CASE d # c \/ a.user = calls[c].user
    <3>1. calls'[d].user = calls[d].user
      BY <1>1, <2>1
    <3> QED
      BY <1>6, <3>1 DEF UsersInv
  <2>2. CASE d = c /\ a.user # calls[c].user
    <3>1. a.user \in Users /\ ~Clean(a.user)
      BY <1>1, <1>6, <2>2, AccountsAssumption
    <3> QED
      BY <1>1, <2>2, <3>1 DEF UsersInv
  <2> QED
    BY <2>1, <2>2
<1>7. \A d \in Callers : Creating(calls'[d]) => Clean(calls[d].user)'
  BY <1>5
<1> QED
  BY <1>3, <1>5, <1>6, <1>7 DEF UsersInv

LEMMA TokensKept ==
  ASSUME TypesInv, TokensInv, NEW c \in Callers, NEW a, Follows(c, a), TokensFade,
         raced \subseteq raced',
         a.pc = "issue" => \A t \in Tokens :
             ~(tokens'[t].state = "usable" /\ tokens'[t].kind = a.op
                                           /\ tokens'[t].about = Subject(a))
  PROVE  TokensInv'
<1>1. /\ calls'[c] = a
      /\ \A d \in Callers \ {c} : calls'[d] = calls[d]
  BY Moved
<1>2. \A t \in Tokens : Usable(t)' =>
         Usable(t) /\ tokens'[t].kind = tokens[t].kind /\ tokens'[t].about = tokens[t].about
  BY DEF TokensFade, NoToken, Usable
<1> SUFFICES ASSUME "token" \notin raced'
             PROVE  /\ \A s, t \in Tokens :
                          /\ Usable(s)' /\ Usable(t)'
                          /\ tokens'[s].kind = tokens'[t].kind
                          /\ tokens'[s].about = tokens'[t].about
                          => s = t
                    /\ \A d \in Callers : calls'[d].pc = "issue" =>
                          NoUsable(calls[d].op, Subject(calls[d]))'
  BY DEF TokensInv, At
<1>3. "token" \notin raced
  OBVIOUS
<1>4. ASSUME NEW d \in Callers, calls'[d].pc = "issue"
      PROVE  NoUsable(calls[d].op, Subject(calls[d]))'
  <2>1. CASE d = c
    BY <1>1, <1>4, <2>1 DEF NoUsable, Usable
  <2>2. CASE d # c
    <3>1. calls'[d] = calls[d]
      BY <1>1, <2>2
    <3>2. PICK op : op = calls[d].op
      OBVIOUS
    <3>3. PICK x : x = Subject(calls[d])
      OBVIOUS
    <3>4. NoUsable(op, x)
      BY <1>3, <1>4, <3>1, <3>2, <3>3 DEF TokensInv, At
    <3>5. NoUsable(op, x)'
      BY <1>2, <3>4 DEF NoUsable
    <3>6. op = calls'[d].op /\ x = Subject(calls'[d])
      BY <3>1, <3>2, <3>3
    <3> QED
      BY <3>5, <3>6
  <2> QED
    BY <2>1, <2>2
<1> QED
  BY <1>2, <1>3, <1>4 DEF TokensInv

LEMMA PasswordsKept ==
  ASSUME TypesInv, OldPasswordOut, NEW c \in Callers, NEW a, Follows(c, a), SessionsFade,
         raced \subseteq raced',
         \A u \in Users : Registered(u)' =>
             \/ Registered(u) /\ identities'[u].password = identities[u].password
             \/ Clean(u),
         calls[c].pc = "revokeAll" =>
             \/ "password" \in raced'
             \/ \A s \in Sessions : sessions'[s].user = calls[c].user =>
                                    sessions'[s].state # "live"
  PROVE  OldPasswordOut'
<1>1. /\ calls'[c] = a
      /\ \A d \in Callers \ {c} : calls'[d] = calls[d]
  BY Moved
<1> SUFFICES ASSUME "password" \notin raced', NEW s \in Sessions,
                    NEW u, u = sessions'[s].user, sessions'[s].state = "live", Registered(u)'
             PROVE  \/ sessions'[s].proof = identities'[u].password
                    \/ \E d \in Callers : calls'[d].pc = "revokeAll" /\ calls'[d].user = u
  BY DEF OldPasswordOut, At
<1>2. /\ sessions[s].state = "live" /\ sessions[s].user = u
      /\ sessions'[s].proof = sessions[s].proof
  BY DEF SessionsFade, NoSession
<1>3. u \in Users
  BY <1>2 DEF TypesInv, AccountsTypeOK, Session, NoSession
<1>4. Registered(u) /\ identities'[u].password = identities[u].password
  BY <1>2, <1>3 DEF Clean
<1>5. \/ sessions[s].proof = identities[u].password
      \/ \E d \in Callers : calls[d].pc = "revokeAll" /\ calls[d].user = u
  BY <1>2, <1>4 DEF OldPasswordOut, At
<1>6. ASSUME NEW d \in Callers, calls[d].pc = "revokeAll", calls[d].user = u
      PROVE  calls'[d].pc = "revokeAll" /\ calls'[d].user = u
  BY <1>1, <1>6
<1> QED
  BY <1>2, <1>4, <1>5, <1>6

\* Members keep their accounts, and accounts that somebody points to stay
\* verified.
LEMMA LinksKept ==
  ASSUME TypesInv, UsersInv, LinksInv, NEW c \in Callers, NEW a, Follows(c, a),
         \A m \in Members : members'[m].user = members[m].user,
         \A u \in Users : users[u].verified = TRUE =>
             users'[u].verified = TRUE \/ (Creating(calls[c]) /\ u = calls[c].user),
         Accepting(a) =>
             \/ Accepting(calls[c]) /\ a.user = calls[c].user
             \/ /\ \A m \in Members : members[m].user # a.user
                /\ \A d \in Callers \ {c} : calls[d].user # a.user,
         a.pc = "link" => users'[a.user].verified = TRUE,
         a.pc # "membership"
  PROVE  /\ \A m, n \in Members :
               members'[m].user = members'[n].user => m = n \/ members'[m].user = None
         /\ \A m \in Members :
               members'[m].user # None => users'[members'[m].user].verified = TRUE
         /\ \A d \in Callers : Accepting(calls'[d]) =>
               /\ \A m \in Members : members'[m].user # calls'[d].user
               /\ \A b \in Callers \ {d} :
                     Accepting(calls'[b]) => calls'[b].user # calls'[d].user
         /\ \A d \in Callers :
               calls'[d].pc = "link" => users'[calls'[d].user].verified = TRUE
         /\ \A d \in Callers :
               calls'[d].pc = "membership" => members'[calls'[d].member].user = calls'[d].user
<1>1. /\ calls'[c] = a
      /\ \A d \in Callers \ {c} : calls'[d] = calls[d]
  BY Moved
<1>2. \A m, n \in Members :
               members'[m].user = members'[n].user => m = n \/ members'[m].user = None
  BY DEF LinksInv, LinkConsistent
<1>3. ASSUME NEW m \in Members, members'[m].user # None
      PROVE  users'[members'[m].user].verified = TRUE
  <2>1. members'[m].user = members[m].user /\ members[m].user \in Users
    BY <1>3 DEF TypesInv, AccountsTypeOK, Member
  <2>2. users[members[m].user].verified = TRUE
    BY <1>3, <2>1 DEF LinksInv, LinkConsistent
  <2>3. Creating(calls[c]) => calls[c].user # members[m].user
    BY DEF UsersInv, Clean
  <2> QED
    BY <2>1, <2>2, <2>3
<1>4. ASSUME NEW d \in Callers, Accepting(calls'[d])
      PROVE  \/ Accepting(calls[d]) /\ calls'[d].user = calls[d].user
             \/ /\ d = c
                /\ \A m \in Members : members[m].user # a.user
                /\ \A b \in Callers \ {c} : calls[b].user # a.user
  BY <1>1, <1>4
<1>5. ASSUME NEW d \in Callers, Accepting(calls'[d])
      PROVE  /\ \A m \in Members : members'[m].user # calls'[d].user
             /\ \A b \in Callers \ {d} :
                     Accepting(calls'[b]) => calls'[b].user # calls'[d].user
  BY <1>1, <1>4, <1>5 DEF LinksInv
<1>6. ASSUME NEW d \in Callers, calls'[d].pc = "link"
      PROVE  users'[calls'[d].user].verified = TRUE
  <2>1. CASE d = c
    BY <1>1, <1>6, <2>1
  <2>2. CASE d # c
    <3>1. calls'[d] = calls[d] /\ calls[d].user \in Users
      BY <1>1, <1>6, <2>2 DEF TypesInv, CallShape
    <3>2. users[calls[d].user].verified = TRUE
      BY <1>6, <3>1 DEF LinksInv, At
    <3>3. Creating(calls[c]) => calls[c].user # calls[d].user
      BY <2>2 DEF UsersInv
    <3> QED
      BY <3>1, <3>2, <3>3
  <2> QED
    BY <2>1, <2>2
<1>7. ASSUME NEW d \in Callers, calls'[d].pc = "membership"
      PROVE  members'[calls'[d].member].user = calls'[d].user
  <2>1. d # c /\ calls'[d] = calls[d] /\ calls[d].member \in Members
    BY <1>1, <1>7 DEF TypesInv, CallShape
  <2> QED
    BY <1>7, <2>1 DEF LinksInv, At
<1> QED
  BY <1>2, <1>3, <1>5, <1>6, <1>7

\* And their memberships, unless c was on its way to make or delete them.
LEMMA MembershipsKept ==
  ASSUME TypesInv, LinkConsistent, NEW c \in Callers, NEW a, Follows(c, a),
         \A m \in Members : members'[m].user = members[m].user, UNCHANGED memberships,
         raced \subseteq raced',
         \A m \in erased : m \in erased' \/ members[m].user = None,
         calls[c].pc \in {"membership", "erase"} =>
             \/ a.pc = calls[c].pc /\ a.member = calls[c].member
             \/ "account" \in raced' \/ calls[c].member \in erased'
             \/ [user |-> calls[c].user, member |-> calls[c].member] \in memberships
                /\ calls[c].user = members[calls[c].member].user
  PROVE  /\ \A row \in memberships' : members'[row.member].user = row.user
         /\ raced' \cap {"account", "erase"} = {} =>
               \A m \in Members : members'[m].user # None =>
                   Moving(m)' \/ [user |-> members'[m].user, member |-> m] \in memberships'
<1>1. /\ calls'[c] = a
      /\ \A d \in Callers \ {c} : calls'[d] = calls[d]
  BY Moved
<1>2. \A row \in memberships' : row.member \in Members
  BY DEF TypesInv, AccountsTypeOK
<1>3. \A row \in memberships' : members'[row.member].user = row.user
  BY <1>2 DEF LinkConsistent
<1>4. ASSUME raced' \cap {"account", "erase"} = {}, NEW m \in Members, members'[m].user # None
      PROVE  Moving(m)' \/ [user |-> members'[m].user, member |-> m] \in memberships'
  <2>1. Moving(m) \/ [user |-> members[m].user, member |-> m] \in memberships
    BY <1>4 DEF LinkConsistent
  <2>2. CASE m \in erased
    BY <1>4, <2>2 DEF Moving
  <2>3. ASSUME NEW d \in Callers, calls[d].member = m, calls[d].pc \in {"membership", "erase"}
        PROVE  Moving(m)' \/ [user |-> members'[m].user, member |-> m] \in memberships'
    <3>1. CASE d # c
      BY <1>1, <2>3, <3>1 DEF Moving, At
    <3>2. CASE d = c
      BY <1>1, <1>4, <2>3, <3>2 DEF Moving, At
    <3> QED
      BY <3>1, <3>2
  <2> QED
    BY <2>1, <2>2, <2>3 DEF Moving, At
<1> QED
  BY <1>3, <1>4

LEMMA LinksSplit ==
  ASSUME /\ \A m, n \in Members :
               members'[m].user = members'[n].user => m = n \/ members'[m].user = None
         /\ \A m \in Members :
               members'[m].user # None => users'[members'[m].user].verified = TRUE
         /\ \A d \in Callers : Accepting(calls'[d]) =>
               /\ \A m \in Members : members'[m].user # calls'[d].user
               /\ \A b \in Callers \ {d} :
                     Accepting(calls'[b]) => calls'[b].user # calls'[d].user
         /\ \A d \in Callers :
               calls'[d].pc = "link" => users'[calls'[d].user].verified = TRUE
         /\ \A d \in Callers :
               calls'[d].pc = "membership" => members'[calls'[d].member].user = calls'[d].user,
         /\ \A row \in memberships' : members'[row.member].user = row.user
         /\ raced' \cap {"account", "erase"} = {} =>
               \A m \in Members : members'[m].user # None =>
                   Moving(m)' \/ [user |-> members'[m].user, member |-> m] \in memberships'
  PROVE  LinksInv'
<1>1. LinkConsistent'
  BY DEF LinkConsistent
<1> QED
  BY <1>1 DEF LinksInv, At

\* What an erasure has removed stays away while nothing is added.
LEMMA GoneKept ==
  ASSUME TypesInv, SessionsFade, TokensFade, NEW m \in Members, NEW u, NEW step \in 1 .. 9,
         step > 4 => u \in Users, Gone(m, u, step),
         \A row \in memberships' : row.member = m => row \in memberships,
         u \in Users => (Registered(u)' => Registered(u))
  PROVE  Gone(m, u, step)'
<1>1. ASSUME NEW kind, NEW about \in Members \cup Users, Outstanding(kind, about) = {}
      PROVE  Outstanding(kind, about)' = {}
  <2>1. about # None
    BY AccountsAssumption
  <2>2. \A t \in Tokens : ~(tokens'[t].kind = kind /\ tokens'[t].about = about)
    BY <1>1, <2>1 DEF TokensFade, NoToken, Outstanding
  <2> QED
    BY <2>2 DEF Outstanding
<1>2. ASSUME u \in Users, SessionsOf(u) = {} PROVE SessionsOf(u)' = {}
  <2>1. u # None
    BY <1>2, AccountsAssumption
  <2>2. \A s \in Sessions : sessions'[s].user # u
    BY <1>2, <2>1 DEF SessionsFade, NoSession, SessionsOf
  <2> QED
    BY <2>2 DEF SessionsOf
<1>3. step > 1 => \A row \in memberships' : row.member # m
  BY DEF Gone
<1>4. step > 2 => Outstanding("invite", m)' = {}
  BY <1>1 DEF Gone
<1>5. step > 5 => ~Registered(u)'
  BY DEF Gone
<1>6. step > 6 => SessionsOf(u)' = {}
  BY <1>2 DEF Gone
<1>7. step > 7 => Outstanding("reset", u)' = {}
  BY <1>1 DEF Gone
<1>8. step > 8 => Outstanding("verify", u)' = {}
  BY <1>1 DEF Gone
<1> QED
  BY <1>3, <1>4, <1>5, <1>6, <1>7, <1>8 DEF Gone

LEMMA ErasureKept ==
  ASSUME TypesInv, ErasureInv, NEW c \in Callers, NEW a, Follows(c, a),
         raced \subseteq raced',
         \A u, step : \A m \in erased' :
             /\ u = members'[m].user
             /\ step = IF u = None THEN 4 ELSE 9
             => m \in erased \/ Gone(m, u, step)',
         a.pc = "erase" => a.user = members'[a.member].user,
         \A u : a.pc = "erase" /\ u = a.user => Gone(a.member, u, a.step)',
         "erase" \notin raced' =>
             \A u : \A m \in Members, step \in 1 .. 9 :
                 /\ Erasing(m) /\ u = members[m].user
                 /\ step > 4 => u \in Users
                 /\ Gone(m, u, step)
                 => members'[m].user = u /\ Gone(m, u, step)'
  PROVE  ErasureInv'
<1>1. /\ calls'[c] = a
      /\ \A d \in Callers \ {c} : calls'[d] = calls[d]
  BY Moved
<1> SUFFICES ASSUME "erase" \notin raced'
             PROVE  /\ \A m \in erased' :
                          Gone(m, members[m].user, IF members[m].user = None THEN 4 ELSE 9)'
                    /\ \A d \in Callers : calls'[d].pc = "erase" =>
                          /\ calls'[d].user = members'[calls'[d].member].user
                          /\ Gone(calls[d].member, calls[d].user, calls[d].step)'
  BY DEF ErasureInv, At
<1>2. "erase" \notin raced
  OBVIOUS
<1>3. ASSUME NEW m \in erased'
      PROVE  Gone(m, members[m].user, IF members[m].user = None THEN 4 ELSE 9)'
  <2>1. CASE m \in erased
    <3>1. m \in Members /\ Erasing(m)
      BY <2>1 DEF TypesInv, AccountsTypeOK, Erasing
    <3>2. PICK u : u = members[m].user
      OBVIOUS
    <3>3. u \in Users \cup {None}
      BY <3>1, <3>2 DEF TypesInv, AccountsTypeOK, Member
    <3>4. PICK step \in 1 .. 9 : step = IF u = None THEN 4 ELSE 9
      OBVIOUS
    <3>5. Gone(m, u, step)
      BY <1>2, <2>1, <3>2, <3>4 DEF ErasureInv
    <3>6. members'[m].user = u /\ Gone(m, u, step)'
      BY <3>1, <3>2, <3>3, <3>4, <3>5
    <3> QED
      BY <3>4, <3>6
  <2>2. CASE m \notin erased
    <3>1. PICK u : u = members'[m].user
      OBVIOUS
    <3>2. PICK step : step = IF u = None THEN 4 ELSE 9
      OBVIOUS
    <3>3. Gone(m, u, step)'
      BY <1>3, <2>2, <3>1, <3>2
    <3> QED
      BY <3>1, <3>2, <3>3
  <2> QED
    BY <2>1, <2>2
<1>4. ASSUME NEW d \in Callers, calls'[d].pc = "erase"
      PROVE  /\ calls'[d].user = members'[calls'[d].member].user
             /\ Gone(calls[d].member, calls[d].user, calls[d].step)'
  <2>1. CASE d = c
    <3>1. PICK u : u = a.user
      OBVIOUS
    <3>2. a.user = members'[a.member].user /\ Gone(a.member, u, a.step)'
      BY <1>1, <1>4, <2>1, <3>1
    <3> QED
      BY <1>1, <2>1, <3>1, <3>2
  <2>2. CASE d # c
    <3>1. calls'[d] = calls[d]
      BY <1>1, <2>2
    <3>2. PICK m \in Members, step \in 1 .. 9 :
             /\ m = calls[d].member /\ step = calls[d].step
             /\ step > 4 => calls[d].user \in Users
      BY <1>4, <3>1 DEF TypesInv, CallShape
    <3>3. PICK u : u = calls[d].user
      OBVIOUS
    <3>4. Erasing(m) /\ u = members[m].user /\ Gone(m, u, step)
      BY <1>2, <1>4, <3>1, <3>2, <3>3 DEF ErasureInv, At, Erasing, TypesInv, CallShape
    <3>5. members'[m].user = u /\ Gone(m, u, step)'
      BY <3>2, <3>3, <3>4
    <3> QED
      BY <3>1, <3>2, <3>3, <3>5
  <2> QED
    BY <2>1, <2>2
<1> QED
  BY <1>3, <1>4

-----------------------------------------------------------------------------
(* Steps that only read, revoke sessions or use tokens up: a caller picks  *)
(* up a request, decides, or gives up.                                     *)

\* No account is created, linked or erased with the step to a.
Calm(c, a) ==
    /\ a.user \in {None, calls[c].user} \/ ~Clean(a.user)
    /\ Creating(a) => Creating(calls[c]) /\ a.user = calls[c].user
    /\ Accepting(a) => Accepting(calls[c]) /\ a.user = calls[c].user
    /\ a.pc \notin {"link", "membership", "issue"}
    /\ a.pc = "erase" => a.step = 1 /\ a.user = members[a.member].user

\* What c was about to do for its account is done, or on record as raced.
Settled(c) ==
    /\ calls[c].pc \in {"membership", "erase"} => "account" \in raced'
    /\ calls[c].pc = "revokeAll" =>
          \/ "password" \in raced'
          \/ \A s \in Sessions : sessions'[s].user = calls[c].user =>
                                 sessions'[s].state # "live"

LEMMA QuietKeeps ==
  ASSUME AccountsInv, NEW c \in Callers, NEW a, Follows(c, a), Calm(c, a), Settled(c),
         SessionsFade, TokensFade,
         UNCHANGED <<accountVars, tenantVars, erased, workload>>,
         raced \subseteq raced', raced' \subseteq {"password", "token", "account", "erase"},
         killed' \subseteq Sessions
  PROVE  AccountsInv'
<1>1. TypesInv /\ UsersInv /\ LinksInv /\ TokensInv /\ OldPasswordOut /\ ErasureInv
  BY DEF AccountsInv
<1>2. /\ UNCHANGED users /\ UNCHANGED identities
      /\ UNCHANGED members /\ UNCHANGED memberships
      /\ UNCHANGED erased /\ UNCHANGED workload
  BY DEF accountVars, tenantVars
<1>3. TypesInv'
  BY <1>1, <1>2, TypesKept DEF TypesInv, AccountsTypeOK, SessionsFade, TokensFade
<1>4. \A u \in Users : Clean(u) => Clean(u)'
  BY <1>1, <1>2, CleanKept DEF Registered
<1>5. UsersInv'
  <2>1. Creating(a) => Clean(a.user)'
    <3>1. ASSUME Creating(a) PROVE \E u \in Users : u = a.user /\ Clean(u)
      BY <1>1, <3>1 DEF Calm, UsersInv, TypesInv, CallShape, Creating
    <3> QED
      BY <1>4, <3>1
  <2> QED
    BY <1>1, <1>2, <1>4, <2>1, UsersKept DEF Calm
<1>6. LinksInv'
  BY <1>1, <1>2, LinksKept, MembershipsKept, LinksSplit DEF Calm, Settled, LinksInv
<1>7. TokensInv'
  BY <1>1, TokensKept DEF Calm
<1>8. OldPasswordOut'
  BY <1>1, <1>2, PasswordsKept DEF Settled, Registered
<1>9. ErasureInv'
  <2>1. ASSUME NEW m \in Members, NEW u, NEW step \in 1 .. 9, u = members[m].user,
               step > 4 => u \in Users, Gone(m, u, step)
        PROVE  Gone(m, u, step)'
    BY <1>1, <1>2, <2>1, GoneKept DEF Registered
  <2>2. \A u : a.pc = "erase" /\ u = a.user => Gone(a.member, u, a.step)'
    BY DEF Calm, Gone
  <2>3. a.pc = "erase" => a.user = members'[a.member].user
    BY <1>2 DEF Calm
  <2> QED
    BY <1>1, <1>2, <2>1, <2>2, <2>3, ErasureKept
<1> QED
  BY <1>3, <1>5, <1>6, <1>7, <1>8, <1>9 DEF AccountsInv

LEMMA UnchangedFade ==
  ASSUME TypesInv PROVE /\ UNCHANGED sessions => SessionsFade
                        /\ UNCHANGED tokens => TokensFade
<1>1. UNCHANGED sessions => SessionsFade
  BY DEF TypesInv, AccountsTypeOK, SessionsFade
<1>2. UNCHANGED tokens => TokensFade
  BY DEF TypesInv, AccountsTypeOK, TokensFade
<1> QED
  BY <1>1, <1>2

LEMMA RevokeFades ==
  ASSUME TypesInv, NEW S, Revoke(S)
  PROVE  SessionsFade /\ \A s \in S \cap Sessions : sessions'[s].state # "live"
<1>1. ASSUME NEW s \in Sessions
      PROVE  /\ sessions'[s] \in Session \cup {NoSession("unused"), NoSession("deleted")}
             /\ sessions'[s].user = sessions[s].user
             /\ sessions'[s].proof = sessions[s].proof
             /\ sessions'[s].state = "live" => sessions[s].state = "live"
             /\ s \in S => sessions'[s].state # "live"
  <2>1. sessions[s] \in Session \cup {NoSession("unused"), NoSession("deleted")}
    BY DEF TypesInv, AccountsTypeOK
  <2>2. CASE s \in S /\ sessions[s].state = "live"
    <3>1. sessions'[s] = [sessions[s] EXCEPT !.state = "revoked"]
      BY <2>2 DEF Revoke
    <3>2. sessions[s] \in Session
      BY <2>1, <2>2 DEF NoSession
    <3> QED
      BY <3>1, <3>2 DEF Session
  <2>3. CASE ~(s \in S /\ sessions[s].state = "live")
    BY <2>1, <2>3 DEF Revoke
  <2> QED
    BY <2>2, <2>3
<1>2. sessions' = [s \in Sessions |-> sessions'[s]]
  BY DEF Revoke
<1> QED
  BY <1>1, <1>2 DEF SessionsFade

LEMMA UseFades ==
  ASSUME TypesInv, NEW t \in Tokens, Usable(t), NEW state \in {"used", "expired"},
         tokens' = [tokens EXCEPT ![t].state = state]
  PROVE  TokensFade
<1>1. tokens \in [Tokens -> Token \cup {NoToken("unused"), NoToken("deleted")}]
  BY DEF TypesInv, AccountsTypeOK
<1>2. tokens[t] \in Token /\ TokenShape(tokens[t]) /\ tokens[t].state = "usable"
  BY <1>1 DEF Usable, NoToken, TypesInv
<1>3. PICK r : r = [tokens[t] EXCEPT !.state = state]
  OBVIOUS
<1>4. /\ r \in Token /\ r.state = state /\ r.kind = tokens[t].kind /\ r.about = tokens[t].about
      /\ TokenShape(r)
  BY <1>2, <1>3 DEF Token, TokenShape
<1>5. tokens' = [tokens EXCEPT ![t] = r]
  BY <1>3
<1>6. \A x \in Tokens : tokens'[x] = IF x = t THEN r ELSE tokens[x]
  BY <1>1, <1>5
<1>7. tokens' \in [Tokens -> Token \cup {NoToken("unused"), NoToken("deleted")}]
  BY <1>1, <1>4, <1>5
<1> QED
  BY <1>4, <1>6, <1>7 DEF TokensFade, TypesInv

LEMMA RequestKeeps ==
  ASSUME AccountsInv, NEW c \in Callers, At(c, "idle"), NEW a, Follows(c, a), Calm(c, a),
         UNCHANGED <<accountVars, sessions, tokens, tenantVars, history>>
  PROVE  AccountsInv'
<1>1. Settled(c)
  BY DEF At, Settled
<1>2. SessionsFade /\ TokensFade
  BY UnchangedFade DEF AccountsInv
<1>3. /\ UNCHANGED <<accountVars, tenantVars, erased, workload>>
      /\ raced' = raced /\ killed' = killed
  BY DEF history
<1>4. raced' \subseteq {"password", "token", "account", "erase"} /\ killed' \subseteq Sessions
  BY <1>3 DEF AccountsInv, TypesInv, AccountsTypeOK
<1> QED
  BY <1>1, <1>2, <1>3, <1>4, QuietKeeps

LEMMA LoginAllowed ==
  ASSUME AccountsInv, NEW c \in Callers, NEW u \in Users, Login(c, u)
  PROVE  AccountsInv'
<1>1. PICK p : p = identities[u].password
  OBVIOUS
<1>2. PICK a : a = [Idle EXCEPT !.pc = "start", !.op = "login", !.user = u, !.proof = p]
  OBVIOUS
<1>3. p \in Nat
  BY <1>1 DEF AccountsInv, TypesInv, AccountsTypeOK, Identity, NoIdentity
<1>4. a \in Call /\ a.pc = "start" /\ a.op = "login" /\ a.user = u
  BY <1>2, <1>3 DEF Idle, Call
<1>5. Follows(c, a)
  BY <1>1, <1>2, <1>4 DEF Login, Follows, CallShape
<1>6. Calm(c, a)
  BY <1>4 DEF Calm, Login, Clean, Creating, Accepting
<1> QED
  BY <1>5, <1>6, RequestKeeps DEF Login

LEMMA PresentTokenAllowed ==
  ASSUME AccountsInv, NEW c \in Callers, NEW s \in Sessions, PresentToken(c, s)
  PROVE  AccountsInv'
<1>1. PICK r : r = sessions[s]
  OBVIOUS
<1>2. r \in Session
  BY <1>1 DEF PresentToken, AccountsInv, TypesInv, AccountsTypeOK, NoSession
<1>3. PICK pc \in {"kill", "retire", "retireExpired"} :
         pc = IF r.state = "revoked" THEN "kill"
              ELSE IF r.expired THEN "retireExpired" ELSE "retire"
  OBVIOUS
<1>4. PICK a : a = [Idle EXCEPT !.pc = pc, !.op = "rotate", !.user = r.user, !.session = s,
                                !.family = r.family, !.proof = r.proof]
  OBVIOUS
<1>5. r.user \in Users /\ r.family \in Sessions /\ r.proof \in Nat
  BY <1>2 DEF Session
<1>6. /\ a \in Call /\ a.pc = pc /\ a.op = "rotate" /\ a.user = r.user
      /\ a.session = s /\ a.family = r.family
  BY <1>4, <1>5 DEF Idle, Call
<1>7. Follows(c, a)
  <2>1. CallShape(a)
    BY <1>5, <1>6 DEF CallShape
  <2>2. Continue(c, a)
    BY <1>1, <1>3, <1>4 DEF PresentToken
  <2> QED
    BY <1>6, <2>1, <2>2 DEF Follows
<1>8. Calm(c, a)
  BY <1>1, <1>6 DEF Calm, Clean, Creating, Accepting
<1> QED
  BY <1>7, <1>8, RequestKeeps DEF PresentToken

LEMMA LogoutAllowed ==
  ASSUME AccountsInv, NEW c \in Callers, NEW s \in Sessions, Logout(c, s)
  PROVE  AccountsInv'
<1>1. PICK f : f = sessions[s].family
  OBVIOUS
<1>2. f \in Sessions
  BY <1>1 DEF Logout, AccountsInv, TypesInv, AccountsTypeOK, NoSession, Session
<1>3. PICK a : a = [Idle EXCEPT !.pc = "kill", !.op = "rotate", !.family = f]
  OBVIOUS
<1>4. a \in Call /\ a.pc = "kill" /\ a.op = "rotate" /\ a.user = None /\ a.family = f
  BY <1>2, <1>3 DEF Idle, Call
<1>5. Follows(c, a)
  BY <1>1, <1>2, <1>3, <1>4 DEF Logout, Follows, CallShape
<1>6. Calm(c, a)
  BY <1>4 DEF Calm, Creating, Accepting
<1> QED
  BY <1>5, <1>6, RequestKeeps DEF Logout

LEMMA ChangePasswordAllowed ==
  ASSUME AccountsInv, NEW c \in Callers, NEW u \in Users, ChangePassword(c, u)
  PROVE  AccountsInv'
<1>1. PICK a : a = [Idle EXCEPT !.pc = "set", !.op = "change", !.user = u]
  OBVIOUS
<1>2. a \in Call /\ a.pc = "set" /\ a.op = "change" /\ a.user = u
  BY <1>1 DEF Idle, Call
<1>3. Follows(c, a)
  BY <1>1, <1>2 DEF ChangePassword, Follows, CallShape
<1>4. Calm(c, a)
  BY <1>2 DEF Calm, ChangePassword, Clean, Creating, Accepting
<1> QED
  BY <1>3, <1>4, RequestKeeps DEF ChangePassword

LEMMA RequestTokenAllowed ==
  ASSUME AccountsInv, NEW c \in Callers, NEW kind, NEW u \in Users, RequestToken(c, kind, u)
  PROVE  AccountsInv'
<1>1. PICK e : e = identities[u].email
  OBVIOUS
<1>2. e \in Emails
  BY <1>1 DEF RequestToken, Registered, AccountsInv, TypesInv, AccountsTypeOK, Identity
<1>3. PICK a : a = [Idle EXCEPT !.pc = "clear", !.op = kind, !.user = u, !.email = e]
  OBVIOUS
<1>4. a \in Call /\ a.pc = "clear" /\ a.op \in {"reset", "verify"} /\ a.user = u /\ a.email = e
  BY <1>2, <1>3 DEF Idle, Call, RequestToken
<1>5. Follows(c, a)
  BY <1>1, <1>2, <1>3, <1>4 DEF RequestToken, Follows, CallShape, Kinds
<1>6. Calm(c, a)
  BY <1>4 DEF Calm, RequestToken, Clean, Creating, Accepting
<1> QED
  BY <1>5, <1>6, RequestKeeps DEF RequestToken

LEMMA RegisterAllowed ==
  ASSUME AccountsInv, NEW c \in Callers, NEW e \in Emails, Register(c, e)
  PROVE  AccountsInv'
<1>1. PICK a : a = [Idle EXCEPT !.pc = "find", !.op = "register", !.email = e]
  OBVIOUS
<1>2. a \in Call /\ a.pc = "find" /\ a.op = "register" /\ a.user = None /\ a.email = e
  BY <1>1 DEF Idle, Call
<1>3. Follows(c, a)
  BY <1>1, <1>2 DEF Register, Follows, CallShape
<1>4. Calm(c, a)
  BY <1>2 DEF Calm, Creating, Accepting
<1> QED
  BY <1>3, <1>4, RequestKeeps DEF Register

LEMMA CreateInviteAllowed ==
  ASSUME AccountsInv, NEW c \in Callers, NEW m \in Members, CreateInvite(c, m)
  PROVE  AccountsInv'
<1>1. PICK e : e = members[m].email
  OBVIOUS
<1>2. e \in Emails
  BY <1>1 DEF CreateInvite, AccountsInv, TypesInv, AccountsTypeOK, Member
<1>3. PICK a : a = [Idle EXCEPT !.pc = "clear", !.op = "invite", !.member = m, !.email = e]
  OBVIOUS
<1>4. /\ a \in Call /\ a.pc = "clear" /\ a.op = "invite" /\ a.user = None
      /\ a.member = m /\ a.email = e
  BY <1>2, <1>3 DEF Idle, Call
<1>5. Follows(c, a)
  BY <1>1, <1>2, <1>3, <1>4 DEF CreateInvite, Follows, CallShape, Kinds
<1>6. Calm(c, a)
  BY <1>4 DEF Calm, Creating, Accepting
<1> QED
  BY <1>5, <1>6, RequestKeeps DEF CreateInvite

LEMMA RequestErasureAllowed ==
  ASSUME AccountsInv, NEW c \in Callers, NEW m \in Members, RequestErasure(c, m)
  PROVE  AccountsInv'
<1>1. PICK u : u = members[m].user
  OBVIOUS
<1>2. u \in Users \cup {None}
  BY <1>1 DEF AccountsInv, TypesInv, AccountsTypeOK, Member
<1>3. PICK a : a = [Idle EXCEPT !.pc = "erase", !.op = "erase", !.member = m, !.user = u,
                                !.step = 1]
  OBVIOUS
<1>4. /\ a \in Call /\ a.pc = "erase" /\ a.op = "erase" /\ a.user = u /\ a.member = m
      /\ a.step = 1
  BY <1>2, <1>3 DEF Idle, Call
<1>5. Follows(c, a)
  BY <1>1, <1>3, <1>4 DEF RequestErasure, Follows, CallShape
<1>6. Calm(c, a)
  BY <1>1, <1>2, <1>4 DEF Calm, Creating, Accepting, Clean
<1> QED
  BY <1>5, <1>6, RequestKeeps DEF RequestErasure

LEMMA ConsumeKeeps ==
  ASSUME AccountsInv, NEW c \in Callers, NEW t \in Tokens, Consume(c, t)
  PROVE  AccountsInv'
<1>1. PICK r : r = tokens[t]
  OBVIOUS
<1>2. r \in Token /\ (IF r.kind = "invite" THEN r.about \in Members ELSE r.about \in Users)
  BY <1>1 DEF Consume, Usable, AccountsInv, TypesInv, AccountsTypeOK, NoToken, Token, TokenShape
<1>3. PICK pc, op, u, m :
         /\ pc = AfterConsume(r.kind)
         /\ op = IF r.kind = "invite" THEN "accept" ELSE r.kind
         /\ u = IF r.kind = "invite" THEN None ELSE r.about
         /\ m = IF r.kind = "invite" THEN r.about ELSE None
  OBVIOUS
<1>4. /\ r.email \in Emails
      /\ \/ pc = "set" /\ op = "reset" /\ u \in Users /\ u = r.about /\ m = None
         \/ pc = "verify" /\ op = "verify" /\ u \in Users /\ u = r.about /\ m = None
         \/ pc = "recheck" /\ op = "accept" /\ u = None /\ m \in Members
  BY <1>2, <1>3 DEF AfterConsume, Token, Kinds
<1>5. PICK a : a = [Idle EXCEPT !.pc = pc, !.op = op, !.user = u, !.member = m, !.email = r.email]
  OBVIOUS
<1>6. a \in Call /\ a.pc = pc /\ a.op = op /\ a.user = u /\ a.member = m /\ a.email = r.email
  BY <1>4, <1>5 DEF Idle, Call
<1>7. Follows(c, a)
  <2>1. CallShape(a)
    BY <1>4, <1>6 DEF CallShape
  <2>2. Continue(c, a)
    BY <1>1, <1>3, <1>5 DEF Consume
  <2> QED
    BY <1>6, <2>1, <2>2 DEF Follows
<1>8. Calm(c, a)
  BY <1>1, <1>4, <1>6 DEF Calm, Clean, Creating, Accepting
<1>9. Settled(c)
  BY DEF Consume, At, Settled
<1>10. SessionsFade /\ TokensFade
  BY UnchangedFade, UseFades DEF AccountsInv, Consume
<1>11. /\ UNCHANGED <<accountVars, tenantVars, erased, workload>>
       /\ raced' = raced /\ killed' = killed
  BY DEF Consume, history
<1>12. raced' \subseteq {"password", "token", "account", "erase"} /\ killed' \subseteq Sessions
  BY <1>11 DEF AccountsInv, TypesInv, AccountsTypeOK
<1> QED
  BY <1>7, <1>8, <1>9, <1>10, <1>11, <1>12, QuietKeeps

-----------------------------------------------------------------------------
(* Steps that give up, or go on with the call as it is.                    *)

\* Nothing but the sessions changes, and the histories grow.
OnlySessions ==
    /\ UNCHANGED <<accountVars, tokens, tenantVars, erased, workload>>
    /\ raced \subseteq raced' /\ raced' \subseteq {"password", "token", "account", "erase"}
    /\ killed' \subseteq Sessions

LEMMA EndKeeps ==
  ASSUME AccountsInv, NEW c \in Callers, End(c), SessionsFade, OnlySessions, Settled(c)
  PROVE  AccountsInv'
<1>1. PICK a : Follows(c, a) /\ a = Idle
  BY Ends
<1>2. Calm(c, a)
  BY <1>1, IdleShape DEF Calm, Creating, Accepting
<1>3. TokensFade
  BY UnchangedFade DEF AccountsInv, OnlySessions
<1> QED
  BY <1>1, <1>2, <1>3, QuietKeeps DEF OnlySessions

LEMMA GotoKeeps ==
  ASSUME AccountsInv, NEW c \in Callers, NEW pc \in Steps, Goto(c, pc),
         SessionsFade, OnlySessions, Settled(c),
         pc \notin {"link", "membership", "issue", "erase", "idle"},
         calls[c].pc \notin {"erase", "idle"},
         \A a : a \in Call /\ SameBut(a, calls[c], pc) => CallShape(a),
         pc \in {"identity", "compensate"} => Creating(calls[c]),
         pc = "verify" /\ calls[c].op = "accept" => Accepting(calls[c])
  PROVE  AccountsInv'
<1>1. PICK a : Continue(c, a) /\ a \in Call /\ SameBut(a, calls[c], pc)
  BY GoesTo DEF AccountsInv
<1>2. Follows(c, a)
  BY <1>1 DEF Follows
<1>3. Calm(c, a)
  BY <1>1 DEF Calm, SameBut, Creating, Accepting
<1>4. TokensFade
  BY UnchangedFade DEF AccountsInv, OnlySessions
<1> QED
  BY <1>2, <1>3, <1>4, QuietKeeps DEF OnlySessions

LEMMA OnlySessionsWhen ==
  ASSUME AccountsInv, UNCHANGED <<accountVars, tokens, tenantVars, history>>
  PROVE  OnlySessions
  BY DEF OnlySessions, history, AccountsInv, TypesInv, AccountsTypeOK

LEMMA RetireRecorded ==
  ASSUME AccountsInv, NEW c \in Callers, Retire(c)
  PROVE  AccountsInv'
<1>1. At(c, "retire") /\ OnlySessions /\ SessionsFade
  BY OnlySessionsWhen, RevokeFades DEF Retire, AccountsInv
<1>2. PICK pc \in {"mint", "kill"} : Goto(c, pc)
  BY DEF Retire
<1>3. CallShape(calls[c]) /\ calls[c].pc = "retire"
  BY <1>1 DEF AccountsInv, TypesInv, At
<1>4. Settled(c)
  BY <1>3 DEF Settled
<1>5. \A a : a \in Call /\ SameBut(a, calls[c], pc) => CallShape(a)
  BY <1>3 DEF SameBut, CallShape
<1> QED
  BY <1>1, <1>2, <1>3, <1>4, <1>5, GotoKeeps DEF Steps

LEMMA RetireExpiredRecorded ==
  ASSUME AccountsInv, NEW c \in Callers, RetireExpired(c)
  PROVE  AccountsInv'
<1>1. OnlySessions /\ SessionsFade
  BY OnlySessionsWhen, RevokeFades DEF RetireExpired, AccountsInv
<1>2. Settled(c)
  BY DEF RetireExpired, At, Settled
<1> QED
  BY <1>1, <1>2, EndKeeps DEF RetireExpired

LEMMA KillFamilyRecorded ==
  ASSUME AccountsInv, NEW c \in Callers, KillFamily(c)
  PROVE  AccountsInv'
<1>1. SessionsFade
  BY RevokeFades DEF KillFamily, AccountsInv
<1>2. calls[c].family \in Sessions
  BY DEF KillFamily, At, AccountsInv, TypesInv, CallShape
<1>3. OnlySessions
  BY <1>2 DEF OnlySessions, KillFamily, AccountsInv, TypesInv, AccountsTypeOK
<1>4. Settled(c)
  BY DEF KillFamily, At, Settled
<1> QED
  BY <1>1, <1>3, <1>4, EndKeeps DEF KillFamily

LEMMA RevokeAllRecorded ==
  ASSUME AccountsInv, NEW c \in Callers, RevokeAll(c)
  PROVE  AccountsInv'
<1>1. OnlySessions /\ SessionsFade /\ calls[c].pc = "revokeAll"
  BY OnlySessionsWhen, RevokeFades DEF RevokeAll, AccountsInv, At
<1>2. Settled(c)
  <2>1. \A s \in Sessions : sessions[s].user = calls[c].user => sessions'[s].state # "live"
    BY RevokeFades DEF RevokeAll, AccountsInv, SessionsOf
  <2>2. ASSUME NEW s \in Sessions, sessions'[s].user = calls[c].user
        PROVE  sessions'[s].state # "live"
    BY <1>1, <2>1, <2>2 DEF SessionsFade, NoSession
  <2> QED
    BY <1>1, <2>2 DEF Settled
<1>3. CASE End(c)
  BY <1>1, <1>2, <1>3, EndKeeps
<1>4. CASE Goto(c, "start")
  <2>1. CallShape(calls[c])
    BY DEF AccountsInv, TypesInv
  <2>2. \A a : a \in Call /\ SameBut(a, calls[c], "start") => CallShape(a)
    BY <1>1, <2>1 DEF SameBut, CallShape
  <2> QED
    BY <1>1, <1>2, <1>4, <2>2, GotoKeeps DEF Steps
<1> QED
  BY <1>3, <1>4 DEF RevokeAll

LEMMA FindCredentialRecorded ==
  ASSUME AccountsInv, NEW c \in Callers, FindCredential(c)
  PROVE  AccountsInv'
<1>1. OnlySessions /\ SessionsFade /\ calls[c].pc = "find"
  BY OnlySessionsWhen, UnchangedFade DEF FindCredential, AccountsInv, At
<1>2. Settled(c)
  BY <1>1 DEF Settled
<1>3. CASE End(c)
  BY <1>1, <1>2, <1>3, EndKeeps
<1>4. CASE Goto(c, "user")
  <2>1. CallShape(calls[c])
    BY DEF AccountsInv, TypesInv
  <2>2. \A a : a \in Call /\ SameBut(a, calls[c], "user") => CallShape(a)
    BY <1>1, <2>1 DEF SameBut, CallShape
  <2> QED
    BY <1>1, <1>2, <1>4, <2>2, GotoKeeps DEF Steps
<1> QED
  BY <1>3, <1>4 DEF FindCredential

LEMMA RecheckRecorded ==
  ASSUME AccountsInv, NEW c \in Callers, Recheck(c)
  PROVE  AccountsInv'
<1>1. OnlySessions /\ SessionsFade /\ calls[c].pc = "recheck"
  BY OnlySessionsWhen, UnchangedFade DEF Recheck, AccountsInv, At
<1>2. Settled(c)
  BY <1>1 DEF Settled
<1>3. CASE End(c)
  BY <1>1, <1>2, <1>3, EndKeeps
<1>4. CASE Goto(c, "find")
  <2>1. CallShape(calls[c])
    BY DEF AccountsInv, TypesInv
  <2>2. \A a : a \in Call /\ SameBut(a, calls[c], "find") => CallShape(a)
    BY <1>1, <2>1 DEF SameBut, CallShape
  <2> QED
    BY <1>1, <1>2, <1>4, <2>2, GotoKeeps DEF Steps
<1> QED
  BY <1>3, <1>4 DEF Recheck

LEMMA CrashRecorded ==
  ASSUME AccountsInv, NEW c \in Callers, Crash(c)
  PROVE  AccountsInv'
<1>1. SessionsFade
  BY UnchangedFade DEF Crash, AccountsInv
<1>2. LeftUndone(calls[c]) \subseteq {"password", "account"}
  BY DEF LeftUndone
<1>3. OnlySessions
  BY <1>2 DEF OnlySessions, Crash, AccountsInv, TypesInv, AccountsTypeOK
<1>4. Settled(c)
  BY DEF Crash, LeftUndone, Settled
<1> QED
  BY <1>1, <1>3, <1>4, EndKeeps DEF Crash

-----------------------------------------------------------------------------
(* The clock, and edits of a member's address.                             *)
LEMMA OutsideKeeps ==
  ASSUME AccountsInv, SessionsFade, TokensFade,
         UNCHANGED <<accountVars, memberships, calls, killed, raced, workload>>,
         members' \in [Members -> Member],
         \A m \in Members : members'[m].user = members[m].user,
         erased' \subseteq erased, \A m \in erased \ erased' : members[m].user = None
  PROVE  AccountsInv'
<1>1. TypesInv /\ UsersInv /\ LinksInv /\ TokensInv /\ OldPasswordOut /\ ErasureInv
  BY DEF AccountsInv
<1>2. /\ UNCHANGED users /\ UNCHANGED identities /\ UNCHANGED memberships
      /\ UNCHANGED calls /\ UNCHANGED killed /\ UNCHANGED raced /\ UNCHANGED workload
  BY DEF accountVars
<1>3. TypesInv'
  BY <1>1, <1>2 DEF TypesInv, AccountsTypeOK, SessionsFade, TokensFade
<1>4. \A u \in Users : Clean(u) => Clean(u)'
  BY <1>1, <1>2, CleanKept DEF Registered
<1>5. UsersInv'
  <2>1. ASSUME NEW c \in Callers, Creating(calls'[c])
        PROVE  \E u \in Users : u = calls'[c].user /\ Clean(u)'
    BY <1>1, <1>2, <1>4, <2>1 DEF UsersInv, TypesInv, CallShape, Creating
  <2>2. \A c \in Callers : Creating(calls'[c]) => Clean(calls[c].user)'
    BY <2>1
  <2> QED
    BY <1>1, <1>2, <1>4, <2>2 DEF UsersInv
<1>6. LinksInv'
  <2>1. \A row \in memberships' : row.member \in Members
    BY <1>1, <1>2 DEF TypesInv, AccountsTypeOK
  <2>2. \A m \in Members : members[m].user # None /\ Moving(m) => Moving(m)'
    BY <1>2 DEF Moving, At
  <2>3. LinkConsistent'
    BY <1>1, <1>2, <2>1, <2>2 DEF LinksInv, LinkConsistent
  <2>4. \A c \in Callers : Accepting(calls'[c]) =>
          /\ \A m \in Members : members'[m].user # calls'[c].user
          /\ \A d \in Callers \ {c} :
                Accepting(calls'[d]) => calls'[d].user # calls'[c].user
    BY <1>1, <1>2 DEF LinksInv
  <2>5. \A c \in Callers : At(c, "link")' => users'[calls'[c].user].verified = TRUE
    BY <1>1, <1>2 DEF LinksInv, At
  <2>6. \A c \in Callers : At(c, "membership")' =>
                              members'[calls'[c].member].user = calls'[c].user
    BY <1>1, <1>2 DEF LinksInv, At, TypesInv, CallShape
  <2> QED
    BY <2>3, <2>4, <2>5, <2>6 DEF LinksInv
<1>7. TokensInv'
  <2>1. \A t \in Tokens : Usable(t)' =>
           Usable(t) /\ tokens'[t].kind = tokens[t].kind /\ tokens'[t].about = tokens[t].about
    BY DEF TokensFade, NoToken, Usable
  <2>2. ASSUME "token" \notin raced', NEW c \in Callers, At(c, "issue")'
        PROVE  NoUsable(calls[c].op, Subject(calls[c]))'
    BY <1>1, <1>2, <2>1, <2>2 DEF TokensInv, NoUsable, At
  <2> QED
    BY <1>1, <1>2, <2>1, <2>2 DEF TokensInv
<1>8. OldPasswordOut'
  <2>1. \A s \in Sessions : sessions'[s].state = "live" =>
           /\ sessions[s].state = "live" /\ sessions'[s].user = sessions[s].user
           /\ sessions'[s].proof = sessions[s].proof
    BY DEF SessionsFade, NoSession
  <2> QED
    BY <1>1, <1>2, <2>1 DEF OldPasswordOut, At, Registered
<1>9. ErasureInv'
  <2>1. ASSUME NEW m \in Members, NEW u, NEW step \in 1 .. 9, u = members[m].user,
               step > 4 => u \in Users, Gone(m, u, step)
        PROVE  Gone(m, u, step)'
    BY <1>1, <1>2, <2>1, GoneKept DEF Registered
  <2>2. ASSUME "erase" \notin raced', NEW m \in erased'
        PROVE  Gone(m, members[m].user, IF members[m].user = None THEN 4 ELSE 9)'
    <3>1. m \in erased /\ m \in Members
      BY <1>1, <2>2 DEF TypesInv, AccountsTypeOK
    <3>2. PICK u \in Users \cup {None} : u = members[m].user /\ u = members'[m].user
      BY <1>1, <3>1 DEF TypesInv, AccountsTypeOK, Member
    <3>3. PICK step \in 1 .. 9 : step = IF u = None THEN 4 ELSE 9
      OBVIOUS
    <3>4. Gone(m, u, step)
      BY <1>1, <1>2, <2>2, <3>1, <3>2, <3>3 DEF ErasureInv
    <3>5. Gone(m, u, step)'
      BY <2>1, <3>1, <3>2, <3>3, <3>4
    <3> QED
      BY <3>2, <3>3, <3>5
  <2>3. ASSUME "erase" \notin raced', NEW c \in Callers, At(c, "erase")'
        PROVE  /\ calls'[c].user = members'[calls'[c].member].user
               /\ Gone(calls[c].member, calls[c].user, calls[c].step)'
    <3>1. PICK m \in Members, step \in 1 .. 9 :
             /\ m = calls[c].member /\ step = calls[c].step
             /\ step > 4 => calls[c].user \in Users
      BY <1>1, <1>2, <2>3 DEF TypesInv, CallShape, At
    <3>2. PICK u : u = calls[c].user
      OBVIOUS
    <3>3. u = members[m].user /\ Gone(m, u, step)
      BY <1>1, <1>2, <2>3, <3>1, <3>2 DEF ErasureInv, At
    <3>4. Gone(m, u, step)'
      BY <2>1, <3>1, <3>2, <3>3
    <3> QED
      BY <1>2, <3>1, <3>2, <3>3, <3>4
  <2> QED
    BY <2>2, <2>3 DEF ErasureInv
<1> QED
  BY <1>3, <1>5, <1>6, <1>7, <1>8, <1>9 DEF AccountsInv

LEMMA ExpireKeeps ==
  ASSUME AccountsInv, Expire
  PROVE  AccountsInv'
<1>1. /\ UNCHANGED <<accountVars, memberships, calls, killed, raced, workload>>
      /\ UNCHANGED members /\ UNCHANGED erased
  BY DEF Expire, tenantVars, history
<1>2. members' \in [Members -> Member]
  BY <1>1 DEF AccountsInv, TypesInv, AccountsTypeOK
<1>3. CASE UNCHANGED sessions
  <2>1. TokensFade
    BY <1>3, UseFades, UnchangedFade DEF Expire, AccountsInv, Usable
  <2>2. SessionsFade
    BY <1>3, UnchangedFade DEF AccountsInv
  <2> QED
    BY <1>1, <1>2, <2>1, <2>2, OutsideKeeps
<1>4. CASE ~UNCHANGED sessions
  <2>1. PICK s \in Sessions : /\ sessions[s].state = "live"
                              /\ sessions' = [sessions EXCEPT ![s].expired = TRUE]
                              /\ UNCHANGED tokens
    BY <1>4 DEF Expire
  <2>2. sessions \in [Sessions -> Session \cup {NoSession("unused"), NoSession("deleted")}]
    BY DEF AccountsInv, TypesInv, AccountsTypeOK
  <2>3. sessions[s] \in Session
    BY <2>1, <2>2 DEF NoSession
  <2>4. PICK r : r = [sessions[s] EXCEPT !.expired = TRUE]
    OBVIOUS
  <2>5. /\ r \in Session /\ r.state = sessions[s].state /\ r.user = sessions[s].user
        /\ r.proof = sessions[s].proof
    BY <2>3, <2>4 DEF Session
  <2>6. sessions' = [sessions EXCEPT ![s] = r]
    BY <2>1, <2>4
  <2>7. SessionsFade
    <3>1. sessions' \in [Sessions -> Session \cup {NoSession("unused"), NoSession("deleted")}]
      BY <2>2, <2>5, <2>6
    <3>2. \A x \in Sessions : sessions'[x] = IF x = s THEN r ELSE sessions[x]
      BY <2>2, <2>6
    <3> QED
      BY <2>5, <3>1, <3>2 DEF SessionsFade
  <2>8. TokensFade
    BY <2>1, UnchangedFade DEF AccountsInv
  <2> QED
    BY <1>1, <1>2, <2>7, <2>8, OutsideKeeps
<1> QED
  BY <1>3, <1>4

LEMMA EditMemberKeeps ==
  ASSUME AccountsInv, NEW m \in Members, NEW e \in Emails, EditMember(m, e)
  PROVE  AccountsInv'
<1>1. members \in [Members -> Member]
  BY DEF AccountsInv, TypesInv, AccountsTypeOK
<1>2. PICK r : r = [members[m] EXCEPT !.email = e]
  OBVIOUS
<1>3. r \in Member /\ r.user = members[m].user
  BY <1>1, <1>2 DEF Member
<1>4. members' = [members EXCEPT ![m] = r]
  BY <1>2 DEF EditMember
<1>5. members' \in [Members -> Member] /\ \A n \in Members : members'[n].user = members[n].user
  BY <1>1, <1>3, <1>4
<1>6. erased' \subseteq erased /\ \A n \in erased \ erased' : members[n].user = None
  BY DEF EditMember
<1>7. SessionsFade /\ TokensFade
  BY UnchangedFade DEF AccountsInv, EditMember
<1>8. UNCHANGED <<accountVars, memberships, calls, killed, raced, workload>>
  BY DEF EditMember
<1> QED
  BY <1>5, <1>6, <1>7, <1>8, OutsideKeeps

-----------------------------------------------------------------------------
(* A session is opened, by a login or by a rotation.                       *)
LEMMA SessionOpened ==
  ASSUME AccountsInv, NEW c \in Callers, calls[c].pc \in {"start", "mint"},
         Unused(sessions) # {}, NEW f \in Sessions,
         CreateSession(calls[c].user, f, calls[c].proof), End(c),
         raced' = raced \cup Staleness(calls[c]),
         UNCHANGED <<accountVars, tokens, tenantVars, killed, erased, workload>>
  PROVE  AccountsInv'
<1>1. TypesInv /\ UsersInv /\ LinksInv /\ TokensInv /\ OldPasswordOut /\ ErasureInv
  BY DEF AccountsInv
<1>2. /\ UNCHANGED users /\ UNCHANGED identities /\ UNCHANGED tokens
      /\ UNCHANGED members /\ UNCHANGED memberships
      /\ UNCHANGED killed /\ UNCHANGED erased /\ UNCHANGED workload
  BY DEF accountVars, tenantVars
<1>3. PICK a : Follows(c, a) /\ a = Idle
  BY Ends
<1>4. PICK v \in Users, p \in Nat : v = calls[c].user /\ p = calls[c].proof
  BY <1>1 DEF TypesInv, AccountsTypeOK, CallShape, Call
<1>5. PICK n \in Sessions : n = FreshSession
  <2>1. Unused(sessions) \subseteq Sessions /\ Unused(sessions) \subseteq Nat
    BY <1>1, AccountsAssumption DEF TypesInv, AccountsTypeOK, Unused, Sessions
  <2> QED
    BY <2>1, FreshIsIn DEF FreshSession
<1>6. PICK r : r = [state |-> "live", user |-> v, family |-> f, expired |-> FALSE, proof |-> p]
  OBVIOUS
<1>7. r \in Session /\ r.user = v /\ r.proof = p
  BY <1>6 DEF Session
<1>8. sessions' = [sessions EXCEPT ![n] = r]
  BY <1>4, <1>5, <1>6 DEF CreateSession
<1>9. /\ sessions' \in [Sessions -> Session \cup {NoSession("unused"), NoSession("deleted")}]
      /\ \A s \in Sessions : sessions'[s] = IF s = n THEN r ELSE sessions[s]
  BY <1>1, <1>7, <1>8 DEF TypesInv, AccountsTypeOK
<1>10. Staleness(calls[c]) \subseteq {"erase", "password"} /\ raced \subseteq raced'
  BY DEF Staleness
<1>11. /\ Registered(v) /\ identities[v].password # p => "password" \in raced'
       /\ ~Registered(v) => "erase" \in raced'
  BY <1>4 DEF Staleness
<1>12. TokensFade
  BY <1>1, <1>2, UnchangedFade
<1>13. TypesInv'
  BY <1>1, <1>2, <1>3, <1>9, <1>10, TypesKept DEF TypesInv, AccountsTypeOK
<1>14. UsersInv'
  <2>1. \A u \in Users : Clean(u) /\ u # calls[c].user => Clean(u)'
    BY <1>2, <1>4, <1>7, <1>9 DEF Clean, Registered
  <2> QED
    BY <1>1, <1>2, <1>3, <2>1, IdleShape, UsersKept DEF Creating
<1>15. LinksInv'
  BY <1>1, <1>2, <1>3, <1>10, IdleShape, LinksKept, MembershipsKept, LinksSplit
  DEF Accepting, LinksInv
<1>16. TokensInv'
  BY <1>1, <1>3, <1>10, <1>12, IdleShape, TokensKept
<1>17. OldPasswordOut'
  <2>1. /\ calls'[c] = a
        /\ \A d \in Callers \ {c} : calls'[d] = calls[d]
    BY <1>1, <1>3, Moved
  <2> SUFFICES ASSUME "password" \notin raced', NEW s \in Sessions,
                      NEW u, u = sessions'[s].user, sessions'[s].state = "live", Registered(u)'
               PROVE  \/ sessions'[s].proof = identities'[u].password
                      \/ \E d \in Callers : calls'[d].pc = "revokeAll" /\ calls'[d].user = u
    BY DEF OldPasswordOut, At
  <2>2. CASE s = n
    BY <1>2, <1>7, <1>9, <1>11, <2>2 DEF Registered
  <2>3. CASE s # n
    <3>1. sessions'[s] = sessions[s]
      BY <1>9, <2>3
    <3>2. \/ sessions[s].proof = identities[u].password
          \/ \E d \in Callers : calls[d].pc = "revokeAll" /\ calls[d].user = u
      BY <1>1, <1>2, <1>10, <3>1 DEF OldPasswordOut, At, Registered
    <3> QED
      BY <1>2, <2>1, <3>1, <3>2
  <2> QED
    BY <2>2, <2>3
<1>18. ErasureInv'
  <2>1. ASSUME "erase" \notin raced', NEW m \in Members, NEW u, NEW step \in 1 .. 9,
               step > 4 => u \in Users, Gone(m, u, step)
        PROVE  Gone(m, u, step)'
    <3>1. step > 6 => SessionsOf(u)' = {}
      <4> SUFFICES ASSUME step > 6 PROVE SessionsOf(u)' = {}
        OBVIOUS
      <4>1. ~Registered(u) /\ SessionsOf(u) = {}
        BY <2>1 DEF Gone
      <4>2. v # u
        BY <1>11, <2>1, <4>1
      <4>3. \A s \in Sessions : sessions'[s].user # u
        BY <1>7, <1>9, <4>1, <4>2 DEF SessionsOf
      <4> QED
        BY <4>3 DEF SessionsOf
    <3> QED
      BY <1>2, <2>1, <3>1 DEF Gone, Outstanding, Registered
  <2>2. a.pc # "erase"
    BY <1>3, IdleShape
  <2> QED
    BY <1>1, <1>2, <1>3, <1>10, <2>1, <2>2, ErasureKept
<1> QED
  BY <1>13, <1>14, <1>15, <1>16, <1>17, <1>18 DEF AccountsInv

LEMMA StartSessionOpens ==
  ASSUME AccountsInv, NEW c \in Callers, StartSession(c)
  PROVE  AccountsInv'
<1>1. FreshSession \in Sessions
  <2>1. Unused(sessions) \subseteq Sessions /\ Unused(sessions) \subseteq Nat
    BY AccountsAssumption DEF AccountsInv, TypesInv, AccountsTypeOK, Unused, Sessions
  <2> QED
    BY <2>1, FreshIsIn DEF FreshSession, StartSession
<1> QED
  BY <1>1, SessionOpened DEF StartSession, At

LEMMA MintOpens ==
  ASSUME AccountsInv, NEW c \in Callers, Mint(c)
  PROVE  AccountsInv'
<1>1. calls[c].family \in Sessions
  BY DEF Mint, At, AccountsInv, TypesInv, CallShape
<1> QED
  BY <1>1, SessionOpened DEF Mint, At

-----------------------------------------------------------------------------
(* A password is set.                                                      *)
LEMMA SetPasswordKeeps ==
  ASSUME AccountsInv, NEW c \in Callers, SetPassword(c)
  PROVE  AccountsInv'
<1>1. TypesInv /\ UsersInv /\ LinksInv /\ TokensInv /\ OldPasswordOut /\ ErasureInv
  BY DEF AccountsInv
<1>2. /\ UNCHANGED users /\ UNCHANGED sessions /\ UNCHANGED tokens
      /\ UNCHANGED members /\ UNCHANGED memberships
      /\ UNCHANGED killed /\ UNCHANGED erased /\ UNCHANGED raced /\ UNCHANGED workload
  BY DEF SetPassword, tenantVars, history
<1>3. SessionsFade /\ TokensFade
  BY <1>1, <1>2, UnchangedFade
<1>4. PICK v \in Users : v = calls[c].user
  BY <1>1 DEF SetPassword, At, TypesInv, CallShape
<1>5. CASE ~Registered(v)
  <2>1. End(c) /\ OnlySessions
    BY <1>2, <1>4, <1>5, OnlySessionsWhen DEF SetPassword, accountVars
  <2>2. Settled(c)
    BY DEF SetPassword, At, Settled
  <2> QED
    BY <1>3, <2>1, <2>2, EndKeeps
<1>6. CASE Registered(v)
  <2>1. PICK n \in Nat : n = identities[v].password
    BY <1>1 DEF TypesInv, AccountsTypeOK, Identity, NoIdentity
  <2>0. PICK q \in Nat : q = n + 1
    BY <2>1
  <2>2. PICK a : a = [calls[c] EXCEPT !.pc = "revokeAll", !.proof = q]
    OBVIOUS
  <2>3. calls[c] \in Call /\ CallShape(calls[c]) /\ calls[c].pc = "set"
    BY <1>1 DEF TypesInv, AccountsTypeOK, SetPassword, At
  <2>4. /\ a \in Call /\ a.pc = "revokeAll" /\ a.op = calls[c].op /\ a.user = v
        /\ a.member = calls[c].member
    BY <1>4, <2>2, <2>3 DEF Call
  <2>5. Follows(c, a)
    BY <1>4, <1>6, <2>1, <2>0, <2>2, <2>3, <2>4 DEF SetPassword, Follows, CallShape
  <2>6. PICK i : i = [identities[v] EXCEPT !.password = n + 1]
    OBVIOUS
  <2>7. identities[v] \in Identity
    BY <1>1, <1>6 DEF TypesInv, AccountsTypeOK, Registered
  <2>8. i \in Identity /\ i # NoIdentity
    BY <2>6, <2>7, AccountsAssumption DEF Identity, NoIdentity
  <2>9. identities' = [identities EXCEPT ![v] = i]
    BY <1>4, <1>6, <2>1, <2>6 DEF SetPassword
  <2>10. /\ identities' \in [Users -> Identity \cup {NoIdentity}]
         /\ \A u \in Users : identities'[u] = IF u = v THEN i ELSE identities[u]
    BY <1>1, <2>8, <2>9 DEF TypesInv, AccountsTypeOK
  <2>11. \A u \in Users : Registered(u)' <=> Registered(u)
    BY <1>6, <2>8, <2>10 DEF Registered
  <2>12. TypesInv'
    BY <1>1, <1>2, <2>5, <2>10, TypesKept DEF TypesInv, AccountsTypeOK
  <2>13. UsersInv'
    <3>1. \A u \in Users : Clean(u) => Clean(u)'
      BY <1>2, <2>11 DEF Clean
    <3> QED
      BY <1>1, <1>2, <1>4, <2>4, <2>5, <3>1, UsersKept DEF Creating
  <2>14. LinksInv'
    BY <1>1, <1>2, <2>3, <2>4, <2>5, LinksKept, MembershipsKept, LinksSplit
    DEF Accepting, LinksInv
  <2>15. TokensInv'
    BY <1>1, <1>2, <1>3, <2>4, <2>5, TokensKept
  <2>16. OldPasswordOut'
    <3>1. /\ calls'[c] = a
          /\ \A d \in Callers \ {c} : calls'[d] = calls[d]
      BY <1>1, <2>5, Moved
    <3> SUFFICES ASSUME "password" \notin raced', NEW s \in Sessions,
                        NEW u, u = sessions'[s].user, sessions'[s].state = "live",
                        Registered(u)'
                 PROVE  \/ sessions'[s].proof = identities'[u].password
                        \/ \E d \in Callers : calls'[d].pc = "revokeAll" /\ calls'[d].user = u
      BY DEF OldPasswordOut, At
    <3>2. CASE u = v
      BY <2>4, <3>1, <3>2
    <3>3. CASE u # v
      <4>1. u \in Users
        BY <1>1, <1>2 DEF TypesInv, AccountsTypeOK, Session, NoSession
      <4>2. Registered(u) /\ identities'[u] = identities[u]
        BY <2>10, <2>11, <3>3, <4>1
      <4>3. \/ sessions[s].proof = identities[u].password
            \/ \E d \in Callers : calls[d].pc = "revokeAll" /\ calls[d].user = u
        BY <1>1, <1>2, <4>2 DEF OldPasswordOut, At
      <4>4. ASSUME NEW d \in Callers, calls[d].pc = "revokeAll", calls[d].user = u
            PROVE  calls'[d].pc = "revokeAll" /\ calls'[d].user = u
        BY <2>3, <3>1, <4>4
      <4> QED
        BY <1>2, <4>2, <4>3, <4>4
    <3> QED
      BY <3>2, <3>3
  <2>17. ErasureInv'
    <3>1. ASSUME NEW m \in Members, NEW u, NEW step \in 1 .. 9,
                 step > 4 => u \in Users, Gone(m, u, step)
          PROVE  Gone(m, u, step)'
      BY <1>1, <1>2, <1>3, <2>11, <3>1, GoneKept
    <3> QED
      BY <1>1, <1>2, <2>4, <2>5, <3>1, ErasureKept
  <2> QED
    BY <2>12, <2>13, <2>14, <2>15, <2>16, <2>17 DEF AccountsInv
<1> QED
  BY <1>5, <1>6

-----------------------------------------------------------------------------
(* One-time tokens are deleted and created.                                *)
LEMMA DeleteFades ==
  ASSUME TypesInv, NEW T, DeleteTokens(T)
  PROVE  TokensFade /\ \A t \in Tokens : t \in T => tokens'[t] = NoToken("deleted")
<1>1. \A t \in Tokens : tokens'[t] = IF t \in T THEN NoToken("deleted") ELSE tokens[t]
  BY DEF DeleteTokens
<1>2. tokens' = [t \in Tokens |-> tokens'[t]]
  BY DEF DeleteTokens
<1>3. tokens' \in [Tokens -> Token \cup {NoToken("unused"), NoToken("deleted")}]
  BY <1>1, <1>2 DEF TypesInv, AccountsTypeOK
<1>4. TokenShape(NoToken("deleted"))
  BY DEF TokenShape, NoToken
<1> QED
  BY <1>1, <1>3, <1>4 DEF TokensFade, TypesInv

LEMMA ClearTokensKeeps ==
  ASSUME AccountsInv, NEW c \in Callers, ClearTokens(c)
  PROVE  AccountsInv'
<1>1. TypesInv /\ UsersInv /\ LinksInv /\ TokensInv /\ OldPasswordOut /\ ErasureInv
  BY DEF AccountsInv
<1>2. /\ UNCHANGED users /\ UNCHANGED identities /\ UNCHANGED sessions
      /\ UNCHANGED members /\ UNCHANGED memberships
      /\ UNCHANGED killed /\ UNCHANGED erased /\ UNCHANGED raced /\ UNCHANGED workload
  BY DEF ClearTokens, accountVars, tenantVars, history
<1>3. calls[c].pc = "clear" /\ CallShape(calls[c])
  BY <1>1 DEF ClearTokens, At, TypesInv
<1>4. PICK a : Continue(c, a) /\ a \in Call /\ SameBut(a, calls[c], "issue")
  BY <1>1, GoesTo DEF ClearTokens, Steps
<1>5. Follows(c, a) /\ a.pc = "issue" /\ a.user = calls[c].user
  BY <1>3, <1>4 DEF Follows, SameBut, CallShape
<1>6. /\ SessionsFade /\ TokensFade
      /\ \A t \in Cleared(calls[c]) \cap Tokens : tokens'[t] = NoToken("deleted")
  BY <1>1, <1>2, UnchangedFade, DeleteFades DEF ClearTokens
<1>7. TypesInv'
  BY <1>1, <1>2, <1>5, <1>6, TypesKept DEF TypesInv, AccountsTypeOK, TokensFade
<1>8. UsersInv'
  <2>1. \A u \in Users : Clean(u) => Clean(u)'
    BY <1>1, <1>2, <1>6, CleanKept DEF Registered
  <2> QED
    BY <1>1, <1>2, <1>5, <2>1, UsersKept DEF Creating
<1>9. LinksInv'
  BY <1>1, <1>2, <1>3, <1>5, LinksKept, MembershipsKept, LinksSplit DEF Accepting, LinksInv
<1>10. TokensInv'
  <2>1. a.op = calls[c].op /\ Subject(a) = Subject(calls[c])
    BY <1>4 DEF SameBut, Subject
  <2>2. ASSUME NEW t \in Tokens, tokens'[t].state = "usable", tokens'[t].kind = a.op,
               tokens'[t].about = Subject(a)
        PROVE  FALSE
    <3>1. tokens'[t] # NoToken("deleted")
      BY <2>2 DEF NoToken
    <3>2. tokens[t].kind = calls[c].op /\ tokens[t].about = Subject(calls[c])
      BY <1>6, <2>1, <2>2, <3>1 DEF TokensFade
    <3> QED
      BY <1>6, <3>1, <3>2 DEF Cleared, Outstanding
  <2> QED
    BY <1>1, <1>2, <1>5, <1>6, <2>2, TokensKept
<1>11. OldPasswordOut'
  BY <1>1, <1>2, <1>3, <1>5, <1>6, PasswordsKept DEF Registered
<1>12. ErasureInv'
  <2>1. ASSUME NEW m \in Members, NEW u, NEW step \in 1 .. 9,
               step > 4 => u \in Users, Gone(m, u, step)
        PROVE  Gone(m, u, step)'
    BY <1>1, <1>2, <1>6, <2>1, GoneKept DEF Registered
  <2> QED
    BY <1>1, <1>2, <1>5, <2>1, ErasureKept
<1> QED
  BY <1>7, <1>8, <1>9, <1>10, <1>11, <1>12 DEF AccountsInv

LEMMA IssueTokenKeeps ==
  ASSUME AccountsInv, NEW c \in Callers, IssueToken(c)
  PROVE  AccountsInv'
<1>1. TypesInv /\ UsersInv /\ LinksInv /\ TokensInv /\ OldPasswordOut /\ ErasureInv
  BY DEF AccountsInv
<1>2. /\ UNCHANGED users /\ UNCHANGED identities /\ UNCHANGED sessions
      /\ UNCHANGED members /\ UNCHANGED memberships
      /\ UNCHANGED killed /\ UNCHANGED erased /\ UNCHANGED workload
  BY DEF IssueToken, accountVars, tenantVars
<1>3. calls[c].pc = "issue" /\ CallShape(calls[c])
  BY <1>1 DEF IssueToken, At, TypesInv
<1>4. PICK a : Follows(c, a) /\ a = Idle
  BY Ends DEF IssueToken
<1>5. PICK k \in Kinds : k = calls[c].op
  BY <1>3 DEF CallShape
<1>6. PICK x \in Members \cup Users :
         /\ x = Subject(calls[c])
         /\ k = "invite" => x \in Members /\ x = calls[c].member
         /\ k # "invite" => x \in Users /\ x = calls[c].user
  BY <1>3, <1>5 DEF CallShape, Subject
<1>7. PICK e \in Emails : e = calls[c].email
  BY <1>3 DEF CallShape
<1>8. PICK n \in Tokens : n = Fresh(Unused(tokens)) /\ tokens[n].state = "unused"
  <2>1. Unused(tokens) \subseteq Tokens /\ Unused(tokens) \subseteq Nat /\ Unused(tokens) # {}
    BY <1>1, AccountsAssumption DEF TypesInv, AccountsTypeOK, Unused, Tokens, IssueToken
  <2>2. Fresh(Unused(tokens)) \in Unused(tokens)
    BY <2>1, FreshIsIn
  <2> QED
    BY <2>1, <2>2 DEF Unused
<1>9. PICK r : r = [state |-> "usable", kind |-> k, about |-> x, email |-> e]
  OBVIOUS
<1>10. r \in Token /\ TokenShape(r) /\ r.kind = k /\ r.about = x
  BY <1>6, <1>9 DEF Token, TokenShape
<1>11. tokens' = [tokens EXCEPT ![n] = r]
  BY <1>5, <1>6, <1>7, <1>8, <1>9 DEF IssueToken
<1>12. /\ tokens' \in [Tokens -> Token \cup {NoToken("unused"), NoToken("deleted")}]
       /\ \A t \in Tokens : tokens'[t] = IF t = n THEN r ELSE tokens[t]
  BY <1>1, <1>10, <1>11 DEF TypesInv, AccountsTypeOK
<1>13. \A t \in Tokens : TokenShape(tokens'[t])
  BY <1>1, <1>10, <1>12 DEF TypesInv
<1>14. /\ raced \subseteq raced' /\ raced' \subseteq raced \cup {"erase", "token"}
       /\ k = "invite" /\ Erasing(x) => "erase" \in raced'
       /\ k # "invite" /\ ~Registered(x) => "erase" \in raced'
       /\ (\E d \in Callers \ {c} : calls[d].pc = "issue" /\ calls[d].op = k
                                    /\ Subject(calls[d]) = x) => "token" \in raced'
  BY <1>5, <1>6 DEF IssueToken
<1>15. /\ calls'[c] = a /\ a.pc = "idle"
       /\ \A d \in Callers \ {c} : calls'[d] = calls[d]
  BY <1>1, <1>4, Moved, IdleShape
<1>16. SessionsFade
  BY <1>1, <1>2, UnchangedFade
<1>17. TypesInv'
  BY <1>1, <1>2, <1>4, <1>12, <1>13, <1>14, TypesKept DEF TypesInv, AccountsTypeOK
<1>18. UsersInv'
  <2>1. ASSUME NEW u \in Users, Clean(u), u # calls[c].user PROVE Clean(u)'
    <3>1. x # u
      BY <1>6, <2>1, AccountsAssumption
    <3>2. \A t \in Tokens : tokens'[t].about # u
      BY <1>10, <1>12, <2>1, <3>1 DEF Clean
    <3> QED
      BY <1>2, <2>1, <3>2 DEF Clean, Registered
  <2> QED
    BY <1>1, <1>2, <1>4, <2>1, IdleShape, UsersKept DEF Creating
<1>19. LinksInv'
  BY <1>1, <1>2, <1>3, <1>4, <1>14, IdleShape, LinksKept, MembershipsKept, LinksSplit
  DEF Accepting, LinksInv
<1>20. TokensInv'
  <2> SUFFICES ASSUME "token" \notin raced'
               PROVE  /\ \A s, t \in Tokens :
                            /\ Usable(s)' /\ Usable(t)'
                            /\ tokens'[s].kind = tokens'[t].kind
                            /\ tokens'[s].about = tokens'[t].about
                            => s = t
                      /\ \A d \in Callers : calls'[d].pc = "issue" =>
                            NoUsable(calls[d].op, Subject(calls[d]))'
    BY DEF TokensInv, At
  <2>1. "token" \notin raced
    BY <1>14
  <2>2. \A t \in Tokens : Usable(t) => tokens[t].kind # k \/ tokens[t].about # x
    BY <1>1, <1>3, <1>5, <1>6, <2>1 DEF TokensInv, NoUsable, At
  <2>3. \A s, t \in Tokens :
           /\ Usable(s)' /\ Usable(t)'
           /\ tokens'[s].kind = tokens'[t].kind
           /\ tokens'[s].about = tokens'[t].about
           => s = t
    BY <1>1, <1>10, <1>12, <2>1, <2>2 DEF TokensInv, Usable
  <2>4. ASSUME NEW d \in Callers, calls'[d].pc = "issue"
        PROVE  NoUsable(calls[d].op, Subject(calls[d]))'
    <3>1. d # c /\ calls'[d] = calls[d]
      BY <1>15, <2>4
    <3>2. PICK op : op = calls[d].op
      OBVIOUS
    <3>3. PICK y : y = Subject(calls[d])
      OBVIOUS
    <3>4. NoUsable(op, y)
      BY <1>1, <2>1, <2>4, <3>1, <3>2, <3>3 DEF TokensInv, At
    <3>5. ~(op = k /\ y = x)
      BY <1>14, <2>4, <3>1, <3>2, <3>3
    <3>6. NoUsable(op, y)'
      BY <1>10, <1>12, <3>4, <3>5 DEF NoUsable, Usable
    <3>7. op = calls'[d].op /\ y = Subject(calls'[d])
      BY <3>1, <3>2, <3>3
    <3> QED
      BY <3>6, <3>7
  <2> QED
    BY <2>3, <2>4
<1>21. OldPasswordOut'
  BY <1>1, <1>2, <1>3, <1>4, <1>14, <1>16, PasswordsKept DEF Registered
<1>22. ErasureInv'
  <2>1. ASSUME "erase" \notin raced', NEW m \in Members, NEW u, NEW step \in 1 .. 9,
               step > 4 => u \in Users, Erasing(m), Gone(m, u, step)
        PROVE  Gone(m, u, step)'
    <3>1. ASSUME NEW kind, NEW about, ~(k = kind /\ x = about), Outstanding(kind, about) = {}
          PROVE  Outstanding(kind, about)' = {}
      BY <1>10, <1>12, <3>1 DEF Outstanding
    <3>2. step > 2 => Outstanding("invite", m)' = {}
      BY <1>14, <2>1, <3>1 DEF Gone
    <3>3. step > 7 => Outstanding("reset", u)' = {}
      BY <1>14, <2>1, <3>1 DEF Gone
    <3>4. step > 8 => Outstanding("verify", u)' = {}
      BY <1>14, <2>1, <3>1 DEF Gone
    <3> QED
      BY <1>2, <2>1, <3>2, <3>3, <3>4 DEF Gone, SessionsOf, Registered
  <2> QED
    BY <1>1, <1>2, <1>4, <1>14, <1>15, <2>1, ErasureKept
<1> QED
  BY <1>17, <1>18, <1>19, <1>20, <1>21, <1>22 DEF AccountsInv

LEMMA MarkVerifiedKeeps ==
  ASSUME AccountsInv, NEW c \in Callers, MarkVerified(c)
  PROVE  AccountsInv'
<1>1. TypesInv /\ UsersInv /\ LinksInv /\ TokensInv /\ OldPasswordOut /\ ErasureInv
  BY DEF AccountsInv
<1>2. /\ UNCHANGED identities /\ UNCHANGED sessions /\ UNCHANGED tokens
      /\ UNCHANGED members /\ UNCHANGED memberships
      /\ UNCHANGED killed /\ UNCHANGED erased /\ UNCHANGED raced /\ UNCHANGED workload
  BY DEF MarkVerified, tenantVars, history
<1>3. calls[c].pc = "verify" /\ CallShape(calls[c])
  BY <1>1 DEF MarkVerified, At, TypesInv
<1>4. PICK v \in Users : v = calls[c].user
  BY <1>3 DEF CallShape
<1>5. users[v] # NoUser /\ users[v] \in User
  BY <1>1, <1>4 DEF UsersInv, TypesInv, AccountsTypeOK
<1>6. PICK r : r = [users[v] EXCEPT !.verified = TRUE]
  OBVIOUS
<1>7. r \in User /\ r.verified = TRUE /\ r # NoUser
  BY <1>5, <1>6, AccountsAssumption DEF User, NoUser
<1>8. users' = [users EXCEPT ![v] = r]
  BY <1>4, <1>5, <1>6 DEF MarkVerified
<1>9. /\ users' \in [Users -> User \cup {NoUser}]
      /\ \A u \in Users : users'[u] = IF u = v THEN r ELSE users[u]
  BY <1>1, <1>7, <1>8 DEF TypesInv, AccountsTypeOK
<1>10. PICK a : /\ Follows(c, a)
                /\ \/ a = Idle
                   \/ SameBut(a, calls[c], "link") /\ calls[c].op = "accept"
  <2>1. CASE calls[c].op = "accept"
    <3>1. PICK a : Continue(c, a) /\ a \in Call /\ SameBut(a, calls[c], "link")
      BY <1>1, <2>1, GoesTo DEF MarkVerified, Steps
    <3>2. CallShape(a)
      BY <1>3, <2>1, <3>1 DEF SameBut, CallShape
    <3> QED
      BY <2>1, <3>1, <3>2 DEF Follows
  <2>2. CASE calls[c].op # "accept"
    BY <2>2, Ends DEF MarkVerified
  <2> QED
    BY <2>1, <2>2
<1>11. /\ a.pc \in {"idle", "link"} /\ a.user \in {None, v}
       /\ a.pc = "link" => a.user = v /\ calls[c].op = "accept"
  BY <1>4, <1>10, IdleShape DEF SameBut
<1>12. SessionsFade /\ TokensFade
  BY <1>1, <1>2, UnchangedFade
<1>13. TypesInv'
  BY <1>1, <1>2, <1>9, <1>10, TypesKept DEF TypesInv, AccountsTypeOK
<1>14. UsersInv'
  <2>1. \A u \in Users : Clean(u) => Clean(u)'
    BY <1>2 DEF Clean, Registered
  <2> QED
    BY <1>1, <1>4, <1>7, <1>9, <1>10, <1>11, <2>1, UsersKept DEF Creating
<1>15. LinksInv'
  <2>1. \A u \in Users : users[u].verified = TRUE => users'[u].verified = TRUE
    BY <1>7, <1>9
  <2>2. Accepting(a) => Accepting(calls[c]) /\ a.user = calls[c].user
    BY <1>3, <1>4, <1>11 DEF Accepting
  <2>3. a.pc = "link" => users'[a.user].verified = TRUE
    BY <1>7, <1>9, <1>11
  <2> QED
    BY <1>1, <1>2, <1>3, <1>10, <1>11, <2>1, <2>2, <2>3, LinksKept, MembershipsKept, LinksSplit
    DEF LinksInv
<1>16. TokensInv'
  BY <1>1, <1>2, <1>10, <1>11, <1>12, TokensKept
<1>17. OldPasswordOut'
  BY <1>1, <1>2, <1>3, <1>10, <1>12, PasswordsKept DEF Registered
<1>18. ErasureInv'
  <2>1. ASSUME NEW m \in Members, NEW u, NEW step \in 1 .. 9,
               step > 4 => u \in Users, Gone(m, u, step)
        PROVE  Gone(m, u, step)'
    BY <1>1, <1>2, <1>12, <2>1, GoneKept DEF Registered
  <2> QED
    BY <1>1, <1>2, <1>10, <1>11, <2>1, ErasureKept
<1> QED
  BY <1>13, <1>14, <1>15, <1>16, <1>17, <1>18 DEF AccountsInv

-----------------------------------------------------------------------------
(* Accounts are created, or deleted again when that fails.                 *)
LEMMA InsertUserKeeps ==
  ASSUME AccountsInv, NEW c \in Callers, InsertUser(c)
  PROVE  AccountsInv'
<1>1. TypesInv /\ UsersInv /\ LinksInv /\ TokensInv /\ OldPasswordOut /\ ErasureInv
  BY DEF AccountsInv
<1>2. /\ UNCHANGED identities /\ UNCHANGED sessions /\ UNCHANGED tokens
      /\ UNCHANGED members /\ UNCHANGED memberships
      /\ UNCHANGED killed /\ UNCHANGED erased /\ UNCHANGED raced /\ UNCHANGED workload
  BY DEF InsertUser, tenantVars, history
<1>3. calls[c].pc = "user" /\ calls[c] \in Call /\ CallShape(calls[c])
  BY <1>1 DEF InsertUser, At, TypesInv, AccountsTypeOK
<1>4. SessionsFade /\ TokensFade
  BY <1>1, <1>2, UnchangedFade
<1>5. CASE UNCHANGED users /\ End(c)
  <2>1. OnlySessions
    BY <1>2, <1>5, OnlySessionsWhen DEF InsertUser, accountVars
  <2>2. Settled(c)
    BY <1>3 DEF Settled
  <2> QED
    BY <1>4, <1>5, <2>1, <2>2, EndKeeps
<1>6. CASE ~(UNCHANGED users /\ End(c))
  <2>1. PICK n : n = Fresh(NewUsers)
    OBVIOUS
  <2>2. PICK e \in Emails : e = calls[c].email
    BY <1>3 DEF CallShape
  <2>3. /\ NewUsers # {}
        /\ users' = [users EXCEPT ![n] = [email |-> e, verified |-> FALSE]]
        /\ Continue(c, [calls[c] EXCEPT !.pc = "identity", !.user = n])
    BY <1>6, <2>1, <2>2 DEF InsertUser
  <2>4. n \in NewUsers
    <3>1. NewUsers \subseteq Nat
      BY AccountsAssumption DEF NewUsers, Users
    <3> QED
      BY <2>1, <2>3, <3>1, FreshIsIn
  <2>5. n \in Users /\ users[n] = NoUser /\ \A d \in Callers : calls[d].user # n
    BY <2>4 DEF NewUsers
  <2>6. PICK a : a = [calls[c] EXCEPT !.pc = "identity", !.user = n]
    OBVIOUS
  <2>7. /\ a \in Call /\ a.pc = "identity" /\ a.user = n /\ a.op = calls[c].op
        /\ a.email = calls[c].email /\ a.member = calls[c].member
    BY <1>3, <2>5, <2>6 DEF Call
  <2>8. CallShape(a)
    BY <1>3, <2>5, <2>7 DEF CallShape
  <2>9. Follows(c, a)
    BY <2>3, <2>6, <2>7, <2>8 DEF Follows
  <2>10. /\ calls'[c] = a
         /\ \A d \in Callers \ {c} : calls'[d] = calls[d]
    BY <1>1, <2>9, Moved
  <2>11. PICK r : r = [email |-> e, verified |-> FALSE]
    OBVIOUS
  <2>12. r \in User /\ r.verified = FALSE /\ r # NoUser
    BY <2>11, AccountsAssumption DEF User, NoUser
  <2>13. /\ users' \in [Users -> User \cup {NoUser}]
         /\ \A u \in Users : users'[u] = IF u = n THEN r ELSE users[u]
    <3>1. users' = [users EXCEPT ![n] = r]
      BY <2>3, <2>11
    <3> QED
      BY <1>1, <2>12, <3>1 DEF TypesInv, AccountsTypeOK
  <2>14. TypesInv'
    BY <1>1, <1>2, <2>9, <2>13, TypesKept DEF TypesInv, AccountsTypeOK
  <2>15. UsersInv'
    <3>1. \A u \in Users : Clean(u) => Clean(u)'
      BY <1>2 DEF Clean, Registered
    <3>2. \A u \in Users : users'[u] = NoUser => Clean(u)'
      BY <1>1, <2>12, <2>13, <3>1 DEF UsersInv
    <3>3. Clean(n)'
      BY <1>1, <2>5, <3>1 DEF UsersInv
    <3>4. ASSUME NEW d \in Callers, Creating(calls'[d])
          PROVE  /\ \E u \in Users : u = calls'[d].user /\ Clean(u)'
                 /\ \A b \in Callers \ {d} : calls'[b].user # calls'[d].user
      <4>1. CASE d = c
        BY <2>5, <2>7, <2>10, <3>3, <4>1
      <4>2. CASE d # c
        <5>1. calls'[d] = calls[d] /\ Creating(calls[d])
          BY <2>10, <3>4, <4>2
        <5>2. calls[d].user \in Users
          BY <1>1, <5>1 DEF Creating, TypesInv, CallShape
        <5>3. PICK u \in Users : u = calls[d].user /\ Clean(u)
          BY <1>1, <5>1, <5>2 DEF UsersInv
        <5>4. \A b \in Callers \ {d} : calls'[b].user # calls[d].user
          BY <1>1, <2>5, <2>7, <2>10, <5>1 DEF UsersInv
        <5> QED
          BY <3>1, <5>1, <5>3, <5>4
      <4> QED
        BY <4>1, <4>2
    <3>5. \A d \in Callers : calls'[d].user \in Users => users'[calls'[d].user] # NoUser
      BY <1>1, <2>7, <2>10, <2>12, <2>13 DEF UsersInv
    <3>6. \A d \in Callers : Creating(calls'[d]) => Clean(calls[d].user)'
      BY <3>4
    <3> QED
      BY <3>2, <3>4, <3>5, <3>6 DEF UsersInv
  <2>16. LinksInv'
    <3>1. \A u \in Users : users[u].verified = TRUE => users'[u].verified = TRUE
      <4>1. NoUser.verified # TRUE
        BY AccountsAssumption DEF NoUser
      <4> QED
        BY <2>5, <2>13, <4>1
    <3>2. \A m \in Members : members[m].user # a.user
      BY <1>1, <2>5, <2>7 DEF UsersInv, Clean
    <3>3. \A d \in Callers \ {c} : calls[d].user # a.user
      BY <2>5, <2>7
    <3> QED
      BY <1>1, <1>2, <1>3, <2>7, <2>9, <3>1, <3>2, <3>3, LinksKept, MembershipsKept, LinksSplit
      DEF LinksInv
  <2>17. TokensInv'
    BY <1>1, <1>2, <1>4, <2>7, <2>9, TokensKept
  <2>18. OldPasswordOut'
    BY <1>1, <1>2, <1>3, <1>4, <2>9, PasswordsKept DEF Registered
  <2>19. ErasureInv'
    <3>1. ASSUME NEW m \in Members, NEW u, NEW step \in 1 .. 9,
                 step > 4 => u \in Users, Gone(m, u, step)
          PROVE  Gone(m, u, step)'
      BY <1>1, <1>2, <1>4, <3>1, GoneKept DEF Registered
    <3> QED
      BY <1>1, <1>2, <2>7, <2>9, <3>1, ErasureKept
  <2> QED
    BY <2>14, <2>15, <2>16, <2>17, <2>18, <2>19 DEF AccountsInv
<1> QED
  BY <1>5, <1>6

LEMMA InsertIdentityKeeps ==
  ASSUME AccountsInv, NEW c \in Callers, NEW fails \in BOOLEAN, InsertIdentity(c, fails)
  PROVE  AccountsInv'
<1>1. TypesInv /\ UsersInv /\ LinksInv /\ TokensInv /\ OldPasswordOut /\ ErasureInv
  BY DEF AccountsInv
<1>2. /\ UNCHANGED users /\ UNCHANGED sessions /\ UNCHANGED tokens
      /\ UNCHANGED members /\ UNCHANGED memberships
      /\ UNCHANGED killed /\ UNCHANGED erased /\ UNCHANGED raced /\ UNCHANGED workload
  BY DEF InsertIdentity, tenantVars, history
<1>3. calls[c].pc = "identity" /\ CallShape(calls[c]) /\ Creating(calls[c])
  BY <1>1 DEF InsertIdentity, At, TypesInv, Creating
<1>4. SessionsFade /\ TokensFade
  BY <1>1, <1>2, UnchangedFade
<1>5. CASE UNCHANGED identities /\ Goto(c, "compensate")
  <2>1. OnlySessions
    BY <1>2, <1>5, OnlySessionsWhen DEF InsertIdentity, accountVars
  <2>2. Settled(c)
    BY <1>3 DEF Settled
  <2>3. \A a : a \in Call /\ SameBut(a, calls[c], "compensate") => CallShape(a)
    BY <1>3 DEF SameBut, CallShape
  <2> QED
    BY <1>3, <1>4, <1>5, <2>1, <2>2, <2>3, GotoKeeps DEF Steps
<1>6. CASE ~(UNCHANGED identities /\ Goto(c, "compensate"))
  <2>1. PICK v \in Users : v = calls[c].user /\ Clean(v)
    BY <1>1, <1>3 DEF UsersInv, CallShape
  <2>2. PICK e \in Emails : e = calls[c].email
    BY <1>3 DEF CallShape
  <2>3. PICK i : i = [email |-> e, password |-> 0]
    OBVIOUS
  <2>4. i \in Identity /\ i # NoIdentity
    BY <2>3, AccountsAssumption DEF Identity, NoIdentity
  <2>5. PICK pc \in {"verify", "start"} :
            pc = (IF calls[c].op = "accept" THEN "verify" ELSE "start")
    OBVIOUS
  <2>6. identities' = [identities EXCEPT ![v] = i] /\ Goto(c, pc)
    BY <1>6, <2>1, <2>2, <2>3, <2>5 DEF InsertIdentity
  <2>7. /\ identities' \in [Users -> Identity \cup {NoIdentity}]
        /\ \A u \in Users : identities'[u] = IF u = v THEN i ELSE identities[u]
    BY <1>1, <2>4, <2>6 DEF TypesInv, AccountsTypeOK
  <2>8. PICK a : Continue(c, a) /\ a \in Call /\ SameBut(a, calls[c], pc)
    BY <1>1, <2>6, GoesTo DEF Steps
  <2>9. a.pc = pc /\ a.op = calls[c].op /\ a.user = v /\ a.member = calls[c].member
    BY <2>1, <2>8 DEF SameBut
  <2>10. Follows(c, a)
    BY <1>3, <2>5, <2>8, <2>9 DEF CallShape, Follows
  <2>11. TypesInv'
    BY <1>1, <1>2, <2>7, <2>10, TypesKept DEF TypesInv, AccountsTypeOK
  <2>12. UsersInv'
    <3>1. \A u \in Users : Clean(u) /\ u # calls[c].user => Clean(u)'
      BY <1>2, <2>1, <2>7 DEF Clean, Registered
    <3> QED
      BY <1>1, <1>2, <2>1, <2>5, <2>9, <2>10, <3>1, UsersKept DEF Creating
  <2>13. LinksInv'
    <3>1. Accepting(a) => Accepting(calls[c]) /\ a.user = calls[c].user
      BY <1>3, <2>1, <2>9 DEF Accepting
    <3> QED
      BY <1>1, <1>2, <1>3, <2>5, <2>9, <2>10, <3>1, LinksKept, MembershipsKept, LinksSplit
      DEF LinksInv
  <2>14. TokensInv'
    BY <1>1, <1>2, <1>4, <2>5, <2>9, <2>10, TokensKept
  <2>15. OldPasswordOut'
    <3>1. \A u \in Users : Registered(u)' =>
             \/ Registered(u) /\ identities'[u].password = identities[u].password
             \/ Clean(u)
      BY <2>1, <2>7 DEF Registered
    <3> QED
      BY <1>1, <1>2, <1>3, <1>4, <2>10, <3>1, PasswordsKept
  <2>16. ErasureInv'
    <3>1. ASSUME NEW m \in Members, NEW u, NEW step \in 1 .. 9, u = members[m].user,
                 step > 4 => u \in Users, Gone(m, u, step)
          PROVE  Gone(m, u, step)'
      <4>1. u # v
        BY <2>1, <3>1 DEF Clean
      <4>2. u \in Users => (Registered(u)' => Registered(u))
        BY <2>7, <4>1 DEF Registered
      <4> QED
        BY <1>1, <1>2, <1>4, <3>1, <4>2, GoneKept
    <3> QED
      BY <1>1, <1>2, <2>5, <2>9, <2>10, <3>1, ErasureKept
  <2> QED
    BY <2>11, <2>12, <2>13, <2>14, <2>15, <2>16 DEF AccountsInv
<1> QED
  BY <1>5, <1>6

LEMMA CompensateKeeps ==
  ASSUME AccountsInv, NEW c \in Callers, Compensate(c)
  PROVE  AccountsInv'
<1>1. TypesInv /\ UsersInv /\ LinksInv /\ TokensInv /\ OldPasswordOut /\ ErasureInv
  BY DEF AccountsInv
<1>2. /\ UNCHANGED identities /\ UNCHANGED sessions /\ UNCHANGED tokens
      /\ UNCHANGED members /\ UNCHANGED memberships
      /\ UNCHANGED killed /\ UNCHANGED erased /\ UNCHANGED raced /\ UNCHANGED workload
  BY DEF Compensate, tenantVars, history
<1>3. calls[c].pc = "compensate" /\ CallShape(calls[c]) /\ Creating(calls[c])
  BY <1>1 DEF Compensate, At, TypesInv, Creating
<1>4. SessionsFade /\ TokensFade
  BY <1>1, <1>2, UnchangedFade
<1>5. PICK v \in Users : /\ v = calls[c].user /\ Clean(v)
                         /\ \A d \in Callers \ {c} : calls[d].user # v
  BY <1>1, <1>3 DEF UsersInv, CallShape
<1>6. PICK a : Follows(c, a) /\ a = Idle
  BY Ends DEF Compensate
<1>7. a.pc = "idle" /\ a.user = None /\ a.op = "login"
  BY <1>6, IdleShape
<1>8. /\ users' \in [Users -> User \cup {NoUser}]
      /\ \A u \in Users : users'[u] = IF u = v THEN NoUser ELSE users[u]
  BY <1>1, <1>5 DEF Compensate, TypesInv, AccountsTypeOK
<1>9. /\ calls'[c] = a
      /\ \A d \in Callers \ {c} : calls'[d] = calls[d]
  BY <1>1, <1>6, Moved
<1>10. TypesInv'
  BY <1>1, <1>2, <1>6, <1>8, TypesKept DEF TypesInv, AccountsTypeOK
<1>11. UsersInv'
  <2>1. \A u \in Users : Clean(u) => Clean(u)'
    BY <1>2 DEF Clean, Registered
  <2>2. \A u \in Users : users'[u] = NoUser => Clean(u)'
    BY <1>1, <1>5, <1>8, <2>1 DEF UsersInv
  <2>3. ASSUME NEW d \in Callers, Creating(calls'[d])
        PROVE  /\ \E u \in Users : u = calls'[d].user /\ Clean(u)'
               /\ \A b \in Callers \ {d} : calls'[b].user # calls'[d].user
    <3>1. d # c /\ calls'[d] = calls[d] /\ Creating(calls[d])
      BY <1>7, <1>9, <2>3 DEF Creating
    <3>2. calls[d].user \in Users /\ calls[d].user # None
      BY <1>1, <3>1, AccountsAssumption DEF Creating, TypesInv, CallShape
    <3>3. PICK u \in Users : u = calls[d].user /\ Clean(u)
      BY <1>1, <3>1, <3>2 DEF UsersInv
    <3>4. \A b \in Callers \ {d} : calls'[b].user # calls[d].user
      BY <1>1, <1>7, <1>9, <3>1, <3>2 DEF UsersInv
    <3> QED
      BY <2>1, <3>1, <3>3, <3>4
  <2>4. \A d \in Callers : calls'[d].user \in Users => users'[calls'[d].user] # NoUser
    BY <1>1, <1>5, <1>7, <1>8, <1>9, AccountsAssumption DEF UsersInv
  <2>5. \A d \in Callers : Creating(calls'[d]) => Clean(calls[d].user)'
    BY <2>3
  <2> QED
    BY <2>2, <2>3, <2>4, <2>5 DEF UsersInv
<1>12. LinksInv'
  <2>1. \A u \in Users : users[u].verified = TRUE =>
           users'[u].verified = TRUE \/ (Creating(calls[c]) /\ u = calls[c].user)
    BY <1>3, <1>5, <1>8
  <2>2. ~Accepting(a)
    BY <1>7 DEF Accepting
  <2> QED
    BY <1>1, <1>2, <1>3, <1>6, <1>7, <2>1, <2>2, LinksKept, MembershipsKept, LinksSplit
    DEF LinksInv
<1>13. TokensInv'
  BY <1>1, <1>2, <1>4, <1>6, <1>7, TokensKept
<1>14. OldPasswordOut'
  BY <1>1, <1>2, <1>3, <1>4, <1>6, PasswordsKept DEF Registered
<1>15. ErasureInv'
  <2>1. ASSUME NEW m \in Members, NEW u, NEW step \in 1 .. 9,
               step > 4 => u \in Users, Gone(m, u, step)
        PROVE  Gone(m, u, step)'
    BY <1>1, <1>2, <1>4, <2>1, GoneKept DEF Registered
  <2> QED
    BY <1>1, <1>2, <1>6, <1>7, <2>1, ErasureKept
<1> QED
  BY <1>10, <1>11, <1>12, <1>13, <1>14, <1>15 DEF AccountsInv

-----------------------------------------------------------------------------
(* A member is linked to an account, and made a member of the tenant.      *)
LEMMA LinkMemberKeeps ==
  ASSUME AccountsInv, NEW c \in Callers, LinkMember(c)
  PROVE  AccountsInv'
<1>1. TypesInv /\ UsersInv /\ LinksInv /\ TokensInv /\ OldPasswordOut /\ ErasureInv
  BY DEF AccountsInv
<1>2. /\ UNCHANGED users /\ UNCHANGED identities /\ UNCHANGED sessions /\ UNCHANGED tokens
      /\ UNCHANGED memberships /\ UNCHANGED killed /\ UNCHANGED erased /\ UNCHANGED workload
  BY DEF LinkMember, accountVars
<1>3. calls[c].pc = "link" /\ calls[c].op = "accept" /\ CallShape(calls[c])
      /\ Accepting(calls[c])
  BY <1>1 DEF LinkMember, At, TypesInv, CallShape, Accepting
<1>4. SessionsFade /\ TokensFade
  BY <1>1, <1>2, UnchangedFade
<1>5. PICK m \in Members, v \in Users : m = calls[c].member /\ v = calls[c].user
  BY <1>3 DEF CallShape
<1>6. /\ raced \subseteq raced' /\ raced' \subseteq raced \cup {"erase"}
      /\ Erasing(m) => "erase" \in raced'
  BY <1>5 DEF LinkMember
<1>7. CASE members[m].user # None
  <2>1. End(c) /\ UNCHANGED members
    BY <1>5, <1>7 DEF LinkMember, Linkable
  <2>2. OnlySessions
    BY <1>1, <1>2, <1>6, <2>1
    DEF OnlySessions, accountVars, tenantVars, TypesInv, AccountsTypeOK
  <2>3. Settled(c)
    BY <1>3 DEF Settled
  <2> QED
    BY <1>4, <2>1, <2>2, <2>3, EndKeeps
<1>8. CASE members[m].user = None
  <2>1. members' = [members EXCEPT ![m].user = v] /\ Goto(c, "membership")
    BY <1>5, <1>8 DEF LinkMember, Linkable
  <2>2. PICK r : r = [members[m] EXCEPT !.user = v]
    OBVIOUS
  <2>3. r \in Member /\ r.user = v
    BY <1>1, <2>2 DEF TypesInv, AccountsTypeOK, Member
  <2>4. members' = [members EXCEPT ![m] = r]
    BY <2>1, <2>2
  <2>5. /\ members' \in [Members -> Member]
        /\ \A x \in Members : members'[x] = IF x = m THEN r ELSE members[x]
    BY <1>1, <2>3, <2>4 DEF TypesInv, AccountsTypeOK
  <2>6. PICK a : Continue(c, a) /\ a \in Call /\ SameBut(a, calls[c], "membership")
    BY <1>1, <2>1, GoesTo DEF Steps
  <2>7. a.pc = "membership" /\ a.op = "accept" /\ a.user = v /\ a.member = m
    BY <1>3, <1>5, <2>6 DEF SameBut
  <2>8. Follows(c, a)
    BY <2>6, <2>7 DEF CallShape, Follows
  <2>9. /\ calls'[c] = a
        /\ \A d \in Callers \ {c} : calls'[d] = calls[d]
    BY <1>1, <2>8, Moved
  <2>10. v # None
    BY AccountsAssumption
  <2>11. TypesInv'
    BY <1>1, <1>2, <1>6, <2>5, <2>8, TypesKept DEF TypesInv, AccountsTypeOK
  <2>12. UsersInv'
    <3>1. \A u \in Users : Clean(u) /\ u # calls[c].user => Clean(u)'
      BY <1>2, <1>5, <2>3, <2>5 DEF Clean, Registered
    <3> QED
      BY <1>1, <1>2, <1>5, <2>7, <2>8, <3>1, UsersKept DEF Creating
  <2>13. LinksInv'
    <3>1. \A x \in Members : members[x].user # v
      BY <1>1, <1>3, <1>5 DEF LinksInv
    <3>2. \A x, y \in Members :
             members'[x].user = members'[y].user => x = y \/ members'[x].user = None
      BY <1>1, <2>3, <2>5, <3>1 DEF LinksInv, LinkConsistent
    <3>3. \A x \in Members :
             members'[x].user # None => users'[members'[x].user].verified = TRUE
      <4>1. users[v].verified = TRUE
        BY <1>1, <1>3, <1>5 DEF LinksInv, At
      <4> QED
        BY <1>1, <1>2, <2>3, <2>5, <4>1 DEF LinksInv, LinkConsistent
    <3>4. ASSUME NEW d \in Callers, Accepting(calls'[d])
          PROVE  /\ \A x \in Members : members'[x].user # calls'[d].user
                 /\ \A b \in Callers \ {d} :
                       Accepting(calls'[b]) => calls'[b].user # calls'[d].user
      <4>1. d # c /\ calls'[d] = calls[d] /\ Accepting(calls[d])
        BY <2>7, <2>9, <3>4 DEF Accepting
      <4>2. calls[d].user # v
        BY <1>1, <1>3, <1>5, <4>1 DEF LinksInv
      <4>3. \A b \in Callers : Accepting(calls'[b]) => b # c /\ calls'[b] = calls[b]
        BY <2>7, <2>9 DEF Accepting
      <4> QED
        BY <1>1, <2>3, <2>5, <4>1, <4>2, <4>3 DEF LinksInv
    <3>5. \A d \in Callers :
             calls'[d].pc = "link" => users'[calls'[d].user].verified = TRUE
      BY <1>1, <1>2, <2>7, <2>9 DEF LinksInv, At
    <3>6. ASSUME NEW d \in Callers, calls'[d].pc = "membership"
          PROVE  members'[calls'[d].member].user = calls'[d].user
      <4>1. CASE d = c
        BY <2>3, <2>5, <2>7, <2>9, <4>1
      <4>2. CASE d # c
        <5>1. /\ calls'[d] = calls[d] /\ calls[d].member \in Members
              /\ members[calls[d].member].user = calls[d].user /\ calls[d].user \in Users
          BY <1>1, <2>9, <3>6, <4>2 DEF LinksInv, At, TypesInv, CallShape
        <5>2. calls[d].member # m
          BY <1>8, <5>1, AccountsAssumption
        <5> QED
          BY <2>5, <5>1, <5>2
      <4> QED
        BY <4>1, <4>2
    <3>7. \A row \in memberships' : members'[row.member].user = row.user
      <4> SUFFICES ASSUME NEW row \in memberships
                   PROVE  members'[row.member].user = row.user
        BY <1>2
      <4>1. row.user \in Users /\ row.member \in Members
        BY <1>1 DEF TypesInv, AccountsTypeOK
      <4>2. members[row.member].user = row.user
        BY <1>1 DEF LinksInv, LinkConsistent
      <4>3. row.member # m
        BY <1>8, <4>1, <4>2, AccountsAssumption
      <4> QED
        BY <2>5, <4>1, <4>2, <4>3
    <3>8. ASSUME raced' \cap {"account", "erase"} = {}, NEW x \in Members,
                 members'[x].user # None
          PROVE  Moving(x)' \/ [user |-> members'[x].user, member |-> x] \in memberships'
      <4>1. CASE x = m
        BY <2>7, <2>9, <4>1 DEF Moving, At
      <4>2. CASE x # m
        <5>1. members'[x].user = members[x].user
          BY <2>5, <4>2
        <5>2. Moving(x) \/ [user |-> members[x].user, member |-> x] \in memberships
          BY <1>1, <1>6, <3>8, <5>1 DEF LinksInv, LinkConsistent
        <5>3. Moving(x) => Moving(x)'
          BY <1>2, <1>3, <2>9, <4>2 DEF Moving, At
        <5> QED
          BY <1>2, <5>1, <5>2, <5>3
      <4> QED
        BY <4>1, <4>2
    <3> QED
      BY <3>2, <3>3, <3>4, <3>5, <3>6, <3>7, <3>8, LinksSplit
  <2>14. TokensInv'
    BY <1>1, <1>4, <1>6, <2>7, <2>8, TokensKept
  <2>15. OldPasswordOut'
    BY <1>1, <1>2, <1>3, <1>4, <1>6, <2>8, PasswordsKept DEF Registered
  <2>16. ErasureInv'
    <3>1. ASSUME "erase" \notin raced', NEW x \in Members, NEW u, NEW step \in 1 .. 9,
                 u = members[x].user, step > 4 => u \in Users, Erasing(x), Gone(x, u, step)
          PROVE  members'[x].user = u /\ Gone(x, u, step)'
      <4>1. x # m
        BY <1>6, <3>1
      <4>2. Gone(x, u, step)'
        BY <1>1, <1>2, <1>4, <3>1, GoneKept DEF Registered
      <4> QED
        BY <2>5, <3>1, <4>1, <4>2
    <3> QED
      BY <1>1, <1>2, <1>6, <2>7, <2>8, <3>1, ErasureKept
  <2> QED
    BY <2>11, <2>12, <2>13, <2>14, <2>15, <2>16 DEF AccountsInv
<1> QED
  BY <1>7, <1>8

LEMMA CreateMembershipKeeps ==
  ASSUME AccountsInv, NEW c \in Callers, CreateMembership(c)
  PROVE  AccountsInv'
<1>1. TypesInv /\ UsersInv /\ LinksInv /\ TokensInv /\ OldPasswordOut /\ ErasureInv
  BY DEF AccountsInv
<1>2. /\ UNCHANGED users /\ UNCHANGED identities /\ UNCHANGED sessions /\ UNCHANGED tokens
      /\ UNCHANGED members /\ UNCHANGED killed /\ UNCHANGED erased /\ UNCHANGED workload
  BY DEF CreateMembership, accountVars
<1>3. calls[c].pc = "membership" /\ calls[c].op = "accept" /\ CallShape(calls[c])
  BY <1>1 DEF CreateMembership, At, TypesInv, CallShape
<1>4. SessionsFade /\ TokensFade
  BY <1>1, <1>2, UnchangedFade
<1>5. PICK m \in Members, v \in Users : m = calls[c].member /\ v = calls[c].user
  BY <1>3 DEF CallShape
<1>6. /\ raced \subseteq raced' /\ raced' \subseteq raced \cup {"erase"}
      /\ Erasing(m) => "erase" \in raced'
  BY <1>5 DEF CreateMembership
<1>7. v # None /\ members[m].user = v
  BY <1>1, <1>3, <1>5, AccountsAssumption DEF LinksInv, At
<1>8. PICK new : new = [user |-> v, member |-> m]
  OBVIOUS
<1>9. new \in [user : Users, member : Members] /\ new.user = v /\ new.member = m
  BY <1>8
<1>10. /\ memberships' \subseteq memberships \cup {new}
       /\ memberships \subseteq memberships' /\ new \in memberships'
       /\ End(c) \/ Goto(c, "start")
  <2>1. CASE \E row \in memberships : row.user = v
    <3>1. PICK row \in memberships : row.user = v
      BY <2>1
    <3>2. row \in [user : Users, member : Members] /\ members[row.member].user = v
      BY <1>1, <3>1 DEF TypesInv, AccountsTypeOK, LinksInv, LinkConsistent
    <3>3. row.member = m
      BY <1>1, <1>7, <3>2 DEF LinksInv, LinkConsistent
    <3>4. row = new
      BY <1>8, <3>1, <3>2, <3>3
    <3> QED
      BY <1>5, <2>1, <3>1, <3>4 DEF CreateMembership
  <2>2. CASE ~\E row \in memberships : row.user = v
    BY <1>5, <1>8, <2>2 DEF CreateMembership
  <2> QED
    BY <2>1, <2>2
<1>11. PICK a : Follows(c, a) /\ a.pc \in {"idle", "start"} /\ a.user \in {None, v}
  <2>1. CASE End(c)
    BY <2>1, Ends, IdleShape
  <2>2. CASE Goto(c, "start")
    <3>1. PICK a : Continue(c, a) /\ a \in Call /\ SameBut(a, calls[c], "start")
      BY <1>1, <2>2, GoesTo DEF Steps
    <3>2. CallShape(a) /\ a.pc = "start" /\ a.user = v
      BY <1>3, <1>5, <3>1 DEF CallShape, SameBut
    <3> QED
      BY <3>1, <3>2 DEF Follows
  <2> QED
    BY <1>10, <2>1, <2>2
<1>12. /\ calls'[c] = a
       /\ \A d \in Callers \ {c} : calls'[d] = calls[d]
  BY <1>1, <1>11, Moved
<1>13. TypesInv'
  BY <1>1, <1>2, <1>6, <1>9, <1>10, <1>11, TypesKept DEF TypesInv, AccountsTypeOK
<1>14. UsersInv'
  <2>1. \A u \in Users : Clean(u) => Clean(u)'
    BY <1>2 DEF Clean, Registered
  <2> QED
    BY <1>1, <1>2, <1>5, <1>11, <2>1, UsersKept DEF Creating
<1>15. LinksInv'
  <2>1. ~Accepting(a)
    BY <1>11 DEF Accepting
  <2>2. \A row \in memberships' : members'[row.member].user = row.user
    BY <1>1, <1>2, <1>7, <1>9, <1>10 DEF LinksInv, LinkConsistent
  <2>3. ASSUME raced' \cap {"account", "erase"} = {}, NEW x \in Members,
               members'[x].user # None
        PROVE  Moving(x)' \/ [user |-> members'[x].user, member |-> x] \in memberships'
    <3>1. CASE x = m
      BY <1>2, <1>7, <1>8, <1>10, <3>1
    <3>2. CASE x # m
      <4>1. Moving(x) \/ [user |-> members[x].user, member |-> x] \in memberships
        BY <1>1, <1>2, <1>6, <2>3 DEF LinksInv, LinkConsistent
      <4>2. Moving(x) => Moving(x)'
        BY <1>2, <1>5, <1>12, <3>2 DEF Moving, At
      <4> QED
        BY <1>2, <1>10, <4>1, <4>2
    <3> QED
      BY <3>1, <3>2
  <2> QED
    BY <1>1, <1>2, <1>11, <2>1, <2>2, <2>3, LinksKept, LinksSplit
<1>16. TokensInv'
  BY <1>1, <1>4, <1>6, <1>11, TokensKept
<1>17. OldPasswordOut'
  BY <1>1, <1>2, <1>3, <1>4, <1>6, <1>11, PasswordsKept DEF Registered
<1>18. ErasureInv'
  <2>1. ASSUME "erase" \notin raced', NEW x \in Members, NEW u, NEW step \in 1 .. 9,
               u = members[x].user, step > 4 => u \in Users, Erasing(x), Gone(x, u, step)
        PROVE  Gone(x, u, step)'
    <3>1. x # m
      BY <1>6, <2>1
    <3>2. \A row \in memberships' : row.member = x => row \in memberships
      BY <1>9, <1>10, <3>1
    <3> QED
      BY <1>1, <1>2, <1>4, <2>1, <3>2, GoneKept DEF Registered
  <2> QED
    BY <1>1, <1>2, <1>6, <1>11, <2>1, ErasureKept
<1> QED
  BY <1>13, <1>14, <1>15, <1>16, <1>17, <1>18 DEF AccountsInv

-----------------------------------------------------------------------------
(* The erasure goes on.                                                    *)
LEMMA StepsOfErasure ==
  /\ Len(ErasureSteps) = 8
  /\ ErasureSteps[1] = "membership" /\ ErasureSteps[2] = "invite"
  /\ ErasureSteps[3] = "member" /\ ErasureSteps[4] = "user"
  /\ ErasureSteps[5] = "identity" /\ ErasureSteps[6] = "session"
  /\ ErasureSteps[7] = "reset" /\ ErasureSteps[8] = "verify"
BY DEF ErasureSteps

LEMMA EraseNextKeeps ==
  ASSUME AccountsInv, NEW c \in Callers, EraseNext(c)
  PROVE  AccountsInv'
<1>1. TypesInv /\ UsersInv /\ LinksInv /\ TokensInv /\ OldPasswordOut /\ ErasureInv
  BY DEF AccountsInv
<1>2. UNCHANGED killed /\ UNCHANGED raced /\ UNCHANGED workload
  BY DEF EraseNext
<1>3. /\ calls[c].pc = "erase" /\ calls[c].op = "erase"
      /\ calls[c] \in Call /\ CallShape(calls[c])
  BY <1>1 DEF EraseNext, At, TypesInv, AccountsTypeOK, CallShape
<1>4. PICK m \in Members, k \in 1 .. 8 : m = calls[c].member /\ k = calls[c].step
  BY <1>3 DEF CallShape
<1>5. PICK u \in Users \cup {None} : u = calls[c].user /\ (k > 3 => u \in Users)
  BY <1>3, <1>4 DEF Call, CallShape
<1>6. PICK step : step = ErasureSteps[k]
  OBVIOUS
<1>7. /\ step = "membership" <=> k = 1
      /\ step = "invite" <=> k = 2
      /\ step = "member" <=> k = 3
      /\ step = "user" <=> k = 4
      /\ step = "identity" <=> k = 5
      /\ step = "session" <=> k = 6
      /\ step = "reset" <=> k = 7
      /\ step = "verify" <=> k = 8
  BY <1>6, StepsOfErasure
<1>8. PICK last \in BOOLEAN : last = (k = 8 \/ (u = None /\ k = 3))
  OBVIOUS
<1>9. LastStep(calls[c]) <=> last
  BY <1>4, <1>5, <1>6, <1>7, <1>8, StepsOfErasure DEF LastStep
(* The data.                                                               *)
<1>10. /\ memberships' \subseteq memberships
       /\ k = 1 => \A row \in memberships' : row.member # m
       /\ \A row \in memberships : row \in memberships' \/ row.member = m
  BY <1>4, <1>6, <1>7 DEF EraseNext
<1>11. /\ members' \in [Members -> Member]
       /\ \A x \in Members : members'[x].user = members[x].user
  <2>1. CASE k # 3
    <3>1. UNCHANGED members
      BY <1>4, <1>6, <1>7, <2>1 DEF EraseNext
    <3> QED
      BY <1>1, <3>1 DEF TypesInv, AccountsTypeOK
  <2>2. CASE k = 3
    <3>1. PICK r : r = [members[m] EXCEPT !.email = None]
      OBVIOUS
    <3>2. members' = [members EXCEPT ![m] = r]
      BY <1>4, <1>6, <1>7, <2>2, <3>1 DEF EraseNext
    <3>3. members \in [Members -> Member]
      BY <1>1 DEF TypesInv, AccountsTypeOK
    <3>4. r \in Member /\ r.user = members[m].user
      BY <3>1, <3>3 DEF Member
    <3> QED
      BY <3>2, <3>3, <3>4
  <2> QED
    BY <2>1, <2>2
<1>12. /\ users' \in [Users -> User \cup {NoUser}]
       /\ \A x \in Users : /\ users'[x] = NoUser => users[x] = NoUser
                           /\ users'[x].verified = users[x].verified
  <2>1. CASE ~(k = 4 /\ users[u] # NoUser)
    <3>1. UNCHANGED users
      BY <1>4, <1>5, <1>6, <1>7, <2>1 DEF EraseNext
    <3> QED
      BY <1>1, <3>1 DEF TypesInv, AccountsTypeOK
  <2>2. CASE k = 4 /\ users[u] # NoUser
    <3>1. PICK r : r = [users[u] EXCEPT !.email = None]
      OBVIOUS
    <3>2. users' = [users EXCEPT ![u] = r]
      BY <1>4, <1>5, <1>6, <1>7, <2>2, <3>1 DEF EraseNext
    <3>3. users \in [Users -> User \cup {NoUser}]
      BY <1>1 DEF TypesInv, AccountsTypeOK
    <3>4. u \in Users /\ users[u] \in User
      BY <1>5, <2>2, <3>3
    <3>5. r \in User /\ r.verified = users[u].verified /\ r.verified \in BOOLEAN
      BY <3>1, <3>4 DEF User
    <3>6. r # NoUser
      BY <3>5, AccountsAssumption DEF NoUser
    <3> QED
      BY <3>2, <3>3, <3>4, <3>5, <3>6
  <2> QED
    BY <2>1, <2>2
<1>13. /\ identities' \in [Users -> Identity \cup {NoIdentity}]
       /\ \A x \in Users : identities'[x] \in {identities[x], NoIdentity}
       /\ k = 5 => identities'[u] = NoIdentity
  BY <1>1, <1>4, <1>5, <1>6, <1>7 DEF EraseNext, TypesInv, AccountsTypeOK
<1>14. \A x \in Users : Registered(x)' =>
          Registered(x) /\ identities'[x].password = identities[x].password
  BY <1>13 DEF Registered
<1>15. SessionsFade /\ (k = 6 => \A s \in Sessions : sessions'[s].user # u)
  <2>1. CASE k # 6
    <3>1. UNCHANGED sessions
      BY <1>6, <1>4, <1>7, <2>1 DEF EraseNext
    <3> QED
      BY <1>1, <2>1, <3>1, UnchangedFade
  <2>2. CASE k = 6
    <3>1. sessions' = [s \in Sessions |-> IF sessions[s].user = u THEN NoSession("deleted")
                                                                  ELSE sessions[s]]
      BY <1>4, <1>5, <1>6, <1>7, <2>2 DEF EraseNext
    <3>2. u # None /\ NoSession("deleted").user = None
      BY <1>5, <2>2, AccountsAssumption DEF NoSession
    <3>3. sessions' \in [Sessions -> Session \cup {NoSession("unused"), NoSession("deleted")}]
      BY <1>1, <3>1 DEF TypesInv, AccountsTypeOK
    <3>4. \A s \in Sessions :
             sessions'[s] = IF sessions[s].user = u THEN NoSession("deleted") ELSE sessions[s]
      BY <3>1
    <3> QED
      BY <3>2, <3>3, <3>4 DEF SessionsFade
  <2> QED
    BY <2>1, <2>2
<1>16. PICK x : x = IF step = "invite" THEN m ELSE u
  OBVIOUS
<1>17. IF step \in Kinds THEN DeleteTokens(Outstanding(step, x)) ELSE UNCHANGED tokens
  BY <1>4, <1>5, <1>6, <1>16 DEF EraseNext
<1>18. /\ TokensFade
       /\ step \in Kinds => \A t \in Tokens : t \in Outstanding(step, x) =>
                                              tokens'[t] = NoToken("deleted")
  BY <1>1, <1>17, UnchangedFade, DeleteFades
<1>19. ASSUME step \in Kinds, x # None PROVE Outstanding(step, x)' = {}
  <2>1. ASSUME NEW t \in Tokens PROVE ~(tokens'[t].kind = step /\ tokens'[t].about = x)
    <3>1. CASE t \in Outstanding(step, x)
      BY <1>18, <1>19, <3>1 DEF NoToken
    <3>2. CASE t \notin Outstanding(step, x)
      BY <1>18, <1>19, <3>2 DEF TokensFade, NoToken, Outstanding
    <3> QED
      BY <3>1, <3>2
  <2> QED
    BY <2>1 DEF Outstanding
(* The call.                                                               *)
<1>20. PICK a : /\ Follows(c, a)
                /\ IF last THEN a.pc = "idle" /\ a.user = None
                           ELSE /\ a.pc = "erase" /\ a.user = u /\ a.member = m
                                /\ a.step = k + 1
  <2>1. CASE last
    BY <1>9, <2>1, Ends, IdleShape DEF EraseNext
  <2>2. CASE ~last
    <3>0. k # 8 /\ ~(u = None /\ k = 3)
      BY <1>8, <2>2
    <3>1. PICK n \in 1 .. 8 : n = k + 1
      BY <3>0
    <3>2. PICK a : a = [calls[c] EXCEPT !.step = n]
      OBVIOUS
    <3>3. /\ a \in Call /\ a.pc = "erase" /\ a.op = "erase" /\ a.user = u /\ a.member = m
          /\ a.step = n
      BY <1>3, <1>4, <1>5, <3>2 DEF Call
    <3>4. n > 3 => u \in Users
      BY <1>5, <3>0, <3>1
    <3>5. CallShape(a)
      BY <3>3, <3>4 DEF CallShape
    <3>6. Continue(c, a)
      BY <1>4, <1>9, <2>2, <3>1, <3>2 DEF EraseNext
    <3> QED
      BY <2>2, <3>1, <3>3, <3>5, <3>6 DEF Follows
  <2> QED
    BY <2>1, <2>2
<1>21. /\ calls'[c] = a
       /\ \A d \in Callers \ {c} : calls'[d] = calls[d]
  BY <1>1, <1>20, Moved
<1>22. erased' = IF last THEN erased \cup {m} ELSE erased
  BY <1>4, <1>9 DEF EraseNext
<1>23. TypesInv'
  BY <1>1, <1>2, <1>10, <1>11, <1>12, <1>13, <1>15, <1>18, <1>20, <1>22, TypesKept
  DEF TypesInv, AccountsTypeOK, SessionsFade, TokensFade
<1>24. UsersInv'
  <2>1. \A y \in Users : Clean(y) => Clean(y)'
    BY <1>1, <1>11, <1>14, <1>15, <1>18, CleanKept
  <2> QED
    BY <1>1, <1>5, <1>12, <1>20, <2>1, UsersKept DEF Creating
<1>25. LinksInv'
  <2>1. ~Accepting(a) /\ a.pc # "link" /\ a.pc # "membership"
    BY <1>20 DEF Accepting
  <2>2. \A row \in memberships' : members'[row.member].user = row.user
    <3>1. \A row \in memberships : row.member \in Members
      BY <1>1 DEF TypesInv, AccountsTypeOK
    <3> QED
      BY <1>1, <1>10, <1>11, <3>1 DEF LinksInv, LinkConsistent
  <2>3. ASSUME raced' \cap {"account", "erase"} = {}, NEW y \in Members,
               members'[y].user # None
        PROVE  Moving(y)' \/ [user |-> members'[y].user, member |-> y] \in memberships'
    <3>1. CASE y = m
      BY <1>20, <1>21, <1>22, <3>1 DEF Moving, At
    <3>2. CASE y # m
      <4>1. Moving(y) \/ [user |-> members[y].user, member |-> y] \in memberships
        BY <1>1, <1>2, <1>11, <2>3 DEF LinksInv, LinkConsistent
      <4>2. Moving(y) => Moving(y)'
        BY <1>4, <1>21, <1>22, <3>2 DEF Moving, At
      <4>3. [user |-> members[y].user, member |-> y] \in memberships =>
               [user |-> members[y].user, member |-> y] \in memberships'
        BY <1>10, <3>2
      <4> QED
        BY <1>11, <4>1, <4>2, <4>3
    <3> QED
      BY <3>1, <3>2
  <2>4. \A y \in Users : users[y].verified = TRUE => users'[y].verified = TRUE
    BY <1>12
  <2> QED
    BY <1>1, <1>11, <1>20, <2>1, <2>2, <2>3, <2>4, LinksKept, LinksSplit
<1>26. TokensInv'
  BY <1>1, <1>2, <1>18, <1>20, TokensKept
<1>27. OldPasswordOut'
  BY <1>1, <1>2, <1>3, <1>14, <1>15, <1>20, PasswordsKept
<1>28. ErasureInv'
  <2>1. ASSUME NEW y \in Members, NEW v, NEW n \in 1 .. 9, n > 4 => v \in Users, Gone(y, v, n)
        PROVE  Gone(y, v, n)'
    BY <1>1, <1>10, <1>14, <1>15, <1>18, <2>1, GoneKept
  <2>2. ASSUME "erase" \notin raced PROVE Gone(m, u, k + 1)' /\ u = members'[m].user
    <3>1. u = members[m].user /\ Gone(m, u, k)
      BY <1>1, <1>3, <1>4, <1>5, <2>2 DEF ErasureInv, At
    <3>2. Gone(m, u, k)'
      BY <1>5, <2>1, <3>1
    <3>3. k = 1 => \A row \in memberships' : row.member # m
      BY <1>10
    <3>4. k = 2 => Outstanding("invite", m)' = {}
      BY <1>7, <1>16, <1>19, AccountsAssumption DEF Kinds
    <3>5. k = 5 => ~Registered(u)'
      BY <1>13 DEF Registered
    <3>6. k = 6 => SessionsOf(u)' = {}
      BY <1>15 DEF SessionsOf
    <3>7. k = 7 => Outstanding("reset", u)' = {}
      BY <1>5, <1>7, <1>16, <1>19, AccountsAssumption DEF Kinds
    <3>8. k = 8 => Outstanding("verify", u)' = {}
      BY <1>5, <1>7, <1>16, <1>19, AccountsAssumption DEF Kinds
    <3>9. Gone(m, u, k + 1)'
      BY <3>2, <3>3, <3>4, <3>5, <3>6, <3>7, <3>8 DEF Gone
    <3> QED
      BY <1>11, <3>1, <3>9
  <2>3. CASE "erase" \in raced'
    BY <2>3 DEF ErasureInv
  <2>4. CASE "erase" \notin raced'
    <3>1. Gone(m, u, k + 1)' /\ u = members'[m].user
      BY <1>2, <2>2, <2>4
    <3>2. ASSUME NEW v, NEW n, NEW y \in erased', v = members'[y].user,
                 n = IF v = None THEN 4 ELSE 9, y \notin erased
          PROVE  Gone(y, v, n)'
      <4>1. y = m /\ last
        BY <1>22, <3>2
      <4>2. v = u
        BY <3>1, <3>2, <4>1
      <4>3. k = 8 \/ (u = None /\ k = 3)
        BY <1>8, <4>1
      <4>4. n = k + 1
        BY <1>5, <3>2, <4>2, <4>3, AccountsAssumption
      <4> QED
        BY <3>1, <4>1, <4>2, <4>4
    <3>3. a.pc = "erase" => a.user = members'[a.member].user
      BY <1>20, <3>1
    <3>4. ASSUME NEW v, a.pc = "erase", v = a.user PROVE Gone(a.member, v, a.step)'
      BY <1>20, <3>1, <3>4
    <3> QED
      BY <1>1, <1>2, <1>11, <1>20, <2>1, <3>2, <3>3, <3>4, ErasureKept
  <2> QED
    BY <2>3, <2>4
<1> QED
  BY <1>23, <1>24, <1>25, <1>26, <1>27, <1>28 DEF AccountsInv

-----------------------------------------------------------------------------
(* The invariant holds at the start, and every step keeps it.              *)
LEMMA AccountsInvInit == AccountsInit => AccountsInv
<1> SUFFICES ASSUME AccountsInit PROVE AccountsInv
  OBVIOUS
<1> DEFINE holders == {m \in Members : Accepted[m] # None}
           holder(u) == CHOOSE m \in holders : Accepted[m] = u
           held(u) == \E m \in holders : Accepted[m] = u
<1>1. /\ users = [u \in Users |-> IF held(u)
                     THEN [email |-> Address[holder(u)], verified |-> TRUE] ELSE NoUser]
      /\ identities = [u \in Users |-> IF held(u)
                          THEN [email |-> Address[holder(u)], password |-> 0] ELSE NoIdentity]
      /\ sessions = [s \in Sessions |-> NoSession("unused")]
      /\ tokens = [t \in Tokens |-> NoToken("unused")]
      /\ members = [m \in Members |-> [email |-> Address[m], user |-> Accepted[m]]]
      /\ memberships = {[user |-> Accepted[m], member |-> m] : m \in holders}
      /\ calls = [c \in Callers |-> Idle]
      /\ killed = {} /\ erased = {} /\ raced = {} /\ workload \in Workloads
  BY DEF AccountsInit
<1>2. ASSUME NEW u, held(u) PROVE Address[holder(u)] \in Emails
  BY <1>2, AccountsAssumption
<1>3. ASSUME NEW u, ~held(u) PROVE \A m \in Members : Accepted[m] # u \/ u = None
  BY <1>3
<1>4. \A m \in Members : members[m].user = Accepted[m]
  BY <1>1
<1>5. \A s \in Sessions : sessions[s] = NoSession("unused") /\ sessions[s].user = None
                          /\ sessions[s].state = "unused"
  BY <1>1 DEF NoSession
<1>6. \A t \in Tokens : tokens[t] = NoToken("unused") /\ tokens[t].about = None
                        /\ tokens[t].state = "unused"
  BY <1>1 DEF NoToken
<1>7. \A c \in Callers : /\ calls[c] \in Call /\ CallShape(calls[c])
                         /\ calls[c].pc = "idle" /\ calls[c].user = None
  BY <1>1, IdleShape
<1>8. \A u \in Users : u # None
  BY AccountsAssumption
<1>9. \A u \in Users :
         IF held(u) THEN /\ users[u] \in User /\ users[u].verified = TRUE
                         /\ identities[u] \in Identity
                    ELSE users[u] = NoUser /\ identities[u] = NoIdentity
  <2> SUFFICES ASSUME NEW u \in Users
               PROVE  IF held(u) THEN /\ users[u] \in User /\ users[u].verified = TRUE
                                      /\ identities[u] \in Identity
                                 ELSE users[u] = NoUser /\ identities[u] = NoIdentity
    OBVIOUS
  <2>1. CASE held(u)
    <3>1. PICK e \in Emails : e = Address[holder(u)]
      BY <1>2, <2>1
    <3>2. /\ users[u] = [email |-> e, verified |-> TRUE]
          /\ identities[u] = [email |-> e, password |-> 0]
      BY <1>1, <2>1, <3>1
    <3> QED
      BY <2>1, <3>2 DEF User, Identity
  <2>2. CASE ~held(u)
    BY <1>1, <2>2
  <2> QED
    BY <2>1, <2>2
<1>10. \A m \in Members : Accepted[m] # None => Accepted[m] \in Users /\ held(Accepted[m])
  BY AccountsAssumption
<1> HIDE DEF holder, held
<1>11. AccountsTypeOK
  <2>1. users \in [Users -> User \cup {NoUser}] /\ identities \in [Users -> Identity \cup {NoIdentity}]
    BY <1>1, <1>9
  <2>2. members \in [Members -> Member]
    BY <1>1, AccountsAssumption DEF Member
  <2>3. memberships \subseteq [user : Users, member : Members]
    BY <1>1, <1>10
  <2>4. calls \in [Callers -> Call]
    BY <1>1, IdleShape
  <2> QED
    BY <1>1, <2>1, <2>2, <2>3, <2>4 DEF AccountsTypeOK
<1>12. TypesInv
  BY <1>6, <1>7, <1>11 DEF TypesInv, TokenShape
<1>13. UsersInv
  <2>1. ASSUME NEW u \in Users, users[u] = NoUser PROVE Clean(u)
    <3>1. ~held(u)
      <4>1. users[u] = NoUser => users[u].verified \notin BOOLEAN
        BY AccountsAssumption DEF NoUser
      <4>2. held(u) => users[u].verified \in BOOLEAN
        BY <1>9
      <4> QED
        BY <2>1, <4>1, <4>2
    <3>2. \A m \in Members : members[m].user # u
      BY <1>3, <1>4, <1>8, <3>1
    <3>3. ~Registered(u)
      BY <1>9, <3>1 DEF Registered
    <3>4. \A s \in Sessions : sessions[s].user # u
      BY <1>5, <1>8
    <3>5. \A t \in Tokens : tokens[t].about # u
      BY <1>6, <1>8
    <3> QED
      BY <3>2, <3>3, <3>4, <3>5 DEF Clean
  <2> QED
    BY <1>7, <1>8, <2>1 DEF UsersInv, Creating
<1>14. LinksInv
  <2>1. \A m, n \in Members :
           members[m].user = members[n].user => m = n \/ members[m].user = None
    BY <1>4, AccountsAssumption
  <2>2. \A row \in memberships : members[row.member].user = row.user
    BY <1>1, <1>4
  <2>3. \A m \in Members : members[m].user # None =>
           /\ users[members[m].user].verified = TRUE
           /\ [user |-> members[m].user, member |-> m] \in memberships
    BY <1>1, <1>4, <1>9, <1>10
  <2>4. LinkConsistent
    BY <2>1, <2>2, <2>3 DEF LinkConsistent
  <2> QED
    BY <1>7, <2>4 DEF LinksInv, Accepting, At
<1>15. TokensInv /\ OldPasswordOut /\ ErasureInv
  BY <1>1, <1>5, <1>6, <1>7 DEF TokensInv, OldPasswordOut, ErasureInv, Usable, At
<1> QED
  BY <1>12, <1>13, <1>14, <1>15 DEF AccountsInv

LEMMA AccountsInvStep == AccountsInv /\ [AccountsNext]_accountsVars => AccountsInv'
<1> SUFFICES ASSUME AccountsInv, [AccountsNext]_accountsVars PROVE AccountsInv'
  OBVIOUS
<1>1. ASSUME NEW c \in Callers, SessionRequest(c) PROVE AccountsInv'
  BY <1>1, LoginAllowed, PresentTokenAllowed, LogoutAllowed, ChangePasswordAllowed,
     RequestTokenAllowed, ConsumeKeeps
  DEF SessionRequest
<1>2. ASSUME NEW c \in Callers, SessionStep(c) PROVE AccountsInv'
  BY <1>2, StartSessionOpens, RetireRecorded, RetireExpiredRecorded, MintOpens,
     KillFamilyRecorded, SetPasswordKeeps, RevokeAllRecorded, ClearTokensKeeps,
     IssueTokenKeeps, MarkVerifiedKeeps
  DEF SessionStep
<1>3. ASSUME NEW c \in Callers, OnboardingRequest(c) PROVE AccountsInv'
  BY <1>3, RegisterAllowed, CreateInviteAllowed, RequestErasureAllowed DEF OnboardingRequest
<1>4. ASSUME NEW c \in Callers, OnboardingStep(c) PROVE AccountsInv'
  BY <1>4, FindCredentialRecorded, InsertUserKeeps, CompensateKeeps, InsertIdentityKeeps,
     RecheckRecorded, LinkMemberKeeps, CreateMembershipKeeps, EraseNextKeeps
  DEF OnboardingStep
<1>5. CASE UNCHANGED accountsVars
  <2>1. /\ UNCHANGED <<accountVars, memberships, calls, killed, raced, workload>>
        /\ UNCHANGED sessions /\ UNCHANGED tokens /\ UNCHANGED members /\ UNCHANGED erased
    BY <1>5 DEF accountsVars, tenantVars, history
  <2>2. SessionsFade /\ TokensFade /\ members' \in [Members -> Member]
    BY <2>1, UnchangedFade DEF AccountsInv, TypesInv, AccountsTypeOK
  <2> QED
    BY <2>1, <2>2, OutsideKeeps
<1> QED
  BY <1>1, <1>2, <1>3, <1>4, <1>5, CrashRecorded, EditMemberKeeps, ExpireKeeps
  DEF AccountsNext

-----------------------------------------------------------------------------
(***************************************************************************)
(* Every document and every call has its type, at every step of every      *)
(* handler of apps/api/src/auth, invites and gdpr: a session, a token or a *)
(* membership never names an account that does not exist.                  *)
(***************************************************************************)
THEOREM AccountsTyped == AccountsSpec => []AccountsTypeOK
<1>1. AccountsInv => AccountsTypeOK
  BY DEF AccountsInv, TypesInv
<1> QED
  BY <1>1, AccountsInvInit, AccountsInvStep, PTL DEF AccountsSpec

(***************************************************************************)
(* After a password has been changed or reset, no session lives that goes  *)
(* back to an older password, unless its login or rotation had passed the  *)
(* check before, or the request crashed between its two writes             *)
(* (auth.service.ts, changePassword and confirmPasswordReset).             *)
(***************************************************************************)
THEOREM OldSessionsEnd == AccountsSpec => []OldPasswordOut
<1>1. AccountsInv => OldPasswordOut
  BY DEF AccountsInv
<1> QED
  BY <1>1, AccountsInvInit, AccountsInvStep, PTL DEF AccountsSpec

(***************************************************************************)
(* Of the links of one kind mailed for an account or a member, only the    *)
(* newest works, unless two requests overlapped between the deletion of    *)
(* the old and the creation of the new (auth.service.ts, invites).         *)
(***************************************************************************)
THEOREM NewestLinkOnly == AccountsSpec => []OnlyNewestLink
<1>1. AccountsInv => OnlyNewestLink
  <2> SUFFICES ASSUME AccountsInv, "token" \notin raced, NEW kind \in Kinds,
                      NEW about \in Users \cup Members
               PROVE  Cardinality({t \in Outstanding(kind, about) : Usable(t)}) <= 1
    BY DEF OnlyNewestLink
  <2>1. \A s, t \in {t \in Outstanding(kind, about) : Usable(t)} : s = t
    BY DEF AccountsInv, TokensInv, Outstanding
  <2> QED
    BY <2>1, AtMostOne
<1> QED
  BY <1>1, AccountsInvInit, AccountsInvStep, PTL DEF AccountsSpec

(***************************************************************************)
(* Accounts, members and memberships agree, whatever registrations,        *)
(* acceptances, erasures and crashes interleave: no account has two        *)
(* members, and a linked member is in the tenant unless a crash or an      *)
(* erasure cut the acceptance short (invites.service.ts, acceptInvite).    *)
(***************************************************************************)
THEOREM LinksAgree == AccountsSpec => []LinkConsistent
<1>1. AccountsInv => LinkConsistent
  BY DEF AccountsInv, LinksInv
<1> QED
  BY <1>1, AccountsInvInit, AccountsInvStep, PTL DEF AccountsSpec

(***************************************************************************)
(* An erasure that has run to its end leaves nothing, and nothing comes    *)
(* back but what a request that had passed its checks before still writes  *)
(* (gdpr: the erasers of members, auth and invites).                       *)
(***************************************************************************)
THEOREM ErasedForGood == AccountsSpec => []ErasedIsGone
<1>1. AccountsInv => ErasedIsGone
  <2> SUFFICES ASSUME AccountsInv, "erase" \notin raced, NEW m \in erased,
                      NEW u, u = members[m].user
               PROVE  /\ \A row \in memberships : row.member # m
                      /\ Outstanding("invite", m) = {}
                      /\ u # None => /\ ~Registered(u)
                                     /\ SessionsOf(u) = {}
                                     /\ \A kind \in {"reset", "verify"} :
                                           Outstanding(kind, u) = {}
    BY DEF ErasedIsGone
  <2>1. PICK n \in {4, 9} : n = IF u = None THEN 4 ELSE 9
    OBVIOUS
  <2>2. Gone(m, u, n)
    BY <2>1 DEF AccountsInv, ErasureInv
  <2>3. u # None => n = 9
    BY <2>1
  <2> QED
    BY <2>2, <2>3 DEF Gone
<1> QED
  BY <1>1, AccountsInvInit, AccountsInvStep, PTL DEF AccountsSpec
=============================================================================
