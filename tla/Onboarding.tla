----------------------------- MODULE Onboarding -----------------------------
(***************************************************************************)
(* How a member gets an account and how both are erased: registration with *)
(* its compensation (identity-store.ts, the local auth adapter), the       *)
(* invite of a member and its acceptance (member-invite.service.ts), and   *)
(* the right to erasure (erasure-service.ts).                              *)
(***************************************************************************)
EXTENDS AuthSessions, Sequences

-----------------------------------------------------------------------------
(* Registration: the user, then the identity; if that fails, the user is   *)
(* deleted again.                                                          *)
Register(c, e) ==
    /\ At(c, "idle")
    /\ Continue(c, [Idle EXCEPT !.pc = "find", !.op = "register", !.email = e])
    /\ UNCHANGED <<accountVars, sessions, tokens, tenantVars, history>>

FindCredential(c) ==
    /\ At(c, "find")
    /\ IF WithIdentity(calls[c].email) = {} THEN Goto(c, "user") ELSE End(c)
    /\ UNCHANGED <<accountVars, sessions, tokens, tenantVars, history>>

InsertUser(c) ==
    LET e == calls[c].email
    IN  /\ At(c, "user")
        /\ IF EmailTaken(e)
           THEN End(c) /\ UNCHANGED users
           ELSE /\ NewUsers # {}
                /\ users' = [users EXCEPT ![Fresh(NewUsers)] = [email |-> e, verified |-> FALSE]]
                /\ Continue(c, [calls[c] EXCEPT !.pc = "identity", !.user = Fresh(NewUsers)])
        /\ UNCHANGED <<identities, sessions, tokens, tenantVars, history>>

\* Who registers is logged in; who accepts an invite is marked verified first.
InsertIdentity(c, fails) ==
    LET u == calls[c].user
    IN  /\ At(c, "identity")
        /\ IF fails \/ IdentityTaken(calls[c].email)
           THEN Goto(c, "compensate") /\ UNCHANGED identities
           ELSE /\ identities' = [identities EXCEPT ![u] =
                                     [email |-> calls[c].email, password |-> 0]]
                /\ Goto(c, IF calls[c].op = "accept" THEN "verify" ELSE "start")
        /\ UNCHANGED <<users, sessions, tokens, tenantVars, history>>

Compensate(c) ==
    /\ At(c, "compensate")
    /\ users' = [users EXCEPT ![calls[c].user] = NoUser]
    /\ End(c)
    /\ UNCHANGED <<identities, sessions, tokens, tenantVars, history>>

-----------------------------------------------------------------------------
(* MemberInviteService.                                                    *)
\* createInvite goes on with ClearTokens and IssueToken.
CreateInvite(c, m) ==
    /\ At(c, "idle")
    /\ members[m].email # None /\ members[m].user = None
    /\ Continue(c, [Idle EXCEPT !.pc = "clear", !.op = "invite", !.member = m,
                                !.email = members[m].email])
    /\ UNCHANGED <<accountVars, sessions, tokens, tenantVars, history>>

\* acceptInvite begins with Consume; the rest of it follows.
Recheck(c) ==
    /\ At(c, "recheck")
    /\ IF members[calls[c].member].user = None THEN Goto(c, "find") ELSE End(c)
    /\ UNCHANGED <<accountVars, sessions, tokens, tenantVars, history>>

LinkMember(c) ==
    LET m == calls[c].member
    IN  /\ At(c, "link")
        /\ IF Linkable(m)
           THEN /\ members' = [members EXCEPT ![m].user = calls[c].user]
                /\ Goto(c, "membership")
           ELSE End(c) /\ UNCHANGED members
        /\ raced' = raced \cup (IF Erasing(m) THEN {"erase"} ELSE {})
        /\ UNCHANGED <<accountVars, sessions, tokens, memberships, killed, erased, workload>>

CreateMembership(c) ==
    LET u == calls[c].user
        m == calls[c].member
    IN  /\ At(c, "membership")
        /\ IF \E row \in memberships : row.user = u
           THEN End(c) /\ UNCHANGED memberships
           ELSE /\ memberships' = memberships \cup {[user |-> u, member |-> m]}
                /\ Goto(c, "start")
        /\ raced' = raced \cup (IF Erasing(m) THEN {"erase"} ELSE {})
        /\ UNCHANGED <<accountVars, sessions, tokens, members, killed, erased, workload>>

\* Staff edit a member's address, unique in the tenant.  An erased member who
\* never had an account can then be invited again, and counts as not erased.
EditMember(m, e) ==
    /\ \A n \in Members \ {m} : members[n].email # e
    /\ members' = [members EXCEPT ![m].email = e]
    /\ erased' = IF members[m].user = None THEN erased \ {m} ELSE erased
    /\ UNCHANGED <<accountVars, sessions, tokens, memberships, calls, killed, raced, workload>>

-----------------------------------------------------------------------------
(* ErasureService.eraseMember: the walk over the collections of this model *)
(* in the order of eraseMemberSubject.  The last ones belong to the linked *)
(* account.                                                                *)
\* A slip to catch: the sessions go first.
SessionsFirst ==
    <<"membership", "invite", "session", "member", "user", "identity", "reset", "verify">>
ErasureSteps ==
    <<"membership", "invite", "member", "user", "identity", "session", "reset", "verify">>

RequestErasure(c, m) ==
    /\ At(c, "idle")
    /\ Continue(c, [Idle EXCEPT !.pc = "erase", !.op = "erase", !.member = m,
                                !.user = members[m].user, !.step = 1])
    /\ UNCHANGED <<accountVars, sessions, tokens, tenantVars, history>>

\* The step before the account's own is the last for a member without one.
LastStep(call) ==
    \/ call.step = Len(ErasureSteps)
    \/ call.user = None /\ ErasureSteps[call.step] = "member"

EraseNext(c) ==
    LET m == calls[c].member
        u == calls[c].user
        step == ErasureSteps[calls[c].step]
    IN  /\ At(c, "erase")
        /\ memberships' = IF step = "membership" THEN {row \in memberships : row.member # m}
                                                 ELSE memberships
        /\ members' = IF step = "member" THEN [members EXCEPT ![m].email = None] ELSE members
        /\ users' = IF step = "user" /\ users[u] # NoUser
                    THEN [users EXCEPT ![u].email = None] ELSE users
        /\ identities' = IF step = "identity" THEN [identities EXCEPT ![u] = NoIdentity]
                                              ELSE identities
        /\ sessions' = IF step = "session"
                       THEN [s \in Sessions |-> IF sessions[s].user = u THEN NoSession("deleted")
                                                                        ELSE sessions[s]]
                       ELSE sessions
        /\ IF step \in Kinds
           THEN DeleteTokens(Outstanding(step, IF step = "invite" THEN m ELSE u))
           ELSE UNCHANGED tokens
        /\ IF LastStep(calls[c])
           THEN End(c) /\ erased' = erased \cup {m}
           ELSE Continue(c, [calls[c] EXCEPT !.step = @ + 1]) /\ UNCHANGED erased
        /\ UNCHANGED <<killed, raced, workload>>

OnboardingStep(c) ==
    \/ FindCredential(c) \/ InsertUser(c) \/ Compensate(c)
    \/ \E fails \in BOOLEAN : (fails => "crash" \in workload) /\ InsertIdentity(c, fails)
    \/ Recheck(c) \/ LinkMember(c) \/ CreateMembership(c) \/ EraseNext(c)

OnboardingRequest(c) ==
    \/ "register" \in workload /\ \E e \in Emails : Register(c, e)
    \/ "invite" \in workload /\ \E m \in Members : CreateInvite(c, m)
    \/ "erase" \in workload /\ \E m \in Members : RequestErasure(c, m)

AccountsNext ==
    \/ \E c \in Callers :
          \/ SessionRequest(c) \/ SessionStep(c)
          \/ OnboardingRequest(c) \/ OnboardingStep(c)
          \/ "crash" \in workload /\ Crash(c)
    \/ "edit" \in workload /\ \E m \in Members, e \in Emails : EditMember(m, e)
    \/ "expire" \in workload /\ Expire

AccountsSpec == AccountsInit /\ [][AccountsNext]_accountsVars
=============================================================================
