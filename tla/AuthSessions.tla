---------------------------- MODULE AuthSessions ----------------------------
(***************************************************************************)
(* AuthService and TokenService (apps/api/src/auth): login, rotation of    *)
(* refresh tokens with detection of their reuse, logout, change and reset  *)
(* of a password, verification of an e-mail address.                       *)
(*                                                                         *)
(* An action is the code from one database call to the next.  Access       *)
(* tokens are not stored: a caller who has one may change a password until *)
(* it runs out, whatever has become of the session.                        *)
(***************************************************************************)
EXTENDS AccountStore

-----------------------------------------------------------------------------
(* AuthService.login, then TokenService.startSession.                      *)
Login(c, u) ==
    /\ At(c, "idle")
    /\ Registered(u)
    /\ Continue(c, [Idle EXCEPT !.pc = "start", !.op = "login", !.user = u,
                                !.proof = identities[u].password])
    /\ UNCHANGED <<accountVars, sessions, tokens, tenantVars, history>>

\* A session is minted on a stale read if the account has lost its credential
\* since it was checked, or got another password.
Staleness(call) ==
    CASE ~Registered(call.user) -> {"erase"}
      [] Registered(call.user) /\ identities[call.user].password # call.proof -> {"password"}
      [] OTHER -> {}

StartSession(c) ==
    LET u == calls[c].user
    IN  /\ At(c, "start")
        /\ Unused(sessions) # {}
        /\ CreateSession(u, FreshSession, calls[c].proof)
        /\ End(c)
        /\ raced' = raced \cup Staleness(calls[c])
        /\ UNCHANGED <<accountVars, tokens, tenantVars, killed, erased, workload>>

-----------------------------------------------------------------------------
(* TokenService.rotate and revoke.  Any refresh token that was ever issued *)
(* may be presented; a deleted row is an unknown token.                    *)
PresentToken(c, s) ==
    LET session == sessions[s]
    IN  /\ At(c, "idle")
        /\ session.state \in {"live", "revoked"}
        /\ Continue(c, [Idle EXCEPT
               !.pc = IF session.state = "revoked" THEN "kill"
                      ELSE IF session.expired THEN "retireExpired" ELSE "retire",
               !.op = "rotate", !.user = session.user, !.session = s,
               !.family = session.family, !.proof = session.proof])
        /\ UNCHANGED <<accountVars, sessions, tokens, tenantVars, history>>

\* A slip to catch: the swap without the compare.
AlwaysWon(s) == TRUE
WonRetirement(s) == sessions[s].state = "live"

Retire(c) ==
    LET s == calls[c].session
    IN  /\ At(c, "retire")
        /\ Revoke({s})
        /\ Goto(c, IF WonRetirement(s) THEN "mint" ELSE "kill")
        /\ UNCHANGED <<accountVars, tokens, tenantVars, history>>

RetireExpired(c) ==
    /\ At(c, "retireExpired")
    /\ Revoke({calls[c].session})
    /\ End(c)
    /\ UNCHANGED <<accountVars, tokens, tenantVars, history>>

Mint(c) ==
    LET call == calls[c]
    IN  /\ At(c, "mint")
        /\ Unused(sessions) # {}
        /\ CreateSession(call.user, call.family, call.proof)
        /\ End(c)
        /\ raced' = raced \cup Staleness(call)
        /\ UNCHANGED <<accountVars, tokens, tenantVars, killed, erased, workload>>

\* A retired token, or a lost swap: the whole family goes.
KillFamily(c) ==
    /\ At(c, "kill")
    /\ Revoke(LiveIn(calls[c].family))
    /\ End(c)
    /\ killed' = killed \cup {calls[c].family}
    /\ UNCHANGED <<accountVars, tokens, tenantVars, erased, raced, workload>>

Logout(c, s) ==
    /\ At(c, "idle")
    /\ sessions[s].state \in {"live", "revoked"}
    /\ Continue(c, [Idle EXCEPT !.pc = "kill", !.op = "rotate",
                                !.family = sessions[s].family])
    /\ UNCHANGED <<accountVars, sessions, tokens, tenantVars, history>>

-----------------------------------------------------------------------------
(* AuthService.changePassword and confirmPasswordReset.                    *)
ChangePassword(c, u) ==
    /\ At(c, "idle")
    /\ Registered(u) /\ users[u].email = identities[u].email
    /\ Continue(c, [Idle EXCEPT !.pc = "set", !.op = "change", !.user = u])
    /\ UNCHANGED <<accountVars, sessions, tokens, tenantVars, history>>

\* The account may have lost its credential: the request then ends in error.
SetPassword(c) ==
    LET u == calls[c].user
    IN  /\ At(c, "set")
        /\ IF Registered(u)
           THEN /\ identities[u].password < MaxPasswords
                /\ identities' = [identities EXCEPT ![u].password = @ + 1]
                /\ Continue(c, [calls[c] EXCEPT !.pc = "revokeAll",
                                                !.proof = identities[u].password + 1])
           ELSE /\ End(c)
                /\ UNCHANGED identities
        /\ UNCHANGED <<users, sessions, tokens, tenantVars, history>>

\* A slip to catch: the newest session of the user is kept.
AllButNewest(u) ==
    {s \in Sessions : sessions[s].user = u
                      /\ \E t \in Sessions : sessions[t].user = u /\ t > s}
SessionsOf(u) == {s \in Sessions : sessions[s].user = u}

\* Who changes the password goes on with a session of their own.
RevokeAll(c) ==
    /\ At(c, "revokeAll")
    /\ Revoke(SessionsOf(calls[c].user))
    /\ IF calls[c].op = "change" THEN Goto(c, "start") ELSE End(c)
    /\ UNCHANGED <<accountVars, tokens, tenantVars, history>>

-----------------------------------------------------------------------------
(* Password reset and e-mail verification by one-time token: a request     *)
(* deletes the older tokens, then creates one; the link consumes it.       *)
RequestToken(c, kind, u) ==
    /\ At(c, "idle")
    /\ kind \in {"reset", "verify"}
    /\ Registered(u)
    /\ Continue(c, [Idle EXCEPT !.pc = "clear", !.op = kind, !.user = u,
                                !.email = identities[u].email])
    /\ UNCHANGED <<accountVars, sessions, tokens, tenantVars, history>>

\* The subject of the tokens a call deletes and creates.
Subject(call) == IF call.op = "invite" THEN call.member ELSE call.user

\* A slip to catch: the older tokens stay.
NoneCleared(call) == {}
Cleared(call) == Outstanding(call.op, Subject(call))

ClearTokens(c) ==
    /\ At(c, "clear")
    /\ DeleteTokens(Cleared(calls[c]))
    /\ Goto(c, "issue")
    /\ UNCHANGED <<accountVars, sessions, tenantVars, history>>

\* The credential may be gone by now, or the member of an invite about to be,
\* and another request may be between the same two writes.
IssueToken(c) ==
    LET call == calls[c]
        gone == IF call.op = "invite" THEN Erasing(call.member)
                                      ELSE ~Registered(call.user)
        both == \E d \in Callers \ {c} :
                    /\ calls[d].pc = "issue" /\ calls[d].op = call.op
                    /\ Subject(calls[d]) = Subject(call)
    IN  /\ At(c, "issue")
        /\ Unused(tokens) # {}
        /\ tokens' = [tokens EXCEPT ![Fresh(Unused(tokens))] =
                         [state |-> "usable", kind |-> call.op, about |-> Subject(call),
                          email |-> call.email]]
        /\ End(c)
        /\ raced' = raced \cup (IF gone THEN {"erase"} ELSE {})
                          \cup (IF both THEN {"token"} ELSE {})
        /\ UNCHANGED <<accountVars, sessions, tenantVars, killed, erased, workload>>

\* The step that follows the consumption of a token.
AfterConsume(kind) ==
    CASE kind = "reset" -> "set" [] kind = "verify" -> "verify" [] OTHER -> "recheck"

Consume(c, t) ==
    LET token == tokens[t]
    IN  /\ At(c, "idle")
        /\ Usable(t)
        /\ tokens' = [tokens EXCEPT ![t].state = "used"]
        /\ Continue(c, [Idle EXCEPT
               !.pc = AfterConsume(token.kind),
               !.op = IF token.kind = "invite" THEN "accept" ELSE token.kind,
               !.user = IF token.kind = "invite" THEN None ELSE token.about,
               !.member = IF token.kind = "invite" THEN token.about ELSE None,
               !.email = token.email])
        /\ UNCHANGED <<accountVars, sessions, tenantVars, history>>

\* markVerified writes the user, then the identity; who accepts an invite goes
\* on to be linked.
MarkVerified(c) ==
    LET u == calls[c].user
    IN  /\ At(c, "verify")
        /\ users' = IF users[u] = NoUser THEN users ELSE [users EXCEPT ![u].verified = TRUE]
        /\ IF calls[c].op = "accept" THEN Goto(c, "link") ELSE End(c)
        /\ UNCHANGED <<identities, sessions, tokens, tenantVars, history>>

SessionStep(c) ==
    \/ StartSession(c) \/ Retire(c) \/ RetireExpired(c) \/ Mint(c) \/ KillFamily(c)
    \/ SetPassword(c) \/ RevokeAll(c) \/ ClearTokens(c) \/ IssueToken(c) \/ MarkVerified(c)

SessionRequest(c) ==
    \/ /\ "login" \in workload
       /\ \/ \E u \in Users : Login(c, u)
          \/ \E s \in Sessions : PresentToken(c, s) \/ Logout(c, s)
    \/ "change" \in workload /\ \E u \in Users : ChangePassword(c, u)
    \/ \E kind \in workload, u \in Users : RequestToken(c, kind, u)
    \/ \E t \in Tokens : Consume(c, t)
=============================================================================
