------------------------------ MODULE Requests ------------------------------
(***************************************************************************)
(* Requests to the API within a tenant, from the tenancy middleware to the *)
(* audit trail: changes of members' records (members.service.ts), consents *)
(* (consent.service.ts) and broadcasts (broadcast.service.ts).             *)
(*                                                                         *)
(* The middleware loads what the actor may do once, at the start; every    *)
(* later step of the request goes by that, whatever has changed since.  An *)
(* action is the code from one database or mail call to the next.          *)
(***************************************************************************)
EXTENDS AuditTrail, Access, Sequences

CONSTANTS
    Users,
    Members,
    Home,           \* the tenant of each member
    Account,        \* the user of each member, or None
    Memberships,    \* the memberships at the start
    Edges,          \* the guardianships at the start
    MaxConsents,    \* bound: consents recorded for a user in a tenant
    Workloads       \* bound: what overlaps in a behaviour, the operations [ops], who
                    \* sends the requests [clients] and how much they do [acts]

ASSUME RequestsAssumption ==
    /\ Home \in [Members -> Tenants]
    /\ Account \in [Members -> Users \cup {None}]
    /\ None \notin Users \cup Members \cup Tenants /\ None \notin Nat
    /\ \A ms \in Memberships : \A a \in ms.roles : None \notin a.scope
    /\ MaxConsents \in Nat
    /\ \A w \in Workloads :
          /\ w.ops \subseteq {"members", "consent", "broadcast", "revoke", "crash"}
          /\ w.clients \subseteq Tenants \X Users
          /\ w.acts \in 0..MaxActs

VARIABLES
    memberships,    \* [tenant, user, member, roles], at most one of a user in a tenant
    edges,          \* guardianships [tenant, guardian, minor, grants, revoked]
    records,        \* the members that exist
    consents,       \* the consents of each user in each tenant, oldest first
    calls,          \* what each caller is in the middle of
    acts,           \* history: what has been done that must be audited
    mails,          \* history: the marketing mails sent
    lost,           \* history: acts whose request died or ran out of attempts
    workload        \* the operations this behaviour is made of

tenantData == <<memberships, edges, records, consents>>
ghosts == <<acts, mails, lost, workload>>
requestsVars == <<auditVars, tenantData, calls, ghosts>>

Kinds == {"create", "update", "profile", "delete", "grant", "withdraw", "broadcast"}
Act == [id : Acts, tenant : Tenants, kind : Kinds, entitled : BOOLEAN, stale : BOOLEAN]

\* actor: what the middleware has loaded.  todo: the deliveries of a broadcast
\* under way, each at its next step.  stale: the users who have lost rights or
\* withdrawn their consent since the call began (history).
Nobody == [user |-> None, member |-> None, roles |-> {}, edges |-> {}]
Idle ==
    [pc |-> "idle", tenant |-> None, actor |-> Nobody, kind |-> None, target |-> None,
     act |-> None, todo |-> {}, stale |-> {}]

RequestsInit ==
    /\ AuditInit
    /\ memberships = Memberships
    /\ edges = Edges
    /\ records = Members
    /\ consents = [t \in Tenants |-> [u \in Users |-> <<>>]]
    /\ calls = [c \in Callers |-> Idle]
    /\ acts = {}
    /\ mails = {}
    /\ lost = {}
    /\ workload \in Workloads

Continue(c, call) == calls' = [calls EXCEPT ![c] = call]
End(c) == Continue(c, Idle)
At(c, pc) == calls[c].pc = pc

FreshAct == Cardinality(acts) + 1
\* Every query of a guarded collection is scoped to the tenant of the request.
\* A slip to catch: it is not.
Everything(t) == records
Visible(t) == {m \in records : Home[m] = t}

Current(t, u) == IF consents[t][u] = <<>> THEN "none" ELSE consents[t][u][Len(consents[t][u])]
Stale(changes) == [c \in Callers |-> IF calls[c].pc = "idle" THEN calls[c]
                    ELSE [calls[c] EXCEPT !.stale = @ \cup changes]]

-----------------------------------------------------------------------------
(* The tenancy middleware.                                                 *)
ResolveMembership(c, t, u) ==
    LET mine == {ms \in memberships : ms.tenant = t /\ ms.user = u}
    IN  /\ At(c, "idle")
        /\ \/ mine = {} /\ Continue(c, [Idle EXCEPT !.pc = "edges", !.tenant = t,
                                            !.actor = [Nobody EXCEPT !.user = u]])
           \/ \E ms \in mine :
                 Continue(c, [Idle EXCEPT !.pc = "edges", !.tenant = t,
                     !.actor = [Nobody EXCEPT !.user = u, !.member = ms.member,
                                              !.roles = ms.roles]])
        /\ UNCHANGED <<auditVars, tenantData, ghosts>>

ListByGuardian(t, u) == {e \in edges : e.tenant = t /\ e.guardian = u /\ ~e.revoked}

LoadEdges(c) ==
    /\ At(c, "edges")
    /\ Continue(c, [calls[c] EXCEPT !.pc = "act",
                        !.actor.edges = ListByGuardian(calls[c].tenant, calls[c].actor.user)])
    /\ UNCHANGED <<auditVars, tenantData, ghosts>>

-----------------------------------------------------------------------------
(* MembersService.                                                         *)
\* The check of each operation; update looks the member up first, to name the
\* owner of the record.
Allowed(actor, t, kind, m) ==
    CASE kind = "create"  -> Can(actor, <<"member", "create">>, None, None)
      [] kind = "update"  -> m \in Visible(t) /\ Can(actor, <<"member", "update">>, None, m)
      [] kind = "delete"  -> Can(actor, <<"member", "delete">>, None, None)
      [] kind = "profile" -> m = actor.member

RequestChange(c, kind, m) ==
    /\ At(c, "act")
    /\ kind \in {"create", "update", "profile", "delete"}
    /\ kind = "create" => m \notin records /\ Home[m] = calls[c].tenant
    /\ IF Allowed(calls[c].actor, calls[c].tenant, kind, m)
       THEN Continue(c, [calls[c] EXCEPT !.pc = "write", !.kind = kind, !.target = m])
       ELSE End(c)
    /\ UNCHANGED <<auditVars, tenantData, ghosts>>

\* Who may change the record of member m in tenant t, as things stand.
Entitled(u, t, kind, m) ==
    /\ Home[m] = t
    /\ \/ \E ms \in memberships :
             /\ ms.tenant = t /\ ms.user = u
             /\ \/ \E a \in ms.roles : /\ "ALL" \in a.scope
                                       /\ a.role \in {"owner", "staff"}
                                       /\ a.role = "staff" => kind # "delete"
                \/ kind \in {"update", "profile"} /\ ms.member = m
       \/ /\ kind = "update"
          /\ \E e \in edges : /\ e.tenant = t /\ e.guardian = u /\ e.minor = m
                              /\ ~e.revoked /\ <<"member", "update">> \in e.grants

Did(c, entitled) ==
    acts' = acts \cup {[id |-> FreshAct, tenant |-> calls[c].tenant, kind |-> calls[c].kind,
                        entitled |-> entitled, stale |-> <<"rights", calls[c].actor.user>> \in calls[c].stale]}

\* The write, after which the act is to be audited.
WriteMember(c) ==
    LET call == calls[c]
        m == call.target
    IN  /\ At(c, "write")
        /\ IF call.kind # "create" /\ m \notin Visible(call.tenant)
           THEN /\ End(c)
                /\ UNCHANGED <<records, acts, appends>>
           ELSE /\ Cardinality(acts) < workload.acts
                /\ records' = CASE call.kind = "create" -> records \cup {m}
                                [] call.kind = "delete" -> records \ {m}
                                [] OTHER -> records
                /\ Did(c, Entitled(call.actor.user, call.tenant, call.kind, m))
                /\ StartAppend(c, call.tenant, FreshAct)
                /\ Continue(c, [call EXCEPT !.pc = "audit", !.act = FreshAct])
        /\ UNCHANGED <<log, memberships, edges, consents, mails, lost, workload>>

-----------------------------------------------------------------------------
(* ConsentService, for one purpose: marketing mail.                        *)
RecordConsent(c, kind, status) ==
    LET t == calls[c].tenant
        u == calls[c].actor.user
        next == [calls[c] EXCEPT !.pc = "audit", !.kind = kind, !.act = FreshAct]
    IN  /\ Cardinality(acts) < workload.acts /\ Len(consents[t][u]) < MaxConsents
        /\ consents' = [consents EXCEPT ![t][u] = Append(@, status)]
        /\ acts' = acts \cup {[id |-> FreshAct, tenant |-> t, kind |-> kind,
                               entitled |-> TRUE, stale |-> FALSE]}
        /\ StartAppend(c, t, FreshAct)
        /\ calls' = [Stale(IF kind = "withdraw" THEN {<<"consent", u>>} ELSE {}) EXCEPT ![c] = next]
        /\ UNCHANGED <<log, memberships, edges, records, mails, lost, workload>>

Grant(c) == At(c, "act") /\ RecordConsent(c, "grant", "granted")

ReadConsent(c) ==
    /\ At(c, "act")
    /\ IF Current(calls[c].tenant, calls[c].actor.user) = "granted"
       THEN Continue(c, [calls[c] EXCEPT !.pc = "withdraw"])
       ELSE End(c)
    /\ UNCHANGED <<auditVars, tenantData, ghosts>>

Withdraw(c) == At(c, "withdraw") /\ RecordConsent(c, "withdraw", "withdrawn")

-----------------------------------------------------------------------------
(* BroadcastService, marketing by mail to all members of the tenant.  The  *)
(* deliveries run side by side, fewer of them than SEND_CONCURRENCY.       *)
StartBroadcast(c) ==
    /\ At(c, "act")
    /\ IF Can(calls[c].actor, <<"announcement", "create">>, None, None)
       THEN /\ Cardinality(acts) < workload.acts
            /\ Continue(c, [calls[c] EXCEPT !.pc = "send", !.kind = "broadcast", !.act = FreshAct,
                               !.todo = Visible(calls[c].tenant) \X {"check"}])
            /\ acts' = acts \cup {[id |-> FreshAct, tenant |-> calls[c].tenant,
                                   kind |-> "broadcast", entitled |-> TRUE, stale |-> FALSE]}
       ELSE End(c) /\ UNCHANGED acts
    /\ UNCHANGED <<auditVars, tenantData, mails, lost, workload>>

MoveDelivery(c, m, from, to) ==
    Continue(c, [calls[c] EXCEPT !.todo = (@ \ {<<m, from>>}) \cup {<<m, to>>}])

\* A member without an account has no consent.
Consenting(t, m) == Account[m] # None /\ Current(t, Account[m]) = "granted"

CheckConsent(c, m) ==
    /\ <<m, "check">> \in calls[c].todo
    /\ MoveDelivery(c, m, "check", IF Consenting(calls[c].tenant, m) THEN "send" ELSE "log")
    /\ UNCHANGED <<auditVars, tenantData, ghosts>>

\* The mail is sent, or its provider refuses it.
SendMail(c, m) ==
    LET mail == [member |-> m, broadcast |-> calls[c].act,
                 consented |-> Consenting(calls[c].tenant, m),
                 stale |-> <<"consent", Account[m]>> \in calls[c].stale]
    IN  /\ <<m, "send">> \in calls[c].todo
        /\ mails' \in {mails, mails \cup {mail}}
        /\ MoveDelivery(c, m, "send", "log")
        /\ UNCHANGED <<auditVars, tenantData, acts, lost, workload>>

\* The outcome is recorded; after the last one the broadcast is audited.
LogDelivery(c, m) ==
    LET left == calls[c].todo \ {<<m, "log">>}
    IN  /\ <<m, "log">> \in calls[c].todo
        /\ IF left # {}
           THEN Continue(c, [calls[c] EXCEPT !.todo = left]) /\ UNCHANGED appends
           ELSE /\ Continue(c, [calls[c] EXCEPT !.todo = {}, !.pc = "audit"])
                /\ StartAppend(c, calls[c].tenant, calls[c].act)
        /\ UNCHANGED <<log, tenantData, ghosts>>

\* A broadcast to nobody is audited too.
NobodyToMail(c) ==
    /\ At(c, "send") /\ calls[c].todo = {}
    /\ Continue(c, [calls[c] EXCEPT !.pc = "audit"])
    /\ StartAppend(c, calls[c].tenant, calls[c].act)
    /\ UNCHANGED <<log, tenantData, ghosts>>

-----------------------------------------------------------------------------
(* The audit of an act, and the end of the request.                        *)
AppendStep(c) ==
    \/ ReadHead(c) /\ UNCHANGED <<calls, lost>>
    \/ /\ CreateEntry(c)
       /\ IF appends'[c].pc = "none" THEN End(c) ELSE UNCHANGED calls
       /\ UNCHANGED lost
    \/ GiveUp(c) /\ End(c) /\ lost' = lost \cup {calls[c].act}

-----------------------------------------------------------------------------
(* What takes rights away under a request: the revocation of an edge, and  *)
(* the deletion of memberships by an erasure.  And crashes.                *)
RevokeEdge(e) ==
    /\ ~e.revoked
    /\ edges' = (edges \ {e}) \cup {[e EXCEPT !.revoked = TRUE]}
    /\ calls' = Stale({<<"rights", e.guardian>>})
    /\ UNCHANGED <<auditVars, memberships, records, consents, ghosts>>

DeleteMembership(ms) ==
    /\ memberships' = memberships \ {ms}
    /\ calls' = Stale({<<"rights", ms.user>>})
    /\ UNCHANGED <<auditVars, edges, records, consents, ghosts>>

Crash(c) ==
    /\ ~At(c, "idle")
    /\ End(c)
    /\ appends' = [appends EXCEPT ![c] = NoAppend]
    /\ lost' = lost \cup ({calls[c].act} \ {None})
    /\ UNCHANGED <<log, tenantData, acts, mails, workload>>

RequestsNext ==
    \/ \E c \in Callers :
          \/ \E client \in workload.clients : ResolveMembership(c, client[1], client[2])
          \/ LoadEdges(c)
          \/ /\ "members" \in workload.ops
             /\ \E m \in Members : \E kind \in Kinds : RequestChange(c, kind, m)
          \/ WriteMember(c)
          \/ "consent" \in workload.ops /\ (Grant(c) \/ ReadConsent(c))
          \/ Withdraw(c)
          \/ "broadcast" \in workload.ops /\ StartBroadcast(c)
          \/ \E m \in Members : CheckConsent(c, m) \/ SendMail(c, m) \/ LogDelivery(c, m)
          \/ NobodyToMail(c)
          \/ AppendStep(c) /\ UNCHANGED <<tenantData, acts, mails, workload>>
          \/ "crash" \in workload.ops /\ Crash(c)
    \/ /\ "revoke" \in workload.ops
       /\ \/ \E e \in edges : RevokeEdge(e)
          \/ \E ms \in memberships : DeleteMembership(ms)

RequestsSpec == RequestsInit /\ [][RequestsNext]_requestsVars

-----------------------------------------------------------------------------
(* Properties.                                                             *)
\* Whatever changes a member's record is done by someone who may at that time,
\* in the member's own tenant, and a marketing mail goes to a member who has
\* consented; unless the right or the consent was taken back while the request
\* was under way, which goes by what it has loaded.
OnlyWhatIsAllowed ==
    /\ \A a \in acts : (a.entitled \/ a.stale)
    /\ \A mail \in mails : (mail.consented \/ mail.stale)

\* Everything done is in the audit trail of its tenant once, or its request is
\* still at it, or it died or lost too many races between the two writes; and
\* nothing is in the trail that was not done.
EveryActAudited ==
    /\ \A a \in acts :
          LET entries == {e \in log : e.act = a.id}
              pending == {c \in Callers : calls[c].act = a.id}
          IN  Cardinality(entries) + Cardinality(pending)
                  = IF a.id \in lost THEN 0 ELSE 1
    /\ \A e \in log : \E a \in acts : a.id = e.act /\ a.tenant = e.tenant
=============================================================================
