--------------------------- MODULE RequestProofs ---------------------------
(***************************************************************************)
(* What requests leave behind is in order: proofs, for every number of     *)
(* requests, tenants, members and attempts, of                             *)
(*   - ChainVerifies: the audit chain of a tenant is one chain;            *)
(*   - OnlyWhatIsAllowed: nobody changes or reads what they may not;       *)
(*   - EveryActAudited: what is done is on the trail, or about to be;      *)
(*   - SameVersionSameText: what a signature of a waiver is for;           *)
(*   - EmailIsOneMembers: an e-mail is one member's;                       *)
(*   - Isolation: no call of a tenant reaches another's rows;              *)
(*   - ShowsOwnChanges: what a tab has changed is what it shows.           *)
(*                                                                         *)
(* None is inductive alone.  An append between its two steps holds a hash  *)
(* it has read: the trail only grows, so that hash stays one of the trail  *)
(* (HeadKnown), and the unique indexes refuse a second successor to it.  A *)
(* request that has passed its checks holds a right that nothing takes     *)
(* away before it acts (RightsHeld, Passed, Agreed).  An act is in one     *)
(* place only, on its way to the trail or on it (InFlight, Somewhere,      *)
(* OnePlace).  A signature is about to be stored with the version and the  *)
(* text that were read together (Pinned).  The column that the unique      *)
(* index of e-mails is on is, in every row, what its name says (RowOK).    *)
(* An aggregation is clean after each of its stages (Clean), as each is if *)
(* those nested in it are.  What a tab's cache holds is current, or marked *)
(* and being asked for (EntryCurrent).                                     *)
(***************************************************************************)
EXTENDS Requests, Waivers, Catalogue, TenantGuard, Pages, FiniteSetTheorems,
        WellFoundedInduction, TLAPS

(* An append has the fields of one, in every state.                         *)
IsCall(a) ==
    a \in [pc : {a.pc}, tenant : {a.tenant}, act : {a.act}, head : {a.head},
           attempts : {a.attempts}]

CallsTyped ==
    /\ appends = [c \in Callers |-> appends[c]]
    /\ \A c \in Callers : IsCall(appends[c])

Sequenced == \A e \in log : e.seq \in Nat

KnownTo(a) == a.head = Null \/ \E p \in EntriesOf(a.tenant) : p.seq = a.head

HeadKnown == \A c \in Callers : appends[c].pc = "create" => KnownTo(appends[c])

AuditInv == CallsTyped /\ Sequenced /\ HeadKnown /\ ChainVerifies

LEMMA CallUpdate ==
  ASSUME NEW a, IsCall(a), NEW pc, NEW n
  PROVE  [a EXCEPT !.pc = pc, !.attempts = n] \in
            [pc : {pc}, tenant : {a.tenant}, act : {a.act}, head : {a.head}, attempts : {n}]
<1>1. [a EXCEPT !.pc = pc] \in
            [pc : {pc}, tenant : {a.tenant}, act : {a.act}, head : {a.head}, attempts : {a.attempts}]
  BY DEF IsCall
<1>2. ASSUME NEW b, b \in [pc : {pc}, tenant : {a.tenant}, act : {a.act}, head : {a.head}, attempts : {a.attempts}]
      PROVE [b EXCEPT !.attempts = n] \in
            [pc : {pc}, tenant : {a.tenant}, act : {a.act}, head : {a.head}, attempts : {n}]
  BY <1>2
<1> QED
  BY <1>1, <1>2

LEMMA AuditInvInit == RequestsInit => AuditInv
  BY DEF RequestsInit, AuditInit, AuditInv, CallsTyped, IsCall, Sequenced, HeadKnown,
         ChainVerifies, NoAppend

(* What the steps of a request do to its append: nothing, or they start or  *)
(* drop it.                                                                 *)
Idles(c) ==
    \/ UNCHANGED appends
    \/ \E a : /\ appends' = [appends EXCEPT ![c] = a]
              /\ IsCall(a) /\ a.pc # "create"

LEMMA IdlesKeeps ==
  ASSUME AuditInv, NEW c \in Callers, UNCHANGED log, Idles(c)
  PROVE  AuditInv'
<1>1. CASE UNCHANGED appends
  BY <1>1 DEF AuditInv, CallsTyped, Sequenced, HeadKnown, KnownTo, ChainVerifies, EntriesOf, Hash
<1>2. CASE ~UNCHANGED appends
  <2>1. PICK a : appends' = [appends EXCEPT ![c] = a] /\ IsCall(a) /\ a.pc # "create"
    BY <1>2 DEF Idles
  <2>2. appends'[c] = a /\ \A d \in Callers \ {c} : appends'[d] = appends[d]
    BY <2>1 DEF AuditInv, CallsTyped
  <2>3. CallsTyped'
    BY <2>1, <2>2 DEF AuditInv, CallsTyped, IsCall
  <2>4. HeadKnown'
    BY <2>1, <2>2 DEF AuditInv, HeadKnown, KnownTo, EntriesOf
  <2>5. Sequenced' /\ ChainVerifies'
    BY DEF AuditInv, Sequenced, ChainVerifies, EntriesOf, Hash
  <2> QED
    BY <2>3, <2>4, <2>5 DEF AuditInv
<1> QED
  BY <1>1, <1>2

LEMMA StartIdles ==
  ASSUME NEW c, NEW t, NEW act, StartAppend(c, t, act)
  PROVE  Idles(c)
<1> DEFINE a == [pc |-> "head", tenant |-> t, act |-> act, head |-> Null, attempts |-> 0]
<1>1. appends' = [appends EXCEPT ![c] = a] /\ IsCall(a) /\ a.pc # "create"
  BY DEF StartAppend, IsCall
<1> QED
  BY <1>1 DEF Idles

LEMMA ResetIdles ==
  ASSUME NEW c, appends' = [appends EXCEPT ![c] = NoAppend]
  PROVE  Idles(c)
<1>1. IsCall(NoAppend) /\ NoAppend.pc # "create"
  BY DEF NoAppend, IsCall
<1> QED
  BY <1>1 DEF Idles

(* The newest entry is read.                                                *)
LEMMA ReadHeadKeeps ==
  ASSUME AuditInv, NEW c \in Callers, ReadHead(c)
  PROVE  AuditInv'
<1> DEFINE a == appends[c]
<1>0. IsCall(a) /\ UNCHANGED log
  BY DEF AuditInv, CallsTyped, ReadHead
<1>1. PICK h : /\ h = Null \/ \E e \in EntriesOf(a.tenant) : h = e.seq
               /\ appends' = [appends EXCEPT ![c].pc = "create", ![c].head = h]
  BY DEF ReadHead, Heads, Hash
<1>2. /\ appends'[c] = [pc |-> "create", tenant |-> a.tenant, act |-> a.act, head |-> h,
                        attempts |-> a.attempts]
      /\ \A d \in Callers \ {c} : appends'[d] = appends[d]
      /\ appends' = [d \in Callers |-> appends'[d]]
  BY <1>0, <1>1 DEF AuditInv, CallsTyped, IsCall
<1>3. CallsTyped'
  BY <1>2 DEF AuditInv, CallsTyped, IsCall
<1>4. HeadKnown'
  <2> SUFFICES ASSUME NEW d \in Callers, appends'[d].pc = "create"
               PROVE  \/ appends'[d].head = Null
                      \/ \E p \in log : p.tenant = appends'[d].tenant /\ p.seq = appends'[d].head
    BY <1>0 DEF HeadKnown, KnownTo, EntriesOf
  <2>1. CASE d = c
    <3>1. appends'[d].head = h /\ appends'[d].tenant = a.tenant
      BY <2>1, <1>2
    <3>2. h = Null \/ \E e \in log : e.tenant = a.tenant /\ h = e.seq
      BY <1>1 DEF EntriesOf
    <3> QED
      BY <3>1, <3>2
  <2>2. CASE d # c
    BY <2>2, <1>2 DEF AuditInv, HeadKnown, KnownTo, EntriesOf
  <2> QED
    BY <2>1, <2>2
<1>5. Sequenced' /\ ChainVerifies'
  BY <1>0 DEF AuditInv, Sequenced, ChainVerifies, EntriesOf, Hash
<1> QED
  BY <1>3, <1>4, <1>5 DEF AuditInv

(* A successor is created, or refused.                                      *)
LEMMA CreateEntryKeeps ==
  ASSUME AuditInv, NEW c \in Callers, CreateEntry(c)
  PROVE  AuditInv'
<1> DEFINE a == appends[c]
           entry == Successor(a)
<1>0. IsCall(a) /\ KnownTo(a)
  BY DEF AuditInv, CallsTyped, HeadKnown, CreateEntry
<1>1. CASE Taken(entry)
  <2>1. /\ UNCHANGED log
        /\ appends' = [appends EXCEPT ![c].pc = AfterConflict(a), ![c].attempts = @ + 1]
    BY <1>1 DEF CreateEntry
  <2>2. AfterConflict(a) # "create"
    BY DEF AfterConflict
  <2>3. PICK n : n = a.attempts + 1
    OBVIOUS
  <2>4. Idles(c)
    <3> DEFINE b == [a EXCEPT !.pc = AfterConflict(a), !.attempts = n]
    <3>1. appends' = [appends EXCEPT ![c] = b]
      BY <2>1, <2>3 DEF AuditInv, CallsTyped
    <3>2. IsCall(b) /\ b.pc # "create"
      <4> HIDE DEF a
      <4> QED
        BY <1>0, <2>2, CallUpdate DEF IsCall
    <3> HIDE DEF b
    <3> QED
      BY <3>1, <3>2 DEF Idles
  <2> QED
    BY <2>1, <2>4, IdlesKeeps
<1>2. CASE ~Taken(entry)
  <2>1. log' = log \cup {entry} /\ appends' = [appends EXCEPT ![c] = NoAppend]
    BY <1>2 DEF CreateEntry
  <2>2. appends'[c] = NoAppend /\ \A d \in Callers \ {c} : appends'[d] = appends[d]
    BY <2>1 DEF AuditInv, CallsTyped
  <2>3. CallsTyped' /\ NoAppend.pc = "none"
    BY <2>1, <2>2 DEF AuditInv, CallsTyped, IsCall, NoAppend
  <2>4. HeadKnown'
    BY <2>1, <2>2, <2>3 DEF AuditInv, HeadKnown, KnownTo, EntriesOf
  <2>5. /\ entry.tenant = a.tenant /\ entry.prev = a.head
        /\ entry.seq = IF a.head = Null THEN 0 ELSE a.head + 1
    BY DEF Successor
  <2>6. a.head # Null => a.head \in Nat
    BY <1>0 DEF KnownTo, EntriesOf, AuditInv, Sequenced
  <2>7. entry.seq \in Nat
    BY <2>5, <2>6
  <2>8. Sequenced'
    BY <2>1, <2>7 DEF AuditInv, Sequenced
  <2>9. \A o \in log : o.tenant = a.tenant => o.seq # entry.seq /\ o.prev # entry.prev
    BY <1>2, <2>5 DEF Taken, EntriesOf
  <2>10. \A e \in log : \A o \in log' :
            o.tenant = e.tenant /\ (o.seq = e.seq \/ o.prev = e.prev) => o = e
    BY <2>1, <2>5, <2>9 DEF AuditInv, ChainVerifies, EntriesOf
  <2>11. \A o \in log' :
            o.tenant = entry.tenant /\ (o.seq = entry.seq \/ o.prev = entry.prev) => o = entry
    BY <2>1, <2>5, <2>9
  <2>12. IF entry.seq = 0 THEN entry.prev = Null
         ELSE \E p \in log : p.tenant = entry.tenant /\ p.seq + 1 = entry.seq /\ entry.prev = p.seq
    BY <1>0, <2>5, <2>6 DEF KnownTo, EntriesOf
  <2>13. \A e \in log : IF e.seq = 0 THEN e.prev = Null
         ELSE \E p \in log : p.tenant = e.tenant /\ p.seq + 1 = e.seq /\ e.prev = p.seq
    BY DEF AuditInv, ChainVerifies, EntriesOf, Hash
  <2>14. ChainVerifies'
    <3> SUFFICES ASSUME NEW e \in log'
                 PROVE  /\ \A o \in log' : o.tenant = e.tenant /\ (o.seq = e.seq \/ o.prev = e.prev) => o = e
                        /\ IF e.seq = 0 THEN e.prev = Null
                           ELSE \E p \in log' : p.tenant = e.tenant /\ p.seq + 1 = e.seq /\ e.prev = p.seq
      BY DEF ChainVerifies, EntriesOf, Hash
    <3>1. CASE e \in log
      BY <3>1, <2>1, <2>10, <2>13
    <3>2. CASE e = entry
      BY <3>2, <2>1, <2>11, <2>12
    <3> QED
      BY <3>1, <3>2, <2>1
  <2> QED
    BY <2>3, <2>4, <2>8, <2>14 DEF AuditInv
<1> QED
  BY <1>1, <1>2

LEMMA AuditInvStep == AuditInv /\ [RequestsNext]_requestsVars => AuditInv'
<1> SUFFICES ASSUME AuditInv, [RequestsNext]_requestsVars PROVE AuditInv'
  OBVIOUS
<1>1. CASE UNCHANGED <<log, appends>>
  BY <1>1 DEF AuditInv, CallsTyped, IsCall, Sequenced, HeadKnown, KnownTo, ChainVerifies,
              EntriesOf, Hash
<1>2. ASSUME NEW c \in Callers, AppendStep(c) PROVE AuditInv'
  <2>1. CASE ReadHead(c)
    BY <2>1, ReadHeadKeeps
  <2>2. CASE CreateEntry(c)
    BY <2>2, CreateEntryKeeps
  <2>3. CASE GiveUp(c)
    BY <2>3, ResetIdles, IdlesKeeps DEF GiveUp
  <2> QED
    BY <1>2, <2>1, <2>2, <2>3 DEF AppendStep
<1>3. ASSUME NEW c \in Callers, UNCHANGED log, Idles(c) PROVE AuditInv'
  BY <1>3, IdlesKeeps
<1>4. ASSUME NEW c \in Callers, WriteMember(c) PROVE AuditInv'
  <2>1. UNCHANGED log /\ Idles(c)
    BY <1>4, StartIdles DEF WriteMember, Idles
  <2> QED
    BY <2>1, <1>3
<1>5. ASSUME NEW c \in Callers, Grant(c) \/ Withdraw(c) PROVE AuditInv'
  <2>1. UNCHANGED log /\ Idles(c)
    BY <1>5, StartIdles DEF Grant, Withdraw, RecordConsent
  <2> QED
    BY <2>1, <1>3
<1>6. ASSUME NEW c \in Callers, NEW m \in Members, LogDelivery(c, m) PROVE AuditInv'
  <2>1. UNCHANGED log /\ Idles(c)
    BY <1>6, StartIdles DEF LogDelivery, Idles
  <2> QED
    BY <2>1, <1>3
<1>7. ASSUME NEW c \in Callers, NobodyToMail(c) PROVE AuditInv'
  <2>1. UNCHANGED log /\ Idles(c)
    BY <1>7, StartIdles DEF NobodyToMail
  <2> QED
    BY <2>1, <1>3
<1>8. ASSUME NEW c \in Callers, Crash(c) PROVE AuditInv'
  <2>1. UNCHANGED log /\ Idles(c)
    BY <1>8, ResetIdles DEF Crash
  <2> QED
    BY <2>1, <1>3
<1>9. \/ UNCHANGED <<log, appends>>
      \/ \E c \in Callers :
            \/ AppendStep(c) \/ WriteMember(c) \/ Grant(c) \/ Withdraw(c)
            \/ \E m \in Members : LogDelivery(c, m)
            \/ NobodyToMail(c) \/ Crash(c)
  <2>1. CASE UNCHANGED requestsVars
    BY <2>1 DEF requestsVars, auditVars
  <2>2. CASE RequestsNext
    <3>1. ASSUME NEW c \in Callers,
              \/ \E client \in workload.clients : ResolveMembership(c, client[1], client[2])
              \/ LoadEdges(c)
              \/ \E m \in Members : \E kind \in Kinds : RequestChange(c, kind, m)
              \/ ReadConsent(c) \/ StartBroadcast(c)
              \/ \E m \in Members : CheckConsent(c, m) \/ SendMail(c, m)
          PROVE UNCHANGED <<log, appends>>
      BY <3>1 DEF ResolveMembership, LoadEdges, RequestChange, ReadConsent, StartBroadcast,
                  CheckConsent, SendMail, auditVars
    <3>2. ASSUME \/ \E e \in edges : RevokeEdge(e)
                 \/ \E ms \in memberships : DeleteMembership(ms)
          PROVE UNCHANGED <<log, appends>>
      BY <3>2 DEF RevokeEdge, DeleteMembership, auditVars
    <3> QED
      BY <2>2, <3>1, <3>2 DEF RequestsNext
  <2> QED
    BY <2>1, <2>2
<1> QED
  BY <1>1, <1>2, <1>4, <1>5, <1>6, <1>7, <1>8, <1>9

(* The chain of every tenant verifies in every state: no fork and no gap,   *)
(* however appends interleave, lose their race, are retried or die          *)
(* (audit-log.ts, append).                                                  *)
THEOREM ChainAlwaysVerifies == RequestsSpec => []ChainVerifies
<1>1. AuditInv => ChainVerifies
  BY DEF AuditInv
<1> QED
  BY <1>1, AuditInvInit, AuditInvStep, PTL DEF RequestsSpec

-----------------------------------------------------------------------------
(***************************************************************************)
(* What is written is allowed: proof of OnlyWhatIsAllowed.                 *)
(*                                                                         *)
(* A request goes by what it has loaded.  AllowedInv says what that is     *)
(* worth at each step: as long as nothing has been taken back, its roles   *)
(* and edges are those of the database (RightsHeld), a write that is about *)
(* to happen has passed its check (Passed), and a mail that is about to be *)
(* sent goes to a member who has agreed (Agreed).                          *)
(***************************************************************************)
IsActor(x) ==
    x \in [user : {x.user}, member : {x.member}, roles : {x.roles}, edges : {x.edges}]
IsRequest(a) ==
    /\ a \in [pc : {a.pc}, tenant : {a.tenant}, actor : {a.actor}, kind : {a.kind},
              target : {a.target}, act : {a.act}, todo : {a.todo}, stale : {a.stale}]
    /\ IsActor(a.actor)

RightsHeld(a) ==
    \/ <<"rights", a.actor.user>> \in a.stale
    \/ /\ \/ a.actor.member = None /\ a.actor.roles = {}
          \/ \E ms \in memberships : /\ ms.tenant = a.tenant /\ ms.user = a.actor.user
                                     /\ a.actor.member = ms.member /\ a.actor.roles = ms.roles
       /\ \A e \in a.actor.edges : e \in edges /\ e.tenant = a.tenant /\ e.guardian = a.actor.user

Passed(a) ==
    a.pc = "write" =>
        /\ a.kind \in {"create", "update", "profile", "delete"} /\ a.target \in Members
        /\ a.kind = "create" => /\ Home[a.target] = a.tenant
                                /\ Can(a.actor, <<"member", "create">>, None, None)
        /\ a.kind = "update" => Can(a.actor, <<"member", "update">>, None, a.target)
        /\ a.kind = "delete" => Can(a.actor, <<"member", "delete">>, None, None)
        /\ a.kind = "profile" => a.target = a.actor.member

Agreed(a) ==
    \A m \in Members : <<m, "send">> \in a.todo =>
        Consenting(a.tenant, m) \/ <<"consent", Account[m]>> \in a.stale

RequestOK(a) ==
    /\ IsRequest(a)
    /\ a.pc # "idle" => a.tenant \in Tenants /\ a.actor.user \in Users
    /\ a.pc # "idle" => RightsHeld(a)
    /\ a.pc # "send" => a.todo = {}
    /\ Passed(a)
    /\ Agreed(a)

ConsentsTyped == consents \in [Tenants -> [Users -> Seq({"granted", "withdrawn"})]]

AllowedInv ==
    /\ calls = [c \in Callers |-> calls[c]]
    /\ \A c \in Callers : RequestOK(calls[c])
    /\ ConsentsTyped
    /\ memberships \subseteq Memberships
    /\ workload \in Workloads
    /\ OnlyWhatIsAllowed

LEMMA IdleRequest == RequestOK(Idle) /\ Idle.pc = "idle" /\ Idle.act = None
<1>1. IsActor(Nobody)
  BY DEF IsActor, Nobody
<1>2. /\ Idle.pc = "idle" /\ Idle.todo = {} /\ Idle.act = None
      /\ IsRequest(Idle)
  BY <1>1 DEF Idle, IsRequest
<1> QED
  BY <1>2 DEF RequestOK, Passed, Agreed

LEMMA AllowedInvInit == RequestsInit => AllowedInv
<1> SUFFICES ASSUME RequestsInit PROVE AllowedInv
  OBVIOUS
<1>1. calls = [c \in Callers |-> Idle] /\ acts = {} /\ mails = {}
  BY DEF RequestsInit
<1>2. ConsentsTyped
  BY DEF RequestsInit, ConsentsTyped
<1> QED
  BY <1>1, <1>2, IdleRequest DEF AllowedInv, RequestsInit, OnlyWhatIsAllowed

\* What a step that is not a write may do to the histories.
Harmless ==
    /\ \A x \in acts' : x \in acts \/ (x.entitled \/ x.stale)
    /\ \A x \in mails' : x \in mails \/ (x.consented \/ x.stale)

LEMMA CallMoves ==
  ASSUME AllowedInv, NEW c \in Callers, NEW a, calls' = [calls EXCEPT ![c] = a], RequestOK(a),
         UNCHANGED <<memberships, edges, consents, workload>>, Harmless
  PROVE  AllowedInv'
<1>1. \A x : RequestOK(x) => RequestOK(x)'
  BY DEF RequestOK, RightsHeld, Passed, Agreed, Consenting, Current
<1>2. /\ calls' = [d \in Callers |-> calls'[d]]
      /\ calls'[c] = a /\ \A d \in Callers \ {c} : calls'[d] = calls[d]
  BY DEF AllowedInv
<1>3. \A d \in Callers : RequestOK(calls[d])'
  <2> SUFFICES ASSUME NEW d \in Callers, NEW x, x = calls'[d] PROVE RequestOK(x)'
    OBVIOUS
  <2>1. RequestOK(x)
    BY <1>2 DEF AllowedInv
  <2> QED
    BY <1>1, <2>1
<1>4. OnlyWhatIsAllowed'
  BY DEF AllowedInv, OnlyWhatIsAllowed, Harmless
<1> QED
  BY <1>2, <1>3, <1>4 DEF AllowedInv, ConsentsTyped

LEMMA CallEnds ==
  ASSUME AllowedInv, NEW c \in Callers, End(c),
         UNCHANGED <<memberships, edges, consents, workload>>, Harmless
  PROVE  AllowedInv'
BY IdleRequest, CallMoves DEF End, Continue

(* The tenancy middleware.                                                 *)
LEMMA ResolveMembershipKeeps ==
  ASSUME AllowedInv, NEW c \in Callers, NEW client \in workload.clients,
         ResolveMembership(c, client[1], client[2])
  PROVE  AllowedInv'
<1>1. PICK t \in Tenants, u \in Users : t = client[1] /\ u = client[2]
  BY RequestsAssumption DEF AllowedInv
<1>2. PICK m, rs : /\ \/ m = None /\ rs = {}
                      \/ \E ms \in memberships : /\ ms.tenant = t /\ ms.user = u
                                                 /\ m = ms.member /\ rs = ms.roles
                   /\ calls' = [calls EXCEPT ![c] = [Idle EXCEPT !.pc = "edges", !.tenant = t,
                         !.actor = [Nobody EXCEPT !.user = u, !.member = m, !.roles = rs]]]
  <2> DEFINE mine == {ms \in memberships : ms.tenant = t /\ ms.user = u}
  <2>1. CASE Continue(c, [Idle EXCEPT !.pc = "edges", !.tenant = t,
                                      !.actor = [Nobody EXCEPT !.user = u]])
    <3>1. PICK x, y : /\ x = [Nobody EXCEPT !.user = u]
                      /\ y = [Nobody EXCEPT !.user = u, !.member = None, !.roles = {}]
      OBVIOUS
    <3>2. x = [user |-> u, member |-> None, roles |-> {}, edges |-> {}]
      BY <3>1 DEF Nobody
    <3>3. y = [user |-> u, member |-> None, roles |-> {}, edges |-> {}]
      BY <3>1 DEF Nobody
    <3>4. calls' = [calls EXCEPT ![c] = [Idle EXCEPT !.pc = "edges", !.tenant = t,
                                                     !.actor = y]]
      BY <2>1, <3>1, <3>2, <3>3 DEF Continue
    <3> QED
      BY <3>1, <3>4
  <2>2. CASE \E ms \in mine : Continue(c, [Idle EXCEPT !.pc = "edges", !.tenant = t,
                     !.actor = [Nobody EXCEPT !.user = u, !.member = ms.member,
                                              !.roles = ms.roles]])
    BY <2>2 DEF Continue
  <2> QED
    BY <1>1, <2>1, <2>2 DEF ResolveMembership
<1>3. PICK x : x = [Nobody EXCEPT !.user = u, !.member = m, !.roles = rs]
  OBVIOUS
<1>4. IsActor(x) /\ x.user = u /\ x.member = m /\ x.roles = rs /\ x.edges = {}
  BY <1>3 DEF Nobody, IsActor
<1>5. PICK a : a = [Idle EXCEPT !.pc = "edges", !.tenant = t, !.actor = x]
  OBVIOUS
<1>6. IsRequest(a) /\ a.pc = "edges" /\ a.tenant = t /\ a.actor = x /\ a.todo = {}
  BY <1>4, <1>5 DEF Idle, IsRequest
<1>7. RightsHeld(a)
  BY <1>2, <1>4, <1>6 DEF RightsHeld
<1>8. RequestOK(a)
  BY <1>1, <1>4, <1>6, <1>7 DEF RequestOK, Passed, Agreed
<1>9. UNCHANGED <<memberships, edges, consents, workload, acts, mails>>
  BY DEF ResolveMembership, tenantData, ghosts
<1> QED
  BY <1>2, <1>3, <1>5, <1>8, <1>9, CallMoves DEF Harmless

LEMMA LoadEdgesKeeps ==
  ASSUME AllowedInv, NEW c \in Callers, LoadEdges(c)
  PROVE  AllowedInv'
<1>1. /\ RequestOK(calls[c]) /\ calls[c].pc = "edges"
      /\ IsRequest(calls[c]) /\ IsActor(calls[c].actor)
  BY DEF AllowedInv, LoadEdges, At, RequestOK, IsRequest
<1>2. PICK es : es = ListByGuardian(calls[c].tenant, calls[c].actor.user)
  OBVIOUS
<1>3. PICK x : x = [calls[c].actor EXCEPT !.edges = es]
  OBVIOUS
<1>4. /\ IsActor(x) /\ x.user = calls[c].actor.user /\ x.member = calls[c].actor.member
      /\ x.roles = calls[c].actor.roles /\ x.edges = es
  BY <1>1, <1>3 DEF IsActor
<1>5. PICK a : a = [calls[c] EXCEPT !.pc = "act", !.actor = x]
  OBVIOUS
<1>6. /\ IsRequest(a) /\ a.pc = "act" /\ a.tenant = calls[c].tenant /\ a.actor = x
      /\ a.todo = calls[c].todo /\ a.stale = calls[c].stale
  BY <1>1, <1>4, <1>5 DEF IsRequest
<1>7. RightsHeld(a)
  BY <1>1, <1>2, <1>4, <1>6 DEF RequestOK, RightsHeld, ListByGuardian
<1>8. RequestOK(a)
  BY <1>1, <1>4, <1>6, <1>7 DEF RequestOK, Passed, Agreed
<1>9. calls' = [calls EXCEPT ![c] = a]
  BY <1>1, <1>2, <1>3, <1>5 DEF LoadEdges, Continue, IsRequest
<1>10. UNCHANGED <<memberships, edges, consents, workload, acts, mails>>
  BY DEF LoadEdges, tenantData, ghosts
<1> QED
  BY <1>8, <1>9, <1>10, CallMoves DEF Harmless

-----------------------------------------------------------------------------
(* Changes of members' records.                                            *)
LEMMA RolesThatChange ==
  ASSUME NEW r \in DOMAIN DefaultRolePermissions
  PROVE  /\ <<"member", "create">> \in DefaultRolePermissions[r] => r \in {"owner", "staff"}
         /\ <<"member", "update">> \in DefaultRolePermissions[r] => r \in {"owner", "staff"}
         /\ <<"member", "delete">> \in DefaultRolePermissions[r] => r = "owner"
<1>1. r \in {"owner", "instructor", "staff", "member", "guardian"}
  BY DEF DefaultRolePermissions
<1>2. \A action \in {"create", "update", "delete"} :
         /\ <<"member", action>> \notin DefaultRolePermissions["instructor"]
         /\ <<"member", action>> \notin SharedReads
  BY DEF DefaultRolePermissions, SharedReads, Read, Add, Edit
<1>3. <<"member", "delete">> \notin DefaultRolePermissions["staff"]
  BY DEF DefaultRolePermissions, Read, Add, Edit
<1>4. /\ DefaultRolePermissions["member"] = SharedReads
      /\ DefaultRolePermissions["guardian"] = SharedReads
  BY DEF DefaultRolePermissions
<1> QED
  BY <1>1, <1>2, <1>3, <1>4

LEMMA PassedIsEntitled ==
  ASSUME NEW a, RequestOK(a), a.pc = "write", Home[a.target] = a.tenant,
         memberships \subseteq Memberships
  PROVE  \/ Entitled(a.actor.user, a.tenant, a.kind, a.target)
         \/ <<"rights", a.actor.user>> \in a.stale
<1> SUFFICES ASSUME <<"rights", a.actor.user>> \notin a.stale
             PROVE  Entitled(a.actor.user, a.tenant, a.kind, a.target)
  OBVIOUS
<1>1. PICK x, u, t, m, kind : /\ x = a.actor /\ u = a.actor.user /\ t = a.tenant
                              /\ m = a.target /\ kind = a.kind
  OBVIOUS
<1>2. /\ kind \in {"create", "update", "profile", "delete"} /\ m \in Members /\ m # None
      /\ kind = "create" => Can(x, <<"member", "create">>, None, None)
      /\ kind = "update" => Can(x, <<"member", "update">>, None, m)
      /\ kind = "delete" => Can(x, <<"member", "delete">>, None, None)
      /\ kind = "profile" => m = x.member
  BY <1>1, RequestsAssumption DEF RequestOK, Passed
<1>3. /\ \/ x.member = None /\ x.roles = {}
         \/ \E ms \in memberships : /\ ms.tenant = t /\ ms.user = u
                                    /\ x.member = ms.member /\ x.roles = ms.roles
      /\ \A e \in x.edges : e \in edges /\ e.tenant = t /\ e.guardian = u
  BY <1>1 DEF RequestOK, RightsHeld
<1>4. ASSUME NEW action \in {"create", "update", "delete"},
             RoleGrants(x, <<"member", action>>, None)
      PROVE  \E ms \in memberships :
                /\ ms.tenant = t /\ ms.user = u
                /\ \E r \in ms.roles : /\ "ALL" \in r.scope /\ r.role \in {"owner", "staff"}
                                       /\ r.role = "staff" => action # "delete"
  <2>1. PICK r \in x.roles : /\ "ALL" \in r.scope \/ None \in r.scope
                             /\ r.role \in DOMAIN DefaultRolePermissions
                             /\ <<"member", action>> \in DefaultRolePermissions[r.role]
    BY <1>4 DEF RoleGrants, LocationCovers
  <2>2. PICK ms \in memberships : ms.tenant = t /\ ms.user = u /\ x.roles = ms.roles
    BY <1>3, <2>1
  <2>3. "ALL" \in r.scope
    BY <2>1, <2>2, RequestsAssumption
  <2>4. r.role \in {"owner", "staff"} /\ (r.role = "staff" => action # "delete")
    BY <2>1, RolesThatChange
  <2> QED
    BY <2>1, <2>2, <2>3, <2>4
<1>5. CASE kind \in {"create", "delete"}
  <2>1. RoleGrants(x, <<"member", kind>>, None)
    BY <1>2, <1>5 DEF Can, SelfAccess, GuardianAccess
  <2> QED
    BY <1>1, <1>2, <1>4, <1>5, <2>1 DEF Entitled
<1>6. CASE kind = "profile"
  BY <1>1, <1>2, <1>3, <1>6 DEF Entitled
<1>7. CASE kind = "update"
  <2>1. CASE RoleGrants(x, <<"member", "update">>, None)
    BY <1>1, <1>2, <1>4, <1>7, <2>1 DEF Entitled
  <2>2. CASE SelfAccess(x, <<"member", "update">>, m)
    BY <1>1, <1>2, <1>3, <1>7, <2>2 DEF Entitled, SelfAccess
  <2>3. CASE GuardianAccess(x, <<"member", "update">>, m)
    BY <1>1, <1>2, <1>3, <1>7, <2>3 DEF Entitled, GuardianAccess, AppliesTo
  <2> QED
    BY <1>2, <1>7, <2>1, <2>2, <2>3 DEF Can
<1> QED
  BY <1>2, <1>5, <1>6, <1>7

LEMMA RequestChangeKeeps ==
  ASSUME AllowedInv, NEW c \in Callers, NEW kind \in Kinds, NEW m \in Members,
         RequestChange(c, kind, m)
  PROVE  AllowedInv'
<1>1. RequestOK(calls[c]) /\ calls[c].pc = "act" /\ IsRequest(calls[c])
  BY DEF AllowedInv, RequestChange, At, RequestOK
<1>2. UNCHANGED <<memberships, edges, consents, workload>> /\ Harmless
  BY DEF RequestChange, tenantData, ghosts, Harmless
<1>3. CASE End(c)
  BY <1>2, <1>3, CallEnds
<1>4. CASE ~End(c)
  <2>1. PICK a : a = [calls[c] EXCEPT !.pc = "write", !.kind = kind, !.target = m]
    OBVIOUS
  <2>2. /\ IsRequest(a) /\ a.pc = "write" /\ a.kind = kind /\ a.target = m
        /\ a.tenant = calls[c].tenant /\ a.actor = calls[c].actor
        /\ a.todo = calls[c].todo /\ a.stale = calls[c].stale
    BY <1>1, <2>1 DEF IsRequest
  <2>3. /\ calls' = [calls EXCEPT ![c] = a]
        /\ kind \in {"create", "update", "profile", "delete"}
        /\ kind = "create" => Home[m] = calls[c].tenant
        /\ Allowed(calls[c].actor, calls[c].tenant, kind, m)
    BY <1>4, <2>1 DEF RequestChange, Continue
  <2>4. Passed(a)
    BY <2>2, <2>3 DEF Passed, Allowed
  <2>5. RequestOK(a)
    BY <1>1, <2>2, <2>4 DEF RequestOK, RightsHeld, Agreed
  <2> QED
    BY <1>2, <2>3, <2>5, CallMoves
<1> QED
  BY <1>3, <1>4

LEMMA WriteMemberKeeps ==
  ASSUME AllowedInv, NEW c \in Callers, WriteMember(c)
  PROVE  AllowedInv'
<1>1. RequestOK(calls[c]) /\ calls[c].pc = "write" /\ IsRequest(calls[c])
  BY DEF AllowedInv, WriteMember, At, RequestOK
<1>2. UNCHANGED <<memberships, edges, consents, workload>> /\ UNCHANGED mails
  BY DEF WriteMember
<1>3. CASE calls[c].kind # "create" /\ calls[c].target \notin Visible(calls[c].tenant)
  <2>1. End(c) /\ UNCHANGED acts
    BY <1>3 DEF WriteMember
  <2> QED
    BY <1>2, <2>1, CallEnds DEF Harmless
<1>4. CASE ~(calls[c].kind # "create" /\ calls[c].target \notin Visible(calls[c].tenant))
  <2>1. PICK n : n = FreshAct
    OBVIOUS
  <2>2. PICK a : a = [calls[c] EXCEPT !.pc = "audit", !.act = n]
    OBVIOUS
  <2>3. /\ IsRequest(a) /\ a.pc = "audit" /\ a.tenant = calls[c].tenant
        /\ a.actor = calls[c].actor /\ a.todo = calls[c].todo /\ a.stale = calls[c].stale
    BY <1>1, <2>2 DEF IsRequest
  <2>4. RequestOK(a)
    BY <1>1, <2>3 DEF RequestOK, RightsHeld, Passed, Agreed
  <2>5. /\ calls' = [calls EXCEPT ![c] = a]
        /\ Did(c, Entitled(calls[c].actor.user, calls[c].tenant, calls[c].kind,
                           calls[c].target))
    BY <1>4, <2>1, <2>2 DEF WriteMember, Continue
  <2>6. Home[calls[c].target] = calls[c].tenant
    BY <1>1, <1>4 DEF Visible, RequestOK, Passed
  <2>7. \/ Entitled(calls[c].actor.user, calls[c].tenant, calls[c].kind, calls[c].target)
        \/ <<"rights", calls[c].actor.user>> \in calls[c].stale
    BY <1>1, <2>6, PassedIsEntitled DEF AllowedInv
  <2>8. Harmless
    <3>1. PICK r : r = [id |-> n, tenant |-> calls[c].tenant, kind |-> calls[c].kind,
                        entitled |-> Entitled(calls[c].actor.user, calls[c].tenant,
                                              calls[c].kind, calls[c].target),
                        stale |-> <<"rights", calls[c].actor.user>> \in calls[c].stale]
      OBVIOUS
    <3>2. acts' = acts \cup {r}
      BY <2>1, <2>5, <3>1 DEF Did
    <3>3. r.entitled \/ r.stale
      BY <2>7, <3>1
    <3>4. UNCHANGED mails
      BY <1>2
    <3> QED
      BY <3>2, <3>3, <3>4 DEF Harmless
  <2> QED
    BY <1>2, <2>4, <2>5, <2>8, CallMoves
<1> QED
  BY <1>3, <1>4

-----------------------------------------------------------------------------
(* Consent, and what takes rights back: other requests take note.          *)
LEMMA StaleCall ==
  ASSUME NEW x, IsRequest(x), NEW S, NEW y, y = [x EXCEPT !.stale = @ \cup S]
  PROVE  /\ IsRequest(y) /\ y.pc = x.pc /\ y.tenant = x.tenant /\ y.actor = x.actor
         /\ y.kind = x.kind /\ y.target = x.target /\ y.act = x.act /\ y.todo = x.todo
         /\ y.stale = x.stale \cup S
BY DEF IsRequest

LEMMA AllStale ==
  ASSUME AllowedInv, NEW S, calls' = Stale(S),
         UNCHANGED <<consents, workload>>, memberships' \subseteq memberships, Harmless,
         \A x : RequestOK(x) /\ x.pc # "idle" =>
             \/ <<"rights", x.actor.user>> \in S
             \/ RightsHeld(x)'
  PROVE  AllowedInv'
<1>1. ASSUME NEW c \in Callers PROVE RequestOK(calls[c])'
  <2>1. PICK x : x = calls[c] /\ RequestOK(x)
    BY DEF AllowedInv
  <2>2. CASE x.pc = "idle"
    <3>1. calls'[c] = x
      BY <2>1, <2>2 DEF Stale
    <3>2. RequestOK(x)'
      BY <2>1, <2>2 DEF RequestOK, Passed, Agreed
    <3> QED
      BY <3>1, <3>2
  <2>3. CASE x.pc # "idle"
    <3>1. PICK y : y = [x EXCEPT !.stale = @ \cup S]
      OBVIOUS
    <3>2. calls'[c] = y
      BY <2>1, <2>3, <3>1 DEF Stale
    <3>3. /\ IsRequest(y) /\ y.pc = x.pc /\ y.tenant = x.tenant /\ y.actor = x.actor
          /\ y.kind = x.kind /\ y.target = x.target /\ y.todo = x.todo
          /\ y.stale = x.stale \cup S
      BY <2>1, <3>1, StaleCall DEF RequestOK
    <3>4. RightsHeld(y)'
      BY <2>1, <2>3, <3>3 DEF RightsHeld
    <3>5. Agreed(y)'
      BY <2>1, <3>3 DEF RequestOK, Agreed, Consenting, Current
    <3>6. Passed(y)
      BY <2>1, <3>3 DEF RequestOK, Passed
    <3>7. RequestOK(y)'
      BY <2>1, <3>3, <3>4, <3>5, <3>6 DEF RequestOK, Passed
    <3> QED
      BY <3>2, <3>7
  <2> QED
    BY <2>2, <2>3
<1>2. calls' = [c \in Callers |-> calls'[c]]
  BY DEF Stale
<1>3. OnlyWhatIsAllowed'
  BY DEF AllowedInv, OnlyWhatIsAllowed, Harmless
<1> QED
  BY <1>1, <1>2, <1>3 DEF AllowedInv, ConsentsTyped

LEMMA RevokeEdgeKeeps ==
  ASSUME AllowedInv, NEW e \in edges, RevokeEdge(e)
  PROVE  AllowedInv'
<1>1. /\ edges' = (edges \ {e}) \cup {[e EXCEPT !.revoked = TRUE]}
      /\ calls' = Stale({<<"rights", e.guardian>>})
      /\ UNCHANGED memberships /\ UNCHANGED <<consents, workload>> /\ Harmless
  BY DEF RevokeEdge, ghosts, Harmless
<1>2. ASSUME NEW x, RequestOK(x), x.pc # "idle", x.actor.user # e.guardian
      PROVE  RightsHeld(x)'
  BY <1>1, <1>2 DEF RequestOK, RightsHeld
<1> QED
  BY <1>1, <1>2, AllStale

LEMMA DeleteMembershipKeeps ==
  ASSUME AllowedInv, NEW ms \in memberships, DeleteMembership(ms)
  PROVE  AllowedInv'
<1>1. /\ memberships' = memberships \ {ms}
      /\ calls' = Stale({<<"rights", ms.user>>})
      /\ UNCHANGED edges /\ UNCHANGED <<consents, workload>> /\ Harmless
  BY DEF DeleteMembership, ghosts, Harmless
<1>2. ASSUME NEW x, RequestOK(x), x.pc # "idle", x.actor.user # ms.user
      PROVE  RightsHeld(x)'
  BY <1>1, <1>2 DEF RequestOK, RightsHeld
<1> QED
  BY <1>1, <1>2, AllStale

LEMMA RecordConsentKeeps ==
  ASSUME AllowedInv, NEW c \in Callers, calls[c].pc \in {"act", "withdraw"},
         NEW kind, NEW status, RecordConsent(c, kind, status),
         \/ kind = "grant" /\ status = "granted"
         \/ kind = "withdraw" /\ status = "withdrawn"
  PROVE  AllowedInv'
<1>1. PICK t, u : t = calls[c].tenant /\ u = calls[c].actor.user
  OBVIOUS
<1>2. t \in Tenants /\ u \in Users /\ RequestOK(calls[c]) /\ IsRequest(calls[c])
  BY <1>1 DEF AllowedInv, RequestOK
<1>3. PICK n : n = FreshAct
  OBVIOUS
<1>4. PICK a : a = [calls[c] EXCEPT !.pc = "audit", !.kind = kind, !.act = n]
  OBVIOUS
<1>5. /\ IsRequest(a) /\ a.pc = "audit" /\ a.tenant = t /\ a.actor = calls[c].actor
      /\ a.todo = {} /\ a.stale = calls[c].stale
  BY <1>1, <1>2, <1>4 DEF IsRequest, RequestOK
<1>6. PICK S : S = IF kind = "withdraw" THEN {<<"consent", u>>} ELSE {}
  OBVIOUS
<1>7. /\ calls' = [Stale(S) EXCEPT ![c] = a]
      /\ consents' = [consents EXCEPT ![t][u] = Append(@, status)]
      /\ UNCHANGED memberships /\ UNCHANGED edges /\ UNCHANGED mails /\ UNCHANGED workload
      /\ \A x \in acts' : x \in acts \/ (x.entitled \/ x.stale)
  BY <1>1, <1>3, <1>4, <1>6 DEF RecordConsent
<1>8. /\ ConsentsTyped'
      /\ \A y \in Tenants : \A v \in Users :
            \/ consents'[y][v] = consents[y][v]
            \/ y = t /\ v = u /\ consents'[y][v] = Append(consents[y][v], status)
  BY <1>2, <1>7 DEF AllowedInv, ConsentsTyped
<1>9. ASSUME NEW y \in Tenants, NEW m \in Members, Consenting(y, m)
      PROVE  Consenting(y, m)' \/ <<"consent", Account[m]>> \in S
  <2>1. PICK v \in Users : v = Account[m]
    BY <1>9, RequestsAssumption DEF Consenting
  <2>2. CASE consents'[y][v] = consents[y][v]
    BY <1>9, <2>1, <2>2 DEF Consenting, Current
  <2>3. CASE v = u /\ consents'[y][v] = Append(consents[y][v], status) /\ kind = "grant"
    <3>1. consents[y][v] \in Seq({"granted", "withdrawn"})
      BY DEF AllowedInv, ConsentsTyped
    <3>2. PICK q \in Seq({"granted", "withdrawn"}) : q = consents[y][v]
      BY <3>1
    <3>3. /\ Append(q, status) # <<>> /\ Len(Append(q, status)) = Len(q) + 1
          /\ Append(q, status)[Len(q) + 1] = status
      OBVIOUS
    <3>4. Current(y, v)' = status
      BY <2>3, <3>2, <3>3 DEF Current
    <3> QED
      BY <1>9, <2>1, <2>3, <3>4 DEF Consenting
  <2>4. CASE v = u /\ kind = "withdraw"
    BY <1>6, <2>1, <2>4
  <2> QED
    BY <1>8, <2>2, <2>3, <2>4
<1>10. RequestOK(a)'
  <2>1. RightsHeld(a)'
    <3>1. RightsHeld(calls[c])
      BY <1>2 DEF RequestOK
    <3>2. RightsHeld(a)
      BY <1>1, <1>5, <3>1 DEF RightsHeld
    <3> QED
      BY <1>7, <3>2 DEF RightsHeld
  <2> QED
    BY <1>1, <1>2, <1>5, <2>1 DEF RequestOK, Passed, Agreed
<1>11. ASSUME NEW d \in Callers PROVE RequestOK(calls[d])'
  <2>1. PICK x : x = calls[d] /\ RequestOK(x)
    BY DEF AllowedInv
  <2>2. CASE d = c
    <3>1. calls'[d] = a
      BY <1>7, <2>2 DEF Stale
    <3> QED
      BY <1>10, <3>1
  <2>3. CASE d # c /\ x.pc = "idle"
    <3>1. calls'[d] = x
      BY <1>7, <2>1, <2>3 DEF Stale
    <3>2. RequestOK(x)'
      BY <2>1, <2>3 DEF RequestOK, Passed, Agreed
    <3> QED
      BY <3>1, <3>2
  <2>4. CASE d # c /\ x.pc # "idle"
    <3>1. PICK y : y = [x EXCEPT !.stale = @ \cup S]
      OBVIOUS
    <3>2. calls'[d] = y
      BY <1>7, <2>1, <2>4, <3>1 DEF Stale
    <3>3. /\ IsRequest(y) /\ y.pc = x.pc /\ y.tenant = x.tenant /\ y.actor = x.actor
          /\ y.kind = x.kind /\ y.target = x.target /\ y.todo = x.todo
          /\ y.stale = x.stale \cup S
      BY <2>1, <3>1, StaleCall DEF RequestOK
    <3>4. RightsHeld(y)'
      BY <1>7, <2>1, <2>4, <3>3 DEF RequestOK, RightsHeld
    <3>5. Agreed(y)'
      BY <1>9, <2>1, <2>4, <3>3 DEF RequestOK, Agreed
    <3>6. Passed(y)
      BY <2>1, <3>3 DEF RequestOK, Passed
    <3>7. RequestOK(y)'
      BY <2>1, <3>3, <3>4, <3>5, <3>6 DEF RequestOK, Passed
    <3> QED
      BY <3>2, <3>7
  <2> QED
    BY <2>1, <2>2, <2>3, <2>4
<1>12. calls' = [d \in Callers |-> calls'[d]]
  BY <1>7 DEF Stale
<1>13. OnlyWhatIsAllowed'
  BY <1>7 DEF AllowedInv, OnlyWhatIsAllowed
<1> QED
  BY <1>7, <1>8, <1>11, <1>12, <1>13 DEF AllowedInv

-----------------------------------------------------------------------------
(* Broadcasts, and the ends of requests.                                   *)

\* A call goes on to another step, or with other deliveries.
LEMMA CallGoes ==
  ASSUME AllowedInv, NEW c \in Callers, NEW a, calls' = [calls EXCEPT ![c] = a],
         IsRequest(a), calls[c].pc # "idle", a.pc \notin {"idle", "write"},
         a.tenant = calls[c].tenant, a.actor = calls[c].actor, a.stale = calls[c].stale,
         a.pc # "send" => a.todo = {}, Agreed(a),
         UNCHANGED <<memberships, edges, consents, workload>>, Harmless
  PROVE  AllowedInv'
<1>1. RequestOK(calls[c])
  BY DEF AllowedInv
<1>2. RequestOK(a)
  BY <1>1 DEF RequestOK, RightsHeld, Passed
<1> QED
  BY <1>2, CallMoves

LEMMA ReadConsentKeeps ==
  ASSUME AllowedInv, NEW c \in Callers, ReadConsent(c)
  PROVE  AllowedInv'
<1>1. RequestOK(calls[c]) /\ calls[c].pc = "act" /\ IsRequest(calls[c])
  BY DEF AllowedInv, ReadConsent, At, RequestOK
<1>2. UNCHANGED <<memberships, edges, consents, workload>> /\ Harmless
  BY DEF ReadConsent, tenantData, ghosts, Harmless
<1>3. CASE End(c)
  BY <1>2, <1>3, CallEnds
<1>4. CASE ~End(c)
  <2>1. PICK a : a = [calls[c] EXCEPT !.pc = "withdraw"]
    OBVIOUS
  <2>2. /\ IsRequest(a) /\ a.pc = "withdraw" /\ a.tenant = calls[c].tenant
        /\ a.actor = calls[c].actor /\ a.todo = {} /\ a.stale = calls[c].stale
    BY <1>1, <2>1 DEF IsRequest, RequestOK
  <2>3. calls' = [calls EXCEPT ![c] = a]
    BY <1>4, <2>1 DEF ReadConsent, Continue
  <2>4. Agreed(a)
    BY <2>2 DEF Agreed
  <2> QED
    BY <1>1, <1>2, <2>2, <2>3, <2>4, CallGoes
<1> QED
  BY <1>3, <1>4

LEMMA StartBroadcastKeeps ==
  ASSUME AllowedInv, NEW c \in Callers, StartBroadcast(c)
  PROVE  AllowedInv'
<1>1. RequestOK(calls[c]) /\ calls[c].pc = "act" /\ IsRequest(calls[c])
  BY DEF AllowedInv, StartBroadcast, At, RequestOK
<1>2. UNCHANGED <<memberships, edges, consents, workload>> /\ Harmless
  BY DEF StartBroadcast, tenantData, Harmless
<1>3. CASE End(c)
  BY <1>2, <1>3, CallEnds
<1>4. CASE ~End(c)
  <2>1. PICK n, todo : n = FreshAct /\ todo = Visible(calls[c].tenant) \X {"check"}
    OBVIOUS
  <2>2. PICK a : a = [calls[c] EXCEPT !.pc = "send", !.kind = "broadcast", !.act = n,
                                      !.todo = todo]
    OBVIOUS
  <2>3. /\ IsRequest(a) /\ a.pc = "send" /\ a.tenant = calls[c].tenant
        /\ a.actor = calls[c].actor /\ a.todo = todo /\ a.stale = calls[c].stale
    BY <1>1, <2>2 DEF IsRequest
  <2>4. calls' = [calls EXCEPT ![c] = a]
    BY <1>4, <2>1, <2>2 DEF StartBroadcast, Continue
  <2>5. Agreed(a)
    BY <2>1, <2>3 DEF Agreed
  <2> QED
    BY <1>1, <1>2, <2>3, <2>4, <2>5, CallGoes
<1> QED
  BY <1>3, <1>4

\* The deliveries of a call after one of them has moved.
LEMMA DeliveryMoves ==
  ASSUME AllowedInv, NEW c \in Callers, NEW m \in Members, NEW from, NEW to,
         <<m, from>> \in calls[c].todo, MoveDelivery(c, m, from, to),
         to = "send" => Consenting(calls[c].tenant, m),
         UNCHANGED <<memberships, edges, consents, workload>>, Harmless
  PROVE  AllowedInv'
<1>1. RequestOK(calls[c]) /\ IsRequest(calls[c]) /\ calls[c].pc = "send"
  BY DEF AllowedInv, RequestOK
<1>2. PICK todo : todo = (calls[c].todo \ {<<m, from>>}) \cup {<<m, to>>}
  OBVIOUS
<1>3. PICK a : a = [calls[c] EXCEPT !.todo = todo]
  OBVIOUS
<1>4. /\ IsRequest(a) /\ a.pc = "send" /\ a.tenant = calls[c].tenant
      /\ a.actor = calls[c].actor /\ a.todo = todo /\ a.stale = calls[c].stale
  BY <1>1, <1>3 DEF IsRequest
<1>5. calls' = [calls EXCEPT ![c] = a]
  BY <1>2, <1>3 DEF MoveDelivery, Continue
<1>6. Agreed(a)
  <2>1. Agreed(calls[c])
    BY <1>1 DEF RequestOK
  <2>2. ASSUME NEW n \in Members, <<n, "send">> \in todo
        PROVE  <<n, "send">> \in calls[c].todo \/ (n = m /\ to = "send")
    BY <1>2, <2>2
  <2> QED
    BY <1>4, <2>1, <2>2 DEF Agreed
<1> QED
  BY <1>1, <1>4, <1>5, <1>6, CallGoes

LEMMA CheckConsentKeeps ==
  ASSUME AllowedInv, NEW c \in Callers, NEW m \in Members, CheckConsent(c, m)
  PROVE  AllowedInv'
<1>1. PICK to : to = IF Consenting(calls[c].tenant, m) THEN "send" ELSE "log"
  OBVIOUS
<1>2. /\ <<m, "check">> \in calls[c].todo /\ MoveDelivery(c, m, "check", to)
      /\ UNCHANGED <<memberships, edges, consents, workload>> /\ Harmless
  BY <1>1 DEF CheckConsent, tenantData, ghosts, Harmless
<1>3. to = "send" => Consenting(calls[c].tenant, m)
  BY <1>1
<1> QED
  BY <1>2, <1>3, DeliveryMoves

LEMMA SendMailKeeps ==
  ASSUME AllowedInv, NEW c \in Callers, NEW m \in Members, SendMail(c, m)
  PROVE  AllowedInv'
<1>1. /\ <<m, "send">> \in calls[c].todo /\ MoveDelivery(c, m, "send", "log")
      /\ UNCHANGED <<memberships, edges, consents, workload>>
  BY DEF SendMail, tenantData
<1>2. Agreed(calls[c])
  BY DEF AllowedInv, RequestOK
<1>3. Harmless
  <2>1. PICK x : x = [member |-> m, broadcast |-> calls[c].act,
                      consented |-> Consenting(calls[c].tenant, m),
                      stale |-> <<"consent", Account[m]>> \in calls[c].stale]
    OBVIOUS
  <2>2. mails' \in {mails, mails \cup {x}} /\ UNCHANGED acts
    BY <2>1 DEF SendMail
  <2>3. Consenting(calls[c].tenant, m) \/ <<"consent", Account[m]>> \in calls[c].stale
    BY <1>1, <1>2 DEF Agreed
  <2>4. x.consented \/ x.stale
    BY <2>1, <2>3
  <2> QED
    BY <2>2, <2>4 DEF Harmless
<1> QED
  BY <1>1, <1>3, DeliveryMoves

\* The last delivery is recorded, or there was none.
LEMMA BroadcastEnds ==
  ASSUME AllowedInv, NEW c \in Callers, calls[c].pc = "send", NEW a, IsRequest(a),
         a.pc \in {"send", "audit"}, a.tenant = calls[c].tenant, a.actor = calls[c].actor,
         a.stale = calls[c].stale, a.todo \subseteq calls[c].todo,
         a.pc = "audit" => a.todo = {}, calls' = [calls EXCEPT ![c] = a],
         UNCHANGED <<memberships, edges, consents, workload>>, Harmless
  PROVE  AllowedInv'
<1>1. Agreed(calls[c])
  BY DEF AllowedInv, RequestOK
<1>2. Agreed(a)
  BY <1>1 DEF Agreed
<1> QED
  BY <1>2, CallGoes

LEMMA LogDeliveryKeeps ==
  ASSUME AllowedInv, NEW c \in Callers, NEW m \in Members, LogDelivery(c, m)
  PROVE  AllowedInv'
<1>1. RequestOK(calls[c]) /\ IsRequest(calls[c]) /\ calls[c].pc = "send"
  BY DEF AllowedInv, RequestOK, LogDelivery
<1>2. UNCHANGED <<memberships, edges, consents, workload>> /\ Harmless
  BY DEF LogDelivery, tenantData, ghosts, Harmless
<1>3. PICK left : left = calls[c].todo \ {<<m, "log">>}
  OBVIOUS
<1>4. PICK a : a = IF left # {} THEN [calls[c] EXCEPT !.todo = left]
                                ELSE [calls[c] EXCEPT !.todo = {}, !.pc = "audit"]
  OBVIOUS
<1>5. calls' = [calls EXCEPT ![c] = a]
  BY <1>3, <1>4 DEF LogDelivery, Continue
<1>6. /\ IsRequest(a) /\ a.pc \in {"send", "audit"} /\ a.tenant = calls[c].tenant
      /\ a.actor = calls[c].actor /\ a.stale = calls[c].stale
      /\ a.todo = left /\ (a.pc = "audit" => a.todo = {})
  <2>1. CASE left # {}
    BY <1>1, <1>4, <2>1 DEF IsRequest
  <2>2. CASE left = {}
    BY <1>1, <1>4, <2>2 DEF IsRequest
  <2> QED
    BY <2>1, <2>2
<1> QED
  BY <1>1, <1>2, <1>3, <1>5, <1>6, BroadcastEnds

LEMMA NobodyToMailKeeps ==
  ASSUME AllowedInv, NEW c \in Callers, NobodyToMail(c)
  PROVE  AllowedInv'
<1>1. RequestOK(calls[c]) /\ IsRequest(calls[c]) /\ calls[c].pc = "send" /\ calls[c].todo = {}
  BY DEF AllowedInv, RequestOK, NobodyToMail, At
<1>2. UNCHANGED <<memberships, edges, consents, workload>> /\ Harmless
  BY DEF NobodyToMail, tenantData, ghosts, Harmless
<1>3. PICK a : a = [calls[c] EXCEPT !.pc = "audit"]
  OBVIOUS
<1>4. calls' = [calls EXCEPT ![c] = a]
  BY <1>3 DEF NobodyToMail, Continue
<1>5. /\ IsRequest(a) /\ a.pc = "audit" /\ a.tenant = calls[c].tenant
      /\ a.actor = calls[c].actor /\ a.stale = calls[c].stale /\ a.todo = calls[c].todo
  BY <1>1, <1>3 DEF IsRequest
<1> QED
  BY <1>1, <1>2, <1>4, <1>5, BroadcastEnds

LEMMA SameRequests ==
  ASSUME AllowedInv, UNCHANGED <<calls, memberships, edges, consents, workload, acts, mails>>
  PROVE  AllowedInv'
<1>1. \A x : RequestOK(x) => RequestOK(x)'
  BY DEF RequestOK, RightsHeld, Passed, Agreed, Consenting, Current
<1>2. \A c \in Callers : RequestOK(calls[c])'
  <2> SUFFICES ASSUME NEW c \in Callers, NEW x, x = calls'[c] PROVE RequestOK(x)'
    OBVIOUS
  <2> QED
    BY <1>1 DEF AllowedInv
<1> QED
  BY <1>2 DEF AllowedInv, ConsentsTyped, OnlyWhatIsAllowed

LEMMA AppendStepKeeps ==
  ASSUME AllowedInv, NEW c \in Callers, AppendStep(c),
         UNCHANGED <<tenantData, acts, mails, workload>>
  PROVE  AllowedInv'
<1>1. UNCHANGED <<memberships, edges, consents, workload, acts, mails>>
  BY DEF tenantData
<1>2. CASE UNCHANGED calls
  BY <1>1, <1>2, SameRequests
<1>3. CASE End(c)
  BY <1>1, <1>3, CallEnds DEF Harmless
<1> QED
  BY <1>2, <1>3 DEF AppendStep

LEMMA AllowedInvStep == AllowedInv /\ [RequestsNext]_requestsVars => AllowedInv'
<1> SUFFICES ASSUME AllowedInv, [RequestsNext]_requestsVars PROVE AllowedInv'
  OBVIOUS
<1>1. CASE UNCHANGED requestsVars
  BY <1>1, SameRequests DEF requestsVars, tenantData, ghosts
<1>2. ASSUME NEW c \in Callers, Grant(c) \/ Withdraw(c) PROVE AllowedInv'
  BY <1>2, RecordConsentKeeps DEF Grant, Withdraw, At
<1>3. ASSUME NEW c \in Callers, Crash(c) PROVE AllowedInv'
  <2>1. End(c) /\ UNCHANGED <<memberships, edges, consents, workload>> /\ Harmless
    BY <1>3 DEF Crash, tenantData, Harmless
  <2> QED
    BY <2>1, CallEnds
<1>4. CASE RequestsNext
  BY <1>2, <1>3, <1>4, ResolveMembershipKeeps, LoadEdgesKeeps, RequestChangeKeeps,
     WriteMemberKeeps, ReadConsentKeeps, StartBroadcastKeeps, CheckConsentKeeps,
     SendMailKeeps, LogDeliveryKeeps, NobodyToMailKeeps, AppendStepKeeps, RevokeEdgeKeeps,
     DeleteMembershipKeeps
  DEF RequestsNext
<1> QED
  BY <1>1, <1>4

(***************************************************************************)
(* Every write is allowed when it happens and every marketing mail is      *)
(* agreed to when it is sent, unless the right or the consent was taken    *)
(* back after the request had loaded or checked it (tenancy middleware,    *)
(* members.service.ts, broadcast.service.ts).                              *)
(***************************************************************************)
THEOREM AllowedWhenDone == RequestsSpec => []OnlyWhatIsAllowed
<1>1. AllowedInv => OnlyWhatIsAllowed
  BY DEF AllowedInv
<1> QED
  BY <1>1, AllowedInvInit, AllowedInvStep, PTL DEF RequestsSpec

-----------------------------------------------------------------------------
(***************************************************************************)
(* Everything done is audited once: proof of EveryActAudited.              *)
(*                                                                         *)
(* An act is on its way (a request carries it), in the trail, or lost, and *)
(* never in two of these places.  Acts are numbered as they are done, so a *)
(* new one is in none; the append of a request carries the request's act   *)
(* from the moment it starts (InFlight).                                   *)
(***************************************************************************)
InFlight(x, y) ==
    /\ IF x.pc \in {"audit", "send"}
       THEN /\ \E a \in acts : a.id = x.act /\ a.tenant = x.tenant
            /\ x.act \notin lost
            /\ \A e \in log : e.act # x.act
       ELSE x.act = None
    /\ x.pc = "audit" <=> y.pc # "none"
    /\ y.pc # "none" => y.act = x.act /\ y.tenant = x.tenant

ActsNumbered ==
    /\ IsFiniteSet(acts)
    /\ \A a \in acts : a.id \in Nat /\ a.id <= Cardinality(acts)
    /\ \A a, b \in acts : a.id = b.id => a = b

Somewhere ==
    /\ \A i \in lost : \E a \in acts : a.id = i
    /\ \A e \in log : e.act \notin lost /\ \E a \in acts : a.id = e.act /\ a.tenant = e.tenant
    /\ \A a \in acts : \/ a.id \in lost
                       \/ \E e \in log : e.act = a.id
                       \/ \E c \in Callers : calls[c].act = a.id

OnePlace ==
    /\ \A e, f \in log : e.act = f.act => e = f
    /\ \A c, d \in Callers : calls[c].act = calls[d].act /\ calls[c].act # None => c = d

TraceInv ==
    /\ ActsNumbered
    /\ Somewhere
    /\ OnePlace
    /\ \A c \in Callers : InFlight(calls[c], appends[c])

LEMMA TraceInvInit == RequestsInit => TraceInv
<1> SUFFICES ASSUME RequestsInit PROVE TraceInv
  OBVIOUS
<1>1. /\ calls = [c \in Callers |-> Idle] /\ appends = [c \in Callers |-> NoAppend]
      /\ acts = {} /\ lost = {} /\ log = {}
  BY DEF RequestsInit, AuditInit
<1>2. Idle.pc = "idle" /\ Idle.act = None /\ NoAppend.pc = "none"
  BY IdleRequest DEF NoAppend
<1> QED
  BY <1>1, <1>2, FS_EmptySet DEF TraceInv, ActsNumbered, Somewhere, OnePlace, InFlight

\* No act is done, recorded or lost.
LEMMA TraceKept ==
  ASSUME TraceInv, UNCHANGED <<log, acts, lost>>,
         \A d \in Callers : /\ calls'[d].act = calls[d].act
                            /\ InFlight(calls'[d], appends'[d])
  PROVE  TraceInv'
<1>1. ActsNumbered'
  BY DEF TraceInv, ActsNumbered
<1>2. Somewhere' /\ OnePlace'
  BY DEF TraceInv, Somewhere, OnePlace
<1>3. \A d \in Callers : InFlight(calls[d], appends[d])'
  BY DEF InFlight
<1> QED
  BY <1>1, <1>2, <1>3 DEF TraceInv

\* The calls are on the way to the trail as far as they were.
SameWay(x, y) ==
    /\ y.act = x.act
    /\ y.pc = x.pc \/ {x.pc, y.pc} \cap {"audit", "send"} = {}
    /\ x.pc \in {"audit", "send"} => y.tenant = x.tenant

LEMMA SameWayKeeps ==
  ASSUME TraceInv, UNCHANGED <<log, appends, acts, lost>>,
         \A d \in Callers : SameWay(calls[d], calls'[d])
  PROVE  TraceInv'
<1>1. ASSUME NEW d \in Callers PROVE InFlight(calls'[d], appends'[d])
  <2>1. InFlight(calls[d], appends[d])
    BY DEF TraceInv
  <2>2. SameWay(calls[d], calls'[d]) /\ appends'[d] = appends[d]
    OBVIOUS
  <2> QED
    BY <2>1, <2>2 DEF InFlight, SameWay
<1> QED
  BY <1>1, TraceKept DEF SameWay

\* One call goes its way, the others stay where they are.
LEMMA OneWay ==
  ASSUME AllowedInv, NEW c \in Callers, NEW a, calls' = [calls EXCEPT ![c] = a]
  PROVE  /\ calls'[c] = a /\ \A d \in Callers \ {c} : calls'[d] = calls[d]
         /\ SameWay(calls[c], a) => \A d \in Callers : SameWay(calls[d], calls'[d])
<1>1. calls'[c] = a /\ \A d \in Callers \ {c} : calls'[d] = calls[d]
  BY DEF AllowedInv
<1> QED
  BY <1>1 DEF SameWay

LEMMA EndsItsWay ==
  ASSUME AllowedInv, TraceInv, NEW c \in Callers, End(c), calls[c].pc \notin {"audit", "send"}
  PROVE  \A d \in Callers : SameWay(calls[d], calls'[d])
<1>1. calls' = [calls EXCEPT ![c] = Idle]
  BY DEF End, Continue
<1>2. SameWay(calls[c], Idle)
  BY IdleRequest DEF TraceInv, InFlight, SameWay
<1> QED
  BY <1>1, <1>2, OneWay

\* A request does something and sets out to record it.
LEMMA ActDone ==
  ASSUME TraceInv, NEW c \in Callers, calls[c].pc \notin {"audit", "send"},
         NEW new, new.id = FreshAct, new.tenant = calls[c].tenant, acts' = acts \cup {new},
         UNCHANGED <<log, lost>>, calls'[c].act = FreshAct,
         calls'[c].tenant = calls[c].tenant,
         \/ /\ calls'[c].pc = "audit"
            /\ appends'[c].act = FreshAct /\ appends'[c].tenant = calls[c].tenant
            /\ appends'[c].pc # "none"
         \/ calls'[c].pc = "send" /\ appends'[c] = appends[c],
         \A d \in Callers \ {c} : SameWay(calls[d], calls'[d]) /\ appends'[d] = appends[d]
  PROVE  TraceInv'
<1>1. PICK n \in Nat : n = Cardinality(acts)
  BY FS_CardinalityType DEF TraceInv, ActsNumbered
<1>2. /\ \A a \in acts : a.id \in Nat /\ a.id <= n
      /\ FreshAct = n + 1 /\ new \notin acts
  BY <1>1 DEF TraceInv, ActsNumbered, FreshAct
<1>3. IsFiniteSet(acts') /\ Cardinality(acts') = n + 1
  BY <1>1, <1>2, FS_AddElement DEF TraceInv, ActsNumbered
<1>4. ActsNumbered'
  <2>1. \A a \in acts' : a.id \in Nat /\ a.id <= n + 1
    BY <1>2
  <2>2. \A a, b \in acts' : a.id = b.id => a = b
    BY <1>2 DEF TraceInv, ActsNumbered
  <2> QED
    BY <1>3, <2>1, <2>2 DEF ActsNumbered
<1>5. FreshAct \notin lost /\ \A e \in log : e.act # FreshAct
  BY <1>2 DEF TraceInv, Somewhere
<1>6. \A d \in Callers : calls[d].act # FreshAct
  <2> SUFFICES ASSUME NEW d \in Callers, calls[d].act = FreshAct PROVE FALSE
    OBVIOUS
  <2>1. FreshAct # None
    BY <1>2, RequestsAssumption
  <2>2. \E a \in acts : a.id = FreshAct
    BY <2>1 DEF TraceInv, InFlight
  <2> QED
    BY <1>2, <2>2
<1>7. \A d \in Callers \ {c} : calls'[d].act = calls[d].act
  BY DEF SameWay
<1>8. calls[c].act = None
  BY DEF TraceInv, InFlight
<1>9. Somewhere'
  <2>1. \A i \in lost' : \E a \in acts' : a.id = i
    BY DEF TraceInv, Somewhere
  <2>2. \A e \in log' : e.act \notin lost' /\ \E a \in acts' : a.id = e.act /\ a.tenant = e.tenant
    BY DEF TraceInv, Somewhere
  <2>3. ASSUME NEW a \in acts
        PROVE  a.id \in lost \/ (\E e \in log : e.act = a.id) \/ (\E d \in Callers : calls'[d].act = a.id)
    <3>1. a.id # None
      BY <1>2, RequestsAssumption
    <3> QED
      BY <1>7, <1>8, <3>1 DEF TraceInv, Somewhere
  <2>4. \E d \in Callers : calls'[d].act = new.id
    OBVIOUS
  <2> QED
    BY <2>1, <2>2, <2>3, <2>4 DEF Somewhere
<1>10. OnePlace'
  BY <1>6, <1>7 DEF TraceInv, OnePlace
<1>11. ASSUME NEW d \in Callers PROVE InFlight(calls[d], appends[d])'
  <2>1. CASE d = c
    BY <1>5, <2>1, IdleRequest DEF InFlight, TraceInv
  <2>2. CASE d # c
    <3>1. InFlight(calls[d], appends[d])
      BY DEF TraceInv
    <3>2. SameWay(calls[d], calls'[d]) /\ appends'[d] = appends[d]
      BY <2>2
    <3>3. acts \subseteq acts' /\ lost' = lost /\ log' = log
      OBVIOUS
    <3> QED
      BY <3>1, <3>2, <3>3 DEF InFlight, SameWay
  <2> QED
    BY <2>1, <2>2
<1> QED
  BY <1>4, <1>9, <1>10, <1>11 DEF TraceInv

-----------------------------------------------------------------------------
(* Steps before and beside an act.                                         *)
LEMMA MiddlewareTraced ==
  ASSUME AllowedInv, TraceInv, NEW c \in Callers,
         \/ \E client \in workload.clients : ResolveMembership(c, client[1], client[2])
         \/ LoadEdges(c)
  PROVE  TraceInv'
<1>1. UNCHANGED <<log, appends, acts, lost>>
  BY DEF ResolveMembership, LoadEdges, auditVars, ghosts
<1>2. IsRequest(calls[c])
  BY DEF AllowedInv, RequestOK
<1>3. CASE \E client \in workload.clients : ResolveMembership(c, client[1], client[2])
  <2>1. PICK t, x : calls' = [calls EXCEPT ![c] = [Idle EXCEPT !.pc = "edges", !.tenant = t,
                                                               !.actor = x]]
    BY <1>3 DEF ResolveMembership, Continue
  <2>2. PICK a : a = [Idle EXCEPT !.pc = "edges", !.tenant = t, !.actor = x]
    OBVIOUS
  <2>3. a.pc = "edges" /\ a.act = None
    BY <2>2 DEF Idle
  <2>4. calls[c].pc = "idle"
    BY <1>3 DEF ResolveMembership, At
  <2>5. SameWay(calls[c], a)
    BY <2>3, <2>4 DEF SameWay, TraceInv, InFlight
  <2> QED
    BY <1>1, <2>1, <2>2, <2>5, OneWay, SameWayKeeps
<1>4. CASE LoadEdges(c)
  <2>1. PICK es : es = ListByGuardian(calls[c].tenant, calls[c].actor.user)
    OBVIOUS
  <2>2. PICK a : a = [calls[c] EXCEPT !.pc = "act", !.actor.edges = es]
    OBVIOUS
  <2>3. calls' = [calls EXCEPT ![c] = a] /\ calls[c].pc = "edges"
    BY <1>4, <2>1, <2>2 DEF LoadEdges, Continue, At
  <2>4. a.pc = "act" /\ a.act = calls[c].act
    BY <1>2, <2>2 DEF IsRequest
  <2>5. SameWay(calls[c], a)
    BY <2>3, <2>4 DEF SameWay
  <2> QED
    BY <1>1, <2>3, <2>5, OneWay, SameWayKeeps
<1> QED
  BY <1>3, <1>4

LEMMA DecisionTraced ==
  ASSUME AllowedInv, TraceInv, NEW c \in Callers,
         \/ \E m \in Members : \E kind \in Kinds : RequestChange(c, kind, m)
         \/ ReadConsent(c)
  PROVE  TraceInv'
<1>1. UNCHANGED <<log, appends, acts, lost>> /\ calls[c].pc = "act"
  BY DEF RequestChange, ReadConsent, At, auditVars, ghosts
<1>2. IsRequest(calls[c])
  BY DEF AllowedInv, RequestOK
<1>3. CASE End(c)
  BY <1>1, <1>3, EndsItsWay, SameWayKeeps
<1>4. CASE ~End(c)
  <2>1. \E pc \in {"write", "withdraw"} : \E kind, m :
           calls' = [calls EXCEPT ![c] = [calls[c] EXCEPT !.pc = pc, !.kind = kind, !.target = m]]
    <3>1. CASE ReadConsent(c)
      <4>1. calls' = [calls EXCEPT ![c] = [calls[c] EXCEPT !.pc = "withdraw"]]
        BY <1>4, <3>1 DEF ReadConsent, Continue
      <4>2. [calls[c] EXCEPT !.pc = "withdraw"] =
               [calls[c] EXCEPT !.pc = "withdraw", !.kind = calls[c].kind,
                                !.target = calls[c].target]
        BY <1>2 DEF IsRequest
      <4> QED
        BY <4>1, <4>2
    <3>2. CASE \E m \in Members : \E kind \in Kinds : RequestChange(c, kind, m)
      BY <1>4, <3>2 DEF RequestChange, Continue
    <3> QED
      BY <3>1, <3>2
  <2>0. PICK pc \in {"write", "withdraw"} : \E kind, m :
           calls' = [calls EXCEPT ![c] = [calls[c] EXCEPT !.pc = pc, !.kind = kind, !.target = m]]
    BY <2>1
  <2>2. PICK kind, m :
           calls' = [calls EXCEPT ![c] = [calls[c] EXCEPT !.pc = pc, !.kind = kind, !.target = m]]
    BY <2>0
  <2>3. PICK a : a = [calls[c] EXCEPT !.pc = pc, !.kind = kind, !.target = m]
    OBVIOUS
  <2>4. a.pc = pc /\ a.act = calls[c].act
    BY <1>2, <2>3 DEF IsRequest
  <2>5. SameWay(calls[c], a)
    BY <1>1, <2>4 DEF SameWay
  <2> QED
    BY <1>1, <2>2, <2>3, <2>5, OneWay, SameWayKeeps
<1> QED
  BY <1>3, <1>4

LEMMA MoveTraced ==
  ASSUME AllowedInv, TraceInv, NEW c \in Callers, NEW m \in Members,
         CheckConsent(c, m) \/ SendMail(c, m)
  PROVE  TraceInv'
<1>1. UNCHANGED <<log, appends, acts, lost>>
  BY DEF CheckConsent, SendMail, auditVars, ghosts
<1>2. IsRequest(calls[c])
  BY DEF AllowedInv, RequestOK
<1>3. PICK todo : calls' = [calls EXCEPT ![c] = [calls[c] EXCEPT !.todo = todo]]
  <2>1. \E from, to : MoveDelivery(c, m, from, to)
    BY DEF CheckConsent, SendMail
  <2> QED
    BY <2>1 DEF MoveDelivery, Continue
<1>4. PICK a : a = [calls[c] EXCEPT !.todo = todo]
  OBVIOUS
<1>5. SameWay(calls[c], a)
  BY <1>2, <1>4 DEF IsRequest, SameWay
<1> QED
  BY <1>1, <1>3, <1>4, <1>5, OneWay, SameWayKeeps

LEMMA StaleSameWay ==
  ASSUME AllowedInv, NEW S, NEW d \in Callers
  PROVE  SameWay(calls[d], Stale(S)[d])
<1>1. PICK x : x = calls[d] /\ IsRequest(x)
  BY DEF AllowedInv, RequestOK
<1>2. PICK y : y = [x EXCEPT !.stale = @ \cup S]
  OBVIOUS
<1>3. SameWay(x, x) /\ SameWay(x, y)
  BY <1>1, <1>2, StaleCall DEF SameWay
<1>4. Stale(S)[d] \in {x, y}
  BY <1>1, <1>2 DEF Stale
<1> QED
  BY <1>1, <1>3, <1>4

LEMMA RevocationTraced ==
  ASSUME AllowedInv, TraceInv,
         \/ \E e \in edges : RevokeEdge(e)
         \/ \E ms \in memberships : DeleteMembership(ms)
  PROVE  TraceInv'
<1>1. UNCHANGED <<log, appends, acts, lost>>
  BY DEF RevokeEdge, DeleteMembership, auditVars, ghosts
<1>2. PICK S : calls' = Stale(S)
  BY DEF RevokeEdge, DeleteMembership
<1> QED
  BY <1>1, <1>2, StaleSameWay, SameWayKeeps

-----------------------------------------------------------------------------
(* Acts.                                                                   *)
LEMMA StartsAppend ==
  ASSUME AuditInv, NEW c \in Callers, NEW t, NEW n, StartAppend(c, t, n)
  PROVE  /\ appends'[c].act = n /\ appends'[c].tenant = t /\ appends'[c].pc = "head"
         /\ \A d \in Callers \ {c} : appends'[d] = appends[d]
BY DEF AuditInv, CallsTyped, StartAppend

LEMMA WriteTraced ==
  ASSUME AuditInv, AllowedInv, TraceInv, NEW c \in Callers, WriteMember(c)
  PROVE  TraceInv'
<1>1. UNCHANGED <<log, lost>> /\ calls[c].pc = "write" /\ IsRequest(calls[c])
  BY DEF WriteMember, At, AllowedInv, RequestOK
<1>2. CASE calls[c].kind # "create" /\ calls[c].target \notin Visible(calls[c].tenant)
  <2>1. End(c) /\ UNCHANGED <<acts, appends>>
    BY <1>2 DEF WriteMember
  <2> QED
    BY <1>1, <2>1, EndsItsWay, SameWayKeeps
<1>3. CASE ~(calls[c].kind # "create" /\ calls[c].target \notin Visible(calls[c].tenant))
  <2>1. PICK n : n = FreshAct
    OBVIOUS
  <2>2. PICK a : a = [calls[c] EXCEPT !.pc = "audit", !.act = n]
    OBVIOUS
  <2>3. a.pc = "audit" /\ a.act = n /\ a.tenant = calls[c].tenant
    BY <1>1, <2>2 DEF IsRequest
  <2>4. calls' = [calls EXCEPT ![c] = a] /\ StartAppend(c, calls[c].tenant, n)
    BY <1>3, <2>1, <2>2 DEF WriteMember, Continue
  <2>5. PICK new : acts' = acts \cup {new} /\ new.id = n /\ new.tenant = calls[c].tenant
    <3>1. PICK r : r = [id |-> n, tenant |-> calls[c].tenant, kind |-> calls[c].kind,
                        entitled |-> Entitled(calls[c].actor.user, calls[c].tenant,
                                              calls[c].kind, calls[c].target),
                        stale |-> <<"rights", calls[c].actor.user>> \in calls[c].stale]
      OBVIOUS
    <3>2. acts' = acts \cup {r}
      BY <1>3, <2>1, <3>1 DEF WriteMember, Did
    <3>3. r.id = n /\ r.tenant = calls[c].tenant
      BY <3>1
    <3> QED
      BY <3>2, <3>3
  <2>6. calls'[c] = a /\ \A d \in Callers \ {c} : calls'[d] = calls[d]
    BY <2>4, OneWay
  <2>7. \A d \in Callers \ {c} : SameWay(calls[d], calls'[d])
    BY <2>6 DEF SameWay
  <2> QED
    BY <1>1, <2>1, <2>3, <2>4, <2>5, <2>6, <2>7, StartsAppend, ActDone
<1> QED
  BY <1>2, <1>3

LEMMA ConsentTraced ==
  ASSUME AuditInv, AllowedInv, TraceInv, NEW c \in Callers, NEW kind, NEW status,
         calls[c].pc \in {"act", "withdraw"}, RecordConsent(c, kind, status)
  PROVE  TraceInv'
<1>1. UNCHANGED <<log, lost>> /\ IsRequest(calls[c])
  BY DEF RecordConsent, AllowedInv, RequestOK
<1>2. PICK n : n = FreshAct
  OBVIOUS
<1>3. PICK a : a = [calls[c] EXCEPT !.pc = "audit", !.kind = kind, !.act = n]
  OBVIOUS
<1>4. a.pc = "audit" /\ a.act = n /\ a.tenant = calls[c].tenant
  BY <1>1, <1>3 DEF IsRequest
<1>5. PICK S : calls' = [Stale(S) EXCEPT ![c] = a]
  BY <1>2, <1>3 DEF RecordConsent
<1>6. StartAppend(c, calls[c].tenant, n)
  BY <1>2 DEF RecordConsent
<1>7. PICK new : acts' = acts \cup {new} /\ new.id = n /\ new.tenant = calls[c].tenant
  <2>1. PICK r : r = [id |-> n, tenant |-> calls[c].tenant, kind |-> kind,
                      entitled |-> TRUE, stale |-> FALSE]
    OBVIOUS
  <2>2. acts' = acts \cup {r}
    BY <1>2, <2>1 DEF RecordConsent
  <2>3. r.id = n /\ r.tenant = calls[c].tenant
    BY <2>1
  <2> QED
    BY <2>2, <2>3
<1>8. calls'[c] = a /\ \A d \in Callers \ {c} : calls'[d] = Stale(S)[d]
  BY <1>5 DEF Stale
<1>9. \A d \in Callers \ {c} : SameWay(calls[d], calls'[d])
  BY <1>8, StaleSameWay
<1> QED
  BY <1>1, <1>2, <1>4, <1>6, <1>7, <1>8, <1>9, StartsAppend, ActDone

LEMMA BroadcastTraced ==
  ASSUME AuditInv, AllowedInv, TraceInv, NEW c \in Callers, StartBroadcast(c)
  PROVE  TraceInv'
<1>1. UNCHANGED <<log, appends, lost>> /\ calls[c].pc = "act" /\ IsRequest(calls[c])
  BY DEF StartBroadcast, At, AllowedInv, RequestOK, auditVars
<1>2. CASE End(c) /\ UNCHANGED acts
  BY <1>1, <1>2, EndsItsWay, SameWayKeeps
<1>3. CASE ~(End(c) /\ UNCHANGED acts)
  <2>1. PICK n, todo : n = FreshAct /\ todo = Visible(calls[c].tenant) \X {"check"}
    OBVIOUS
  <2>2. PICK a : a = [calls[c] EXCEPT !.pc = "send", !.kind = "broadcast", !.act = n,
                                      !.todo = todo]
    OBVIOUS
  <2>3. a.pc = "send" /\ a.act = n /\ a.tenant = calls[c].tenant
    BY <1>1, <2>2 DEF IsRequest
  <2>4. calls' = [calls EXCEPT ![c] = a]
    BY <1>3, <2>1, <2>2 DEF StartBroadcast, Continue
  <2>5. PICK new : acts' = acts \cup {new} /\ new.id = n /\ new.tenant = calls[c].tenant
    <3>1. PICK r : r = [id |-> n, tenant |-> calls[c].tenant, kind |-> "broadcast",
                        entitled |-> TRUE, stale |-> FALSE]
      OBVIOUS
    <3>2. acts' = acts \cup {r}
      BY <1>3, <2>1, <3>1 DEF StartBroadcast
    <3>3. r.id = n /\ r.tenant = calls[c].tenant
      BY <3>1
    <3> QED
      BY <3>2, <3>3
  <2>6. calls'[c] = a /\ \A d \in Callers \ {c} : calls'[d] = calls[d]
    BY <2>4, OneWay
  <2>7. \A d \in Callers \ {c} : SameWay(calls[d], calls'[d])
    BY <2>6 DEF SameWay
  <2> QED
    BY <1>1, <2>1, <2>3, <2>5, <2>6, <2>7, ActDone
<1> QED
  BY <1>2, <1>3

-----------------------------------------------------------------------------
(* The audit of an act.                                                    *)
LEMMA HandedOver ==
  ASSUME AuditInv, AllowedInv, TraceInv, NEW c \in Callers, calls[c].pc = "send",
         NEW a, calls' = [calls EXCEPT ![c] = a], a.pc = "audit", a.act = calls[c].act,
         a.tenant = calls[c].tenant, StartAppend(c, calls[c].tenant, calls[c].act),
         UNCHANGED <<log, acts, lost>>
  PROVE  TraceInv'
<1>1. calls'[c] = a /\ \A d \in Callers \ {c} : calls'[d] = calls[d]
  BY OneWay
<1>2. /\ appends'[c].act = calls[c].act /\ appends'[c].tenant = calls[c].tenant
      /\ appends'[c].pc = "head" /\ \A d \in Callers \ {c} : appends'[d] = appends[d]
  BY StartsAppend
<1>3. \A d \in Callers : InFlight(calls[d], appends[d])
  BY DEF TraceInv
<1>4. InFlight(calls'[c], appends'[c])
  BY <1>1, <1>2, <1>3 DEF InFlight
<1>5. \A d \in Callers : calls'[d].act = calls[d].act /\ InFlight(calls'[d], appends'[d])
  BY <1>1, <1>2, <1>3, <1>4
<1> QED
  BY <1>5, TraceKept

LEMMA DeliveryTraced ==
  ASSUME AuditInv, AllowedInv, TraceInv, NEW c \in Callers,
         NobodyToMail(c) \/ \E m \in Members : LogDelivery(c, m)
  PROVE  TraceInv'
<1>1. IsRequest(calls[c]) /\ calls[c].pc = "send" /\ UNCHANGED <<log, acts, lost>>
  BY DEF AllowedInv, RequestOK, NobodyToMail, LogDelivery, At, ghosts
<1>2. CASE NobodyToMail(c)
  <2>1. PICK a : a = [calls[c] EXCEPT !.pc = "audit"]
    OBVIOUS
  <2>2. a.pc = "audit" /\ a.act = calls[c].act /\ a.tenant = calls[c].tenant
    BY <1>1, <2>1 DEF IsRequest
  <2>3. calls' = [calls EXCEPT ![c] = a] /\ StartAppend(c, calls[c].tenant, calls[c].act)
    BY <1>2, <2>1 DEF NobodyToMail, Continue
  <2> QED
    BY <1>1, <2>2, <2>3, HandedOver
<1>3. ASSUME NEW m \in Members, LogDelivery(c, m) PROVE TraceInv'
  <2>1. PICK left : left = calls[c].todo \ {<<m, "log">>}
    OBVIOUS
  <2>2. CASE left # {}
    <3>1. PICK a : a = [calls[c] EXCEPT !.todo = left]
      OBVIOUS
    <3>2. SameWay(calls[c], a)
      BY <1>1, <3>1 DEF IsRequest, SameWay
    <3>3. calls' = [calls EXCEPT ![c] = a] /\ UNCHANGED appends
      BY <1>3, <2>1, <2>2, <3>1 DEF LogDelivery, Continue
    <3> QED
      BY <1>1, <3>2, <3>3, OneWay, SameWayKeeps
  <2>3. CASE left = {}
    <3>1. PICK a : a = [calls[c] EXCEPT !.todo = {}, !.pc = "audit"]
      OBVIOUS
    <3>2. a.pc = "audit" /\ a.act = calls[c].act /\ a.tenant = calls[c].tenant
      BY <1>1, <3>1 DEF IsRequest
    <3>3. calls' = [calls EXCEPT ![c] = a] /\ StartAppend(c, calls[c].tenant, calls[c].act)
      BY <1>3, <2>1, <2>3, <3>1 DEF LogDelivery, Continue
    <3> QED
      BY <1>1, <3>2, <3>3, HandedOver
  <2> QED
    BY <2>2, <2>3
<1> QED
  BY <1>2, <1>3

\* The append reads the newest entry, or has lost a race.
LEMMA StillAppending ==
  ASSUME AuditInv, TraceInv, NEW c \in Callers, appends[c].pc # "none",
         NEW y, appends' = [appends EXCEPT ![c] = y], y.pc # "none", y.act = appends[c].act,
         y.tenant = appends[c].tenant, UNCHANGED <<calls, log, acts, lost>>
  PROVE  TraceInv'
<1>1. appends'[c] = y /\ \A d \in Callers \ {c} : appends'[d] = appends[d]
  BY DEF AuditInv, CallsTyped
<1>2. \A d \in Callers : InFlight(calls[d], appends[d])
  BY DEF TraceInv
<1>3. InFlight(calls[c], y)
  BY <1>2 DEF InFlight
<1>4. \A d \in Callers : calls'[d].act = calls[d].act /\ InFlight(calls'[d], appends'[d])
  BY <1>1, <1>2, <1>3
<1> QED
  BY <1>4, TraceKept

\* The request is over: its act is in the trail, or lost.
LEMMA RequestOver ==
  ASSUME AuditInv, AllowedInv, TraceInv, NEW c \in Callers, End(c),
         appends' = [appends EXCEPT ![c] = NoAppend], UNCHANGED acts,
         NEW n, n = calls[c].act,
         \/ lost' = lost \cup ({n} \ {None}) /\ UNCHANGED log
         \/ /\ n # None /\ UNCHANGED lost
            /\ \E e : e.act = n /\ e.tenant = calls[c].tenant /\ log' = log \cup {e}
  PROVE  TraceInv'
<1>1. calls'[c] = Idle /\ \A d \in Callers \ {c} : calls'[d] = calls[d]
  BY OneWay DEF End, Continue
<1>2. appends'[c].pc = "none" /\ \A d \in Callers \ {c} : appends'[d] = appends[d]
  BY DEF AuditInv, CallsTyped, NoAppend
<1>3. \A d \in Callers : InFlight(calls[d], appends[d])
  BY DEF TraceInv
<1>4. \A a \in acts : a.id # None
  BY RequestsAssumption DEF TraceInv, ActsNumbered
<1>5. n # None =>
         /\ \E a \in acts : a.id = n /\ a.tenant = calls[c].tenant
         /\ n \notin lost /\ \A e \in log : e.act # n
         /\ \A d \in Callers \ {c} : calls[d].act # n
  BY <1>3 DEF InFlight, TraceInv, OnePlace
<1>6. PICK e : \/ /\ lost' = lost \cup ({n} \ {None}) /\ UNCHANGED log
               \/ /\ n # None /\ UNCHANGED lost /\ e.act = n
                  /\ e.tenant = calls[c].tenant /\ log' = log \cup {e}
  OBVIOUS
<1>7. Idle.pc = "idle" /\ Idle.act = None
  BY IdleRequest
<1>8. \A d \in Callers : calls'[d].act # None => d # c /\ calls'[d].act = calls[d].act
  BY <1>1, <1>7
<1>9. ActsNumbered'
  BY DEF TraceInv, ActsNumbered
<1>10. OnePlace'
  <2>1. \A f, g \in log' : f.act = g.act => f = g
    BY <1>5, <1>6 DEF TraceInv, OnePlace
  <2>2. \A b, d \in Callers : calls'[b].act = calls'[d].act /\ calls'[b].act # None => b = d
    BY <1>8 DEF TraceInv, OnePlace
  <2> QED
    BY <2>1, <2>2 DEF OnePlace
<1>11. Somewhere'
  <2>1. \A j \in lost' : \E a \in acts' : a.id = j
    BY <1>5, <1>6 DEF TraceInv, Somewhere
  <2>2. \A f \in log' : f.act \notin lost' /\ \E a \in acts' : a.id = f.act /\ a.tenant = f.tenant
    BY <1>5, <1>6 DEF TraceInv, Somewhere
  <2>3. ASSUME NEW a \in acts
        PROVE  \/ a.id \in lost' \/ \E f \in log' : f.act = a.id
               \/ \E d \in Callers : calls'[d].act = a.id
    <3>1. CASE a.id = n
      BY <1>4, <1>6, <3>1
    <3>2. CASE a.id # n
      <4>1. \A d \in Callers : calls[d].act = a.id => calls'[d].act = a.id
        BY <1>1, <3>2
      <4>2. log \subseteq log' /\ lost \subseteq lost'
        BY <1>6
      <4> QED
        BY <4>1, <4>2 DEF TraceInv, Somewhere
    <3> QED
      BY <3>1, <3>2
  <2> QED
    BY <2>1, <2>2, <2>3 DEF Somewhere
<1>12. ASSUME NEW d \in Callers PROVE InFlight(calls[d], appends[d])'
  <2>1. CASE d = c
    BY <1>1, <1>2, <1>7, <2>1 DEF InFlight
  <2>2. CASE d # c
    <3>1. InFlight(calls[d], appends[d]) /\ calls'[d] = calls[d] /\ appends'[d] = appends[d]
      BY <1>1, <1>2, <1>3, <2>2
    <3>2. calls[d].pc \in {"audit", "send"} => calls[d].act # None
      BY <1>4, <3>1 DEF InFlight
    <3>3. calls[d].pc \in {"audit", "send"} => calls[d].act # n
      BY <1>5, <2>2, <3>2
    <3>4. calls[d].pc \in {"audit", "send"} =>
             calls[d].act \notin lost' /\ \A f \in log' : f.act # calls[d].act
      BY <1>6, <3>1, <3>3 DEF InFlight
    <3> QED
      BY <3>1, <3>4 DEF InFlight
  <2> QED
    BY <2>1, <2>2
<1> QED
  BY <1>9, <1>10, <1>11, <1>12 DEF TraceInv

LEMMA AppendTraced ==
  ASSUME AuditInv, AllowedInv, TraceInv, NEW c \in Callers, AppendStep(c), UNCHANGED acts
  PROVE  TraceInv'
<1>1. IsCall(appends[c])
  BY DEF AuditInv, CallsTyped
<1>2. appends[c].pc # "none" =>
         /\ appends[c].act = calls[c].act /\ appends[c].tenant = calls[c].tenant
         /\ calls[c].pc = "audit" /\ calls[c].act # None
  BY RequestsAssumption DEF TraceInv, InFlight, ActsNumbered
<1>3. CASE ReadHead(c) /\ UNCHANGED <<calls, lost>>
  <2>1. PICK h : appends' = [appends EXCEPT ![c].pc = "create", ![c].head = h]
    BY <1>3 DEF ReadHead
  <2>2. PICK y : y = [appends[c] EXCEPT !.pc = "create", !.head = h]
    OBVIOUS
  <2>3. y.pc = "create" /\ y.act = appends[c].act /\ y.tenant = appends[c].tenant
    BY <1>1, <2>2 DEF IsCall
  <2>4. appends' = [appends EXCEPT ![c] = y]
    BY <2>1, <2>2 DEF AuditInv, CallsTyped
  <2>5. appends[c].pc = "head" /\ UNCHANGED log
    BY <1>3 DEF ReadHead
  <2> QED
    BY <1>3, <2>3, <2>4, <2>5, StillAppending
<1>4. CASE /\ CreateEntry(c)
           /\ IF appends'[c].pc = "none" THEN End(c) ELSE UNCHANGED calls
           /\ UNCHANGED lost
  <2>1. appends[c].pc = "create"
    BY <1>4 DEF CreateEntry
  <2>2. CASE Taken(Successor(appends[c]))
    <3>1. PICK pc, n : pc = AfterConflict(appends[c]) /\ n = appends[c].attempts + 1
      OBVIOUS
    <3>2. PICK y : y = [appends[c] EXCEPT !.pc = pc, !.attempts = n]
      OBVIOUS
    <3>3. y.pc = pc /\ y.act = appends[c].act /\ y.tenant = appends[c].tenant
      BY <1>1, <3>2 DEF IsCall
    <3>4. appends' = [appends EXCEPT ![c] = y] /\ UNCHANGED log
      BY <1>4, <2>2, <3>1, <3>2 DEF CreateEntry, AuditInv, CallsTyped
    <3>5. pc # "none"
      BY <3>1 DEF AfterConflict
    <3>6. appends'[c] = y
      BY <3>4 DEF AuditInv, CallsTyped
    <3> QED
      BY <1>4, <2>1, <3>3, <3>4, <3>5, <3>6, StillAppending
  <2>3. CASE ~Taken(Successor(appends[c]))
    <3>1. /\ log' = log \cup {Successor(appends[c])}
          /\ appends' = [appends EXCEPT ![c] = NoAppend]
      BY <1>4, <2>3 DEF CreateEntry
    <3>2. appends'[c].pc = "none"
      BY <3>1 DEF AuditInv, CallsTyped, NoAppend
    <3>3. PICK e : e = Successor(appends[c])
      OBVIOUS
    <3>4. e.act = calls[c].act /\ e.tenant = calls[c].tenant
      BY <1>2, <2>1, <3>3 DEF Successor
    <3> QED
      BY <1>2, <1>4, <2>1, <3>1, <3>2, <3>3, <3>4, RequestOver
  <2> QED
    BY <2>2, <2>3
<1>5. CASE GiveUp(c) /\ End(c) /\ lost' = lost \cup {calls[c].act}
  <2>1. appends[c].pc = "failed" /\ appends' = [appends EXCEPT ![c] = NoAppend] /\ UNCHANGED log
    BY <1>5 DEF GiveUp
  <2>2. lost' = lost \cup ({calls[c].act} \ {None})
    BY <1>2, <1>5, <2>1
  <2> QED
    BY <1>5, <2>1, <2>2, RequestOver
<1> QED
  BY <1>3, <1>4, <1>5 DEF AppendStep

LEMMA TraceInvStep ==
  AuditInv /\ AllowedInv /\ TraceInv /\ [RequestsNext]_requestsVars => TraceInv'
<1> SUFFICES ASSUME AuditInv, AllowedInv, TraceInv, [RequestsNext]_requestsVars
             PROVE  TraceInv'
  OBVIOUS
<1>1. CASE UNCHANGED requestsVars
  <2>1. UNCHANGED <<log, appends, calls, acts, lost>>
    BY <1>1 DEF requestsVars, auditVars, ghosts
  <2> QED
    BY <2>1, SameWayKeeps DEF SameWay
<1>2. ASSUME NEW c \in Callers, Grant(c) \/ Withdraw(c) PROVE TraceInv'
  BY <1>2, ConsentTraced DEF Grant, Withdraw, At
<1>3. ASSUME NEW c \in Callers, Crash(c) PROVE TraceInv'
  BY <1>3, RequestOver DEF Crash
<1>4. CASE RequestsNext
  BY <1>2, <1>3, <1>4, MiddlewareTraced, DecisionTraced, WriteTraced, BroadcastTraced,
     MoveTraced, DeliveryTraced, AppendTraced, RevocationTraced
  DEF RequestsNext
<1> QED
  BY <1>1, <1>4

LEMMA AtMostOne ==
  ASSUME NEW S, \A x, y \in S : x = y
  PROVE  Cardinality(S) = IF S = {} THEN 0 ELSE 1
<1>1. CASE S = {}
  BY <1>1, FS_EmptySet
<1>2. CASE S # {}
  <2>1. PICK x : x \in S
    BY <1>2
  <2>2. S = {x}
    BY <2>1
  <2> QED
    BY <1>2, <2>2, FS_Singleton
<1> QED
  BY <1>1, <1>2

(***************************************************************************)
(* Everything done by a request is in the trail of its tenant exactly      *)
(* once, unless the request is still on the way there, has died, or has    *)
(* lost every race for the next place in the chain (audit-log.ts, append,  *)
(* and its callers).                                                       *)
(***************************************************************************)
THEOREM AuditedExactlyOnce == RequestsSpec => []EveryActAudited
<1>1. TraceInv => EveryActAudited
  <2> SUFFICES ASSUME TraceInv PROVE EveryActAudited
    OBVIOUS
  <2>1. ASSUME NEW a \in acts
        PROVE  Cardinality({e \in log : e.act = a.id}) + Cardinality({c \in Callers : calls[c].act = a.id})
                  = IF a.id \in lost THEN 0 ELSE 1
    <3>1. PICK E, P : /\ E = {e \in log : e.act = a.id}
                      /\ P = {c \in Callers : calls[c].act = a.id}
      OBVIOUS
    <3>2. a.id # None
      BY RequestsAssumption DEF TraceInv, ActsNumbered
    <3>3. (\A x, y \in E : x = y) /\ (\A x, y \in P : x = y)
      BY <3>1, <3>2 DEF TraceInv, OnePlace
    <3>4. P # {} => a.id \notin lost /\ E = {}
      BY <3>1, <3>2 DEF TraceInv, InFlight
    <3>5. E # {} => a.id \notin lost
      BY <3>1 DEF TraceInv, Somewhere
    <3>6. a.id \in lost \/ E # {} \/ P # {}
      BY <3>1 DEF TraceInv, Somewhere
    <3>7. /\ Cardinality(E) = IF E = {} THEN 0 ELSE 1
          /\ Cardinality(P) = IF P = {} THEN 0 ELSE 1
      BY <3>3, AtMostOne
    <3>8. Cardinality(E) + Cardinality(P) = IF a.id \in lost THEN 0 ELSE 1
      <4>1. CASE P # {}
        BY <3>4, <3>7, <4>1
      <4>2. CASE P = {} /\ E # {}
        BY <3>5, <3>7, <4>2
      <4>3. CASE P = {} /\ E = {}
        BY <3>6, <3>7, <4>3
      <4> QED
        BY <4>1, <4>2, <4>3
    <3> QED
      BY <3>1, <3>8
  <2>2. \A e \in log : \E a \in acts : a.id = e.act /\ a.tenant = e.tenant
    BY DEF TraceInv, Somewhere
  <2> QED
    BY <2>1, <2>2 DEF EveryActAudited
<1> QED
  BY <1>1, AuditInvInit, AuditInvStep, AllowedInvInit, AllowedInvStep, TraceInvInit,
     TraceInvStep, PTL
  DEF RequestsSpec

-----------------------------------------------------------------------------
(* Waivers.  What a signature is for is pinned by a read, and stored by a  *)
(* later write, so the invariant speaks of both: what is signed or about   *)
(* to be (Pinned) is of a version not above the template's own, and says   *)
(* what the template says if it is of that very version.                   *)
IsTemplate(x) == x \in [version : Nat, text : {x.text}, active : {x.active}]
IsVisit(a) ==
    a \in [pc : {a.pc}, template : {a.template}, patch : {a.patch}, pinned : {a.pinned},
           offered : {a.offered}, mine : {a.mine}]

Exists(t) == t \in Templates /\ templates[t].version > 0

VisitOK(a) ==
    /\ IsVisit(a)
    /\ a.pc \in {"edit", "pin", "create"} => Exists(a.template)
    /\ a.pc = "load" /\ a.offered # None => \A t \in DOMAIN a.offered : Exists(t)

PinnedBy(a, t, n, x) ==
    a.pc = "create" /\ a.template = t /\ a.pinned.version = n /\ a.pinned.text = x

Pinned(t, n, x) ==
    \/ \E s \in signatures : s.template = t /\ s.version = n /\ s.text = x
    \/ \E v \in Visitors : PinnedBy(visits[v], t, n, x)

OfVersion(t, n, x) ==
    /\ t \in Templates /\ n \in Nat /\ n > 0 /\ n <= templates[t].version
    /\ n = templates[t].version => x = templates[t].text

WaiversInv ==
    /\ templates = [t \in Templates |-> templates[t]]
    /\ \A t \in Templates : IsTemplate(templates[t])
    /\ visits = [v \in Visitors |-> visits[v]]
    /\ \A v \in Visitors : VisitOK(visits[v])
    /\ \A t, n, x : Pinned(t, n, x) => OfVersion(t, n, x)
    /\ \A t, n, x, y : Pinned(t, n, x) /\ Pinned(t, n, y) => x = y

LEMMA NoVisitOK == VisitOK(NoVisit) /\ NoVisit.pc = "idle"
BY DEF VisitOK, NoVisit, IsVisit

LEMMA WaiversInvInit == WaiversInit => WaiversInv
<1> SUFFICES ASSUME WaiversInit PROVE WaiversInv
  OBVIOUS
<1>1. \A v \in Visitors : VisitOK(visits[v]) /\ visits[v].pc = "idle"
  BY NoVisitOK DEF WaiversInit
<1>2. \A t, n, x : ~Pinned(t, n, x)
  BY <1>1 DEF Pinned, PinnedBy, WaiversInit
<1>3. \A t \in Templates : IsTemplate(templates[t])
  BY DEF WaiversInit, IsTemplate
<1> QED
  BY <1>1, <1>2, <1>3 DEF WaiversInv, WaiversInit

(* A turn of a visit that pins and edits nothing.                           *)
LEMMA VisitGoesOn ==
  ASSUME WaiversInv, NEW v \in Visitors, NEW a, Turn(v, a), VisitOK(a), a.pc # "create",
         UNCHANGED <<templates, signatures>>
  PROVE  WaiversInv'
<1>1. /\ visits' = [w \in Visitors |-> visits'[w]]
      /\ visits'[v] = a /\ \A w \in Visitors \ {v} : visits'[w] = visits[w]
  BY DEF WaiversInv, Turn
<1>2. \A x : VisitOK(x)' <=> VisitOK(x)
  BY DEF VisitOK, Exists
<1>3. \A w \in Visitors : VisitOK(visits[w])'
  <2> SUFFICES ASSUME NEW w \in Visitors, NEW x, x = visits'[w] PROVE VisitOK(x)'
    OBVIOUS
  <2>1. VisitOK(x)
    BY <1>1 DEF WaiversInv
  <2> QED
    BY <1>2, <2>1
<1>4. \A t, n, x : Pinned(t, n, x)' => Pinned(t, n, x)
  BY <1>1 DEF Pinned, PinnedBy
<1>5. \A t, n, x : OfVersion(t, n, x)' <=> OfVersion(t, n, x)
  BY DEF OfVersion
<1> QED
  BY <1>1, <1>3, <1>4, <1>5 DEF WaiversInv, IsTemplate

(* A new version of a template: nothing that is pinned is of it.            *)
LEMMA VersionMinted ==
  ASSUME WaiversInv, NEW t \in Templates, NEW x, IsTemplate(x),
         x.version = templates[t].version + 1, templates' = [templates EXCEPT ![t] = x],
         UNCHANGED signatures, NEW v \in Visitors,
         UNCHANGED visits \/ Turn(v, NoVisit)
  PROVE  WaiversInv'
<1>1. /\ templates' = [u \in Templates |-> templates'[u]]
      /\ templates'[t] = x /\ \A u \in Templates \ {t} : templates'[u] = templates[u]
      /\ templates[t].version \in Nat
  BY DEF WaiversInv, IsTemplate
<1>2. /\ visits' = [w \in Visitors |-> visits'[w]]
      /\ \A w \in Visitors : visits'[w] = visits[w] \/ visits'[w] = NoVisit
  BY DEF WaiversInv, Turn
<1>3. \A u : Exists(u) => Exists(u)'
  BY <1>1 DEF Exists
<1>4. \A w \in Visitors : VisitOK(visits[w])'
  <2> SUFFICES ASSUME NEW w \in Visitors, NEW y, y = visits'[w] PROVE VisitOK(y)'
    OBVIOUS
  <2>1. VisitOK(y)
    BY <1>2, NoVisitOK DEF WaiversInv
  <2> QED
    BY <1>3, <2>1 DEF VisitOK
<1>5. \A u, n, y : Pinned(u, n, y)' => Pinned(u, n, y)
  BY <1>2, NoVisitOK DEF Pinned, PinnedBy
<1>6. ASSUME NEW u, NEW n, NEW y, Pinned(u, n, y) PROVE OfVersion(u, n, y)'
  <2>1. OfVersion(u, n, y)
    BY <1>6 DEF WaiversInv
  <2>2. CASE u = t
    BY <1>1, <2>1, <2>2 DEF OfVersion
  <2>3. CASE u # t
    BY <1>1, <2>1, <2>3 DEF OfVersion
  <2> QED
    BY <2>2, <2>3
<1>7. \A u \in Templates : IsTemplate(templates'[u])
  BY <1>1 DEF WaiversInv
<1> QED
  BY <1>1, <1>2, <1>4, <1>5, <1>6, <1>7 DEF WaiversInv, IsTemplate

LEMMA TemplatesKeep ==
  ASSUME WaiversInv, NEW v \in Visitors
  PROVE  /\ \A t \in Templates, text \in Texts : CreateTemplate(v, t, text) => WaiversInv'
         /\ \A t \in Templates, patch \in Patches : FindTemplate(v, t, patch) => WaiversInv'
         /\ UpdateBody(v) => WaiversInv'
<1>1. ASSUME NEW t \in Templates, NEW text \in Texts, CreateTemplate(v, t, text) PROVE WaiversInv'
  <2>1. PICK x : x = [version |-> 1, text |-> text, active |-> TRUE]
    OBVIOUS
  <2>2. IsTemplate(x) /\ x.version = templates[t].version + 1
    BY <1>1, <2>1 DEF IsTemplate, CreateTemplate
  <2>3. templates' = [templates EXCEPT ![t] = x] /\ UNCHANGED signatures /\ UNCHANGED visits
    BY <1>1, <2>1 DEF CreateTemplate
  <2> QED
    BY <2>2, <2>3, VersionMinted
<1>2. ASSUME NEW t \in Templates, NEW patch \in Patches, FindTemplate(v, t, patch)
      PROVE  WaiversInv'
  <2>1. PICK a : a = [NoVisit EXCEPT !.pc = "edit", !.template = t, !.patch = patch,
                                     !.pinned = templates[t].version]
    OBVIOUS
  <2>2. IsVisit(a) /\ a.pc = "edit" /\ a.template = t
    BY <2>1 DEF NoVisit, IsVisit
  <2>3. VisitOK(a)
    BY <1>2, <2>2 DEF VisitOK, Exists, FindTemplate
  <2>4. Turn(v, a) /\ UNCHANGED <<templates, signatures>>
    BY <1>2, <2>1 DEF FindTemplate
  <2> QED
    BY <2>2, <2>3, <2>4, VisitGoesOn
<1>3. ASSUME UpdateBody(v) PROVE WaiversInv'
  <2>1. PICK t, patch : t = visits[v].template /\ patch = visits[v].patch
    OBVIOUS
  <2>2. t \in Templates /\ IsTemplate(templates[t])
    BY <1>3, <2>1 DEF UpdateBody, In, WaiversInv, VisitOK, Exists
  <2>3. PICK text : text = IF "text" \in DOMAIN patch THEN patch.text ELSE templates[t].text
    OBVIOUS
  <2>4. PICK x : x = [version |-> templates[t].version + 1, active |-> patch.active, text |-> text]
    OBVIOUS
  <2>5. IsTemplate(x) /\ x.version = templates[t].version + 1
    BY <2>2, <2>4 DEF IsTemplate
  <2>6. /\ templates' = [templates EXCEPT ![t] = x] /\ UNCHANGED signatures /\ Turn(v, NoVisit)
    BY <1>3, <2>1, <2>3, <2>4 DEF UpdateBody, Bumped, VersionCounted
  <2> QED
    BY <2>2, <2>5, <2>6, VersionMinted
<1> QED
  BY <1>1, <1>2, <1>3

LEMMA PageKeeps ==
  ASSUME WaiversInv, NEW v \in Visitors
  PROVE  /\ OpenPage(v) => WaiversInv'
         /\ ListTemplates(v) => WaiversInv'
         /\ ListByMember(v) => WaiversInv'
         /\ LeavePage(v) => WaiversInv'
         /\ \A t \in Templates : Sign(v, t) => WaiversInv'
<1>0. PICK k : k = visits[v] /\ VisitOK(k) /\ IsVisit(k)
  BY DEF WaiversInv, VisitOK
<1>1. ASSUME OpenPage(v) PROVE WaiversInv'
  <2>1. PICK a : a = [NoVisit EXCEPT !.pc = "load"]
    OBVIOUS
  <2>2. IsVisit(a) /\ a.pc = "load" /\ a.offered = None
    BY <2>1 DEF NoVisit, IsVisit
  <2>3. VisitOK(a)
    BY <2>2 DEF VisitOK
  <2> QED
    BY <1>1, <2>1, <2>2, <2>3, VisitGoesOn DEF OpenPage
<1>2. ASSUME ListTemplates(v) PROVE WaiversInv'
  <2>1. PICK o : o = [t \in Active |-> templates[t].version]
    OBVIOUS
  <2>2. PICK a : a = [k EXCEPT !.offered = o]
    OBVIOUS
  <2>3. IsVisit(a) /\ a.pc = k.pc /\ k.pc = "load" /\ a.offered = o
    BY <1>0, <1>2, <2>2 DEF IsVisit, ListTemplates, In
  <2>4. \A t \in DOMAIN o : Exists(t)
    BY <2>1 DEF Active, Exists
  <2>5. VisitOK(a)
    BY <2>3, <2>4 DEF VisitOK
  <2>6. Turn(v, a) /\ UNCHANGED <<templates, signatures>>
    BY <1>0, <1>2, <2>1, <2>2 DEF ListTemplates
  <2> QED
    BY <2>3, <2>5, <2>6, VisitGoesOn
<1>3. ASSUME ListByMember(v) PROVE WaiversInv'
  <2>1. PICK M : M = {<<s.template, s.version>> : s \in {x \in signatures : x.member = Subject[v]}}
    OBVIOUS
  <2>2. PICK a : a = [k EXCEPT !.mine = M]
    OBVIOUS
  <2>3. IsVisit(a) /\ a.pc = k.pc /\ k.pc = "load" /\ a.offered = k.offered
    BY <1>0, <1>3, <2>2 DEF IsVisit, ListByMember, In
  <2>4. VisitOK(a)
    BY <1>0, <2>3 DEF VisitOK
  <2>5. Turn(v, a) /\ UNCHANGED <<templates, signatures>>
    BY <1>0, <1>3, <2>1, <2>2 DEF ListByMember
  <2> QED
    BY <2>3, <2>4, <2>5, VisitGoesOn
<1>4. ASSUME LeavePage(v) PROVE WaiversInv'
  BY <1>4, NoVisitOK, VisitGoesOn DEF LeavePage
<1>5. ASSUME NEW t \in Templates, Sign(v, t) PROVE WaiversInv'
  <2>1. PICK a : a = [k EXCEPT !.pc = "pin", !.template = t]
    OBVIOUS
  <2>2. IsVisit(a) /\ a.pc = "pin" /\ a.template = t
    BY <1>0, <2>1 DEF IsVisit
  <2>3. Exists(t)
    BY <1>0, <1>5 DEF Sign, Loaded, Pending, In, VisitOK
  <2>4. VisitOK(a)
    BY <2>2, <2>3 DEF VisitOK
  <2>5. Turn(v, a) /\ UNCHANGED <<templates, signatures>>
    BY <1>0, <1>5, <2>1 DEF Sign
  <2> QED
    BY <2>2, <2>4, <2>5, VisitGoesOn
<1> QED
  BY <1>1, <1>2, <1>3, <1>4, <1>5

(* The service pins the version there is by now, and what it says.          *)
LEMMA PinKeeps ==
  ASSUME WaiversInv, NEW v \in Visitors, Pin(v)
  PROVE  WaiversInv'
<1>1. PICK k, t : k = visits[v] /\ VisitOK(k) /\ IsVisit(k) /\ k.pc = "pin" /\ t = k.template
  BY DEF WaiversInv, VisitOK, Pin, In
<1>2. Exists(t) /\ t \in Templates /\ templates[t].version \in Nat /\ templates[t].version > 0
  BY <1>1 DEF VisitOK, Exists, WaiversInv, IsTemplate
<1>3. PICK p : p = [version |-> templates[t].version, text |-> templates[t].text]
  OBVIOUS
<1>4. PICK a : a = [k EXCEPT !.pc = "create", !.pinned = p]
  OBVIOUS
<1>5. IsVisit(a) /\ a.pc = "create" /\ a.template = t /\ a.pinned = p
  BY <1>1, <1>4 DEF IsVisit
<1>6. visits' = [visits EXCEPT ![v] = a] /\ UNCHANGED <<templates, signatures>>
  BY <1>1, <1>3, <1>4 DEF Pin, Turn
<1>7. /\ visits' = [w \in Visitors |-> visits'[w]]
      /\ visits'[v] = a /\ \A w \in Visitors \ {v} : visits'[w] = visits[w]
  BY <1>6 DEF WaiversInv
<1>8. \A u, n, y : Pinned(u, n, y)' =>
          Pinned(u, n, y) \/ (u = t /\ n = templates[t].version /\ y = templates[t].text)
  <2>1. \A u, n, y : PinnedBy(a, u, n, y) =>
            u = t /\ n = templates[t].version /\ y = templates[t].text
    BY <1>3, <1>5 DEF PinnedBy
  <2> QED
    BY <1>6, <1>7, <2>1 DEF Pinned
<1>9. \A w \in Visitors : VisitOK(visits[w])'
  <2> SUFFICES ASSUME NEW w \in Visitors, NEW y, y = visits'[w] PROVE VisitOK(y)'
    OBVIOUS
  <2>1. VisitOK(a)
    BY <1>2, <1>5 DEF VisitOK
  <2>2. VisitOK(y)
    BY <1>7, <2>1 DEF WaiversInv
  <2> QED
    BY <1>6, <2>2 DEF VisitOK, Exists
<1>10. \A u, n, y : Pinned(u, n, y)' => OfVersion(u, n, y)
  <2>1. OfVersion(t, templates[t].version, templates[t].text)
    BY <1>2 DEF OfVersion
  <2>2. \A u, n, y : Pinned(u, n, y) => OfVersion(u, n, y)
    BY DEF WaiversInv
  <2> QED
    BY <1>8, <2>1, <2>2
<1>11. \A u, n, y, z : Pinned(u, n, y)' /\ Pinned(u, n, z)' => y = z
  <2> SUFFICES ASSUME NEW u, NEW n, NEW y, NEW z, Pinned(u, n, y)', Pinned(u, n, z)' PROVE y = z
    OBVIOUS
  <2>1. OfVersion(u, n, y) /\ OfVersion(u, n, z)
    BY <1>10
  <2>2. CASE Pinned(u, n, y) /\ Pinned(u, n, z)
    BY <2>2 DEF WaiversInv
  <2>3. CASE u = t /\ n = templates[t].version
    BY <2>1, <2>3 DEF OfVersion
  <2> QED
    BY <1>8, <2>2, <2>3
<1>12. \A u, n, y : OfVersion(u, n, y)' <=> OfVersion(u, n, y)
  BY <1>6 DEF OfVersion
<1> QED
  BY <1>6, <1>7, <1>9, <1>10, <1>11, <1>12 DEF WaiversInv, IsTemplate

LEMMA CreateSignatureKeeps ==
  ASSUME WaiversInv, NEW v \in Visitors, CreateSignature(v)
  PROVE  WaiversInv'
<1>1. PICK k : k = visits[v] /\ k.pc = "create"
  BY DEF CreateSignature, In
<1>2. PICK s : s = [id |-> Cardinality(signatures) + 1, template |-> k.template,
                    version |-> k.pinned.version, member |-> Subject[v], by |-> v,
                    text |-> k.pinned.text]
  OBVIOUS
<1>3. /\ s.template = k.template /\ s.version = k.pinned.version /\ s.text = k.pinned.text
  BY <1>2
<1>4. PICK a : a = [NoVisit EXCEPT !.pc = "load"]
  OBVIOUS
<1>5. IsVisit(a) /\ a.pc = "load" /\ a.offered = None
  BY <1>4 DEF NoVisit, IsVisit
<1>6. /\ signatures' = signatures \cup {s} /\ visits' = [visits EXCEPT ![v] = a]
      /\ UNCHANGED templates
  BY <1>1, <1>2, <1>4 DEF CreateSignature, Turn
<1>7. /\ visits' = [w \in Visitors |-> visits'[w]]
      /\ visits'[v] = a /\ \A w \in Visitors \ {v} : visits'[w] = visits[w]
  BY <1>6 DEF WaiversInv
<1>8. \A u, n, y : Pinned(u, n, y)' => Pinned(u, n, y)
  <2>1. \A u, n, y : ~PinnedBy(a, u, n, y)
    BY <1>5 DEF PinnedBy
  <2>2. \A u, n, y : s.template = u /\ s.version = n /\ s.text = y => PinnedBy(visits[v], u, n, y)
    BY <1>1, <1>3 DEF PinnedBy
  <2> QED
    BY <1>6, <1>7, <2>1, <2>2 DEF Pinned
<1>9. \A w \in Visitors : VisitOK(visits[w])'
  <2> SUFFICES ASSUME NEW w \in Visitors, NEW y, y = visits'[w] PROVE VisitOK(y)'
    OBVIOUS
  <2>1. VisitOK(y)
    BY <1>5, <1>7 DEF WaiversInv, VisitOK
  <2> QED
    BY <1>6, <2>1 DEF VisitOK, Exists
<1>10. \A u, n, y : OfVersion(u, n, y)' <=> OfVersion(u, n, y)
  BY <1>6 DEF OfVersion
<1> QED
  BY <1>6, <1>7, <1>8, <1>9, <1>10 DEF WaiversInv, IsTemplate

LEMMA WaiversInvStep == WaiversInv /\ [WaiversNext]_waiverVars => WaiversInv'
<1> SUFFICES ASSUME WaiversInv, [WaiversNext]_waiverVars PROVE WaiversInv'
  OBVIOUS
<1>1. CASE UNCHANGED waiverVars
  <2>1. templates' = templates /\ signatures' = signatures /\ visits' = visits
    BY <1>1 DEF waiverVars
  <2>2. \A v \in Visitors : VisitOK(visits[v])'
    BY <2>1 DEF WaiversInv, VisitOK, Exists
  <2>3. \A t, n, x : (Pinned(t, n, x)' <=> Pinned(t, n, x)) /\ (OfVersion(t, n, x)' <=> OfVersion(t, n, x))
    BY <2>1 DEF Pinned, PinnedBy, OfVersion
  <2> QED
    BY <2>1, <2>2, <2>3 DEF WaiversInv, IsTemplate
<1>2. CASE WaiversNext
  BY <1>2, TemplatesKeep, PageKeeps, PinKeeps, CreateSignatureKeeps DEF WaiversNext
<1> QED
  BY <1>1, <1>2

(* Two signatures under one version of a template are for one text, however *)
(* edits and signatures race: the version is counted up by the write that   *)
(* changes the text, and it is pinned together with the text.               *)
THEOREM SignedTextIsOne == WaiversSpec => []SameVersionSameText
<1>1. WaiversInv => SameVersionSameText
  BY DEF WaiversInv, SameVersionSameText, Pinned
<1> QED
  BY <1>1, WaiversInvInit, WaiversInvStep, PTL DEF WaiversSpec

-----------------------------------------------------------------------------
(* Members' e-mails.  The unique index is on the e-mail in lower case, a    *)
(* column of its own; so the invariant is that the column is what its name *)
(* says in every row (RowOK), which what a request is about to write must  *)
(* not break (EditOK).                                                     *)
MemberPatch(p) ==
    /\ "emailLower" \notin DOMAIN p
    /\ "email" \in DOMAIN p => p["email"] \in Emails \cup {None}

EditOK(a) ==
    /\ a \in [pc : {a.pc}, coll : {a.coll}, op : {a.op}, id : {a.id}, member : {a.member},
              body : {a.body}, patch : {a.patch}]
    /\ a.pc \in {"find", "write"} /\ a.coll = "member" /\ a.op # "remove" =>
          /\ MemberPatch(a.patch)
          /\ a.op = "create" => "email" \in DOMAIN a.patch
    /\ a.pc \in {"household", "member"} => a.op \in {"link", "unlink"}

RowOK(row) ==
    row # None =>
        /\ "email" \in DOMAIN row /\ row["email"] \in Emails \cup {None}
        /\ "emailLower" \in DOMAIN row /\ row["emailLower"] = Lower(row["email"])

CatalogueInv ==
    /\ rows = [c \in DOMAIN Collections |-> rows[c]]
    /\ rows["member"] = [i \in RowIds |-> rows["member"][i]]
    /\ edits = [e \in Editors |-> edits[e]]
    /\ \A e \in Editors : EditOK(edits[e])
    /\ \A i \in RowIds : RowOK(rows["member"][i])
    /\ \A m, n \in RowIds :
          m # n /\ rows["member"][m] # None /\ rows["member"][n] # None
              /\ rows["member"][m]["emailLower"] # None
          => rows["member"][m]["emailLower"] # rows["member"][n]["emailLower"]

LEMMA MemberIsOne == "member" \in DOMAIN Collections
BY DEF Collections

LEMMA NoEditOK == EditOK(NoEdit) /\ NoEdit.pc = "idle"
BY DEF EditOK, NoEdit

LEMMA CatalogueInvInit == CatalogueInit => CatalogueInv
<1> SUFFICES ASSUME CatalogueInit PROVE CatalogueInv
  OBVIOUS
<1>1. rows["member"] = [i \in RowIds |-> None]
  BY MemberIsOne DEF CatalogueInit
<1>2. edits = [e \in Editors |-> NoEdit] /\ rows = [c \in DOMAIN Collections |-> rows[c]]
  BY DEF CatalogueInit
<1>3. \A e \in Editors : EditOK(edits[e])
  BY <1>2, NoEditOK
<1> QED
  BY <1>1, <1>2, <1>3 DEF CatalogueInv, RowOK

(* The bodies of a member's routes, with what the schema fills in.          *)
LEMMA MemberBodies ==
  ASSUME NEW op \in {"create", "update"}, NEW body \in BodiesOf("member", op)
  PROVE  LET p == Parse(Collections["member"].routes[op], body)
         IN  MemberPatch(p) /\ (op = "create" => "email" \in DOMAIN p)
<1>1. Collections["member"].routes[op] = MemberDefaults
  BY DEF Collections, layers, MembersController, Partial
<1>2. Collections["member"].routes["create"] = MemberDefaults
  BY DEF Collections, layers, MembersController
<1>3. DOMAIN MemberDefaults = {"status"}
  BY DEF MemberDefaults
<1>4. Given("member") = {"status", "email"}
  BY DEF Given, Collections, layers, MemberRepository
<1>5. PICK F : F \subseteq {"status", "email"} /\ body \in Bodies(F) /\ (op = "create" => "email" \in F)
  <2>1. CASE op = "create"
    <3>1. body \in Bodies({"status", "email"}) \cup Bodies({"status", "email"} \ {"status"})
      BY <1>2, <1>3, <1>4, <2>1 DEF BodiesOf, CreateBodies
    <3>2. {"status", "email"} \ {"status"} = {"email"}
      OBVIOUS
    <3> QED
      BY <2>1, <3>1, <3>2
  <2>2. CASE op = "update"
    <3>1. body \in UNION {Bodies({f}) : f \in {"status", "email"}}
      BY <1>4, <2>2 DEF BodiesOf, UpdateBodies
    <3>2. PICK f \in {"status", "email"} : body \in Bodies({f})
      BY <3>1
    <3> QED
      BY <2>2, <3>2
  <2> QED
    BY <2>1, <2>2
<1>6. DOMAIN body = F /\ \A f \in F : body[f] \in Values(f)
  BY <1>5 DEF Bodies
<1>7. PICK p : p = Over(body, MemberDefaults)
  OBVIOUS
<1>8. DOMAIN p = F \cup {"status"} /\ \A f \in F : p[f] = body[f]
  BY <1>3, <1>6, <1>7 DEF Over
<1>9. Values("email") = Emails \cup {None}
  BY DEF Values
<1>10. MemberPatch(p) /\ (op = "create" => "email" \in DOMAIN p)
  BY <1>5, <1>6, <1>8, <1>9 DEF MemberPatch
<1> QED
  BY <1>1, <1>7, <1>10 DEF Parse

(* What a write makes of a row.                                             *)
LEMMA NewRow ==
  ASSUME NEW p, MemberPatch(p), "email" \in DOMAIN p
  PROVE  RowOK(MemberFields(p))
<1>1. PICK x : x = p["email"] /\ x \in Emails \cup {None}
  BY DEF MemberPatch
<1>2. PICK f : f = [emailLower |-> Lower(x), household |-> None]
  OBVIOUS
<1>3. DOMAIN f = {"emailLower", "household"} /\ f["emailLower"] = Lower(x)
  BY <1>2
<1>4. MemberFields(p) = Over(f, p)
  BY <1>1, <1>2 DEF MemberFields, Lower
<1>5. PICK r : r = Over(f, p)
  OBVIOUS
<1>6. /\ DOMAIN r = DOMAIN f \cup DOMAIN p
      /\ \A y \in DOMAIN f : r[y] = f[y]
      /\ \A y \in DOMAIN p : y \notin DOMAIN f => r[y] = p[y]
  BY <1>5 DEF Over
<1>7. "email" \in DOMAIN r /\ r["email"] = x
  BY <1>1, <1>3, <1>6
<1>8. "emailLower" \in DOMAIN r /\ r["emailLower"] = Lower(x)
  BY <1>3, <1>6
<1> QED
  BY <1>1, <1>4, <1>5, <1>7, <1>8 DEF RowOK

LEMMA ChangedRow ==
  ASSUME NEW p, MemberPatch(p), NEW row, row # None, RowOK(row)
  PROVE  RowOK(Updated("member", row, p))
<1>1. PICK q : q = WithLower(p)
  OBVIOUS
<1>2. Updated("member", row, p) = Over(q, row)
  BY <1>1 DEF Updated
<1>3. PICK r : r = Over(q, row)
  OBVIOUS
<1>4. /\ DOMAIN r = DOMAIN q \cup DOMAIN row
      /\ \A y \in DOMAIN q : r[y] = q[y]
      /\ \A y \in DOMAIN row : y \notin DOMAIN q => r[y] = row[y]
  BY <1>3 DEF Over
<1>5. CASE "email" \in DOMAIN p
  <2>1. PICK x : x = p["email"] /\ x \in Emails \cup {None}
    BY <1>5 DEF MemberPatch
  <2>2. PICK f : f = [emailLower |-> Lower(x)]
    OBVIOUS
  <2>3. DOMAIN f = {"emailLower"} /\ f["emailLower"] = Lower(x)
    BY <2>2
  <2>4. q = Over(f, p)
    BY <1>1, <1>5, <2>1, <2>2 DEF WithLower, Lower
  <2>5. /\ DOMAIN q = DOMAIN f \cup DOMAIN p
        /\ \A y \in DOMAIN f : q[y] = f[y]
        /\ \A y \in DOMAIN p : y \notin DOMAIN f => q[y] = p[y]
    BY <2>4 DEF Over
  <2>6. "email" \in DOMAIN q /\ q["email"] = x
    BY <1>5, <2>1, <2>3, <2>5
  <2>7. "emailLower" \in DOMAIN q /\ q["emailLower"] = Lower(x)
    BY <2>3, <2>5
  <2>8. /\ "email" \in DOMAIN r /\ r["email"] = x
        /\ "emailLower" \in DOMAIN r /\ r["emailLower"] = Lower(x)
    BY <1>4, <2>6, <2>7
  <2> QED
    BY <1>2, <1>3, <2>1, <2>8 DEF RowOK
<1>6. CASE "email" \notin DOMAIN p
  <2>1. q = p /\ "emailLower" \notin DOMAIN q
    BY <1>1, <1>6 DEF WithLower, MemberPatch
  <2>2. "email" \in DOMAIN row /\ "emailLower" \in DOMAIN row
    BY DEF RowOK
  <2>3. /\ "email" \in DOMAIN r /\ r["email"] = row["email"]
        /\ "emailLower" \in DOMAIN r /\ r["emailLower"] = row["emailLower"]
    BY <1>6, <1>4, <2>1, <2>2
  <2> QED
    BY <1>2, <1>3, <2>3 DEF RowOK
<1> QED
  BY <1>5, <1>6

(* A step that writes no row.                                               *)
LEMMA EditMoves ==
  ASSUME CatalogueInv, NEW e \in Editors, NEW a, EditOK(a), Proceed(e, a), UNCHANGED rows
  PROVE  CatalogueInv'
<1>1. edits' = [d \in Editors |-> edits'[d]] /\ edits'[e] = a
      /\ \A d \in Editors \ {e} : edits'[d] = edits[d]
  BY DEF CatalogueInv, Proceed
<1>2. \A d \in Editors : EditOK(edits'[d])
  BY <1>1 DEF CatalogueInv
<1>3. \A i \in RowIds : RowOK(rows["member"][i])
  BY DEF CatalogueInv
<1> QED
  BY <1>1, <1>2, <1>3 DEF CatalogueInv

LEMMA BeginKeeps ==
  ASSUME CatalogueInv, NEW e \in Editors, NEW c, NEW op \in {"create", "update", "remove"},
         NEW id, NEW body \in BodiesOf(c, op), Begin(e, c, op, id, body)
  PROVE  CatalogueInv'
<1>1. PICK p : p = Parse(Collections[c].routes[op], body)
  OBVIOUS
<1>2. PICK pc : pc = IF op \in Collections[c].service.find THEN "find" ELSE "write"
  OBVIOUS
<1>3. PICK a : a = [pc |-> pc, coll |-> c, op |-> op, id |-> id, member |-> None,
                    body |-> body, patch |-> p]
  OBVIOUS
<1>4. /\ a.pc = pc /\ a.coll = c /\ a.op = op /\ a.patch = p
      /\ a \in [pc : {a.pc}, coll : {a.coll}, op : {a.op}, id : {a.id}, member : {a.member},
                body : {a.body}, patch : {a.patch}]
  BY <1>3
<1>5. c = "member" /\ op # "remove" => MemberPatch(p) /\ (op = "create" => "email" \in DOMAIN p)
  BY <1>1, MemberBodies
<1>6. a.pc \in {"find", "write"}
  BY <1>2, <1>4
<1>7. EditOK(a)
  BY <1>4, <1>5, <1>6 DEF EditOK
<1>8. Proceed(e, a) /\ UNCHANGED rows
  BY <1>1, <1>2, <1>3 DEF Begin, Start
<1> QED
  BY <1>7, <1>8, EditMoves

LEMMA LinkKeeps ==
  ASSUME CatalogueInv, NEW e \in Editors
  PROVE  /\ \A op \in {"link", "unlink"}, household \in RowIds, m \in RowIds :
               BeginLink(e, op, household, m) => CatalogueInv'
         /\ FindHousehold(e) => CatalogueInv'
         /\ FindMember(e) => CatalogueInv'
<1>0. PICK k : k = edits[e] /\ EditOK(k)
  BY DEF CatalogueInv
<1>1. ASSUME NEW op \in {"link", "unlink"}, NEW household \in RowIds, NEW m \in RowIds,
             BeginLink(e, op, household, m)
      PROVE  CatalogueInv'
  <2>1. PICK a : a = [NoEdit EXCEPT !.pc = "household", !.coll = "household", !.op = op,
                                    !.id = household, !.member = m]
    OBVIOUS
  <2>2. EditOK(a)
    BY <2>1 DEF NoEdit, EditOK
  <2> QED
    BY <1>1, <2>1, <2>2, EditMoves DEF BeginLink, Start
<1>2. ASSUME FindHousehold(e) PROVE CatalogueInv'
  <2>1. PICK a : a = [k EXCEPT !.pc = "member"]
    OBVIOUS
  <2>2. k.pc = "household"
    BY <1>0, <1>2 DEF FindHousehold
  <2>3. EditOK(a)
    BY <1>0, <2>1, <2>2 DEF EditOK
  <2>4. (Proceed(e, a) \/ Proceed(e, NoEdit)) /\ UNCHANGED rows
    BY <1>0, <1>2, <2>1 DEF FindHousehold, Finish
  <2> QED
    BY <2>3, <2>4, NoEditOK, EditMoves
<1>3. ASSUME FindMember(e) PROVE CatalogueInv'
  <2>1. PICK h : h = [household |-> IF k.op = "link" THEN k.id ELSE None]
    OBVIOUS
  <2>2. PICK a : a = [k EXCEPT !.pc = "write", !.coll = "member", !.id = k.member,
                               !.body = h, !.patch = h]
    OBVIOUS
  <2>3. k.pc = "member" /\ k.op \in {"link", "unlink"}
    BY <1>0, <1>3 DEF FindMember, EditOK
  <2>4. MemberPatch(h)
    BY <2>1 DEF MemberPatch
  <2>5. /\ a.op = k.op /\ a.pc = "write" /\ a.patch = h
        /\ a \in [pc : {a.pc}, coll : {a.coll}, op : {a.op}, id : {a.id}, member : {a.member},
                  body : {a.body}, patch : {a.patch}]
    BY <1>0, <2>2 DEF EditOK
  <2>6. EditOK(a)
    BY <2>3, <2>4, <2>5 DEF EditOK
  <2>7. (Proceed(e, a) \/ Proceed(e, NoEdit)) /\ UNCHANGED rows
    BY <1>0, <1>3, <2>1, <2>2 DEF FindMember, Finish
  <2> QED
    BY <2>6, <2>7, NoEditOK, EditMoves
<1> QED
  BY <1>1, <1>2, <1>3

LEMMA FindKeeps ==
  ASSUME CatalogueInv, NEW e \in Editors, Find(e)
  PROVE  CatalogueInv'
<1>1. PICK k : k = edits[e] /\ EditOK(k) /\ k.pc = "find"
  BY DEF CatalogueInv, Find
<1>2. PICK a : a = [k EXCEPT !.pc = "write"]
  OBVIOUS
<1>3. EditOK(a)
  BY <1>1, <1>2 DEF EditOK
<1>4. (Proceed(e, a) \/ Proceed(e, NoEdit)) /\ UNCHANGED rows
  BY <1>1, <1>2 DEF Find, Finish
<1> QED
  BY <1>3, <1>4, NoEditOK, EditMoves

(* A row of a member is written, if its e-mail is nobody else's.            *)
LEMMA MemberWritten ==
  ASSUME CatalogueInv, NEW e \in Editors, NEW id, NEW row, RowOK(row),
         row # None => ~EmailTaken(id, row),
         rows' = [rows EXCEPT !["member"][id] = row], Proceed(e, NoEdit)
  PROVE  CatalogueInv'
<1>1. PICK M : M = rows["member"]
  OBVIOUS
<1>2. PICK N : N = rows'["member"]
  OBVIOUS
<1>3. rows' = [c \in DOMAIN Collections |-> rows'[c]] /\ N = [M EXCEPT ![id] = row]
  BY <1>1, <1>2, MemberIsOne DEF CatalogueInv
<1>4. M = [i \in RowIds |-> M[i]]
  BY <1>1 DEF CatalogueInv
<1>5. /\ N = [i \in RowIds |-> N[i]]
      /\ \A i \in RowIds : N[i] = IF i = id THEN row ELSE M[i]
  BY <1>3, <1>4
<1>6. \A i \in RowIds : RowOK(N[i])
  BY <1>1, <1>5 DEF CatalogueInv
<1>7. \A m, n \in RowIds :
          m # n /\ N[m] # None /\ N[n] # None /\ N[m]["emailLower"] # None
              => N[m]["emailLower"] # N[n]["emailLower"]
  <2>1. \A m, n \in RowIds :
            m # n /\ M[m] # None /\ M[n] # None /\ M[m]["emailLower"] # None
                => M[m]["emailLower"] # M[n]["emailLower"]
    BY <1>1 DEF CatalogueInv
  <2>2. row # None /\ row["emailLower"] # None =>
            \A i \in RowIds \ {id} : M[i] # None => M[i]["emailLower"] # row["emailLower"]
    BY <1>1 DEF EmailTaken
  <2> SUFFICES ASSUME NEW m \in RowIds, NEW n \in RowIds, m # n, N[m] # None, N[n] # None,
                      N[m]["emailLower"] # None, N[m]["emailLower"] = N[n]["emailLower"]
               PROVE  FALSE
    OBVIOUS
  <2>3. CASE m = id
    BY <1>5, <2>2, <2>3
  <2>4. CASE n = id
    BY <1>5, <2>2, <2>4
  <2>5. CASE m # id /\ n # id
    BY <1>5, <2>1, <2>5
  <2> QED
    BY <2>3, <2>4, <2>5
<1>8. edits' = [d \in Editors |-> edits'[d]] /\ \A d \in Editors : EditOK(edits'[d])
  BY NoEditOK DEF CatalogueInv, Proceed
<1>9. /\ rows'["member"] = [i \in RowIds |-> rows'["member"][i]]
      /\ \A i \in RowIds : RowOK(rows'["member"][i])
  BY <1>2, <1>5, <1>6
<1>10. \A m, n \in RowIds :
           m # n /\ rows'["member"][m] # None /\ rows'["member"][n] # None
               /\ rows'["member"][m]["emailLower"] # None
           => rows'["member"][m]["emailLower"] # rows'["member"][n]["emailLower"]
  BY <1>2, <1>7
<1> QED
  BY <1>3, <1>8, <1>9, <1>10 DEF CatalogueInv

LEMMA WriteKeeps ==
  ASSUME CatalogueInv, NEW e \in Editors, Write(e)
  PROVE  CatalogueInv'
<1>1. PICK k : k = edits[e] /\ EditOK(k) /\ k.pc = "write"
  BY DEF CatalogueInv, Write
<1>2. PICK next : next = CASE k.op = "create" -> Created(k.coll, k.patch)
                           [] k.op = "remove" -> None
                           [] OTHER -> Updated(k.coll, rows[k.coll][k.id], k.patch)
  OBVIOUS
<1>3. Proceed(e, NoEdit)
  BY DEF Write, Finish
<1>4. CASE UNCHANGED rows
  BY <1>3, <1>4, NoEditOK, EditMoves
<1>5. CASE ~UNCHANGED rows
  <2>1. /\ rows' = [rows EXCEPT ![k.coll][k.id] = next]
        /\ k.op # "create" => rows[k.coll][k.id] # None
        /\ k.coll = "member" /\ k.op # "remove" => ~EmailTaken(k.id, next)
    BY <1>1, <1>2, <1>5 DEF Write
  <2>2. CASE k.coll # "member"
    <3>1. rows' = [c \in DOMAIN Collections |-> rows'[c]] /\ rows'["member"] = rows["member"]
      BY <2>1, <2>2, MemberIsOne DEF CatalogueInv
    <3>2. edits' = [d \in Editors |-> edits'[d]] /\ \A d \in Editors : EditOK(edits'[d])
      BY <1>3, NoEditOK DEF CatalogueInv, Proceed
    <3> QED
      BY <3>1, <3>2 DEF CatalogueInv
  <2>3. CASE k.coll = "member" /\ k.id \in RowIds
    <3>1. RowOK(rows["member"][k.id])
      BY <2>3 DEF CatalogueInv
    <3>2. RowOK(next)
      <4>1. CASE k.op = "create"
        <5>1. MemberPatch(k.patch) /\ "email" \in DOMAIN k.patch
          BY <1>1, <2>3, <4>1 DEF EditOK
        <5>2. next = MemberFields(k.patch)
          BY <1>2, <2>3, <4>1 DEF Created
        <5> QED
          BY <5>1, <5>2, NewRow
      <4>2. CASE k.op = "remove"
        BY <1>2, <4>2 DEF RowOK
      <4>3. CASE k.op \notin {"create", "remove"}
        <5>1. MemberPatch(k.patch)
          BY <1>1, <2>3, <4>3 DEF EditOK
        <5>2. next = Updated("member", rows["member"][k.id], k.patch)
          BY <1>2, <2>3, <4>3
        <5> QED
          BY <2>1, <2>3, <3>1, <4>3, <5>1, <5>2, ChangedRow
      <4> QED
        BY <4>1, <4>2, <4>3
    <3>3. next # None => ~EmailTaken(k.id, next)
      <4>1. k.op = "remove" => next = None
        BY <1>2
      <4> QED
        BY <2>1, <2>3, <4>1
    <3> QED
      BY <1>3, <2>1, <2>3, <3>2, <3>3, MemberWritten
  <2>4. CASE k.coll = "member" /\ k.id \notin RowIds
    <3>1. rows' = rows
      BY <2>1, <2>4, MemberIsOne DEF CatalogueInv
    <3> QED
      BY <1>5, <3>1
  <2> QED
    BY <2>2, <2>3, <2>4
<1> QED
  BY <1>4, <1>5

LEMMA CatalogueInvStep == CatalogueInv /\ [CatalogueNext]_catalogueVars => CatalogueInv'
<1> SUFFICES ASSUME CatalogueInv, [CatalogueNext]_catalogueVars PROVE CatalogueInv'
  OBVIOUS
<1>1. CASE UNCHANGED catalogueVars
  <2>1. rows' = rows /\ edits' = edits
    BY <1>1 DEF catalogueVars
  <2> QED
    BY <2>1 DEF CatalogueInv
<1>2. CASE CatalogueNext
  <2>1. PICK e \in Editors :
            \/ \E c \in focus.colls, op \in {"create", "update", "remove"}, id \in RowIds :
                  \E body \in BodiesOf(c, op) : Begin(e, c, op, id, body)
            \/ \E op \in {"link", "unlink"}, household \in RowIds, m \in RowIds :
                  BeginLink(e, op, household, m)
            \/ Find(e) \/ FindHousehold(e) \/ FindMember(e) \/ Write(e)
    BY <1>2 DEF CatalogueNext
  <2> QED
    BY <2>1, BeginKeeps, LinkKeeps, FindKeeps, WriteKeeps
<1> QED
  BY <1>1, <1>2

(* One member of an e-mail, however it is spelt: the unique index on the    *)
(* column in lower case is enough because no write lets it fall behind.     *)
THEOREM OneMemberOfAnEmail == CatalogueSpec => []EmailIsOneMembers
<1>1. CatalogueInv => EmailIsOneMembers
  <2> SUFFICES ASSUME CatalogueInv, NEW m \in RowIds, NEW n \in RowIds, m # n,
                      NEW a, a = rows["member"][m], NEW b, b = rows["member"][n],
                      a # None, b # None, a["email"] # None, b["email"] # None,
                      LowerCase[a["email"]] = LowerCase[b["email"]]
               PROVE  FALSE
    BY DEF EmailIsOneMembers
  <2>1. RowOK(a) /\ RowOK(b)
    BY DEF CatalogueInv
  <2>2. a["emailLower"] = LowerCase[a["email"]] /\ b["emailLower"] = LowerCase[b["email"]]
    BY <2>1 DEF RowOK, Lower
  <2>3. a["emailLower"] \in Emails /\ None \notin Emails
    BY <2>1, <2>2, CatalogueAssumption DEF RowOK
  <2> QED
    BY <2>2, <2>3 DEF CatalogueInv
<1> QED
  BY <1>1, CatalogueInvInit, CatalogueInvStep, PTL DEF CatalogueSpec

(***************************************************************************)
(* The tenant guard: what a pipeline does, stage by stage, and what a      *)
(* stage does, by those nested in it.                                      *)
(***************************************************************************)
LEMMA LeastOf ==
  ASSUME NEW T, T \subseteq Nat, T # {}
  PROVE  \E x \in T : \A y \in T : x <= y
<1>1. PICK x \in T : \A y \in T : <<y, x>> \notin OpToRel(<, Nat)
  BY WFMin, NatLessThanWellFounded, Zenon
<1>2. SUFFICES ASSUME NEW y \in T PROVE x <= y
  BY <1>1
<1>3. x \in Nat /\ y \in Nat
  OBVIOUS
<1>4. ~(y < x)
  BY <1>1, <1>3, Zenon DEF OpToRel
<1> QED
  BY <1>3, <1>4

(* Four functions are defined by recursion on a number: what follows, for   *)
(* each of them, is that there is one.                                      *)
FlowsTo(k, a, pipeline, run, start) ==
    a = [i \in 0..k |-> IF i = 0 THEN start ELSE run[pipeline[i]][a[i - 1]]]
RowsTo(k, a, ops, t) ==
    a = [i \in 0..k |-> IF i = 0 THEN docs ELSE BulkStep(a[i - 1], ops[i], t)]
UnsafeTo(k, a) ==
    a = [i \in 0..k |-> UnsafeAt(i, IF i = 0 THEN {} ELSE a[i - 1])]
RunTo(k, a, t) ==
    a = [i \in 0..k |-> RunAt(i, t, IF i = 0 THEN <<>> ELSE a[i - 1])]

LEMMA FlowsExist ==
  ASSUME NEW k \in Nat, NEW pipeline, NEW run, NEW start
  PROVE  \E a : FlowsTo(k, a, pipeline, run, start)
<1> DEFINE Missing == {n \in Nat : ~ \E a : FlowsTo(n, a, pipeline, run, start)}
           value(i, b) == IF i = 0 THEN start ELSE run[pipeline[i]][b]
<1>1. SUFFICES ASSUME Missing # {} PROVE FALSE
  OBVIOUS
<1>2. PICK m \in Missing : \A n \in Missing : m <= n
  BY <1>1, LeastOf
<1>3. PICK f : m # 0 => FlowsTo(m - 1, f, pipeline, run, start)
  BY <1>2
<1> DEFINE g == [i \in 0..m |-> IF i = m THEN value(m, f[m - 1]) ELSE f[i]]
<1>4. ASSUME NEW i \in 0..m PROVE g[i] = value(i, g[i - 1])
  <2>1. CASE i = m
    <3>1. g[i] = value(m, f[m - 1]) /\ (m # 0 => g[i - 1] = f[m - 1])
      BY <2>1
    <3> HIDE DEF g
    <3> QED
      BY <2>1, <3>1
  <2>2. CASE i # m
    <3>1. m # 0 /\ i \in 0..(m - 1) /\ g[i] = f[i]
      BY <2>2
    <3>2. i # 0 => g[i - 1] = f[i - 1]
      BY <2>2
    <3>3. f[i] = value(i, f[i - 1])
      BY <1>3, <3>1 DEF FlowsTo
    <3> HIDE DEF g
    <3> QED
      BY <3>1, <3>2, <3>3
  <2> QED
    BY <2>1, <2>2
<1>5. g = [i \in 0..m |-> value(i, g[i - 1])]
  BY <1>4
<1>6. FlowsTo(m, g, pipeline, run, start)
  BY <1>5 DEF FlowsTo
<1> QED
  BY <1>2, <1>6

LEMMA RowsExist ==
  ASSUME NEW k \in Nat, NEW ops, NEW t
  PROVE  \E a : RowsTo(k, a, ops, t)
<1> DEFINE Missing == {n \in Nat : ~ \E a : RowsTo(n, a, ops, t)}
           value(i, b) == IF i = 0 THEN docs ELSE BulkStep(b, ops[i], t)
<1>1. SUFFICES ASSUME Missing # {} PROVE FALSE
  OBVIOUS
<1>2. PICK m \in Missing : \A n \in Missing : m <= n
  BY <1>1, LeastOf
<1>3. PICK f : m # 0 => RowsTo(m - 1, f, ops, t)
  BY <1>2
<1> DEFINE g == [i \in 0..m |-> IF i = m THEN value(m, f[m - 1]) ELSE f[i]]
<1>4. ASSUME NEW i \in 0..m PROVE g[i] = value(i, g[i - 1])
  <2>1. CASE i = m
    <3>1. g[i] = value(m, f[m - 1]) /\ (m # 0 => g[i - 1] = f[m - 1])
      BY <2>1
    <3> HIDE DEF g
    <3> QED
      BY <2>1, <3>1
  <2>2. CASE i # m
    <3>1. m # 0 /\ i \in 0..(m - 1) /\ g[i] = f[i]
      BY <2>2
    <3>2. i # 0 => g[i - 1] = f[i - 1]
      BY <2>2
    <3>3. f[i] = value(i, f[i - 1])
      BY <1>3, <3>1 DEF RowsTo
    <3> HIDE DEF g
    <3> QED
      BY <3>1, <3>2, <3>3
  <2> QED
    BY <2>1, <2>2
<1>5. g = [i \in 0..m |-> value(i, g[i - 1])]
  BY <1>4
<1>6. RowsTo(m, g, ops, t)
  BY <1>5 DEF RowsTo
<1> QED
  BY <1>2, <1>6

LEMMA UnsafeExists ==
  ASSUME NEW k \in Nat
  PROVE  \E a : UnsafeTo(k, a)
<1> DEFINE Missing == {n \in Nat : ~ \E a : UnsafeTo(n, a)}
           value(i, b) == UnsafeAt(i, IF i = 0 THEN {} ELSE b)
<1>1. SUFFICES ASSUME Missing # {} PROVE FALSE
  OBVIOUS
<1>2. PICK m \in Missing : \A n \in Missing : m <= n
  BY <1>1, LeastOf
<1>3. PICK f : m # 0 => UnsafeTo(m - 1, f)
  BY <1>2
<1> DEFINE g == [i \in 0..m |-> IF i = m THEN value(m, f[m - 1]) ELSE f[i]]
<1>4. ASSUME NEW i \in 0..m PROVE g[i] = value(i, g[i - 1])
  <2>1. CASE i = m
    <3>1. g[i] = value(m, f[m - 1]) /\ (m # 0 => g[i - 1] = f[m - 1])
      BY <2>1
    <3> HIDE DEF g
    <3> QED
      BY <2>1, <3>1
  <2>2. CASE i # m
    <3>1. m # 0 /\ i \in 0..(m - 1) /\ g[i] = f[i]
      BY <2>2
    <3>2. i # 0 => g[i - 1] = f[i - 1]
      BY <2>2
    <3>3. f[i] = value(i, f[i - 1])
      BY <1>3, <3>1 DEF UnsafeTo
    <3> HIDE DEF g
    <3> QED
      BY <3>1, <3>2, <3>3
  <2> QED
    BY <2>1, <2>2
<1>5. g = [i \in 0..m |-> value(i, g[i - 1])]
  BY <1>4
<1>6. UnsafeTo(m, g)
  BY <1>5 DEF UnsafeTo
<1> QED
  BY <1>2, <1>6

LEMMA RunExists ==
  ASSUME NEW k \in Nat, NEW t
  PROVE  \E a : RunTo(k, a, t)
<1> DEFINE Missing == {n \in Nat : ~ \E a : RunTo(n, a, t)}
           value(i, b) == RunAt(i, t, IF i = 0 THEN <<>> ELSE b)
<1>1. SUFFICES ASSUME Missing # {} PROVE FALSE
  OBVIOUS
<1>2. PICK m \in Missing : \A n \in Missing : m <= n
  BY <1>1, LeastOf
<1>3. PICK f : m # 0 => RunTo(m - 1, f, t)
  BY <1>2
<1> DEFINE g == [i \in 0..m |-> IF i = m THEN value(m, f[m - 1]) ELSE f[i]]
<1>4. ASSUME NEW i \in 0..m PROVE g[i] = value(i, g[i - 1])
  <2>1. CASE i = m
    <3>1. g[i] = value(m, f[m - 1]) /\ (m # 0 => g[i - 1] = f[m - 1])
      BY <2>1
    <3> HIDE DEF g
    <3> QED
      BY <2>1, <3>1
  <2>2. CASE i # m
    <3>1. m # 0 /\ i \in 0..(m - 1) /\ g[i] = f[i]
      BY <2>2
    <3>2. i # 0 => g[i - 1] = f[i - 1]
      BY <2>2
    <3>3. f[i] = value(i, f[i - 1])
      BY <1>3, <3>1 DEF RunTo
    <3> HIDE DEF g
    <3> QED
      BY <3>1, <3>2, <3>3
  <2> QED
    BY <2>1, <2>2
<1>5. g = [i \in 0..m |-> value(i, g[i - 1])]
  BY <1>4
<1>6. RunTo(m, g, t)
  BY <1>5 DEF RunTo
<1> QED
  BY <1>2, <1>6

LEMMA ThroughByFlows ==
  ASSUME NEW pipeline, NEW run, NEW start, Len(pipeline) \in Nat
  PROVE  \E a : /\ FlowsTo(Len(pipeline), a, pipeline, run, start)
                /\ Through(pipeline, run, start) = a[Len(pipeline)]
<1> DEFINE a == CHOOSE b : FlowsTo(Len(pipeline), b, pipeline, run, start)
<1>1. FlowsTo(Len(pipeline), a, pipeline, run, start)
  BY FlowsExist
<1>2. Through(pipeline, run, start) = a[Len(pipeline)]
  BY DEF Through, FlowsTo
<1> QED
  BY <1>1, <1>2

LEMMA UnsafeByLevels == \E a : UnsafeTo(Nesting, a) /\ Unsafe = a[Nesting]
<1> DEFINE a == CHOOSE b : UnsafeTo(Nesting, b)
<1>1. UnsafeTo(Nesting, a)
  BY UnsafeExists, GuardAssumption
<1>2. Unsafe = a[Nesting]
  BY DEF Unsafe, UnsafeTo
<1> QED
  BY <1>1, <1>2

LEMMA RunByLevels ==
  ASSUME NEW t
  PROVE  \E a : RunTo(Nesting, a, t) /\ Run(t) = a[Nesting]
<1> DEFINE a == CHOOSE b : RunTo(Nesting, b, t)
<1>1. RunTo(Nesting, a, t)
  BY RunExists, GuardAssumption
<1>2. Run(t) = a[Nesting]
  BY DEF Run, RunTo
<1> QED
  BY <1>1, <1>2

(* Only the tenant's own rows are under way, and nothing was replaced.      *)
Clean(f, t) ==
    /\ f \in Flows
    /\ f.replaced = {} /\ \A d \in f.rows \cup f.joined : d.tenant = t

(* What a stage makes of clean flows, by the stages of an aggregation.      *)
CleanOn(S, run, t) == \A s \in S : \A f : Clean(f, t) => Clean(run[s][f], t)

LEMMA EnteringClean ==
  ASSUME NEW t \in Owners, NEW these, these \subseteq docs
  PROVE  Clean(FlowOf(Entering(these, t)), t)
<1>1. t # NoTenant
  BY GuardAssumption
<1> QED
  BY <1>1 DEF Clean, FlowOf, Entering, Matching, Flows

LEMMA ThroughClean ==
  ASSUME NEW t, NEW S, NEW run, CleanOn(S, run, t),
         NEW pipeline, Len(pipeline) \in Nat, \A i \in 1..Len(pipeline) : pipeline[i] \in S,
         NEW start, Clean(start, t)
  PROVE  Clean(Through(pipeline, run, start), t)
<1> DEFINE k == Len(pipeline)
<1>1. PICK a : FlowsTo(k, a, pipeline, run, start) /\ Through(pipeline, run, start) = a[k]
  BY ThroughByFlows
<1> DEFINE Dirty == {i \in 0..k : ~Clean(a[i], t)}
<1>2. SUFFICES ASSUME Dirty # {} PROVE FALSE
  BY <1>1
<1>3. Dirty \subseteq Nat
  OBVIOUS
<1>4. PICK m \in Dirty : \A i \in Dirty : m <= i
  BY <1>2, <1>3, LeastOf
<1>5. a[m] = IF m = 0 THEN start ELSE run[pipeline[m]][a[m - 1]]
  BY <1>1, <1>4 DEF FlowsTo
<1>6. m # 0
  BY <1>4, <1>5
<1>7. m \in 1..k /\ Clean(a[m - 1], t)
  BY <1>4, <1>6
<1>8. a[m] = run[pipeline[m]][a[m - 1]] /\ pipeline[m] \in S
  BY <1>5, <1>6, <1>7
<1> QED
  BY <1>4, <1>7, <1>8 DEF CleanOn

(* A stage that is not refused keeps a flow clean, if those nested in it do.*)
LEMMA StageClean ==
  ASSUME NEW t \in Owners, NEW S, NEW below, CleanOn(S, below, t),
         NEW s \in Leaves \cup Joins(Seq(S)), s.op # "out", ~(s.op = "lookup" /\ s.byFields = TRUE),
         NEW flow, Clean(flow, t)
  PROVE  Clean(RunStage(ScopeStage(s, t), flow, t, below), t)
<1> DEFINE everything == {d \in docs : d.coll = s.from}
           sub(these) == Through(s.pipeline, below, FlowOf(Entering(these, t)))
<1>1. ASSUME s.op \in {"lookup", "union", "facet"}, NEW these, these \subseteq docs
      PROVE  Clean(sub(these), t)
  <2>1. s.pipeline \in Seq(S)
    BY <1>1 DEF Leaves, Joins
  <2>2. Len(s.pipeline) \in Nat /\ \A i \in 1..Len(s.pipeline) : s.pipeline[i] \in S
    BY <2>1
  <2> QED
    BY <1>1, <2>2, EnteringClean, ThroughClean
<1>2. ASSUME NEW these, these \subseteq docs, \A d \in these : d.tenant = t
      PROVE  /\ Clean([flow EXCEPT !.joined = @ \cup these], t)
             /\ Clean([flow EXCEPT !.rows = these], t)
  BY <1>2 DEF Clean, Flows
<1>3. CASE s.op = "match"
  <2>1. ScopeStage(s, t) = s
    BY <1>3 DEF ScopeStage
  <2>2. RunStage(s, flow, t, below) = [flow EXCEPT !.rows = Matching(flow.rows, s.tenant)]
    BY <1>3 DEF RunStage
  <2>3. Matching(flow.rows, s.tenant) \subseteq flow.rows
    BY DEF Matching
  <2>4. flow.rows \subseteq docs /\ \A d \in flow.rows : d.tenant = t
    BY DEF Clean, Flows
  <2> QED
    BY <1>2, <2>1, <2>2, <2>3, <2>4
<1>4. CASE s.op = "graph"
  <2> DEFINE r == [s EXCEPT !.restrict = t]
             found == Matching({d \in docs : d.coll = r.from}, t)
  <2>1. ScopeStage(s, t) = r
    BY <1>4 DEF ScopeStage
  <2>2. s \in [op : {"graph"}, from : Colls, restrict : Owners \cup {NoTenant}]
    BY <1>4 DEF Leaves, Joins
  <2>3. r.op = "graph" /\ r.restrict = t
    BY <2>2
  <2> HIDE DEF r
  <2>4. RunStage(r, flow, t, below) =
            IF flow.rows = {} THEN flow ELSE [flow EXCEPT !.joined = @ \cup found]
    BY <2>3 DEF RunStage
  <2>5. t # NoTenant
    BY GuardAssumption
  <2>6. found \subseteq docs /\ \A d \in found : d.tenant = t
    BY <2>5 DEF Matching
  <2> QED
    BY <1>2, <2>1, <2>4, <2>6
<1>5. CASE s.op = "lookup"
  <2>1. ScopeStage(s, t) = s
    BY <1>5 DEF ScopeStage
  <2>2. PICK f : f = sub(everything)
    OBVIOUS
  <2>3. Clean(f, t)
    BY <1>1, <1>5, <2>2
  <2>4. s.byFields = FALSE
    BY <1>5 DEF Leaves, Joins
  <2>5. RunStage(s, flow, t, below) =
            IF flow.rows = {} THEN flow ELSE [flow EXCEPT !.joined = @ \cup (f.rows \cup f.joined)]
    BY <1>5, <2>2, <2>4 DEF RunStage
  <2>6. f.rows \cup f.joined \subseteq docs /\ \A d \in f.rows \cup f.joined : d.tenant = t
    BY <2>3 DEF Clean, Flows
  <2> QED
    BY <1>2, <2>1, <2>5, <2>6
<1>6. CASE s.op = "union"
  <2>1. ScopeStage(s, t) = s
    BY <1>6 DEF ScopeStage
  <2>2. PICK f : f = sub(everything)
    OBVIOUS
  <2>3. Clean(f, t)
    BY <1>1, <1>6, <2>2
  <2>4. RunStage(s, flow, t, below) =
            [flow EXCEPT !.rows = @ \cup f.rows, !.joined = @ \cup f.joined]
    BY <1>6, <2>2 DEF RunStage
  <2> QED
    BY <2>1, <2>3, <2>4 DEF Clean, Flows
<1>7. CASE s.op = "facet"
  <2>1. ScopeStage(s, t) = s
    BY <1>7 DEF ScopeStage
  <2>2. PICK f : f = sub(flow.rows)
    OBVIOUS
  <2>3. flow.rows \subseteq docs
    BY DEF Clean, Flows
  <2>4. Clean(f, t)
    BY <1>1, <1>7, <2>2, <2>3
  <2>5. RunStage(s, flow, t, below) = [flow EXCEPT !.rows = f.rows, !.joined = @ \cup f.joined]
    BY <1>7, <2>2 DEF RunStage
  <2> QED
    BY <2>1, <2>4, <2>5 DEF Clean, Flows
<1> QED
  BY <1>3, <1>4, <1>5, <1>6, <1>7 DEF Leaves, Joins

LEMMA SafeStagesClean ==
  ASSUME NEW t \in Owners
  PROVE  CleanOn(Stages[Nesting] \ Unsafe, Run(t), t)
<1>1. PICK u : UnsafeTo(Nesting, u) /\ Unsafe = u[Nesting]
  BY UnsafeByLevels
<1>2. PICK r : RunTo(Nesting, r, t) /\ Run(t) = r[Nesting]
  BY RunByLevels
<1> DEFINE Leaky == {n \in 0..Nesting : ~CleanOn(Stages[n] \ u[n], r[n], t)}
<1>0. Nesting \in Nat
  BY GuardAssumption
<1>3. SUFFICES ASSUME Leaky # {} PROVE FALSE
  <2>1. Nesting \in 0..Nesting
    BY <1>0
  <2> QED
    BY <1>1, <1>2, <2>1
<1>4. Leaky \subseteq Nat
  OBVIOUS
<1>5. PICK n \in Leaky : \A k \in Leaky : n <= k
  BY <1>3, <1>4, LeastOf
<1>6. n \in 0..Nesting /\ Nesting \in Nat
  BY <1>0
<1>7. n # 0 => CleanOn(Stages[n - 1] \ u[n - 1], r[n - 1], t)
  <2>1. SUFFICES ASSUME n # 0 PROVE n - 1 \in 0..Nesting /\ n - 1 \notin Leaky
    OBVIOUS
  <2>2. n - 1 \in 0..Nesting /\ ~(n <= n - 1)
    BY <1>6, <2>1
  <2> HIDE DEF Leaky
  <2> QED
    BY <1>5, <2>2
<1> DEFINE v == IF n = 0 THEN {} ELSE u[n - 1]
           b == IF n = 0 THEN <<>> ELSE r[n - 1]
           S == IF n = 0 THEN {} ELSE Stages[n - 1] \ v
<1>8. u[n] = UnsafeAt(n, v)
  BY <1>1, <1>6 DEF UnsafeTo
<1>9. r[n] = RunAt(n, t, b)
  BY <1>2, <1>6 DEF RunTo
<1>10. CleanOn(S, b, t)
  <2>1. CASE n = 0
    BY <2>1 DEF CleanOn
  <2>2. CASE n # 0
    <3>1. S = Stages[n - 1] \ u[n - 1] /\ b = r[n - 1]
      BY <2>2
    <3> HIDE DEF S, b, Leaky
    <3> QED
      BY <1>7, <2>2, <3>1
  <2> QED
    BY <2>1, <2>2
<1>11. PICK s \in Stages[n] \ u[n] : \E f : Clean(f, t) /\ ~Clean(r[n][s][f], t)
  BY <1>5 DEF CleanOn
<1> PICK f : Clean(f, t) /\ ~Clean(r[n][s][f], t)
  BY <1>11
<1> HIDE DEF v, b
<1>12. /\ s.op # "out" /\ ~(s.op = "lookup" /\ s.byFields = TRUE)
       /\ s.op \in {"lookup", "union", "facet"} => \A i \in DOMAIN s.pipeline : s.pipeline[i] \notin v
  BY <1>8, <1>11 DEF UnsafeAt
<1>13. s \in Leaves \cup Joins(Seq(S))
  <2>1. CASE n = 0
    BY <1>11, <2>1, GuardAssumption
  <2>2. CASE n # 0
    <3>1. n \in 1..Nesting
      BY <1>6, <2>2
    <3>2. s \in Leaves \cup Joins(Seq(Stages[n - 1]))
      BY <1>11, <3>1, GuardAssumption
    <3>3. CASE s \in Leaves
      BY <3>3
    <3>4. CASE s \in Joins(Seq(Stages[n - 1]))
      <4>1. s.op \in {"lookup", "union", "facet"} /\ s.pipeline \in Seq(Stages[n - 1])
        BY <3>4 DEF Joins
      <4>2. \A i \in 1..Len(s.pipeline) : s.pipeline[i] \in Stages[n - 1] \ v
        BY <1>12, <4>1
      <4>3. s.pipeline \in Seq(S)
        BY <2>2, <4>1, <4>2
      <4> QED
        BY <3>4, <4>3 DEF Joins
    <3> QED
      BY <3>2, <3>3, <3>4
  <2> QED
    BY <2>1, <2>2
<1>14. r[n][s][f] = RunStage(ScopeStage(s, t), f, t, b)
  <2>1. s \in Stages[n] /\ f \in Flows
    BY DEF Clean
  <2> QED
    BY <1>9, <2>1 DEF RunAt
<1> HIDE DEF S
<1>15. Clean(RunStage(ScopeStage(s, t), f, t, b), t)
  BY <1>10, <1>12, <1>13, StageClean
<1> QED
  BY <1>14, <1>15

(* What differs from the documents at hand is the tenant's own.             *)
Own(in, t) == in \subseteq Doc /\ \A d \in (in \ docs) \cup (docs \ in) : d.tenant = t

Isolated(r, t) ==
    /\ \A d \in r.rows : d.tenant = t
    /\ Own(r.docs, t)

LEMMA AggregateIsolated ==
  ASSUME NEW t \in Owners, docs \subseteq Doc, NEW coll, NEW pipeline \in Pipelines
  PROVE  Isolated(Aggregate(coll, pipeline, t), t)
<1>1. CASE \E i \in DOMAIN pipeline : pipeline[i] \in Unsafe
  <2>1. Aggregate(coll, pipeline, t) = [ok |-> FALSE, rows |-> {}, docs |-> docs]
    BY <1>1 DEF Aggregate, Error
  <2> QED
    BY <2>1 DEF Isolated, Own
<1>2. CASE ~ \E i \in DOMAIN pipeline : pipeline[i] \in Unsafe
  <2> DEFINE these == {d \in docs : d.coll = coll}
             f == Through(pipeline, Run(t), FlowOf(Entering(these, t)))
  <2>1. pipeline \in Seq(Stages[Nesting])
    BY GuardAssumption
  <2>2. Len(pipeline) \in Nat /\ \A i \in 1..Len(pipeline) : pipeline[i] \in Stages[Nesting] \ Unsafe
    BY <1>2, <2>1
  <2>3. Clean(FlowOf(Entering(these, t)), t)
    BY EnteringClean
  <2>4. Clean(f, t)
    BY <2>2, <2>3, SafeStagesClean, ThroughClean
  <2>5. Aggregate(coll, pipeline, t) =
            [ok |-> TRUE, rows |-> f.rows \cup f.joined, docs |-> {d \in docs : d.coll \notin f.replaced}]
    BY <1>2 DEF Aggregate
  <2> HIDE DEF f
  <2>6. {d \in docs : d.coll \notin f.replaced} = docs
    BY <2>4 DEF Clean
  <2> QED
    BY <2>4, <2>5, <2>6 DEF Isolated, Own, Clean
<1> QED
  BY <1>1, <1>2

LEMMA StampedIsOwn ==
  ASSUME NEW t \in Owners, NEW d \in Doc
  PROVE  StampDoc(d, t) \in Doc /\ StampDoc(d, t).tenant = t
BY DEF StampDoc, Doc

LEMMA SelectedIsOwn ==
  ASSUME NEW t \in Owners, NEW f \in Filters, NEW in, NEW coll, NEW d \in Select(in, coll, ScopeFilter(f, t))
  PROVE  d \in in /\ d.tenant = t
<1>1. ScopeFilter(f, t).tenant = t
  BY DEF ScopeFilter, Filters
<1>2. t # NoTenant
  BY GuardAssumption
<1> QED
  BY <1>1, <1>2 DEF Select, Selects

LEMMA InsertIsOwn ==
  ASSUME NEW t, NEW in, Own(in, t), NEW new, new \subseteq Doc, \A d \in new : d.tenant = t
  PROVE  Own(in \cup new, t)
BY DEF Own

LEMMA UpdateIsOwn ==
  ASSUME NEW t \in Owners, NEW in, Own(in, t), NEW f \in Filters, NEW coll
  PROVE  Own(Update(in, coll, ScopeFilter(f, t)), t) /\ Own(Delete(in, coll, ScopeFilter(f, t)), t)
<1> DEFINE hit == Select(in, coll, ScopeFilter(f, t))
           touched == {Touch(d) : d \in hit}
<1>1. \A d \in hit : d \in in /\ d.tenant = t
  BY SelectedIsOwn
<1>2. \A d \in hit : d \in Doc
  BY <1>1 DEF Own
<1>3. ASSUME NEW d \in hit PROVE Touch(d) \in Doc /\ Touch(d).tenant = t
  <2>1. d \in Doc /\ d.tenant = t
    BY <1>1, <1>2, <1>3
  <2>2. d.val \in {0, 1} /\ 1 - d.val \in {0, 1}
    BY <2>1 DEF Doc
  <2> QED
    BY <2>1, <2>2 DEF Touch, Doc
<1>4. touched \subseteq Doc /\ \A d \in touched : d.tenant = t
  BY <1>3
<1>5. Update(in, coll, ScopeFilter(f, t)) = (in \ hit) \cup touched
  BY DEF Update
<1>6. Delete(in, coll, ScopeFilter(f, t)) = in \ hit
  BY DEF Delete
<1> HIDE DEF hit, touched
<1>7. Own(in \ hit, t)
  BY <1>1 DEF Own
<1> QED
  BY <1>4, <1>5, <1>6, <1>7, InsertIsOwn

LEMMA BulkStepIsOwn ==
  ASSUME NEW t \in Owners, NEW in, Own(in, t), NEW op \in BulkOps
  PROVE  Own(BulkStep(in, op, t), t)
<1> DEFINE f == ScopeFilter(op.filter, t)
<1>1. op.filter \in Filters /\ op.doc \in Doc /\ op.kind \in {"insertOne", "deleteOne", "updateOne"}
  BY DEF BulkOps, NewDocs
<1>2. Own(in \cup {StampDoc(op.doc, t)}, t)
  BY <1>1, StampedIsOwn, InsertIsOwn
<1>3. Own(Update(in, op.coll, f), t) /\ Own(Delete(in, op.coll, f), t)
  BY <1>1, UpdateIsOwn
<1>4. CASE op.kind = "insertOne"
  BY <1>2, <1>4 DEF BulkStep
<1>5. CASE op.kind = "deleteOne"
  BY <1>3, <1>5 DEF BulkStep
<1>6. CASE op.kind = "updateOne"
  <2>1. \/ BulkStep(in, op, t) = in \cup {StampDoc(op.doc, t)}
        \/ BulkStep(in, op, t) = Update(in, op.coll, f)
    BY <1>6 DEF BulkStep
  <2> QED
    BY <1>2, <1>3, <2>1
<1> QED
  BY <1>1, <1>4, <1>5, <1>6

LEMMA BulkWriteIsolated ==
  ASSUME NEW t \in Owners, docs \subseteq Doc, NEW ops \in Seq(BulkOps)
  PROVE  Isolated(BulkWrite(ops, t), t)
<1> DEFINE k == Len(ops)
           after == CHOOSE b : RowsTo(k, b, ops, t)
<1>0. k \in Nat
  OBVIOUS
<1>1. RowsTo(k, after, ops, t)
  BY <1>0, RowsExist
<1>2. \/ BulkWrite(ops, t) = [ok |-> FALSE, rows |-> {}, docs |-> docs]
      \/ BulkWrite(ops, t) = [ok |-> TRUE, rows |-> {}, docs |-> after[k]]
  BY DEF BulkWrite, RowsTo, Error, Wrote
<1> HIDE DEF after
<1> DEFINE Foreigns == {i \in 0..k : ~Own(after[i], t)}
<1>3. Foreigns = {}
  <2>1. SUFFICES ASSUME Foreigns # {} PROVE FALSE
    OBVIOUS
  <2>2. Foreigns \subseteq Nat
    OBVIOUS
  <2>3. PICK m \in Foreigns : \A i \in Foreigns : m <= i
    BY <2>1, <2>2, LeastOf
  <2>4. after[m] = IF m = 0 THEN docs ELSE BulkStep(after[m - 1], ops[m], t)
    BY <1>1, <2>3 DEF RowsTo
  <2>5. m # 0
    BY <2>3, <2>4 DEF Own
  <2>6. m \in 1..k /\ Own(after[m - 1], t)
    BY <2>3, <2>5
  <2>7. ops[m] \in BulkOps
    BY <2>6
  <2> QED
    BY <2>3, <2>4, <2>5, <2>6, <2>7, BulkStepIsOwn
<1>4. Own(after[k], t) /\ Own(docs, t)
  BY <1>0, <1>3 DEF Own
<1> QED
  BY <1>2, <1>4 DEF Isolated

LEMMA ReplyIsolated ==
  ASSUME NEW t \in Owners, docs \subseteq Doc, NEW call \in Calls
  PROVE  Isolated(Reply(t, call), t)
<1>1. Own(docs, t)
  BY DEF Own
<1>2. Isolated(Error, t)
  BY <1>1 DEF Isolated, Error
<1>3. \A new : Own(new, t) => Isolated(Wrote(new), t)
  BY DEF Isolated, Wrote
<1>4. CASE call \in [op : {"aggregate"}, coll : Colls, pipeline : Pipelines]
  <2>1. Reply(t, call) = Aggregate(call.coll, call.pipeline, t)
    BY <1>4 DEF Reply
  <2> QED
    BY <1>4, <2>1, AggregateIsolated
<1>5. CASE call \in [op : {"bulkWrite"}, ops : Batches]
  <2>1. Reply(t, call) = BulkWrite(call.ops, t)
    BY <1>5 DEF Reply
  <2>2. call.ops \in Seq(BulkOps)
    BY <1>5, GuardAssumption
  <2> QED
    BY <2>1, <2>2, BulkWriteIsolated
<1>6. CASE call \in [op : {"create"}, doc : NewDocs]
  <2>1. Reply(t, call) = Wrote(docs \cup {StampDoc(call.doc, t)})
    BY <1>6 DEF Reply
  <2>2. call.doc \in Doc
    BY <1>6 DEF NewDocs
  <2>3. Own(docs \cup {StampDoc(call.doc, t)}, t)
    BY <1>1, <2>2, StampedIsOwn, InsertIsOwn
  <2> QED
    BY <1>3, <2>1, <2>3
<1>7. CASE call \in [op : {"insertMany"}, docs : SUBSET NewDocs]
  <2> DEFINE new == {StampDoc(d, t) : d \in call.docs}
  <2>1. Reply(t, call) = Error \/ Reply(t, call) = Wrote(docs \cup new)
    BY <1>7 DEF Reply
  <2>2. \A d \in call.docs : d \in Doc
    BY <1>7 DEF NewDocs
  <2>3. new \subseteq Doc /\ \A d \in new : d.tenant = t
    BY <2>2, StampedIsOwn
  <2> HIDE DEF new
  <2>4. Own(docs \cup new, t)
    BY <1>1, <2>3, InsertIsOwn
  <2> QED
    BY <1>2, <1>3, <2>1, <2>4
<1>8. CASE call \in [op : {"find", "update", "delete"}, coll : Colls, filter : Filters]
  <2> DEFINE f == ScopeFilter(call.filter, t)
  <2>1. call.filter \in Filters
    BY <1>8
  <2>2. \/ Reply(t, call) = Error
        \/ Reply(t, call) = Rows(Select(docs, call.coll, f))
        \/ Reply(t, call) = Wrote(Update(docs, call.coll, f))
        \/ Reply(t, call) = Wrote(Delete(docs, call.coll, f))
    BY <1>8 DEF Reply
  <2>3. Isolated(Rows(Select(docs, call.coll, f)), t)
    BY <1>1, <2>1, SelectedIsOwn DEF Isolated, Rows
  <2>4. Own(Update(docs, call.coll, f), t) /\ Own(Delete(docs, call.coll, f), t)
    BY <1>1, <2>1, UpdateIsOwn
  <2> QED
    BY <1>2, <1>3, <2>2, <2>3, <2>4
<1> QED
  BY <1>4, <1>5, <1>6, <1>7, <1>8 DEF Calls

GuardInv == docs \subseteq Doc

LEMMA AnswerIsolated ==
  ASSUME GuardInv, NEW scope, NEW call \in Calls, Answer(scope, call)
  PROVE  /\ GuardInv'
         /\ \A d \in reply'.rows \cup (docs' \ docs) \cup (docs \ docs') : d.tenant = reply'.scope
         /\ reply'.scope \notin Owners => ~reply'.ok
<1>1. PICK r : r = Reply(scope, call)
  OBVIOUS
<1>2. docs' = r.docs /\ reply' = [scope |-> scope, ok |-> r.ok, rows |-> r.rows, answered |-> TRUE]
  BY <1>1 DEF Answer
<1>3. CASE scope \in Owners
  <2>1. Isolated(r, scope)
    BY <1>1, <1>3, ReplyIsolated DEF GuardInv
  <2> QED
    BY <1>2, <1>3, <2>1 DEF Isolated, Own, GuardInv
<1>4. CASE scope \notin Owners
  <2>1. r = [ok |-> FALSE, rows |-> {}, docs |-> docs]
    BY <1>1, <1>4 DEF Reply, Error
  <2> QED
    BY <1>2, <2>1 DEF GuardInv
<1> QED
  BY <1>3, <1>4

LEMMA GuardInvariant == GuardSpec => []GuardInv
<1>1. GuardInit => GuardInv
  BY GuardAssumption DEF GuardInit, GuardInv
<1>2. GuardInv /\ [GuardNext]_guardVars => GuardInv'
  <2>1. GuardInv /\ GuardNext => GuardInv'
    BY AnswerIsolated DEF GuardNext
  <2>2. GuardInv /\ UNCHANGED guardVars => GuardInv'
    BY DEF GuardInv, guardVars
  <2> QED
    BY <2>1, <2>2
<1> QED
  BY <1>1, <1>2, PTL DEF GuardSpec

(* Whatever is asked in the scope of a tenant, through however deeply       *)
(* nested a pipeline and however long a batch, touches no row of another.   *)
THEOREM TenantsAreIsolated == GuardSpec => Isolation
<1>1. GuardInv /\ [GuardNext]_guardVars =>
        [LET written == (docs' \ docs) \cup (docs \ docs')
         IN  /\ \A d \in reply'.rows \cup written : d.tenant = reply'.scope
             /\ reply'.scope \notin Owners => ~reply'.ok]_guardVars
  BY AnswerIsolated DEF GuardNext
<1> QED
  BY <1>1, GuardInvariant, PTL DEF GuardSpec, Isolation

-----------------------------------------------------------------------------
(***************************************************************************)
(* A tab shows its own changes: proof of ShowsOwnChanges.                  *)
(*                                                                         *)
(* A change that is made makes the entry of the watched query old news,    *)
(* and so an answer that was read before it.  Both are allowed for as long *)
(* as the change has not been settled (OwesNews); settling it marks them,  *)
(* if it names the query, and every change names what it concerns          *)
(* (NamesWhatItConcerns, by the tables of the pages).  A marked entry that *)
(* is shown is being asked for (EntryCurrent), so it is not the last word. *)
(***************************************************************************)
(* The tab's own change of what the watched query reads has been made, and *)
(* the answer to it has not arrived.                                       *)
OwesNews == change # Nothing /\ change.at = "done" /\ Relevant(change.what)

PagesTyped ==
    /\ app \in DOMAIN Apps /\ watched \in Queries(app)
    /\ user \in People \cup {Nothing}
    /\ page # Nothing => user # Nothing /\ page \in DOMAIN Apps[app]
    /\ cached \in Cached \cup {Nothing}
    /\ fetch \in Fetch \cup {Nothing}
    /\ change \in Changing \cup {Nothing}
    /\ change # Nothing => change.what \in Mutations(app)
    /\ writes \in Nat
    /\ form \in Cached \cup {Nothing}

UpToDate(e) == e.old \/ e.writes = writes

AnswerCurrent == fetch # Nothing /\ fetch.at = "answered" => UpToDate(fetch) \/ OwesNews

EntryCurrent ==
    cached # Nothing =>
        \/ UpToDate(cached) \/ cached.failed \/ OwesNews
        \/ cached.stale /\ (Shows(page) => fetch # Nothing)

PagesInv == PagesTyped /\ (watched.key \notin Lagging => AnswerCurrent /\ EntryCurrent)

LEMMA AppUsers == ASSUME NEW a \in DOMAIN Apps PROVE UsersOf[a] \subseteq People
  BY DEF People

LEMMA PagesInvInit == PagesInit => PagesInv
  BY AppUsers DEF PagesInit, PagesInv, PagesTyped, AnswerCurrent, EntryCurrent

LEMMA RequestSent ==
  ASSUME user \in People
  PROVE  Request \in Fetch /\ Request # Nothing /\ Request.at = "sent"
<1>1. Request \in Fetch
  BY DEF Request, Fetch
<1> QED
  BY <1>1, PagesAssumption DEF Request

LEMMA MountTyped ==
  ASSUME PagesTyped, NEW p \in DOMAIN Apps[app], Mount(p)
  PROVE  PagesTyped'
<1>1. user \in People
  BY DEF Mount, PagesTyped
<1>2. Request \in Fetch
  BY <1>1, RequestSent
<1> QED
  BY <1>1, <1>2 DEF Mount, PagesTyped

LEMMA FillTyped ==
  ASSUME NEW p, NEW a \in Cached \cup {Nothing}, form \in Cached \cup {Nothing}
  PROVE  Filled(p, a) \in Cached \cup {Nothing}
  BY DEF Filled

LEMMA AnswerTyped ==
  ASSUME PagesTyped, Serve \/ Receive \/ Fail \/ GoStale \/ Refocus \/ Collect
  PROVE  PagesTyped'
<1>1. CASE Serve
  <2>1. fetch \in Fetch /\ writes \in Nat
    BY <1>1 DEF Serve, PagesTyped
  <2>2. [fetch EXCEPT !.at = "answered", !.writes = writes] \in Fetch
    BY <2>1 DEF Fetch
  <2> QED
    BY <1>1, <2>2 DEF Serve, PagesTyped
<1>2. CASE Receive
  <2>1. fetch \in Fetch
    BY <1>2 DEF Receive, PagesTyped
  <2>2. cached' \in Cached
    BY <1>2, <2>1 DEF Receive, Fetch, Cached
  <2>3. form' \in Cached \cup {Nothing}
    BY <1>2, <2>2, FillTyped DEF Receive, PagesTyped
  <2> QED
    BY <1>2, <2>2, <2>3 DEF Receive, PagesTyped
<1>3. CASE Fail
  <2>1. cached # Nothing => [cached EXCEPT !.failed = TRUE] \in Cached
    BY DEF PagesTyped, Cached
  <2> QED
    BY <1>3, <2>1 DEF Fail, PagesTyped
<1>4. CASE GoStale
  <2>1. cached # Nothing => [cached EXCEPT !.stale = TRUE] \in Cached
    BY DEF PagesTyped, Cached
  <2> QED
    BY <1>4, <2>1 DEF GoStale, PagesTyped
<1>5. CASE Refocus
  <2>1. user \in People
    BY <1>5 DEF Refocus, PagesTyped, Shows
  <2>2. Request \in Fetch
    BY <2>1, RequestSent
  <2> QED
    BY <1>5, <2>2 DEF Refocus, PagesTyped
<1>6. CASE Collect
  BY <1>6 DEF Collect, PagesTyped
<1> QED
  BY <1>1, <1>2, <1>3, <1>4, <1>5, <1>6

LEMMA MutateTyped ==
  ASSUME PagesTyped, page # Nothing, NEW m \in Apps[app][page].mutations, Mutate(m)
  PROVE  PagesTyped'
<1>1. user \in People
  BY DEF PagesTyped
<1>2. (IF form = Nothing THEN user ELSE form.of) \in People
  BY <1>1 DEF PagesTyped, Cached
<1>3. m \in Mutations(app) /\ m \in UNION {Mutations(a) : a \in DOMAIN Apps}
  BY DEF PagesTyped, Mutations
<1>4. change' \in Changing /\ change'.what = m
  BY <1>1, <1>2, <1>3 DEF Mutate, Changing
<1> QED
  BY <1>3, <1>4 DEF Mutate, PagesTyped

LEMMA ChangeTyped ==
  ASSUME PagesTyped, Perform \/ Refuse \/ Settle
  PROVE  PagesTyped'
<1>1. CASE Perform
  <2>1. change \in Changing /\ change # Nothing /\ writes \in Nat
    BY <1>1 DEF Perform, PagesTyped
  <2>2. /\ [change EXCEPT !.at = "done"] \in Changing
        /\ [change EXCEPT !.at = "done"].what = change.what
    BY <2>1 DEF Changing
  <2>3. writes' \in Nat
    BY <1>1, <2>1 DEF Perform
  <2> QED
    BY <1>1, <2>1, <2>2, <2>3 DEF Perform, PagesTyped
<1>2. CASE Refuse
  BY <1>2 DEF Refuse, PagesTyped
<1>3. CASE Settle
  <2>1. cached # Nothing => [cached EXCEPT !.stale = TRUE] \in Cached
    BY DEF PagesTyped, Cached
  <2>2. fetch # Nothing => [fetch EXCEPT !.old = TRUE] \in Fetch
    BY DEF PagesTyped, Fetch
  <2>3. Shows(page) => Request \in Fetch
    BY RequestSent DEF PagesTyped, Shows
  <2>4. cached' \in Cached \cup {Nothing}
    BY <1>3, <2>1 DEF Settle, PagesTyped
  <2>5. fetch' \in Fetch \cup {Nothing}
    BY <1>3, <2>2, <2>3 DEF Settle, PagesTyped
  <2> QED
    BY <1>3, <2>4, <2>5 DEF Settle, PagesTyped
<1> QED
  BY <1>1, <1>2, <1>3

LEMMA SessionTyped ==
  ASSUME PagesTyped, Logout \/ (\E u \in UsersOf[app] : Login(u)) \/ Reload
  PROVE  PagesTyped'
<1>1. UsersOf[app] \subseteq People
  BY AppUsers DEF PagesTyped
<1> QED
  BY <1>1 DEF Logout, Login, Reload, PagesTyped

LEMMA PagesTypedStep ==
  ASSUME PagesTyped, PagesNext
  PROVE  PagesTyped'
<1>1. CASE \E p \in DOMAIN Apps[app] : Mount(p)
  BY <1>1, MountTyped
<1>2. CASE Serve \/ Receive \/ Fail \/ GoStale \/ Refocus \/ Collect
  BY <1>2, AnswerTyped
<1>3. CASE page # Nothing /\ \E m \in Apps[app][page].mutations : Mutate(m)
  BY <1>3, MutateTyped
<1>4. CASE Perform \/ Refuse \/ Settle
  BY <1>4, ChangeTyped
<1>5. CASE Logout \/ (\E u \in UsersOf[app] : Login(u)) \/ Reload
  BY <1>5, SessionTyped
<1> QED
  BY <1>1, <1>2, <1>3, <1>4, <1>5 DEF PagesNext

-----------------------------------------------------------------------------
(* The tables of the pages, by app: what is read (AdminReads, MemberReads), *)
(* read under a key that may lag (AdminLags, MemberLags), and changed under *)
(* which keys (AdminWrites, MemberWrites).                                  *)
AdminReads ==
    {query(<<"members", "tag">>, {"members"}), query(<<"members">>, {"members"}),
     query(<<"member", "id">>, {"member"}), query(<<"disciplines", "active">>, {"disciplines"}),
     query(<<"disciplines">>, {"disciplines"}), query(<<"memberInvoices", "id">>, {"invoices"}),
     query(<<"promotions", "member">>, {"promotions"}), query(<<"locations">>, {"locations"}),
     query(<<"plans">>, {"plans"}), query(<<"programs">>, {"programs"}),
     query(<<"schedules">>, {"schedules"}), query(<<"occurrence", "id">>, {"occurrence"}),
     query(<<"occurrenceBookings", "id">>, {"bookings"}),
     query(<<"waiverTemplates">>, {"templates"}), query(<<"billingProfile">>, {"sellers"})}
AdminLags ==
    {query(<<"ownerDashboard">>, {"members", "invoices", "attendance", "enrollments", "plans"}),
     query(<<"rankStates", "id">>, {"rankStates"}),
     query(<<"eligibility", "member">>, {"rankStates", "promotions", "attendance"}),
     query(<<"occurrences", "from now">>, {"occurrences"})}
AdminWrites ==
    {mutation({"members"}, {<<"members">>}),
     mutation({"rankStates", "promotions"},
              {<<"eligibility", "member">>, <<"promotions", "member">>}),
     mutation({"rankStates"}, {<<"rankStates", "id">>}),
     mutation({"members", "member"}, {<<"member", "id">>, <<"members">>}),
     mutation({}, {}), mutation({"disciplines"}, {<<"disciplines">>}),
     mutation({"locations"}, {<<"locations">>}), mutation({"plans"}, {<<"plans">>}),
     mutation({"programs"}, {<<"programs">>}), mutation({"schedules"}, {<<"schedules">>}),
     mutation({"occurrences"}, {}),
     mutation({"bookings"}, {<<"occurrenceBookings", "id">>}),
     mutation({"occurrences", "occurrence"}, {<<"occurrence", "id">>}),
     mutation({"attendance"}, {}), mutation({"templates"}, {<<"waiverTemplates">>}),
     mutation({"sellers"}, {<<"billingProfile">>})}

MemberReads ==
    {query(<<"me">>, {"sessions"}), query(<<"dependents">>, {"guardianships", "minors"}),
     query(<<"myRankStates", "member">>, {"rankStates"}),
     query(<<"disciplines">>, {"disciplines"}),
     query(<<"myPromotions", "member">>, {"promotions"}), query(<<"programs">>, {"programs"}),
     query(<<"occurrences", "day">>, {"occurrences"}),
     query(<<"myBookings", "member">>, {"bookings"}),
     query(<<"myAttendance", "member">>, {"attendance"}),
     query(<<"myInvoices", "member">>, {"invoices"}),
     query(<<"myWaiverStatus", "member">>, {"templates", "signatures"}),
     query(<<"myProfile">>, {"ownMember"})}
MemberLags == {query(<<"myEligibility", "member">>, {"rankStates", "promotions", "attendance"})}
MemberWrites ==
    {mutation({"bookings"}, {<<"myBookings", "member">>, <<"occurrences", "day">>}),
     mutation({"attendance"}, {<<"myAttendance", "member">>}),
     mutation({"signatures"}, {<<"myWaiverStatus", "member">>}),
     mutation({"ownMember"}, {<<"myProfile">>})}

(* A key names itself and what begins with it.                              *)
LEMMA KeyMatches ==
  ASSUME NEW x, NEW y
  PROVE  PartialMatch(<<x>>, <<x, y>>)
  BY DEF PartialMatch

(* The pages of the admin app.                                              *)
AdminViews == {DashboardPage, MembersPage, MemberDetailPage, DisciplinesPage, LocationsPage,
       PlansPage, ClassesPage, OccurrencesPage, OccurrenceDetailPage, WaiversPage,
       SettingsPage, MessagesPage}

LEMMA AdminPages == \A p \in DOMAIN Apps["admin"] : Apps["admin"][p] \in AdminViews
<1>1. Apps["admin"] = AdminApp
  BY DEF Apps
<1>2. \A p \in DOMAIN AdminApp : AdminApp[p] \in AdminViews
  BY DEF AdminApp, AdminViews
<1> QED
  BY <1>1, <1>2

LEMMA DetailQueries ==
  ASSUME NEW q \in MemberDetailPage.queries
  PROVE  q \in AdminReads \cup AdminLags
  BY DEF MemberDetailPage, view, query, mutation, MembersApi, RankApi, BillingApi,
         DisciplineRankSection, AdminReads, AdminLags

LEMMA ClassesQueries ==
  ASSUME NEW q \in ClassesPage.queries \cup OccurrencesPage.queries
                  \cup OccurrenceDetailPage.queries
  PROVE  q \in AdminReads \cup AdminLags
  BY DEF ClassesPage, OccurrencesPage, OccurrenceDetailPage, view, query, mutation, MembersApi,
         RankApi, SchedulingApi, LocationsApi, AttendanceApi, AdminReads, AdminLags

LEMMA OtherQueries ==
  ASSUME NEW q \in DashboardPage.queries \cup MembersPage.queries
                  \cup DisciplinesPage.queries \cup LocationsPage.queries
                  \cup PlansPage.queries \cup WaiversPage.queries
                  \cup SettingsPage.queries \cup MessagesPage.queries
  PROVE  q \in AdminReads \cup AdminLags
  BY DEF DashboardPage, MembersPage, DisciplinesPage, LocationsPage, PlansPage, WaiversPage,
       SettingsPage, MessagesPage, view, query, mutation, MembersApi, RankApi, LocationsApi,
       BillingApi, WaiversApi, SettingsApi, ReportingApi, MessagesApi, AdminReads, AdminLags

LEMMA DetailWrites ==
  ASSUME NEW m \in MemberDetailPage.mutations
  PROVE  m \in AdminWrites
  BY DEF MemberDetailPage, view, query, mutation, MembersApi, RankApi, BillingApi,
         DisciplineRankSection, AdminWrites

LEMMA ClassesWrites ==
  ASSUME NEW m \in ClassesPage.mutations \cup OccurrencesPage.mutations
                  \cup OccurrenceDetailPage.mutations
  PROVE  m \in AdminWrites
  BY DEF ClassesPage, OccurrencesPage, OccurrenceDetailPage, view, query, mutation, MembersApi,
         RankApi, SchedulingApi, LocationsApi, AttendanceApi, AdminWrites

LEMMA OtherWrites ==
  ASSUME NEW m \in DashboardPage.mutations \cup MembersPage.mutations
                  \cup DisciplinesPage.mutations \cup LocationsPage.mutations
                  \cup PlansPage.mutations \cup WaiversPage.mutations
                  \cup SettingsPage.mutations \cup MessagesPage.mutations
  PROVE  m \in AdminWrites
  BY DEF DashboardPage, MembersPage, DisciplinesPage, LocationsPage, PlansPage, WaiversPage,
         SettingsPage, MessagesPage, view, query, mutation, MembersApi, RankApi, LocationsApi,
         BillingApi, WaiversApi, SettingsApi, ReportingApi, MessagesApi, AdminWrites

LEMMA AdminTables ==
  /\ Queries("admin") \subseteq AdminReads \cup AdminLags
  /\ Mutations("admin") \subseteq AdminWrites
<1>1. ASSUME NEW v \in AdminViews
      PROVE  v.queries \subseteq AdminReads \cup AdminLags /\ v.mutations \subseteq AdminWrites
  BY DetailQueries, ClassesQueries, OtherQueries, DetailWrites, ClassesWrites, OtherWrites
     DEF AdminViews
<1> QED
  BY <1>1, AdminPages DEF Queries, Mutations

LEMMA AdminLagging == ASSUME NEW q \in AdminLags PROVE q.key \in Lagging
<1>1. CASE q = query(<<"ownerDashboard">>,
                     {"members", "invoices", "attendance", "enrollments", "plans"})
  BY <1>1 DEF query, Lagging
<1>2. CASE q = query(<<"rankStates", "id">>, {"rankStates"})
  BY <1>2 DEF query, Lagging
<1>3. CASE q = query(<<"eligibility", "member">>, {"rankStates", "promotions", "attendance"})
  BY <1>3 DEF query, Lagging
<1>4. CASE q = query(<<"occurrences", "from now">>, {"occurrences"})
  BY <1>4 DEF query, Lagging
<1> QED
  BY <1>1, <1>2, <1>3, <1>4 DEF AdminLags

LEMMA AdminNamed ==
  ASSUME NEW q \in AdminReads,
         NEW m \in AdminWrites, m.writes \cap q.reads # {}
  PROVE  \E k \in m.invalidates : PartialMatch(k, q.key)
<1>1. CASE q = query(<<"members", "tag">>, {"members"})
  <2>1. <<"members">> \in m.invalidates
    BY <1>1 DEF AdminWrites, query, mutation
  <2> QED
    BY <1>1, <2>1, KeyMatches DEF query
<1>2. CASE q = query(<<"disciplines", "active">>, {"disciplines"})
  <2>1. <<"disciplines">> \in m.invalidates
    BY <1>2 DEF AdminWrites, query, mutation
  <2> QED
    BY <1>2, <2>1, KeyMatches DEF query
<1>3. CASE q \notin {query(<<"members", "tag">>, {"members"}),
                       query(<<"disciplines", "active">>, {"disciplines"})}
  <2>1. q.key \in m.invalidates
    BY <1>3 DEF AdminReads, AdminWrites, query, mutation
  <2>2. PartialMatch(q.key, q.key)
    BY DEF PartialMatch
  <2> QED
    BY <2>1, <2>2
<1> QED
  BY <1>1, <1>2, <1>3

(* The pages of the member app, each within SubjectProvider.                *)
MemberViews == {SubjectProvider, MyProgressPage, SchedulePage, MyAttendancePage,
       MyInvoicesPage, MyWaiversPage, ProfilePage}

LEMMA MemberPages ==
  ASSUME NEW p \in DOMAIN Apps["member"]
  PROVE  \E v \in MemberViews :
            /\ Apps["member"][p].queries = v.queries \cup SubjectProvider.queries
            /\ Apps["member"][p].mutations = v.mutations
<1>1. Apps["member"] = MemberApp
  BY DEF Apps
<1> QED
  BY <1>1 DEF MemberApp, MemberViews, view

LEMMA MemberQueries ==
  ASSUME NEW q \in SubjectProvider.queries \cup MyProgressPage.queries
                  \cup SchedulePage.queries \cup MyAttendancePage.queries
                  \cup MyInvoicesPage.queries \cup MyWaiversPage.queries
                  \cup ProfilePage.queries
  PROVE  q \in MemberReads \cup MemberLags
  BY DEF SubjectProvider, MyProgressPage, SchedulePage, MyAttendancePage, MyInvoicesPage,
         MyWaiversPage,
         ProfilePage, view, query, mutation, MemberDataApi, MemberReads, MemberLags

LEMMA MemberChanges ==
  ASSUME NEW m \in SubjectProvider.mutations \cup MyProgressPage.mutations
                  \cup SchedulePage.mutations \cup MyAttendancePage.mutations
                  \cup MyInvoicesPage.mutations \cup MyWaiversPage.mutations
                  \cup ProfilePage.mutations
  PROVE  m \in MemberWrites
  BY DEF SubjectProvider, MyProgressPage, SchedulePage, MyAttendancePage, MyInvoicesPage,
         MyWaiversPage,
         ProfilePage, view, query, mutation, MemberDataApi, MemberWrites

LEMMA MemberTables ==
  /\ Queries("member") \subseteq MemberReads \cup MemberLags
  /\ Mutations("member") \subseteq MemberWrites
<1>1. ASSUME NEW v \in MemberViews
      PROVE  /\ v.queries \cup SubjectProvider.queries \subseteq MemberReads \cup MemberLags
             /\ v.mutations \subseteq MemberWrites
  BY MemberQueries, MemberChanges DEF MemberViews
<1> QED
  BY <1>1, MemberPages DEF Queries, Mutations

LEMMA MemberLagging == ASSUME NEW q \in MemberLags PROVE q.key \in Lagging
<1>1. q = query(<<"myEligibility", "member">>, {"rankStates", "promotions", "attendance"})
  BY DEF MemberLags
<1> QED
  BY <1>1 DEF query, Lagging

LEMMA MemberNamed ==
  ASSUME NEW q \in MemberReads, NEW m \in MemberWrites, m.writes \cap q.reads # {}
  PROVE  \E k \in m.invalidates : PartialMatch(k, q.key)
<1>1. q.key \in m.invalidates
  BY DEF MemberReads, MemberWrites, query, mutation
<1>2. PartialMatch(q.key, q.key)
  BY DEF PartialMatch
<1> QED
  BY <1>1, <1>2

(* The platform app changes nothing.                                        *)
LEMMA PlatformWrites == Mutations("platform") = {}
<1>1. Apps["platform"] = PlatformApp
  BY DEF Apps
<1>2. \A p \in DOMAIN PlatformApp : PlatformApp[p].mutations = {}
  BY DEF PlatformApp, TenantsPage, TenantDetailPage, AuditPage, view, query
<1> QED
  BY <1>1, <1>2 DEF Mutations

(* A change names every query of its app that it concerns and that is not   *)
(* one of those that may lag.                                               *)
LEMMA NamesWhatItConcerns ==
  ASSUME NEW a \in DOMAIN Apps, NEW q \in Queries(a), q.key \notin Lagging,
         NEW m \in Mutations(a), m.writes \cap q.reads # {}
  PROVE  \E k \in m.invalidates : PartialMatch(k, q.key)
<1>1. a \in {"admin", "member", "platform"}
  BY DEF Apps
<1>2. CASE a = "admin"
  <2>1. q \in AdminReads
    BY <1>2, AdminTables, AdminLagging
  <2>2. m \in AdminWrites
    BY <1>2, AdminTables
  <2> QED
    BY <2>1, <2>2, AdminNamed
<1>3. CASE a = "member"
  <2>1. q \in MemberReads
    BY <1>3, MemberTables, MemberLagging
  <2>2. m \in MemberWrites
    BY <1>3, MemberTables
  <2> QED
    BY <2>1, <2>2, MemberNamed
<1>4. CASE a = "platform"
  BY <1>4, PlatformWrites
<1> QED
  BY <1>1, <1>2, <1>3, <1>4

LEMMA RelevantIsNamed ==
  ASSUME PagesTyped, watched.key \notin Lagging,
         NEW m \in Mutations(app), Relevant(m)
  PROVE  Named(m)
  BY NamesWhatItConcerns DEF PagesTyped, Relevant, Named

LEMMA MountCurrent ==
  ASSUME PagesInv, PagesTyped', watched.key \notin Lagging,
         NEW p \in DOMAIN Apps[app], Mount(p)
  PROVE  AnswerCurrent' /\ EntryCurrent'
<1>1. Shows(page)' <=> Shows(p)
  BY DEF Mount, Shows, PagesTyped
<1>2. cached' = cached
  BY DEF Mount, Lagging
<1>3. Request # Nothing /\ Request.at = "sent"
  <2>1. user \in People
    BY DEF Mount, PagesInv, PagesTyped
  <2> QED
    BY <2>1, RequestSent
<1>4. AnswerCurrent'
  BY <1>3 DEF Mount, PagesInv, AnswerCurrent, UpToDate, OwesNews, Relevant
<1>5. EntryCurrent'
  <2>1. CASE Shows(p) /\ fetch = Nothing /\ ~Fresh(cached)
    BY <1>1, <1>2, <1>3, <2>1 DEF Mount, Lagging, PagesInv,
       EntryCurrent, UpToDate, OwesNews, Relevant, Fresh
  <2>2. CASE ~(Shows(p) /\ fetch = Nothing /\ ~Fresh(cached))
    BY <1>1, <1>2, <2>2 DEF Mount, Lagging, PagesInv,
       EntryCurrent, UpToDate, OwesNews, Relevant, Fresh
  <2> QED
    BY <2>1, <2>2
<1> QED
  BY <1>4, <1>5

LEMMA FetchCurrent ==
  ASSUME PagesInv, PagesTyped', watched.key \notin Lagging,
         Serve \/ Receive \/ Fail \/ GoStale \/ Refocus \/ Collect
  PROVE  AnswerCurrent' /\ EntryCurrent'
<1> USE DEF PagesInv, AnswerCurrent, EntryCurrent, UpToDate, OwesNews, Relevant, Shows
<1>1. CASE Serve
  <2>1. [fetch EXCEPT !.at = "answered", !.writes = writes] # Nothing
    <3>1. fetch \in Fetch /\ writes \in Nat
      BY <1>1 DEF Serve, PagesTyped
    <3> QED
      BY <3>1, PagesAssumption DEF Fetch
  <2>2. [fetch EXCEPT !.at = "answered", !.writes = writes].writes = writes
    BY <1>1 DEF Serve, PagesTyped, Fetch
  <2> QED
    BY <1>1, <2>1, <2>2 DEF Serve
<1>2. CASE Receive
  BY <1>2 DEF Receive
<1>3. CASE Fail
  <2>1. cached # Nothing => [cached EXCEPT !.failed = TRUE].failed
    BY DEF PagesTyped, Cached
  <2> QED
    BY <1>3, <2>1 DEF Fail
<1>4. CASE GoStale
  <2>1. cached \in Cached
    BY <1>4 DEF GoStale, PagesTyped
  <2>2. /\ [cached EXCEPT !.stale = TRUE].old = cached.old
        /\ [cached EXCEPT !.stale = TRUE].writes = cached.writes
        /\ [cached EXCEPT !.stale = TRUE].failed = cached.failed
    BY <2>1 DEF Cached
  <2> QED
    BY <1>4, <2>2 DEF GoStale
<1>5. CASE Refocus
  <2>1. Request # Nothing /\ Request.at = "sent"
    BY <1>5, RequestSent DEF Refocus, PagesTyped
  <2> QED
    BY <1>5, <2>1 DEF Refocus
<1>6. CASE Collect
  BY <1>6 DEF Collect
<1> QED
  BY <1>1, <1>2, <1>3, <1>4, <1>5, <1>6

LEMMA ChangeCurrent ==
  ASSUME PagesInv, PagesTyped', watched.key \notin Lagging,
         (\E m \in Mutations(app) : Mutate(m)) \/ Perform \/ Refuse
  PROVE  AnswerCurrent' /\ EntryCurrent'
<1> USE DEF PagesInv, AnswerCurrent, EntryCurrent, UpToDate, OwesNews, Relevant, Shows
<1>1. CASE \E m \in Mutations(app) : Mutate(m)
  BY <1>1 DEF Mutate
<1>2. CASE Perform
  <2>1. change \in Changing
    BY <1>2 DEF Perform, PagesTyped
  <2>2. change' # Nothing /\ change'.at = "done" /\ change'.what = change.what
    BY <1>2, <2>1, PagesAssumption DEF Perform, Changing
  <2>3. CASE Relevant(change.what)
    BY <1>2, <2>2, <2>3 DEF Perform
  <2>4. CASE ~Relevant(change.what)
    BY <1>2, <2>2, <2>4 DEF Perform
  <2> QED
    BY <2>3, <2>4
<1>3. CASE Refuse
  BY <1>3 DEF Refuse
<1> QED
  BY <1>1, <1>2, <1>3

LEMMA SettleCurrent ==
  ASSUME PagesInv, PagesTyped', watched.key \notin Lagging, Settle
  PROVE  AnswerCurrent' /\ EntryCurrent'
<1> DEFINE shown == Shows(page)
<1>1. change # Nothing /\ change.what \in Mutations(app) /\ change' = Nothing
  BY DEF Settle, PagesInv, PagesTyped
<1>2. Shows(page)' <=> shown
  BY DEF Settle, Shows
<1>3. CASE ~Invalidates(change.what)
  <2>1. ~OwesNews
    BY <1>1, <1>3, RelevantIsNamed DEF OwesNews, Invalidates, PagesInv
  <2> QED
    BY <1>2, <1>3, <2>1 DEF Settle, PagesInv, AnswerCurrent, EntryCurrent, UpToDate
<1>4. CASE Invalidates(change.what)
  <2>1. shown => Request # Nothing /\ Request.at = "sent"
    BY RequestSent DEF PagesInv, PagesTyped, Shows
  <2>2. fetch # Nothing => [fetch EXCEPT !.old = TRUE].old
    BY DEF PagesInv, PagesTyped, Fetch
  <2>3. cached # Nothing => [cached EXCEPT !.stale = TRUE].stale
    BY DEF PagesInv, PagesTyped, Cached
  <2>4. cached' = IF cached = Nothing THEN Nothing ELSE [cached EXCEPT !.stale = TRUE]
    BY <1>4 DEF Settle
  <2>5. CASE shown /\ (fetch = Nothing \/ cached # Nothing)
    <3>1. fetch' = Request
      BY <1>4, <2>5 DEF Settle
    <3> QED
      BY <1>2, <2>1, <2>3, <2>4, <2>5, <3>1 DEF AnswerCurrent, EntryCurrent
  <2>6. CASE fetch # Nothing /\ ~(shown /\ cached # Nothing)
    <3>1. fetch' = [fetch EXCEPT !.old = TRUE]
      BY <1>4, <2>6 DEF Settle
    <3> QED
      BY <1>2, <2>2, <2>3, <2>4, <2>6, <3>1 DEF AnswerCurrent, EntryCurrent, UpToDate
  <2>7. CASE fetch = Nothing /\ ~shown
    <3>1. fetch' = Nothing
      BY <1>4, <2>7 DEF Settle
    <3> QED
      BY <1>2, <2>3, <2>4, <2>7, <3>1 DEF AnswerCurrent, EntryCurrent
  <2> QED
    BY <2>5, <2>6, <2>7
<1> QED
  BY <1>3, <1>4

LEMMA SessionCurrent ==
  ASSUME PagesInv, PagesTyped', watched.key \notin Lagging,
         Logout \/ (\E u \in UsersOf[app] : Login(u)) \/ Reload
  PROVE  AnswerCurrent' /\ EntryCurrent'
  BY DEF Logout, Login, Reload, PagesInv, AnswerCurrent, EntryCurrent, UpToDate, OwesNews,
         Relevant, Shows

LEMMA PagesInvStep == PagesInv /\ [PagesNext]_pagesVars => PagesInv'
<1> SUFFICES ASSUME PagesInv, [PagesNext]_pagesVars
             PROVE  PagesInv'
  OBVIOUS
<1>1. CASE PagesNext
  <2>1. PagesTyped'
    BY <1>1, PagesTypedStep DEF PagesInv
  <2>2. watched' = watched
    BY <1>1 DEF PagesNext, Mount, Serve, Receive, Fail, GoStale, Refocus, Collect, Mutate,
                Perform, Refuse, Settle, Logout, Login, Reload
  <2>3. ASSUME watched.key \notin Lagging
        PROVE  AnswerCurrent' /\ EntryCurrent'
    <3>1. CASE \E p \in DOMAIN Apps[app] : Mount(p)
      BY <2>1, <2>3, <3>1, MountCurrent
    <3>2. CASE Serve \/ Receive \/ Fail \/ GoStale \/ Refocus \/ Collect
      BY <2>1, <2>3, <3>2, FetchCurrent
    <3>3. CASE page # Nothing /\ \E m \in Apps[app][page].mutations : Mutate(m)
      <4>1. PICK m \in Apps[app][page].mutations : Mutate(m)
        BY <3>3
      <4>2. m \in Mutations(app)
        BY <3>3, <4>1 DEF PagesInv, PagesTyped, Mutations
      <4> QED
        BY <2>1, <2>3, <4>1, <4>2, ChangeCurrent
    <3>4. CASE Perform \/ Refuse
      BY <2>1, <2>3, <3>4, ChangeCurrent
    <3>5. CASE Settle
      BY <2>1, <2>3, <3>5, SettleCurrent
    <3>6. CASE Logout \/ (\E u \in UsersOf[app] : Login(u)) \/ Reload
      BY <2>1, <2>3, <3>6, SessionCurrent
    <3> QED
      BY <1>1, <3>1, <3>2, <3>3, <3>4, <3>5, <3>6 DEF PagesNext
  <2> QED
    BY <2>1, <2>2, <2>3 DEF PagesInv, Lagging
<1>2. CASE UNCHANGED pagesVars
  BY <1>2 DEF pagesVars, PagesInv, PagesTyped, AnswerCurrent, EntryCurrent, UpToDate, OwesNews,
              Relevant, Shows, Lagging
<1> QED
  BY <1>1, <1>2

(* A page shows the changes made in its tab, in every app, on every page   *)
(* and for every query but those named as lagging, for any number of users *)
(* and changes: a change names every query it concerns, and what is named  *)
(* is asked for again or marked, whichever request was under way then.     *)
THEOREM OwnChangesShown == PagesSpec => []ShowsOwnChanges
<1>1. PagesInv => ShowsOwnChanges
  BY DEF PagesInv, EntryCurrent, UpToDate, OwesNews, ShowsOwnChanges
<1> QED
  BY <1>1, PagesInvInit, PagesInvStep, PTL DEF PagesSpec
=============================================================================
