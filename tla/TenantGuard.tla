---------------------------- MODULE TenantGuard ----------------------------
(***************************************************************************)
(* The guard of every tenant-owned collection (packages/db/src/            *)
(* tenant-guard.ts, repository.ts) and a call that goes through it: filters*)
(* and new documents get the tenant of the scope, aggregations are         *)
(* rewritten, stages that cannot be made safe are refused.                 *)
(*                                                                         *)
(* A row is [coll, tenant, id, val].  Of a filter only the tenant and the  *)
(* id matter.  The rows an aggregation ends with are kept apart from those *)
(* joined to them: a later $match looks at the former only.                *)
(***************************************************************************)
EXTENDS Naturals, Sequences

CONSTANTS
    Docs,           \* the rows of the database at the start
    NoTenant,       \* undefined or null
    Nesting,        \* bound: how deep pipelines nest in stages
    Stages,         \* the stages whose pipelines nest at most so deep, by depth
    Pipelines,      \* the aggregations asked for
    Batches         \* the lists of bulkWrite operations asked for

VARIABLES
    docs,           \* the rows of the database
    reply           \* to the one call of a behaviour (bound): its scope, whether it
                    \* went through, and the rows it got

guardVars == <<docs, reply>>

Owners == {d.tenant : d \in Docs}
Colls == {d.coll : d \in Docs}
Ids == {d.id : d \in Docs} \cup {0}
Doc == [coll : Colls, tenant : Owners \cup {NoTenant}, id : Ids, val : {0, 1}]
Filters == [tenant : Owners \cup {NoTenant}, id : Ids \cup {NoTenant}]

\* A stage holds no pipeline, or one, of stages of the depth below.
Leaves == [op : {"match"}, tenant : Owners \cup {NoTenant}]
    \cup [op : {"graph"}, from : Colls, restrict : Owners \cup {NoTenant}]
    \cup [op : {"out"}, into : Colls]
Joins(pipelines) ==
    [op : {"lookup"}, from : Colls, byFields : BOOLEAN, pipeline : pipelines]
    \cup [op : {"union"}, from : Colls, pipeline : pipelines]
    \cup [op : {"facet"}, pipeline : pipelines]

NewDocs == {d \in Doc : d.id = 0 /\ d.val = 0}
BulkOps ==
    [kind : {"insertOne", "deleteOne", "updateOne"}, coll : Colls, filter : Filters,
     upsert : BOOLEAN, doc : NewDocs]

ASSUME GuardAssumption ==
    /\ Docs \subseteq Doc /\ NoTenant \notin Owners
    /\ Nesting \in Nat
    /\ Stages[0] \subseteq Leaves
    /\ \A n \in 1..Nesting : Stages[n] \subseteq Leaves \cup Joins(Seq(Stages[n - 1]))
    /\ Pipelines \subseteq Seq(Stages[Nesting])
    /\ Batches \subseteq Seq(BulkOps)

\* runInTenantContext, runAsPlatform, or no scope at all.
Scopes == Owners \cup {"platform", "none"}

Error == [ok |-> FALSE, rows |-> {}, docs |-> docs]
Rows(found) == [ok |-> TRUE, rows |-> found, docs |-> docs]
Wrote(new) == [ok |-> TRUE, rows |-> {}, docs |-> new]

Selects(f, d) == /\ f.tenant \in {NoTenant, d.tenant}
                 /\ f.id \in {NoTenant, d.id}
Select(in, coll, f) == {d \in in : d.coll = coll /\ Selects(f, d)}

-----------------------------------------------------------------------------
(* Queries and documents.                                                  *)
Foreign(tenant, t) == tenant \notin {NoTenant, t}
ScopeFilter(f, t) == [f EXCEPT !.tenant = t]
StampDoc(d, t) == [d EXCEPT !.tenant = t]

Touch(d) == [d EXCEPT !.val = 1 - @]
Update(in, coll, f) ==
    LET hit == Select(in, coll, f) IN (in \ hit) \cup {Touch(d) : d \in hit}
Delete(in, coll, f) == in \ Select(in, coll, f)

\* A guarded bulkWrite operation: an insert takes the tenant of the scope
\* whatever it says, an upsert inserts with it.
BulkStep(in, op, t) ==
    LET f == ScopeFilter(op.filter, t)
    IN  CASE op.kind = "insertOne" -> in \cup {StampDoc(op.doc, t)}
          [] op.kind = "deleteOne" -> Delete(in, op.coll, f)
          [] op.kind = "updateOne" ->
                IF op.upsert /\ Select(in, op.coll, f) = {}
                THEN in \cup {StampDoc(op.doc, t)}
                ELSE Update(in, op.coll, f)

BulkWrite(ops, t) ==
    IF \E i \in DOMAIN ops : ops[i].kind # "insertOne" /\ Foreign(ops[i].filter.tenant, t)
    THEN Error
    ELSE LET after[i \in 0..Len(ops)] ==
                 IF i = 0 THEN docs ELSE BulkStep(after[i - 1], ops[i], t)
         IN  Wrote(after[Len(ops)])

-----------------------------------------------------------------------------
(* Aggregations.  Rows flow through a pipeline, others are joined to them, *)
(* and a collection may be replaced.                                       *)
Flows == [rows : SUBSET docs, joined : SUBSET docs, replaced : SUBSET Colls]
FlowOf(rows) == [rows |-> rows, joined |-> {}, replaced |-> {}]
Matching(rows, tenant) == {d \in rows : tenant \in {NoTenant, d.tenant}}

\* $merge, $out and the field form of $lookup, at any depth.
UnsafeAt(n, below) ==
    {s \in Stages[n] :
        \/ s.op = "out"
        \/ s.op = "lookup" /\ s.byFields
        \/ s.op \in {"lookup", "union", "facet"} /\ \E i \in DOMAIN s.pipeline : s.pipeline[i] \in below}
Unsafe ==
    LET unsafe[n \in 0..Nesting] == UnsafeAt(n, IF n = 0 THEN {} ELSE unsafe[n - 1])
    IN  unsafe[Nesting]

\* The $match that scopeSubPipeline and scopePipeline put before a pipeline: what
\* it lets in.  A slip to catch: only the stages in it are scoped.
Unmatched(rows, t) == rows
Entering(rows, t) == Matching(rows, t)
ScopeStage(s, t) == IF s.op = "graph" THEN [s EXCEPT !.restrict = t] ELSE s

Through(pipeline, run, start) ==
    LET after[i \in 0..Len(pipeline)] ==
            IF i = 0 THEN start ELSE run[pipeline[i]][after[i - 1]]
    IN  after[Len(pipeline)]

\* What MongoDB makes of a stage that was rewritten in the scope of t, by what it
\* makes of those nested in it.
RunStage(s, flow, t, below) ==
    LET everything == {d \in docs : d.coll = s.from}
        sub(rows) == Through(s.pipeline, below, FlowOf(Entering(rows, t)))
        joins(rows) == IF flow.rows = {} THEN flow ELSE [flow EXCEPT !.joined = @ \cup rows]
    IN  CASE s.op = "match" -> [flow EXCEPT !.rows = Matching(@, s.tenant)]
          [] s.op = "out" -> [flow EXCEPT !.replaced = @ \cup {s.into}]
          [] s.op = "graph" -> joins(Matching(everything, s.restrict))
          [] s.op = "lookup" ->
                IF s.byFields THEN joins(everything)
                ELSE LET f == sub(everything) IN joins(f.rows \cup f.joined)
          [] s.op = "union" ->
                LET f == sub(everything)
                IN  [flow EXCEPT !.rows = @ \cup f.rows, !.joined = @ \cup f.joined]
          [] s.op = "facet" ->
                LET f == sub(flow.rows)
                IN  [flow EXCEPT !.rows = f.rows, !.joined = @ \cup f.joined]

RunAt(n, t, below) ==
    [s \in Stages[n] |-> [flow \in Flows |-> RunStage(ScopeStage(s, t), flow, t, below)]]
Run(t) ==
    LET run[n \in 0..Nesting] == RunAt(n, t, IF n = 0 THEN <<>> ELSE run[n - 1])
    IN  run[Nesting]

Aggregate(coll, pipeline, t) ==
    IF \E i \in DOMAIN pipeline : pipeline[i] \in Unsafe THEN Error
    ELSE LET f == Through(pipeline, Run(t), FlowOf(Entering({d \in docs : d.coll = coll}, t)))
         IN  [ok |-> TRUE, rows |-> f.rows \cup f.joined,
              docs |-> {d \in docs : d.coll \notin f.replaced}]

-----------------------------------------------------------------------------
(* A call, in a scope.                                                     *)
Reply(scope, call) ==
    IF scope \notin Owners THEN Error
    ELSE CASE call.op = "aggregate" -> Aggregate(call.coll, call.pipeline, scope)
           [] call.op = "bulkWrite" -> BulkWrite(call.ops, scope)
           [] call.op = "create" -> Wrote(docs \cup {StampDoc(call.doc, scope)})
           [] call.op = "insertMany" ->
                 IF \E d \in call.docs : Foreign(d.tenant, scope) THEN Error
                 ELSE Wrote(docs \cup {StampDoc(d, scope) : d \in call.docs})
           [] OTHER ->
                 LET f == ScopeFilter(call.filter, scope)
                 IN  IF Foreign(call.filter.tenant, scope) THEN Error
                     ELSE CASE call.op = "find" -> Rows(Select(docs, call.coll, f))
                            [] call.op = "update" -> Wrote(Update(docs, call.coll, f))
                            [] call.op = "delete" -> Wrote(Delete(docs, call.coll, f))

Calls ==
    [op : {"find", "update", "delete"}, coll : Colls, filter : Filters]
    \cup [op : {"create"}, doc : NewDocs]
    \cup [op : {"insertMany"}, docs : SUBSET NewDocs]
    \cup [op : {"bulkWrite"}, ops : Batches]
    \cup [op : {"aggregate"}, coll : Colls, pipeline : Pipelines]

-----------------------------------------------------------------------------
GuardInit ==
    /\ docs = Docs
    /\ reply = [scope |-> "none", ok |-> FALSE, rows |-> {}, answered |-> FALSE]

Answer(scope, call) ==
    LET r == Reply(scope, call)
    IN  /\ ~reply.answered
        /\ docs' = r.docs
        /\ reply' = [scope |-> scope, ok |-> r.ok, rows |-> r.rows, answered |-> TRUE]

GuardNext == \E scope \in Scopes, call \in Calls : Answer(scope, call)

GuardSpec == GuardInit /\ [][GuardNext]_guardVars

\* Whatever is asked in the scope of a tenant, every row of the reply is the
\* tenant's and so is every document written, changed or deleted; a call in no
\* tenant's scope gets nothing and changes nothing.
Isolation ==
    [][LET written == (docs' \ docs) \cup (docs \ docs')
       IN  /\ \A d \in reply'.rows \cup written : d.tenant = reply'.scope
           /\ reply'.scope \notin Owners => ~reply'.ok]_guardVars
=============================================================================
