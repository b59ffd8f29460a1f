-------------------------------- MODULE Ranks --------------------------------
(***************************************************************************)
(* Rank ladders and the members who climb them: publishing versions of a   *)
(* discipline's ladder (RankSystemsService), enrolling a member            *)
(* (MemberRankStatesService), recording gradings and curriculum items, and *)
(* awarding a step (PromotionsService.award).                              *)
(*                                                                         *)
(* One discipline with one track.  A step's criteria are the common case,  *)
(* an allOf of leaves; the whole criterion tree is in Eligibility.  Time   *)
(* is counted in classes attended, so awardedAt orders a member's classes  *)
(* and promotions the way the code's timestamps do.                        *)
(***************************************************************************)
EXTENDS Criteria, Sequences

CONSTANTS
    Drafts,         \* contents of a ladder: the content hash is the version id
    Ladder,         \* the steps of each draft
    Members,
    Items,          \* curriculum items
    Graded,         \* steps that gradings are held for
    Callers,        \* executions of API requests
    MaxClasses,     \* bound: classes a member attends
    MaxPromotions,  \* bound: promotions awarded
    Workloads,      \* bound: the sets of operations that overlap in a behaviour
    None            \* null

AllSteps == UNION {StepIds(Ladder[d]) : d \in Drafts}
Roles == {"instructor", "owner"}
Position == [step : AllSteps \cup {None}, since : Nat]

ASSUME RanksAssumption ==
    /\ MaxClasses \in Nat /\ MaxPromotions \in Nat
    /\ Graded \subseteq AllSteps
    /\ Workloads \subseteq SUBSET {"award", "attend", "grade", "mark", "crash"}
    /\ Workloads # {}
    /\ None \notin Drafts \cup AllSteps /\ None \notin Position
    /\ \A d \in Drafts : \A s \in Ladder[d] : \A l \in s.criteria :
           l.type = "prerequisiteStep" => l.stepId # None

VARIABLES
    versions,       \* the number each minted draft got, 0 while it is not minted
    handle,         \* the progression system: current version and version ids
    positions,      \* the rank state of each member, or None
    promotions,     \* the history, append-only
    attended,       \* classes attended by each member so far
    graded,         \* steps each member passed a grading for
    completed,      \* curriculum items each member completed
    calls,          \* what each caller is in the middle of
    raced,          \* history: what has been written on a stale read, or crashed
    workload        \* the operations this behaviour is made of

rankVars == <<versions, handle>>
factVars == <<attended, graded, completed>>
memberVars == <<positions, promotions, factVars>>
history == <<raced, workload>>
ranksVars == <<rankVars, memberVars, calls, history>>

Promotion ==
    [member : Members, version : Drafts, from : AllSteps \cup {None}, to : AllSteps,
     awardedAt : Nat, overridden : BOOLEAN]

Call ==
    [pc : {"idle", "mint", "link", "enroll", "version", "history", "facts", "create", "advance"},
     draft : Drafts \cup {None},        \* published, or the current one an award reads
     prior : Drafts \cup {None},        \* the current version a publication has read
     member : Members \cup {None},
     step : AllSteps \cup {None},       \* the step to award
     from : AllSteps \cup {None},       \* the position the award has read
     now : Nat,                         \* when the award was asked for
     since : Nat,                       \* classes count after this
     role : Roles,
     overridden : BOOLEAN]

Idle ==
    [pc |-> "idle", draft |-> None, prior |-> None, member |-> None, step |-> None,
     from |-> None, now |-> 0, since |-> 0, role |-> "instructor", overridden |-> FALSE]

RanksInit ==
    /\ versions = [d \in Drafts |-> 0]
    /\ handle = [current |-> None, ids |-> {}]
    /\ positions = [m \in Members |-> None]
    /\ promotions = <<>>
    /\ attended = [m \in Members |-> 0]
    /\ graded = [m \in Members |-> {}]
    /\ completed = [m \in Members |-> {}]
    /\ calls = [c \in Callers |-> Idle]
    /\ raced = {}
    /\ workload \in Workloads

Continue(c, call) == calls' = [calls EXCEPT ![c] = call]
End(c) == Continue(c, Idle)
Other(c, pc) == {d \in Callers \ {c} : calls[d].pc = pc}

-----------------------------------------------------------------------------
(* RankSystemsService.publish.                                             *)
RequestPublish(c, d) ==
    /\ calls[c].pc = "idle"
    /\ Continue(c, [Idle EXCEPT !.pc = "mint", !.draft = d, !.prior = handle.current])
    /\ UNCHANGED <<rankVars, memberVars, history>>

\* A slip to catch: the number is the prior version's own.
Renumber(d, prior) == IF prior = None THEN 1 ELSE versions[prior]
MintNumber(d, prior) ==
    CASE prior = None -> 1
      [] prior = d    -> versions[prior]
      [] OTHER        -> versions[prior] + 1

\* The unique version id refuses content that was ever minted, the current
\* version included.
CreateVersion(c) ==
    LET d == calls[c].draft
    IN  /\ calls[c].pc = "mint"
        /\ IF versions[d] # 0
           THEN /\ End(c)
                /\ UNCHANGED <<versions, raced>>
           ELSE /\ versions' = [versions EXCEPT ![d] = MintNumber(d, calls[c].prior)]
                /\ Continue(c, [calls[c] EXCEPT !.pc = "link"])
                /\ raced' = IF handle.current # calls[c].prior \/ Other(c, "link") # {}
                            THEN raced \cup {"publish"} ELSE raced
        /\ UNCHANGED <<handle, memberVars, workload>>

LinkVersion(c) ==
    /\ calls[c].pc = "link"
    /\ handle' = [current |-> calls[c].draft, ids |-> handle.ids \cup {calls[c].draft}]
    /\ End(c)
    /\ UNCHANGED <<versions, memberVars, history>>

-----------------------------------------------------------------------------
(* MemberRankStatesService.enroll.                                         *)
RequestEnroll(c, m) ==
    /\ calls[c].pc = "idle"
    /\ positions[m] = None /\ handle.current # None
    /\ Continue(c, [Idle EXCEPT !.pc = "enroll", !.member = m])
    /\ UNCHANGED <<rankVars, memberVars, history>>

\* A slip to catch: a new member starts on a step of the ladder.
OnFirstStep(m) == [step |-> CHOOSE s \in AllSteps : TRUE, since |-> attended[m]]
EntryPosition(m) == [step |-> None, since |-> attended[m]]

CreateRankState(c) ==
    LET m == calls[c].member
    IN  /\ calls[c].pc = "enroll"
        /\ positions' = IF positions[m] = None
                        THEN [positions EXCEPT ![m] = EntryPosition(m)] ELSE positions
        /\ End(c)
        /\ UNCHANGED <<rankVars, promotions, factVars, history>>

-----------------------------------------------------------------------------
(* The facts an award depends on.                                          *)
AttendClass(m) ==
    /\ attended[m] < MaxClasses
    /\ attended' = [attended EXCEPT ![m] = @ + 1]
    /\ UNCHANGED <<rankVars, positions, promotions, graded, completed, calls, history>>

\* A grading's result may be corrected later, and a completed item unmarked.
RecordResult(m, s, passed) ==
    /\ graded' = [graded EXCEPT ![m] = IF passed THEN @ \cup {s} ELSE @ \ {s}]
    /\ UNCHANGED <<rankVars, positions, promotions, attended, completed, calls, history>>

MarkItem(m, i, done) ==
    /\ completed' = [completed EXCEPT ![m] = IF done THEN @ \cup {i} ELSE @ \ {i}]
    /\ UNCHANGED <<rankVars, positions, promotions, attended, graded, calls, history>>

-----------------------------------------------------------------------------
(* PromotionsService.award.                                                *)
RequestAward(c, m, s, role, overridden) ==
    /\ calls[c].pc = "idle"
    /\ positions[m] # None
    /\ Len(promotions) + Cardinality(Other(c, "create")) < MaxPromotions
    /\ Continue(c, [Idle EXCEPT !.pc = "version", !.member = m, !.step = s,
                                !.from = positions[m].step, !.since = positions[m].since,
                                !.role = role, !.overridden = overridden])
    /\ UNCHANGED <<rankVars, memberVars, history>>

\* The current version is read, then the clock.  A step the version lacks is
\* refused.
ReadVersion(c) ==
    LET d == handle.current
    IN  /\ calls[c].pc = "version"
        /\ d # None
        /\ IF calls[c].step \in StepIds(Ladder[d])
           THEN Continue(c, [calls[c] EXCEPT !.pc = "history", !.draft = d,
                                             !.now = attended[calls[c].member]])
           ELSE End(c)
        /\ UNCHANGED <<rankVars, memberVars, history>>

HistoryOf(m) == {i \in DOMAIN promotions : promotions[i].member = m}

\* Classes count from the newest promotion, or else from the step's entry.
Since(m, entered) ==
    IF HistoryOf(m) = {} THEN entered
    ELSE promotions[CHOOSE i \in HistoryOf(m) : \A j \in HistoryOf(m) :
                        promotions[j].awardedAt <= promotions[i].awardedAt].awardedAt

ReadHistory(c) ==
    /\ calls[c].pc = "history"
    /\ Continue(c, [calls[c] EXCEPT !.pc = "facts",
                                    !.since = Since(calls[c].member, calls[c].since)])
    /\ UNCHANGED <<rankVars, memberVars, history>>

Leaves(d, s) == StepOf(Ladder[d], s).criteria

\* What the award hands the engine: its own sign-off of the step included.
Input(call) ==
    LET m == call.member
    IN  [currentStepId |-> call.from,
         attendanceSinceLastPromotion |-> attended[m] - call.since,
         totalAttendance |-> attended[m],
         completedCurriculumItemIds |-> completed[m],
         gradingResults |-> graded[m],
         manualSignOffs |-> {[stepId |-> call.step, byRole |-> call.role]}]

UnmetRequired(call) ==
    {l \in Leaves(call.draft, call.step) :
        Blocking(EvaluateLeaf(l, Ladder[call.draft], call.step, Input(call)))}

\* A slip to catch: nothing is refused.
NeverRefused(call) == FALSE
Refused(call) == UnmetRequired(call) # {} /\ ~call.overridden

Promote(c) ==
    /\ calls[c].pc = "facts"
    /\ IF Refused(calls[c])
       THEN End(c)
       ELSE Continue(c, [calls[c] EXCEPT !.pc = "create", !.since = 0, !.role = "instructor"])
    /\ UNCHANGED <<rankVars, memberVars, history>>

\* A slip to catch: the promotion names the step the member has by now left.
FromNowhere(call) == None
FromStep(call) == call.from

CreatePromotion(c) ==
    LET m == calls[c].member
    IN  /\ calls[c].pc = "create"
        /\ Len(promotions) < MaxPromotions
        /\ promotions' = Append(promotions,
               [member |-> m, version |-> calls[c].draft, from |-> FromStep(calls[c]),
                to |-> calls[c].step, awardedAt |-> calls[c].now,
                overridden |-> calls[c].overridden])
        /\ Continue(c, [calls[c] EXCEPT !.pc = "advance"])
        /\ raced' = IF \/ positions[m].step # calls[c].from
                       \/ \E d \in Other(c, "advance") : calls[d].member = m
                    THEN raced \cup {"award"} ELSE raced
        /\ UNCHANGED <<rankVars, positions, factVars, workload>>

AdvancePosition(c) ==
    /\ calls[c].pc = "advance"
    /\ positions' = [positions EXCEPT ![calls[c].member] =
                        [step |-> calls[c].step, since |-> calls[c].now]]
    /\ End(c)
    /\ UNCHANGED <<rankVars, promotions, factVars, history>>

-----------------------------------------------------------------------------
\* A crash between the two writes of a publication, or of an award, leaves the
\* first one standing.
Crash(c) ==
    /\ "crash" \in workload
    /\ calls[c].pc # "idle"
    /\ End(c)
    /\ raced' = CASE calls[c].pc = "link" -> raced \cup {"publish"}
                  [] calls[c].pc = "advance" -> raced \cup {"award"}
                  [] OTHER -> raced
    /\ UNCHANGED <<rankVars, memberVars, workload>>

NewCall(c) ==
    \/ \E d \in Drafts : RequestPublish(c, d)
    \/ \E m \in Members : RequestEnroll(c, m)
    \/ /\ "award" \in workload
       /\ \E m \in Members, s \in AllSteps, role \in Roles, overridden \in BOOLEAN :
             RequestAward(c, m, s, role, overridden)

CallStep(c) ==
    \/ CreateVersion(c) \/ LinkVersion(c) \/ CreateRankState(c)
    \/ ReadVersion(c) \/ ReadHistory(c) \/ Promote(c)
    \/ CreatePromotion(c) \/ AdvancePosition(c) \/ Crash(c)

FactStep(m) ==
    \/ "attend" \in workload /\ AttendClass(m)
    \/ "grade" \in workload /\ \E s \in Graded, passed \in BOOLEAN : RecordResult(m, s, passed)
    \/ "mark" \in workload /\ \E i \in Items, done \in BOOLEAN : MarkItem(m, i, done)

RanksNext ==
    \/ \E c \in Callers : NewCall(c) \/ CallStep(c)
    \/ \E m \in Members : FactStep(m)

RanksSpec == RanksInit /\ [][RanksNext]_ranksVars

-----------------------------------------------------------------------------
\* Every row and call has its type (packages/db/src/rank.ts).
RanksTypeOK ==
    /\ versions \in [Drafts -> Nat]
    /\ handle \in [current : Drafts \cup {None}, ids : SUBSET Drafts]
    /\ positions \in [Members -> Position \cup {None}]
    /\ promotions \in Seq(Promotion)
    /\ attended \in [Members -> Nat]
    /\ graded \in [Members -> SUBSET Graded]
    /\ completed \in [Members -> SUBSET Items]
    /\ calls \in [Callers -> Call]
    /\ raced \subseteq {"publish", "award"}
    /\ workload \in Workloads

\* Whatever publications interleave or crash, the current version and every
\* listed one have been minted, and each promotion is pinned to a minted
\* version that has the step it awards; and unless two publications raced or
\* one crashed, versions have distinct numbers and the current one, but for a
\* version about to be linked, the highest.
VersionsSound ==
    /\ \A d \in handle.ids \cup ({handle.current} \ {None}) : versions[d] # 0
    /\ \A i \in DOMAIN promotions :
          /\ versions[promotions[i].version] # 0
          /\ promotions[i].to \in StepIds(Ladder[promotions[i].version])
    /\ "publish" \notin raced =>
          \A d, e \in {x \in Drafts : versions[x] # 0} :
              /\ versions[d] = versions[e] => d = e
              /\ d # handle.current =>
                    \/ handle.current # None /\ versions[d] < versions[handle.current]
                    \/ \E c \in Callers : calls[c].pc = "link" /\ calls[c].draft = d

\* A member stands on no step that no promotion in the history explains,
\* crashes and concurrent awards included: the promotion is written first.
PositionExplained ==
    \A m \in Members :
        (positions[m] # None /\ positions[m].step # None) =>
            \E i \in HistoryOf(m) : promotions[i].to = positions[m].step

\* Each promotion starts where the member's previous one led, and the member
\* stands where the last one led once the award is over: unless awards of one
\* member raced or one crashed between its two writes.
HistoryIsAChain ==
    "award" \notin raced =>
        \A i \in DOMAIN promotions :
            LET m == promotions[i].member
                earlier == {j \in HistoryOf(m) : j < i}
                later == {j \in HistoryOf(m) : j > i}
            IN  /\ IF earlier = {} THEN promotions[i].from = None
                   ELSE \E j \in earlier : /\ \A k \in earlier : k <= j
                                           /\ promotions[i].from = promotions[j].to
                /\ later = {} =>
                      \/ positions[m].step = promotions[i].to
                      \/ \E c \in Callers : calls[c].pc = "advance" /\ calls[c].member = m

\* A step with a required prerequisite is awarded without an override only to
\* a member whose history holds a promotion to that step or past it, in the
\* version the award was made under; whichever versions were published and
\* whatever awards ran in between.
PrerequisiteHeld ==
    \A i \in DOMAIN promotions : ~promotions[i].overridden =>
        LET p == promotions[i]
            ladder == Ladder[p.version]
        IN  \A l \in Leaves(p.version, p.to) :
                (l.type = "prerequisiteStep" /\ l.enforcement = "required") =>
                    \E j \in HistoryOf(p.member) :
                        j < i /\ PrerequisiteCleared(ladder, l.stepId, promotions[j].to)
=============================================================================
