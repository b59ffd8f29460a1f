---------------------------- MODULE Eligibility ----------------------------
(***************************************************************************)
(* How close a student is to the next step (rank-engine/src/evaluate.ts):  *)
(* the criteria of a step are a tree of allOf and anyOf over the leaves of *)
(* Criteria.  The student's file only grows: they train, pass gradings,    *)
(* complete items and get signed off.                                      *)
(***************************************************************************)
EXTENDS Criteria

CONSTANTS
    Trees,          \* the criteria a step may have
    Depth,          \* bound: how deep groups nest in a group
    Nested,         \* the criteria whose groups nest at most so deep, by depth
    FirstStep, NextStep,
    CurriculumItems,
    MaxTrained      \* bound: classes attended

\* What a leaf says besides its type.
LeafOK(leaf) ==
    \/ /\ leaf.type \in {"minTimeAtStep", "minClassesSinceLastPromotion", "minTotalClasses", "minAge"}
       /\ leaf.count \in Nat
    \/ leaf.type = "requiredCurriculumItems" /\ IsFiniteSet(leaf.itemIds)
    \/ leaf.type \in {"prerequisiteStep", "passedGradingEvent", "manualInstructorSignOff"}

GroupOf(node, nodes) == node.type \in {"allOf", "anyOf"} /\ node.criteria \subseteq nodes

ASSUME EligibilityAssumption ==
    /\ Depth \in Nat
    /\ \A leaf \in Nested[0] : LeafOK(leaf)
    /\ \A n \in 1..Depth : \A node \in Nested[n] : LeafOK(node) \/ GroupOf(node, Nested[n - 1])
    /\ \A node \in Trees : LeafOK(node) \/ GroupOf(node, Nested[Depth])

VARIABLES
    criteria,       \* of the next step
    file            \* StudentProgressionInput

eligibilityVars == <<criteria, file>>

Track == {[id |-> FirstStep, trackId |-> "t", order |-> 1],
          [id |-> NextStep, trackId |-> "t", order |-> 2]}

FractionOf(e) == IF e.target = 0 \/ e.current >= e.target THEN <<1, 1>>
                 ELSE <<e.current, e.target>>
HalfWay(f) == 2 * f[1] >= f[2]

-----------------------------------------------------------------------------
(* evaluateNode.                                                           *)
Leaf(e) ==
    [satisfied |-> Satisfied(e), evaluations |-> {e},
     blockingRequired |-> IF Blocking(e) THEN {e.type} ELSE {}]

AllOf(parts) ==
    [satisfied |-> \A p \in parts : p.satisfied,
     evaluations |-> UNION {p.evaluations : p \in parts},
     blockingRequired |-> UNION {p.blockingRequired : p \in parts}]

\* One satisfied branch clears what the others require.
AnyOf(parts) ==
    LET satisfied == \E p \in parts : p.satisfied
    IN  [AllOf(parts) EXCEPT !.satisfied = satisfied,
                           !.blockingRequired = IF satisfied THEN {} ELSE @]

\* The result of a node, by those of the nodes in it.
EvaluateNode(node, below, input) ==
    IF node.type = "allOf" THEN AllOf({below[c] : c \in node.criteria})
    ELSE IF node.type = "anyOf" THEN AnyOf({below[c] : c \in node.criteria})
    ELSE Leaf(EvaluateLeaf(node, Track, NextStep, input))

Evaluate(node, input) ==
    LET evaluate[n \in 0..Depth] ==
            IF n = 0 THEN [leaf \in Nested[0] |-> Leaf(EvaluateLeaf(leaf, Track, NextStep, input))]
            ELSE [inner \in Nested[n] |-> EvaluateNode(inner, evaluate[n - 1], input)]
    IN  EvaluateNode(node, evaluate[Depth], input)

-----------------------------------------------------------------------------
(* evaluateStep.                                                           *)
\* The leaves that count are found by type, those of a cleared branch included
\* when another of their type blocks.
Counting(node) ==
    {e \in node.evaluations : Blocking(e) /\ e.type \in node.blockingRequired}

\* A slip to catch: one leaf half way is enough.
SomeHalfWay(evaluations) == \E e \in evaluations : HalfWay(FractionOf(e))
AllHalfWay(evaluations) == \A e \in evaluations : HalfWay(FractionOf(e))

Status(input) ==
    LET node == Evaluate(criteria, input)
    IN  IF node.blockingRequired = {} THEN "ready"
        ELSE IF AllHalfWay(Counting(node)) THEN "close" ELSE "notYet"

-----------------------------------------------------------------------------
(* A student's file.                                                       *)
NewFile ==
    [currentStepId |-> FirstStep, daysAtStep |-> 0, attendanceSinceLastPromotion |-> 0,
     totalAttendance |-> 1, age |-> 10, completedCurriculumItemIds |-> {},
     gradingResults |-> {}, manualSignOffs |-> {}]

EligibilityInit ==
    /\ criteria \in Trees
    /\ file = NewFile

Train ==
    /\ file.attendanceSinceLastPromotion < MaxTrained
    /\ file' = [file EXCEPT !.attendanceSinceLastPromotion = @ + 1, !.totalAttendance = @ + 1,
                            !.daysAtStep = @ + 1]
CompleteItem(i) ==
    file' = [file EXCEPT !.completedCurriculumItemIds = @ \cup {i}]
PassGrading ==
    file' = [file EXCEPT !.gradingResults = @ \cup {NextStep}]
SignOff(role) ==
    file' = [file EXCEPT !.manualSignOffs = @ \cup {[stepId |-> NextStep, byRole |-> role]}]

EligibilityNext ==
    /\ \/ Train
       \/ \E i \in CurriculumItems : CompleteItem(i)
       \/ PassGrading
       \/ SignOff("owner")
    /\ UNCHANGED criteria

EligibilitySpec == EligibilityInit /\ [][EligibilityNext]_eligibilityVars

-----------------------------------------------------------------------------
Closeness(status) == CASE status = "notYet" -> 0 [] status = "close" -> 1 [] status = "ready" -> 2

\* No step towards the next rank takes a student further from it: what they add
\* to their file may clear a branch, complete a leaf and so change which leaves
\* count, but the status never falls.
NeverFurther ==
    [][file' # file => Closeness(Status(file)) <= Closeness(Status(file)')]_eligibilityVars
=============================================================================
