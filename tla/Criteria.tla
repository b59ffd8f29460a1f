------------------------------ MODULE Criteria ------------------------------
(***************************************************************************)
(* The leaf criteria of the rank engine (packages/rank-engine), pure: how  *)
(* far a student is towards one requirement of a step of a ladder.         *)
(*                                                                         *)
(* A ladder is a set of steps [id, trackId, order, criteria, ...].  Every  *)
(* leaf is evaluated to a current and a target number; a yes/no criterion  *)
(* has target 1.  Calendar arithmetic is Temporal's: the input holds the   *)
(* days since the step was entered and the age in years.                   *)
(***************************************************************************)
EXTENDS Naturals, FiniteSets

StepIds(ladder) == {s.id : s \in ladder}
StepOf(ladder, id) == CHOOSE s \in ladder : s.id = id
AsNumber(b) == IF b THEN 1 ELSE 0

\* On or past the required step of the student's own track, or exactly on it.
PrerequisiteCleared(ladder, pre, currentId) ==
    IF /\ {pre, currentId} \subseteq StepIds(ladder)
       /\ StepOf(ladder, currentId).trackId = StepOf(ladder, pre).trackId
    THEN StepOf(ladder, currentId).order >= StepOf(ladder, pre).order
    ELSE currentId = pre

SignedOff(leaf, targetId, input) ==
    \E s \in input.manualSignOffs :
        s.stepId = targetId /\ (leaf.role # "any" => s.byRole = leaf.role)

Current(leaf, ladder, targetId, input) ==
    CASE leaf.type = "minTimeAtStep" -> input.daysAtStep
      [] leaf.type = "minClassesSinceLastPromotion" -> input.attendanceSinceLastPromotion
      [] leaf.type = "minTotalClasses" -> input.totalAttendance
      [] leaf.type = "minAge" -> input.age
      [] leaf.type = "requiredCurriculumItems" ->
             Cardinality(leaf.itemIds \cap input.completedCurriculumItemIds)
      [] leaf.type = "prerequisiteStep" ->
             AsNumber(PrerequisiteCleared(ladder, leaf.stepId, input.currentStepId))
      [] leaf.type = "passedGradingEvent" -> AsNumber(targetId \in input.gradingResults)
      [] leaf.type = "manualInstructorSignOff" -> AsNumber(SignedOff(leaf, targetId, input))

Target(leaf) ==
    CASE leaf.type \in {"minTimeAtStep", "minClassesSinceLastPromotion",
                        "minTotalClasses", "minAge"} -> leaf.count
      [] leaf.type = "requiredCurriculumItems" -> Cardinality(leaf.itemIds)
      [] OTHER -> 1

EvaluateLeaf(leaf, ladder, targetId, input) ==
    [type |-> leaf.type, enforcement |-> leaf.enforcement,
     current |-> Current(leaf, ladder, targetId, input), target |-> Target(leaf)]

Satisfied(evaluation) == evaluation.current >= evaluation.target
Blocking(evaluation) == evaluation.enforcement = "required" /\ ~Satisfied(evaluation)
=============================================================================
