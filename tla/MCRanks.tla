------------------------------ MODULE MCRanks ------------------------------
(***************************************************************************)
(* Two versions of a ladder of two belts.  In the first the second belt    *)
(* needs the first one, a class and the owner's sign-off; in the second it *)
(* moves before the other and asks for a grading and a curriculum item.    *)
(* With no operation to overlap, a student's file grows instead, towards a *)
(* step with nested criteria.                                              *)
(***************************************************************************)
EXTENDS Ranks, Eligibility, TLC

CONSTANTS blue, purple, first, second, armbar, sweep

Required(leaf) == leaf @@ [enforcement |-> "required"]
Step(id, order, leaves) ==
    [id |-> id, trackId |-> "adults", order |-> order, criteria |-> leaves]

Belts ==
    first :> {Step(blue, 1, {}),
              Step(purple, 2,
                   {Required([type |-> "prerequisiteStep", stepId |-> blue]),
                    Required([type |-> "minClassesSinceLastPromotion", count |-> 1]),
                    Required([type |-> "manualInstructorSignOff", role |-> "owner"])})}
    @@ second :> {Step(purple, 1, {Required([type |-> "passedGradingEvent"])}),
                  Step(blue, 2,
                       {Required([type |-> "requiredCurriculumItems", itemIds |-> {armbar}]),
                        Required([type |-> "prerequisiteStep", stepId |-> purple])})}

AwardsAndFacts ==
    {{"award", "attend"}, {"award", "crash"}, {"award", "grade", "mark"}, {}}

Advisory(leaf) == leaf @@ [enforcement |-> "advisory"]
LeafCriteria ==
    {Required([type |-> "minClassesSinceLastPromotion", count |-> 2]),
     Required([type |-> "minClassesSinceLastPromotion", count |-> 3]),
     Required([type |-> "requiredCurriculumItems", itemIds |-> {armbar, sweep}]),
     Required([type |-> "passedGradingEvent"]),
     Advisory([type |-> "manualInstructorSignOff", role |-> "owner"])}
GroupsOf(sets) == [type : {"allOf", "anyOf"}, criteria : sets]
LeafPairs == {ls \in SUBSET LeafCriteria : Cardinality(ls) = 2}
LeavesAndPairs == 0 :> LeafCriteria @@ 1 :> LeafCriteria \cup GroupsOf(LeafPairs)
LeafAndGroup == GroupsOf({{l, g} : l \in LeafCriteria, g \in GroupsOf(LeafPairs)})

MCInit ==
    /\ RanksInit /\ EligibilityInit
    /\ workload # {} => criteria = CHOOSE t \in Trees : TRUE
MCNext ==
    \/ workload # {} /\ RanksNext /\ UNCHANGED eligibilityVars
    \/ workload = {} /\ EligibilityNext /\ UNCHANGED ranksVars
MCSpec == MCInit /\ [][MCNext]_<<ranksVars, eligibilityVars>>

SymmetricCallers == Permutations(Callers)
=============================================================================
