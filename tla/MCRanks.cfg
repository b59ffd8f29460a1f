SPECIFICATION MCSpec
CONSTANTS
    blue = blue
    purple = purple
    first = first
    second = second
    armbar = armbar
    Drafts = {first, second}
    Ladder <- Belts
    Members = {m1}
    Items = {armbar}
    Graded = {purple}
    Callers = {c1, c2}
    MaxClasses = 1
    MaxPromotions = 2
    Workloads <- AwardsAndFacts
    None = None
    sweep = sweep
    Trees <- LeafAndGroup
    Depth = 1
    Nested <- LeavesAndPairs
    FirstStep = blue
    NextStep = purple
    CurriculumItems = {armbar, sweep}
    MaxTrained = 3
SYMMETRY SymmetricCallers
INVARIANT VersionsSound
INVARIANT PositionExplained
INVARIANT HistoryIsAChain
INVARIANT PrerequisiteHeld
PROPERTY NeverFurther
CHECK_DEADLOCK FALSE
