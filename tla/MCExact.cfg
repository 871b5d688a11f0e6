\* Three robots, every connected geometry, five settings, three conditions per robot.
CONSTANTS
    Robots = {1, 2, 3}
    NoGoodSets <- MCNoGoodSets
    HardAssignments <- MCHardAssignments
    Configs <- MCConfigs
    Conditions <- MCConditions
    IntegerLimit <- MCIntegerLimit
    SumLimit <- MCSumLimit
SPECIFICATION Spec
INVARIANTS
    NeverRaises
    SolvesComponent
    OptimumLexicographic
CHECK_DEADLOCK FALSE
