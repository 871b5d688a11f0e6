\* Three robots, all 4096 no-good sets, every hard assignment, score ties.
CONSTANTS
    Robots = {1, 2, 3}
    NoGoodSets <- ArbitraryNoGoods
    Scores = {1, 2}
    MaxRepairCandidates = 2
SPECIFICATION MCSpec
INVARIANTS
    TypeOK
    RankRespected
    ResultSound
    ResultComplete
    RepairNeverNeeded
    TrialImplied
PROPERTY Implements
CHECK_DEADLOCK FALSE
