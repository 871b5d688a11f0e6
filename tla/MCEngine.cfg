\* Two robots under every geometry and condition, or three whose components merge and
\* split and whose conflict graph may miss a pair.
CONSTANTS
    Robots = {1, 2, 3}
    MaxHold = 3
    MinHold = 2
    ClearanceTicks = 1
    StaleTicks = 2
    WaitingCap = 1
    MaxTick = 5
    PairTicks = 5
    FleetTicks = 3
    Observations <- MCObservations
SPECIFICATION MCSpec
INVARIANTS
    TypeOK
    LeaseBounded
    UnavailablePaused
    DiscardedOnlyByOverlap
    MoversSafe
    ProgressOrAlarm
    NominalDecisionsSafe
    PreviewAccepts
PROPERTIES
    GrantsMatchMoves
    NonPreemption
