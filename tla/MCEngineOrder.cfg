\* Four robots: a crossing pair, and an overlapping pair in another component.
CONSTANTS
    Robots = {1, 2, 3, 4}
    MaxHold = 3
    MinHold = 0
    ClearanceTicks = 1
    StaleTicks = 2
    WaitingCap = 1
    MaxTick = 2
    Observations <- ElsewhereObservations
SPECIFICATION OrderSpec
PROPERTY PriorityNeverReverses
CHECK_DEADLOCK FALSE
