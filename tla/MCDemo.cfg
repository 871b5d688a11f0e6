\* Three robots at a junction, any of which may miss the action of a tick.
CONSTANTS
    Robots = {1, 2, 3}
    MaxHold = 3
    MinHold = 0
    ClearanceTicks = 1
    StaleTicks = 2
    WaitingCap = 1
    MaxTick = 10
    Observations <- Sightings
    Poses <- MCPoses
    Swept <- MCSwept
    Scenarios <- MCDemoScenarios
    TickLimit = 10
SPECIFICATION DemoSpec
INVARIANTS
    OneNodePerResume
CHECK_DEADLOCK FALSE
