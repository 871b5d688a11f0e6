\* Three robots on seven sets of routes, with a tick for every node and to spare.
CONSTANTS
    Robots = {1, 2, 3}
    MaxHold = 3
    MinHold = 0
    ClearanceTicks = 1
    StaleTicks = 2
    WaitingCap = 1
    MaxTick = 10
    Observations <- Sightings
    Poses <- MCPoses
    Swept <- MCSwept
    Scenarios <- MCScenarios
    TickLimit = 10
SPECIFICATION FleetSpec
INVARIANTS
    FleetTypeOK
    MonitorSeesAll
PROPERTIES
    ImplementsTraffic
    EveryExchangeCounts
    RunCompletes
CHECK_DEADLOCK FALSE
