\* One robot, one run, everything that may end a tick or the process.
CONSTANTS
    Robots = {1}
    MaxAttempts = 2
    StaleTicks = 1
    MaxStamp = 1
    MaxQueue = 1
    MaxTick = 2
    MaxRun = 1
    Faults = {"stop", "close", "settlement", "ambiguity", "decision", "crash"}
SPECIFICATION FairSpec
PROPERTIES
    TickCompletes
    FailureStops
CHECK_DEADLOCK FALSE
