\* One robot, a settlement that raises.
CONSTANTS
    Robots = {1}
    MaxAttempts = 1
    StaleTicks = 1
    MaxStamp = 1
    MaxQueue = 1
    MaxTick = 1
    MaxRun = 1
    Faults = {"settlement"}
SPECIFICATION Spec
INVARIANT ConsumesUntilClosed
CHECK_DEADLOCK FALSE
