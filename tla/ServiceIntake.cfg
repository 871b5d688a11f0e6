\* One robot, three ticks: reports late, repeated, redelivered, half settled.
CONSTANTS
    Robots = {1}
    MaxAttempts = 1
    StaleTicks = 2
    MaxStamp = 2
    MaxQueue = 2
    MaxTick = 3
    MaxRun = 1
    Faults = {"redelivery", "settlement", "crash"}
SPECIFICATION Spec
INVARIANTS
    QueueOrder
    NewestStateKept
PROPERTY StateReuseBounded
CHECK_DEADLOCK FALSE
