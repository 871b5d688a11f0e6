\* Two robots, two runs: retries, ambiguous confirms, a crash anywhere.
CONSTANTS
    Robots = {1, 2}
    MaxAttempts = 2
    StaleTicks = 1
    MaxStamp = 1
    MaxQueue = 1
    MaxTick = 1
    MaxRun = 2
    Faults = {"ambiguity", "crash"}
SPECIFICATION Spec
INVARIANTS
    TypeOK
    IdentityUnique
    TraceTruthful
CHECK_DEADLOCK FALSE
