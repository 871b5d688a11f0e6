\* No loss at all: what fails is an await of close().
CONSTANT MaxDrops = 0
SPECIFICATION Spec
INVARIANTS
    ClosedOnReturn
CHECK_DEADLOCK FALSE
