CONSTANTS
    Conns = {c1, c2}
    Targets = {1, 2}
    Capacities = {1, 2}
    QueueSize = 1
    TicksPerMs = 2
    ClockSteps = {1}
    MaxClock = 0
    AllowClear = TRUE
SPECIFICATION Spec
PROPERTIES
    ChangesOnlyAfterFailure
CHECK_DEADLOCK FALSE
