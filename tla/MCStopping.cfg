CONSTANTS
    Conns = {c1}
    Services = {engine}
    MinBackoff = 1
    MaxBackoff = 3
    StableAfter = 2
    Grace = 2
    FailureCap = 2
    Handlers = {h1, h2}
    Targets = {1, 2}
    Capacities = {1}
    QueueSize = 1
    TicksPerMs = 1
    ClockSteps = {1}
    MaxClock = 0
    AllowClear = FALSE
SPECIFICATION MCSpec
PROPERTIES
    StopsEnd
    NobodyIsForgotten
    Converges
CHECK_DEADLOCK FALSE
