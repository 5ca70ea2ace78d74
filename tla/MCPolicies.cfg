CONSTANTS
    Conns = {c1, c2, c3}
    Targets = {1, 2, 3}
    FewTargets = {1, 2}
    Capacities = {1, 2}
    QueueSize = 1
    TicksPerMs = 1
    ClockSteps <- BackAndForth
    MaxClock = 1
    AllowClear = FALSE
SPECIFICATION MCSpec
SYMMETRY ConnSymmetry
VIEW View
INVARIANTS
    TypeOK
    CapacityHeld
    WriteAccounting
    NeverInvented
    NoStalePath
    ReplayIsExact
PROPERTIES
    FlipHasCause
    CleanStopIsComplete
CHECK_DEADLOCK FALSE
