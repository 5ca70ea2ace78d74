CONSTANTS
    Procs = {p0}
    Pair = {p1, p2}
    Trio = {c1, c2, c3}
    Targets = {1}
    MaxRows = 2
    TrimEvery = 2
    QueueSize = 1
    Retention = 1
    WinsNeeded <- Two
    SessionsNeeded <- Two
    MayStepBack = FALSE
    MaxClock = 2
    MaxStarts = 3
    MaxOffers = 4
    MaxFaults = 1
    MaxKeys = 2
    MaxDamage = 1
    MaxFiles = 2
    RowsPerFile = 1
    MaxTime = 2
    MaxCreated = 4
    MaxCrashes = 1
    Ttls = {0, 1, 2}
    TicksPerMs = 2
    MaxSetBacks = 1
SPECIFICATION MCSpec
VIEW View
INVARIANTS
    ExcessAccounted
    SessionsRegistered
    EvidenceIsCounted
    OneKeyForAllRows
    CopiesAreComplete
    RecorderIsContained
    OneLockPerTarget
PROPERTIES
    NewestAreKept
    VerdictIsIndependent
    LocksAreRefusedForTheirTime
CHECK_DEADLOCK FALSE
