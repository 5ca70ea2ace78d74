CONSTANTS
    Conns = {c1, c2}
    Services = {engine, guard}
    MinBackoff = 1
    MaxBackoff = 3
    StableAfter = 3
    Grace = 2
    FailureCap = 2
SPECIFICATION MCSpec
INVARIANTS
    PathsAreRespected
    ReportsAreTrue
    NothingOutlivesStop
PROPERTY RestartsOnSchedule
