CONSTANTS
    Retention = 1
    MaxFiles = 2
    RowsPerFile = 1
    MaxTime = 2
    MaxCreated = 4
    MaxCrashes = 1
SPECIFICATION Spec
INVARIANT ResumeContinues
CHECK_DEADLOCK FALSE
