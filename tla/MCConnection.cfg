CONSTANTS
    Timeout = 5
    MaxBytes = 2
SPECIFICATION MCSpec
INVARIANTS
    ConnectionsOwned
    BlameIsEarned
    ResultIsTrue
PROPERTIES
    KeepsPromise
    Returns
    HalfCloseOfTCP
