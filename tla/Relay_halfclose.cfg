SPECIFICATION PeersRead
CONSTANTS
    MaxBytes = 1
PROPERTIES
    HalfCloseArrives
