SPECIFICATION Spec
CONSTANTS
    Targets = {a, b}
    FailureThreshold = 2
    RecoveryThreshold = 2
    FailureWindow = 1
    FreezeDuration = 2
    DirectPromotionWins = 2
    ProxyPromotionWins = 2
    TTL = 1
    MaxEntries = 2
    Mode = "ephemeral-auto"
    MaxClock = 3
INVARIANTS
    OutageRowsBounded
