SPECIFICATION Spec
CONSTANTS
    Targets = {a, b}
    FailureThreshold = 2
    RecoveryThreshold = 2
    FailureWindow = 1
    FreezeDuration = 1
    DirectPromotionWins = 2
    ProxyPromotionWins = 2
    TTL = 2
    MaxEntries = 1
    Mode = "ephemeral-auto"
    MaxClock = 3
SYMMETRY TargetSymmetry
VIEW WithoutRows
INVARIANTS
    TypeOK
    FrozenKnowsNothing
    PreferenceIsEarned
PROPERTIES
    GateFollowsEvidence
    LivePreferenceKept
