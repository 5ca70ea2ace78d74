SPECIFICATION MCSpec
CONSTANTS
    c1 = c1
    c2 = c2
    host = host
    Config = "a"
    Configs = {"a", "b"}
    Inputs <- MCAll
    FewInputs <- MCFew
    MaxAge = 1
    Tolerance = 1
    Conns <- MCTwo
    Scopes = {host}
    Sessions = {"planned", "stray"}
    Base = "proxy"
    MaxTime = 2
    Decisions <- MCDecisions
    Endings <- MCEndings
    Events <- MCEvents
    MaxOther = 1
    MaxInt64 = 1
    Window = 1
    Legacy <- MCLegacy
    MinCommittedSelections = 1
    MinScope <- MCHalf
    MinPairCompleteness <- MCHalf
    MaxCancellation <- MCHalf
SYMMETRY Symmetry
CHECK_DEADLOCK FALSE
INVARIANTS
    EventsReadable
    ReportIsTrue
    ReadinessIsEarned
    PreflightIsSound
