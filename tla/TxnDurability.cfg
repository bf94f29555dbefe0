SPECIFICATION Spec
CONSTANTS
    Sessions = {s1, s2}
    t1 = t1
    t2 = t2
    Tables = {t1, t2}
    Side <- NoSide
    Levels = {"ReadCommitted", "RepeatableRead"}
    AccessModes = {TRUE, FALSE}
    Names = {}
    Autocommitters = {s1, s2}
    TwoPhase = TRUE
    PartialEffects = TRUE
    WalFails = TRUE
    MaxClock = 4
    MaxCrashes = 1
SYMMETRY Symmetry
INVARIANTS
    NoLostUpdate
    LogRecovers
CHECK_DEADLOCK FALSE
