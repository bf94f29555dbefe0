SPECIFICATION Spec
CONSTANTS
    Sessions = {s1, s2}
    t1 = t1
    t2 = t2
    Tables = {t1, t2}
    Side <- TriggerOnT1
    Levels = {"ReadCommitted", "Serializable"}
    AccessModes = {FALSE}
    Names = {a, b}
    Autocommitters = {}
    TwoPhase = FALSE
    PartialEffects = TRUE
    WalFails = FALSE
    MaxClock = 4
    MaxCrashes = 0
SYMMETRY Symmetry
INVARIANTS
    CopyMatchesBuffer
    NoUndoneWork
CHECK_DEADLOCK FALSE
