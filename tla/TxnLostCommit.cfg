SPECIFICATION Spec
CONSTANTS
    Sessions = {s1, s2}
    t1 = t1
    t2 = t2
    Tables = {t1, t2}
    Side <- NoSide
    Levels = {"RepeatableRead"}
    AccessModes = {FALSE}
    Names = {}
    Autocommitters = {}
    TwoPhase = FALSE
    PartialEffects = FALSE
    WalFails = FALSE
    MaxClock = 4
    MaxCrashes = 0
SYMMETRY Symmetry
CHECK_DEADLOCK FALSE
INVARIANTS
    NoLostCommit
