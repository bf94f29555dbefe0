SPECIFICATION LogicalSpec
CONSTANTS
    LogStatements = 4
    LogCrashes = 2
    Literals = {FALSE}
    Fragments = {"malformed"}
CHECK_DEADLOCK FALSE
INVARIANT AllCommittedSurvive
