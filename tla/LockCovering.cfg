\* One table, two modes of which neither covers the other.
SPECIFICATION HistorySpec
CONSTANTS
    Pids = {p1, p2}
    Objects = {t1}
    Rows = {}
    TableModes = {"RowExclusive", "Share"}
    RowPolicies = {"Wait"}
    Interrupted = {}
    Nested = {}
INVARIANTS
    GrantedModesCompatible
CHECK_DEADLOCK FALSE
