\* Two backends, a table in two modes of which neither covers the other, and a
\* row under every wait policy; waits end under the fairness of the threads alone.
\* Every wait-for graph on four backends for the search.
SPECIFICATION MCSpec
CONSTANTS
    Pids = {p1, p2}
    Objects = {t1, r1}
    Rows = {r1}
    TableModes = {"RowExclusive", "Share"}
    RowPolicies = {"Wait", "NoWait", "SkipLocked"}
    Interrupted = {p1}
    Nested = {p1}
    Nodes = {n1, n2, n3, n4}
INVARIANTS
    HoldersCompatible
    NoDeadlock
    AnswerIsRight
PROPERTIES
    LocksStayInBlock
    WaitsReturn
    Terminates
CHECK_DEADLOCK FALSE
