\* The smallest instance of Sql.cfg: texts with at most one optional part.
SPECIFICATION MCSpec
CONSTANTS
    Options = 1
    QueryOptions = 1
    ExprOptions = 1
    Wire <- MCWire
    Datums <- MCDatums
    Texts = {}
    Separators = {}
    Neighbours = {}
INVARIANTS
    ReplayIsExact
CHECK_DEADLOCK FALSE
