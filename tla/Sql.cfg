\* Statements with up to two optional parts, queries likewise, and
\* quoted texts of up to three characters.  A behaviour ends with the replay.
SPECIFICATION MCSpec
CONSTANTS
    Options = 2
    QueryOptions = 2
    ExprOptions = 2
    Wire <- MCWire
    Datums <- MCDatums
    Texts <- MCTexts
    Separators <- MCSeparators
    Neighbours <- MCNeighbours
INVARIANTS
    TreesWellFormed
    ReplayRestores
    ReplayKeepsKinds
    
    
CHECK_DEADLOCK FALSE
