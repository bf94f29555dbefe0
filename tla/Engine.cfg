SPECIFICATION MCSpec
VIEW MCView
CONSTANTS
    LongTexts = {3}
    Texts = {1, 3}
    Elements <- MCElements
    PageSize = 5
    BrinSize = 2
    IndexSpecs <- MCSpecs
    ColumnNames <- MCNames
    MaxColumns = 2
    RowShapes <- MCShapes
    MaxRows = 2
    MaxIds = 3
    MaxIndexes = 1
    MaxDead = 1
    MaxChunks = 2
    NULL = NULL
    Schemas <- MCSchemas
    Values = {2}
    Sources <- MCSources
    Clauses <- MCClauses
    MaxSerial = 3
INVARIANTS
    IndexesInStep
    
    StorageInStep
    UniqueKeysHeld
    RowsAreValid
PROPERTIES
    BehavesAsRows
    ConstraintsKept
    
    FailuresChangeNothing
CHECK_DEADLOCK FALSE
