SPECIFICATION PersistenceSpec
CONSTANTS
    LogStatements = 4
    LogCrashes = 3
    Literals = {TRUE, FALSE}
    Fragments = {"malformed", "shorter"}
    SegmentSize = 4
    Sizes = {2, 3, 5}
    MaxRecords = 5
    WalCrashes = 2
    Contents = {blank, x, y}
    Blank = blank
    Capacity = 2
    MaxPages = 3
    MaxClock = 7
    t1 = t1
    t2 = t2
    t3 = t3
    f1 = f1
    f2 = f2
    Tables = {t1, t2, t3}
    Files = {f1, f2}
    HeapFile <- TwoShareAFile
    LogicalLog = TRUE
    RowsTooLarge = TRUE
    MaxStatements = 3
    MaxCrashes = 2
    PAGE_SIZE = 48
    MaxHeapPages = 2
    Tuples <- MCTuples
    DiskRows <- MCDiskRows
    Catalogs <- MCCatalogs
    Decimals <- MCLiterals
    DIV_SCALE = 2
    MaxDigits = 3
INVARIANTS
    PersistenceTypeOK
    LogReplays
    SyncedReplays
    LsnsOrderLog
    
    HeapIsTheTuples
    
    ArithmeticIsExact
PROPERTIES
    CacheIsInvisible
CHECK_DEADLOCK FALSE
