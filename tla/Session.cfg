SPECIFICATION ConnectionSpec
CONSTANTS
    Queries <- MCQueries
    BoundQueries <- MCBoundQueries
    MaxInbox = 2
    MaxOwed = 2
    MaxBatch = 3
    LastPid = 2
    Channels = {a, b}
    MaxNotes = 2
INVARIANTS
    OneReadyEach
    ErrorsResynchronize
    
    NotesOnceInOrder
PROPERTIES
    Answered
    ClosedIsForgotten
CHECK_DEADLOCK FALSE
