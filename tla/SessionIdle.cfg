SPECIFICATION ConnectionSpec
CONSTANTS
    Queries <- MCQueries
    BoundQueries <- MCBoundQueries
    MaxInbox = 2
    MaxOwed = 2
    MaxBatch = 2
    LastPid = 2
    Channels = {a, b}
    MaxNotes = 2
INVARIANT
    ReadyIsListening
CHECK_DEADLOCK FALSE
