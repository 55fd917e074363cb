\* The smallest queue for an interval of three and lists of two fragments, and
\* a completion queue whose half is reached.  Completions are reported, and
\* senders post only when there is room.
CONSTANTS
    SignalInterval = 3
    CqDepth = 4
    Depth = 6
    MaxSge = 2
    ListLengths = {2, 3}
    PostsWhenFull = FALSE
    Reports = TRUE
    VerbsFail = TRUE
SPECIFICATION ConnectionSpec
INVARIANTS
    CompletionToCome
    OutstandingExact
PROPERTIES
    ConnectStartsFresh
    RoomAgain
CHECK_DEADLOCK FALSE
