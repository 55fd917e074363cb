\* Ids are reused, failures leave several errors behind, and the buffers last
\* for the connections that take theirs along.  Every second send is signaled.
CONSTANTS
    Client = {"x", "y"}
    MaxConnections = 2
    BufferCount = 6
    RecvCount = 2
    BatchSize = 2
    Capacity = 1
    Plan <- MCPlan
    MaxFaults = 2
    DestroyPurges = TRUE
    SignalInterval = 2
    CqDepth = 16
SPECIFICATION ServerSpec
INVARIANTS
    ServerTypeOK
    IdsAccounted
    ContextMatchesConnection
    ReceivesOwnedWhileIntact
    
PROPERTIES
    OnlyFailedRemoved
    FailedIsRemoved
    ClientIsAnswered
CHECK_DEADLOCK FALSE
