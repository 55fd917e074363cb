\* Gets and puts mixed, every second send signaled.  The client has two buffers
\* besides its receives, so that it runs out of them; the server has more.
CONSTANTS
    Client = {"x"}
    MaxConnections = 1
    BufferCount = 7
    RecvCount = 2
    BatchSize = 2
    Capacity = 1
    Plan <- MCPlan
    MaxFaults = 0
    DestroyPurges = TRUE
    SignalInterval = 2
    CqDepth = 16
    Ops = {{"GET", "PUT"}}
    Key = {1, 2}
    NumOperations = 5
    MaxOutstanding = 2
    ClientBuffers = 4
    ClientRecv = 2
    ClientRefill = 1
    ClientBatch = 2
SPECIFICATION BenchmarkSpec
INVARIANTS
    ServerPoolIntact
    ClientBuffersOwnedWhileIntact
    ResponsesInOrder
PROPERTIES
    SentIsAnswered
CHECK_DEADLOCK FALSE
