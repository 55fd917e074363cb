\* Two slots used twice, and a wheel with fewer entries than calls.
CONSTANTS
    NumSlots = 2
    GenMod = 3
    TagMod = 2
    MaxUses = 2
    SignalInterval = 2
    CqDepth = 4
    WheelSize = 2
    Entry = {e1, e2}
    Requests = {"none"}
    Timeout = 1
    RecvDepth = 1
    SpareBuffers = 0
    PeerSwaps = FALSE
    Tickers = {"owner"}
SPECIFICATION Spec
INVARIANTS
    PoolConsistent
PROPERTIES
    ExpiredCallsEnd
