\* Four slots, as many as two bytes of one bit can name; the peer answers with
\* SendReadResponse.
CONSTANTS
    NumSlots = 4
    GenMod = 3
    TagMod = 2
    MaxUses = 1
    SignalInterval = 2
    CqDepth = 4
    WheelSize = 2
    Entry = {e1, e2}
    Requests = {"none"}
    Timeout = 1
    RecvDepth = 1
    SpareBuffers = 0
    PeerSwaps = TRUE
    Tickers = {"reactor"}
SPECIFICATION Spec
INVARIANT
    ResponsesMatchOwnCall
