\* One slot used three times, so that completions, responses and timeouts of
\* earlier calls are still about; every kind of request, on a wheel that
\* the reactor ticks as well.
CONSTANTS
    NumSlots = 1
    GenMod = 4
    TagMod = 3
    MaxUses = 3
    SignalInterval = 2
    CqDepth = 4
    WheelSize = 2
    Entry = {e1, e2, e3}
    Requests = {"none", "imm", "sgl"}
    Timeout = 1
    RecvDepth = 1
    SpareBuffers = 1
    PeerSwaps = FALSE
    Tickers = {"owner", "reactor"}
SPECIFICATION Spec
INVARIANTS
    CompletionsMatchOwnCall
    TimeoutsMatchOwnCall
    RecvNeverOverfull
    AnsweredNotTimedOut
    CallbackOwnsSlot
