\* Both policies, with buffers returned in any order.
CONSTANTS
    BufferCount = 5
    Policies = {"FIFO", "LIFO"}
SPECIFICATION BufferSpec
INVARIANTS
    BufferTypeOK
    StackOfFree
    NoSharedWhileIntact
PROPERTY RingIsQueue
