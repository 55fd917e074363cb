\* The default policy, with buffers returned in any order.
CONSTANTS
    BufferCount = 3
    Policies = {"FIFO"}
SPECIFICATION BufferSpec
INVARIANT NoSharedBuffer
