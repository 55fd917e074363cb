\* Four connections that share one set of L0.  The two that come and go share
\* no position of L1 with each other; 0 and 64 start at the same one.
CONSTANTS
    Conn = {0, 1, 2, 64}
    L0SetCount = 1
    L1Size = 64
    MaxReg = 5
    Removable = {0, 1}
    Updates = FALSE
    SelfRemoval = FALSE
SPECIFICATION DispatcherSpec
INVARIANTS
    RoutedToOwner
    HandlerNotNull
    LevelsAgree
CHECK_DEADLOCK FALSE
