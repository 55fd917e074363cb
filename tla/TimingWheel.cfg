\* Every delay shorter than a turn, and more timers than entries.
CONSTANTS
    WheelSize = 4
    Entry = {e1, e2, e3}
    Payload = {p1, p2}
    Timeouts = {0, 1, 3}
SPECIFICATION WheelSpec
INVARIANTS
    FiresOnTime
PROPERTIES
    ImplementsTimerService
    EveryTimerFires
