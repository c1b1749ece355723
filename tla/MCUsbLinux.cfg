SPECIFICATION MCSpec
CONSTANTS
    Devices = {e1, e2}
    ReadOnly = {e2}
    LHandles = {g1, g2}
    MaxPulls = 1
    MaxFailures = 1
    NoDevice = NoDevice
    NoOwner = NoOwner
INVARIANTS BuffersHeld
PROPERTIES PulledIsClosed
CHECK_DEADLOCK FALSE
