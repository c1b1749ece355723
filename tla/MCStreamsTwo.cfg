SPECIFICATION Spec
CONSTANTS
    Host = h
    Device = d
    MaxSockets = 2
    MaxBytes = 1
    Talkers = {d}
    Drained = {d}
    MaxHangups = 2
    MaxPayload = 1
    MaxTransports = 2
INVARIANTS StreamsInv NoOrphan
CHECK_DEADLOCK FALSE
