SPECIFICATION FairSpec
CONSTANTS
    Host = h
    Device = d
    MaxSockets = 1
    MaxBytes = 3
    Talkers = {h, d}
    Drained = {d}
    MaxHangups = 4
    MaxPayload = 2
    MaxTransports = 1
INVARIANTS StreamsInv StatusFirst
PROPERTIES Delivered ClosePropagates Answered
CHECK_DEADLOCK FALSE
