SPECIFICATION Spec
CONSTANTS
    Transports = {t1}
    Tcp = {t1}
    Serials = {s1}
    Disconnects = {t1}
    Emulators = {}
    Port <- OnePort
    MaxSlots = 0
    MaxPackets = 1
    MaxFds = 2
    MaxOpens = 0
    NoOne = NoOne
    Other = Other
    s1 = s1
    t1 = t1
INVARIANT ClosedAfterThreads
CHECK_DEADLOCK FALSE
