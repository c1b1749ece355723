SPECIFICATION MCSpec
CONSTANTS
    Transports = {t1, t2}
    Tcp = {t1, t2}
    Serials = {s1, s2}
    Disconnects = {}
    Emulators = {t1, t2}
    Port <- OnePort
    MaxSlots = 2
    MaxPackets = 1
    MaxFds = 3
    MaxOpens = 1
    NoOne = NoOne
    Other = Other
    s1 = s1
    s2 = s2
    t1 = t1
    t2 = t2
INVARIANTS EmulatorsExact EmulatorsClosedLast RemovedOnce
PROPERTIES LostIsFreed
CHECK_DEADLOCK FALSE
