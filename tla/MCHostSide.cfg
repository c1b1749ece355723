SPECIFICATION MCSpec
CONSTANTS
    Commands = {1, 2, 3}
    Programs <- MCPrograms
    OldServer = 0
    OldVersions = {30, 31}
    MaxLaunchErrors = 1
    NoServer = 9
    Conns = {c1, c2}
    Devs = {1, 2}
    Serial <- MCSerial
    Type <- MCType
    Names = {n1}
    Targets = {"any", "s1"}
    MaxLines = 1
    NoDev = 0
INVARIANTS StartedIsUp ForwardsLive NoSocketOnDead TrackersKnow
PROPERTIES StartCommandsEnd HostWaitReturns
CHECK_DEADLOCK FALSE
