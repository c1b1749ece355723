SPECIFICATION MCSpec
CONSTANTS
    SIZE = 3
    Writers = {w1}
    Readers = {r1}
    Closers = {c1}
    Lens = {1, 2, 4}
    MaxBytes = 5
    NoThread = NoThread
    PacketWriters = {w1, w2}
    FdThreads = {a, b, c}
    MaxFhs = 3
    HandlesCount = 5
    ChunkSize = 2
    Sockets = {s1}
    Pairs = {p1, p2}
INVARIANTS IInv PacketsWhole FdsHeld Truthful FdeventInv
PROPERTIES IsQueue WritesReturn CloseReleases WaitersReturn LoopServed
CHECK_DEADLOCK FALSE
