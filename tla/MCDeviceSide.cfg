SPECIFICATION MCSpec
CONSTANTS
    Links = {1, 2}
    Keys = {1, 2}
    KeyList <- MCKeyList
    Installed = {2}
    Tokens = {1, 2, 3, 4, 5, 6, 7}
    MaxRestarts = 1
    MaxFrameworks = 1
    MaxFails = 1
    NoLink = 0
    Interfaces = {i1, i2}
    Recognized = {i1}
    Handles = {h1, h2}
    MaxUnplugs = 1
    MaxErrors = 1
    NoInterface = NoInterface
    NoHandle = NoHandle
    Vms = {v1, v2}
    Pid <- MCPid
    Debuggers = {d1, d2, d3}
    Trackers = {k1}
    MaxOut = 2
    MaxFirst = 2
    MaxUpdate = 1
    NoVm = NoVm
    Shells = {1, 2}
    Fds = {5}
    TransportFd = 3
    ExitFd = 4
    MaxPayload = 2
    MaxOutput <- MCMaxOutput
    MaxForkFails = 1
    NoShell = NoShell
    Files = {f1, f2}
    Dir = dir
    Capacity = 2
    MaxSyncErrors = 2
    NoFile = NoFile
INVARIANTS AskedFirst OnlineIsEarned HandlesExact JdwpExact OutputWhole SyncExact
PROPERTIES HandshakeConnects UsbFound ShellStreamsEnd TransferEnds
CHECK_DEADLOCK FALSE
