SPECIFICATION ShellSpec
CONSTANTS
    Shells = {1}
    Fds = {5}
    TransportFd = 3
    ExitFd = 4
    MaxPayload = 2
    MaxOutput <- MCShellOutput
    MaxForkFails = 0
    NoShell = NoShell
INVARIANT OneWrite
CHECK_DEADLOCK FALSE
