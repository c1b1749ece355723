SPECIFICATION HostSpec
CONSTANTS
    Conns = {c1, c2}
    Devs = {1, 2}
    Serial <- MCSerial
    Type <- MCType
    Names = {n1}
    Targets = {"any", "s1"}
    MaxLines = 2
    NoDev = 0
INVARIANT NoSilentClose
CHECK_DEADLOCK FALSE
