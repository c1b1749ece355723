SPECIFICATION FdeventSpec
CONSTANTS
    Sockets = {s1}
    Pairs = {p1}
INVARIANT WriteRemembered
CHECK_DEADLOCK FALSE
