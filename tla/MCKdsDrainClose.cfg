SPECIFICATION DrainSpec
CONSTANTS
    c1 = c1
    c2 = c2
    x1 = x1
    x2 = x2
    x3 = x3
    Client = {c1, c2}
    Cmd = {x1, x3}
    Owner <- MCOwner
    AbortCmd = {}
    Target <- MCTarget
    NoCmd = NoCmd
    SwReset = FALSE
    TTL = 1
    Polls = 2
    MaxCloses <- MCCloses
INVARIANT ClosedDrained
CHECK_DEADLOCK FALSE
