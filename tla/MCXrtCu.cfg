SPECIFICATION Spec
CONSTANTS
    c1 = c1
    c2 = c2
    x1 = x1
    x2 = x2
    x3 = x3
    a1 = a1
    Client = {c1, c2}
    Cmd = {x1, x2, x3}
    Owner <- MCOwner
    AbortCmd = {a1}
    Target <- MCTarget
    NoCmd = NoCmd
    SwReset = FALSE
    TTL = 2
INVARIANTS TypeOK EachOnce CompletedRan CreditConserved
PROPERTY StartedIdle
