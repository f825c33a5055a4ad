\* Two clients; every CU context may be opened again while it is open.
CONSTANTS
    Client = {c1, c2}
    HwCtx = {h1}
    CU = {u1}
    Reopen = {u1}
    MaxRefs = 3
    MaxShare = 3
SPECIFICATION Spec
INVARIANT EveryCloseCounts
