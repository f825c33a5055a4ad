CONSTANTS
    Client = {c1, c2}
    Xclbin = {x1, x2}
    HwId = {h1}
    None = None
    MayForce = FALSE
    Serial = {FALSE}
    MaxEarly = 0
SPECIFICATION Spec
SYMMETRY Symmetry
PROPERTY LockedXclbinStable
