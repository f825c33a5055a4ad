CONSTANTS
    Client = {c1, c2}
    Xclbin = {x1, x2}
    HwId = {h1}
    None = None
    MayForce = TRUE
    Serial = {TRUE, FALSE}
    MaxEarly = 1
SPECIFICATION Spec
INVARIANTS RefMatchesContexts ReadersCounted WriterAlone IInv
PROPERTIES SerialXclbinStable  
