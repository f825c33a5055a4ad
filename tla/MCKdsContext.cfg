\* Two clients, two hardware contexts each; contexts of CU u2 are also reopened.
CONSTANTS
    Client = {c1, c2}
    HwCtx = {h1, h2}
    CU = {u1, u2}
    Reopen = {u2}
    MaxRefs = 3
    MaxShare = 3
SPECIFICATION Spec
SYMMETRY Symmetry
INVARIANTS Exclusive OpenIsCounted  NothingLeaks ExactInv
