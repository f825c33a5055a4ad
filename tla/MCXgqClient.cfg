\* One abort, fewer than the completion queue has slots.
CONSTANTS
    u1 = u1
    u2 = u2
    m1 = m1
    m2 = m2
    m3 = m3
    CU = {u1, u2}
    Cmd = {m1, m2, m3}
    CuOf <- MCCuOf
    NeedResp = {u1}
    SlotNum = 2
    Tags = {1}
    None = None
    MaxAbort = 1
SPECIFICATION Spec
CHECK_DEADLOCK FALSE
INVARIANTS CountMatches ToldOwn  ClientIInv
PROPERTY EventuallyDone
