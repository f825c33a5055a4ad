\* Two callers and no faults, with interrupts instead of polling.
CONSTANTS
    Req = {r1, r2}
    Note = {}
    NBuf = 2
    Sw = {}
    Big = {}
    None = None
    NPkt = 2
    MaxReq = 1
    Poll = FALSE
    MaxFault = 0
SPECIFICATION Spec
CHECK_DEADLOCK FALSE
PROPERTY RequestReturns
