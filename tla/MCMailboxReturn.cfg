\* A caller and a notification, both on the software channel; one fault; the RX
\* timer always runs, the default.
CONSTANTS
    Req = {r1}
    Note = {n1}
    NBuf = 1
    Sw = {r1, n1}
    Big = {}
    None = None
    NPkt = 2
    MaxReq = 1
    Poll = TRUE
    MaxFault = 1
SPECIFICATION Spec
CHECK_DEADLOCK FALSE
INVARIANT SleepsOnFull
 
