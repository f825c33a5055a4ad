\* Two callers, on the hardware channel, whose buffers may have the same
\* address; one fault.
CONSTANTS
    Req = {r1, r2}
    Note = {}
    NBuf = 2
    Sw = {}
    Big = {r2}
    None = None
    NPkt = 2
    MaxReq = 1
    Poll = FALSE
    MaxFault = 1
SPECIFICATION Spec
CHECK_DEADLOCK FALSE
INVARIANTS MailboxIInv WholeMessage AnswerMatches ServedOnce HeldIsLive NoneStranded
