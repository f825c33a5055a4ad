\* Slots of the ring: 2; the pointers wrap after two laps.  Ring memory is slower than
\* the doorbell; the producer writes Word0 last (as the protocol asks) or first (as the
\* drivers do).
CONSTANTS
    Entry = {a, b}
    NoEntry = NoEntry
    SlotNum = 2
    PtrMod = 4
    OutOfOrderWrite = TRUE
    Word0Order = {TRUE, FALSE}
SPECIFICATION FairSpec
INVARIANT TypeOK
INVARIANT FillsFreeSlot
INVARIANT NewFlagIsNew
PROPERTY IsFifo
PROPERTY EventuallyRead
PROPERTY EventuallyRoom
