------------------------------ MODULE XgqRing ------------------------------
(***************************************************************************)
(* One ring (SQ or CQ) of an XGQ, the queue in shared memory between a     *)
(* client and a server (core/include/xgq_impl.h).  Each side keeps its own *)
(* struct xgq_ring with a copy of both pointers.  The pointers run freely  *)
(* and wrap at PtrMod (2^32 in the code); a slot is addressed by the       *)
(* pointer modulo the number of slots, and the copy of the peer's pointer  *)
(* is refreshed only when the local view looks full (producer) or empty    *)
(* (consumer).                                                             *)
(*                                                                         *)
(* With OutOfOrderWrite the ring memory and the doorbell live in different *)
(* hardware, and the contents of a slot may arrive after the produced      *)
(* pointer that covers it: the write is posted in wr, and arrives later.   *)
(* Within a slot the words arrive in the order they are written; Word0,    *)
(* which carries the new flag, comes first in the loop of                  *)
(* xocl_xgq_write_queue() and last in the protocol of xgq_cmd_common.h.    *)
(***************************************************************************)
EXTENDS Integers, Sequences

CONSTANTS Entry,            \* contents of an entry
          NoEntry,          \* no entry, or contents that nobody wrote
          SlotNum,          \* xr_slot_num
          PtrMod,           \* the pointers are counters modulo PtrMod
          OutOfOrderWrite,  \* the macro XGQ_OUT_OF_ORDER_WRITE
          Word0Order        \* the producers there may be: TRUE for one that writes Word0 last

\* xgq_alloc_num_slots() yields a power of two, at least XGQ_MIN_NUM_SLOTS, so
\* the 32 bit pointers wrap at a multiple (two or more) of the number of slots.
ASSUME RingAssumption ==
    /\ SlotNum \in Nat /\ SlotNum >= 2
    /\ PtrMod \in Nat
    /\ \E k \in 2 .. PtrMod : PtrMod = k * SlotNum
    /\ OutOfOrderWrite \in BOOLEAN /\ Word0Order \subseteq BOOLEAN
    /\ NoEntry \notin Entry

VARIABLES
    pProduced, pConsumed,   \* the producer's struct xgq_ring
    word0Last,              \* this producer writes Word0 of an entry last; never changes
    filling,                \* a slot handed out by xgq_produce() is not filled yet
    shProduced, shConsumed, \* the pointers in the header or doorbell register
    slot,                   \* the slots in ring memory
    fresh,                  \* XGQ_ENTRY_NEW_FLAG_MASK of every slot
    wr,                     \* posted writes to the slots that have not arrived
    torn,                   \* Word0 of the posted write has arrived, the rest not
    cProduced, cConsumed,   \* the consumer's struct xgq_ring
    reading,                \* the consumer holds a slot it has not read yet
    rd                      \* the entry the consumer is processing

pvars == <<pProduced, pConsumed, word0Last, filling>>
cvars == <<cProduced, cConsumed, reading, rd>>
vars  == <<pvars, shProduced, shConsumed, slot, fresh, wr, torn, cvars>>

Ptr == 0 .. PtrMod - 1
Slots == 0 .. SlotNum - 1

IncNoWrap(x) == x + 1
Inc(x) == (x + 1) % PtrMod
Dist(x, y) == (x - y) % PtrMod
Slot(x) == x % SlotNum

-----------------------------------------------------------------------------
\* xgq_init(): both pointers equal after the soft reset; the position where the
\* pointers start is whatever the producer register held.
Init ==
    /\ pProduced \in Ptr
    /\ pConsumed = pProduced /\ shProduced = pProduced /\ shConsumed = pProduced
    /\ cProduced = pProduced /\ cConsumed = pProduced
    /\ word0Last \in Word0Order
    /\ filling = FALSE /\ reading = FALSE
    /\ slot = [s \in Slots |-> NoEntry]
    /\ fresh = [s \in Slots |-> FALSE]
    /\ wr = [s \in Slots |-> NoEntry]
    /\ torn = [s \in Slots |-> FALSE]
    /\ rd = NoEntry

-----------------------------------------------------------------------------
(* The producer. *)

RingFullOffByOne(p, c) == Dist(p, c) > SlotNum
RingFull(p, c) == Dist(p, c) >= SlotNum

\* xgq_can_produce(): the shared consumed pointer is read only when the copy of
\* it says that the ring is full.
ConsumedViewStale == pConsumed
ConsumedView == IF RingFull(pProduced, pConsumed) THEN shConsumed ELSE pConsumed

\* xgq_produce() returns the slot at the produced pointer and advances it.
Produce ==
    /\ ~filling
    /\ ~RingFull(pProduced, ConsumedView)
    /\ pConsumed' = ConsumedView
    /\ pProduced' = Inc(pProduced)
    /\ filling' = TRUE
    /\ UNCHANGED <<word0Last, shProduced, shConsumed, slot, fresh, wr, torn, cvars>>

\* xgq_produce() returns -ENOSPC; the refreshed copy stays.
ProduceNoSpace ==
    /\ ~filling
    /\ RingFull(pProduced, ConsumedView)
    /\ pConsumed' = ConsumedView
    /\ UNCHANGED <<pProduced, word0Last, filling, shProduced, shConsumed, slot, fresh, wr, torn, cvars>>

\* The slot handed out last by xgq_produce().
FillSlot == Slot((pProduced - 1) % PtrMod)

\* The producer copies an entry, with the new flag in its Word0, to the slot.  Writes
\* to one slot stay in order: what is left of the last one arrives ahead of this one.
Fill(e) ==
    /\ filling
    /\ filling' = FALSE
    /\ IF OutOfOrderWrite
       THEN /\ wr' = [wr EXCEPT ![FillSlot] = e]
            /\ slot' = IF torn[FillSlot] THEN [slot EXCEPT ![FillSlot] = wr[FillSlot]] ELSE slot
            /\ torn' = [torn EXCEPT ![FillSlot] = FALSE]
            /\ UNCHANGED fresh
       ELSE /\ slot' = [slot EXCEPT ![FillSlot] = e]
            /\ fresh' = [fresh EXCEPT ![FillSlot] = TRUE]
            /\ UNCHANGED <<wr, torn>>
    /\ UNCHANGED <<pProduced, pConsumed, word0Last, shProduced, shConsumed, cvars>>

\* Word0 of a posted write reaches ring memory ahead of the other words.
ArriveWord0(s) ==
    /\ ~word0Last
    /\ wr[s] # NoEntry /\ ~torn[s]
    /\ fresh' = [fresh EXCEPT ![s] = TRUE]
    /\ torn' = [torn EXCEPT ![s] = TRUE]
    /\ UNCHANGED <<pvars, shProduced, shConsumed, slot, wr, cvars>>

\* The last word of a posted write reaches ring memory.
Arrive(s) ==
    /\ wr[s] # NoEntry
    /\ word0Last \/ torn[s]
    /\ slot' = [slot EXCEPT ![s] = wr[s]]
    /\ fresh' = IF torn[s] THEN fresh ELSE [fresh EXCEPT ![s] = TRUE]
    /\ wr' = [wr EXCEPT ![s] = NoEntry]
    /\ torn' = [torn EXCEPT ![s] = FALSE]
    /\ UNCHANGED <<pvars, shProduced, shConsumed, cvars>>

\* xgq_notify_peer_produced() publishes every entry filled in so far.
NotifyProduced ==
    /\ ~filling
    /\ shProduced' = pProduced
    /\ UNCHANGED <<pvars, shConsumed, slot, fresh, wr, torn, cvars>>

-----------------------------------------------------------------------------
(* The consumer. *)

RingEmpty(p, c) == p = c

\* xgq_can_consume(): the shared produced pointer is read only when the copy of
\* it says that the ring is empty.
ProducedViewStale == cProduced
ProducedView == IF RingEmpty(cProduced, cConsumed) THEN shProduced ELSE cProduced

\* xgq_consume() returns the slot at the consumed pointer and advances it.
Consume ==
    /\ ~reading /\ rd = NoEntry
    /\ ~RingEmpty(ProducedView, cConsumed)
    /\ cProduced' = ProducedView
    /\ cConsumed' = Inc(cConsumed)
    /\ reading' = TRUE
    /\ UNCHANGED <<pvars, shProduced, shConsumed, slot, fresh, wr, torn, rd>>

\* The slot handed out last by xgq_consume().
ReadSlot == Slot((cConsumed - 1) % PtrMod)

ReadKeepsFlag ==
    /\ reading
    /\ OutOfOrderWrite => fresh[ReadSlot]
    /\ rd' = slot[ReadSlot]
    /\ reading' = FALSE
    /\ UNCHANGED <<pvars, shProduced, shConsumed, slot, fresh, wr, torn, cProduced, cConsumed>>

\* The entry is copied out of its slot.  With XGQ_OUT_OF_ORDER_WRITE xgq_consume()
\* first spins until the new flag shows up, and clears it.
Read ==
    /\ reading
    /\ OutOfOrderWrite => fresh[ReadSlot]
    /\ rd' = slot[ReadSlot]
    /\ fresh' = IF OutOfOrderWrite THEN [fresh EXCEPT ![ReadSlot] = FALSE] ELSE fresh
    /\ reading' = FALSE
    /\ UNCHANGED <<pvars, shProduced, shConsumed, slot, wr, torn, cProduced, cConsumed>>

\* The consumer is done with the entry.
Finish ==
    /\ rd # NoEntry
    /\ rd' = NoEntry
    /\ UNCHANGED <<pvars, shProduced, shConsumed, slot, fresh, wr, torn, cProduced, cConsumed, reading>>

\* xgq_notify_peer_consumed() gives every slot consumed so far back.
NotifyConsumed ==
    /\ ~reading /\ rd = NoEntry
    /\ shConsumed' = cConsumed
    /\ UNCHANGED <<pvars, shProduced, slot, fresh, wr, torn, cvars>>

-----------------------------------------------------------------------------
Producer == Produce \/ ProduceNoSpace \/ (\E e \in Entry : Fill(e)) \/ NotifyProduced
Consumer == Consume \/ Read \/ Finish \/ NotifyConsumed

Next == Producer \/ (\E s \in Slots : ArriveWord0(s) \/ Arrive(s)) \/ Consumer

Spec == Init /\ [][Next]_vars

\* A posted write arrives, a producer that was given a slot fills it and rings the
\* doorbell, and the consumer polls (or is interrupted).
Fairness ==
    /\ \A s \in Slots : WF_vars(ArriveWord0(s) \/ Arrive(s))
    /\ WF_vars(\E e \in Entry : Fill(e))
    /\ WF_vars(NotifyProduced)
    /\ WF_vars(Consume) /\ WF_vars(Read) /\ WF_vars(Finish) /\ WF_vars(NotifyConsumed)

FairSpec == Spec /\ Fairness

-----------------------------------------------------------------------------
(* Properties. *)

TypeOK ==
    /\ pProduced \in Ptr /\ pConsumed \in Ptr
    /\ shProduced \in Ptr /\ shConsumed \in Ptr
    /\ cProduced \in Ptr /\ cConsumed \in Ptr
    /\ word0Last \in BOOLEAN /\ filling \in BOOLEAN /\ reading \in BOOLEAN
    /\ slot \in [Slots -> Entry \cup {NoEntry}]
    /\ wr \in [Slots -> Entry \cup {NoEntry}]
    /\ fresh \in [Slots -> BOOLEAN] /\ torn \in [Slots -> BOOLEAN]
    /\ rd \in Entry \cup {NoEntry}

\* What the new flag asks of the producer (xgq_cmd_common.h): Word0 is written last.
WriteOrder == OutOfOrderWrite => word0Last

\* First pointer that is not filled in, and first that is not read.
Filled == IF filling THEN (pProduced - 1) % PtrMod ELSE pProduced
Unread == IF reading THEN (cConsumed - 1) % PtrMod ELSE cConsumed

\* What slot s holds once the writes posted to it have arrived.
Content(s) == IF wr[s] # NoEntry THEN wr[s] ELSE slot[s]

\* The entries in the ring, oldest first: the refinement mapping.
Contents == [i \in 1 .. Dist(Filled, Unread) |->
                 Content(Slot((Unread + i - 1) % PtrMod))]

Fifo == INSTANCE XgqFifo WITH q <- Contents

\* xgq_produce()/xgq_consume(): the ring is a FIFO of at most SlotNum entries, for
\* the whole lap of the wrapping pointers and with stale copies of the pointers:
\* an entry is neither lost, nor read twice, nor overwritten before it is read, as
\* long as the producer keeps to the write order that the new flag asks for.
IsFifo == Fifo!FInit /\ [][WriteOrder => Fifo!FNext]_(Fifo!fvars)

\* xgq_ring_full(): the slot that xgq_produce() hands out is one that the consumer
\* has given back, whatever the age of the copy of its pointer.
FillsFreeSlot == filling => Dist(pProduced, shConsumed) <= SlotNum

\* XGQ_ENTRY_NEW_FLAG_MASK: when xgq_consume() finds the new flag in the slot it was
\* handed, the whole entry is there, if the producer writes Word0 last.
NewFlagIsNew ==
    WriteOrder => (OutOfOrderWrite /\ reading /\ fresh[ReadSlot] => wr[ReadSlot] = NoEntry)

\* xgq_notify_peer_produced(): an entry that is filled in, Word0
\* last, is read in the end.
EventuallyRead == (WriteOrder /\ Contents # <<>>) ~> (rd # NoEntry)

\* xgq_can_produce(): a producer that saw the ring full finds room when it looks
\* again later.
EventuallyRoom == RingFull(pProduced, pConsumed) ~> ~RingFull(pProduced, ConsumedView)
=============================================================================
