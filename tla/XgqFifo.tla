------------------------------ MODULE XgqFifo ------------------------------
(***************************************************************************)
(* What one ring of an XGQ promises to its two users: a bounded queue in   *)
(* order, without loss and without duplication, of the entries that the    *)
(* producer has filled in and the consumer has not read yet.               *)
(***************************************************************************)
EXTENDS Naturals, Sequences

CONSTANTS Entry,     \* the contents an entry of the ring can have
          NoEntry,   \* no entry
          SlotNum    \* xr_slot_num, the capacity of the ring

VARIABLES q,         \* entries filled in and not read, oldest first
          rd         \* the entry the consumer has in hand, or NoEntry

fvars == <<q, rd>>

FInit == q = <<>> /\ rd = NoEntry

Put(e) == /\ Len(q) < SlotNum
          /\ q' = Append(q, e)
          /\ UNCHANGED rd

Get == /\ rd = NoEntry
       /\ q # <<>>
       /\ rd' = Head(q)
       /\ q' = Tail(q)

Release == /\ rd # NoEntry
           /\ rd' = NoEntry
           /\ UNCHANGED q

FNext == (\E e \in Entry : Put(e)) \/ Get \/ Release

FSpec == FInit /\ [][FNext]_fvars
=============================================================================
