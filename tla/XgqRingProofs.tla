-------------------------- MODULE XgqRingProofs --------------------------
(***************************************************************************)
(* Proofs about the XGQ ring, for every number of slots and every pointer  *)
(* width.                                                                  *)
(***************************************************************************)
EXTENDS XgqRing, TLAPS

\* The constants, without the quantifier.
LEMMA Consts ==
    /\ SlotNum \in Nat /\ SlotNum >= 2
    /\ PtrMod \in Nat /\ PtrMod >= 2 * SlotNum
    /\ OutOfOrderWrite \in BOOLEAN /\ NoEntry \notin Entry
  <1>1. PICK k \in 2 .. PtrMod : PtrMod = k * SlotNum
    BY RingAssumption
  <1>2. k * SlotNum >= 2 * SlotNum
    BY <1>1, RingAssumption
  <1> QED
    BY <1>1, <1>2, RingAssumption

\* The wrapping subtraction and increment of pointers, without the modulus.
Gap(x, y) == IF x >= y THEN x - y ELSE x - y + PtrMod
Succ(x) == IF x = PtrMod - 1 THEN 0 ELSE x + 1
Pred(x) == IF x = 0 THEN PtrMod - 1 ELSE x - 1

LEMMA DistGap == \A x, y \in Ptr : Dist(x, y) = Gap(x, y)
  BY Consts DEF Ptr, Dist, Gap

LEMMA IncSucc == \A x \in Ptr : Inc(x) = Succ(x)
  BY Consts DEF Ptr, Inc, Succ

LEMMA DecPred == \A x \in Ptr : (x - 1) % PtrMod = Pred(x)
  BY Consts DEF Ptr, Pred

LEMMA SlotType == \A x \in Ptr : Slot(x) \in Slots
  BY Consts DEF Slot, Slots, Ptr

\* No multiple of SlotNum lies strictly between 0 and SlotNum.
LEMMA NoMultiple ==
    ASSUME NEW m \in Int, 0 < SlotNum * m
    PROVE  SlotNum * m >= SlotNum
  <1>1. m >= 1
    BY Consts
  <1> QED
    BY <1>1, Consts

\* Two pointers less than SlotNum apart address different slots, across the wrap.
LEMMA SlotsDiffer ==
    ASSUME NEW x \in Ptr, NEW y \in Ptr, x # y, Gap(x, y) < SlotNum
    PROVE  Slot(x) # Slot(y)
  <1>1. PICK k \in 2 .. PtrMod : PtrMod = k * SlotNum
    BY RingAssumption
  <1> DEFINE a == x \div SlotNum
             b == y \div SlotNum
  <1>2. /\ a \in Int /\ b \in Int
        /\ x = SlotNum * a + Slot(x) /\ y = SlotNum * b + Slot(y)
    BY Consts DEF Slot, Ptr
  <1> SUFFICES ASSUME Slot(x) = Slot(y) PROVE FALSE
    OBVIOUS
  <1>3. Slot(x) \in Int
    BY Consts DEF Slot, Ptr
  <1> HIDE DEF a, b
  <1>4. x - y = SlotNum * (a - b)
    BY <1>2, <1>3, Consts
  <1>5. x - y + PtrMod = SlotNum * (a - b + k)
    BY <1>1, <1>4, <1>2, Consts
  <1>6. CASE x > y
    BY <1>6, <1>4, <1>2, NoMultiple, Consts DEF Ptr, Gap
  <1>7. CASE x < y
    <2>1. a - b + k \in Int
      BY <1>1, <1>2
    <2>2. 0 < SlotNum * (a - b + k)
      BY <1>5, Consts DEF Ptr
    <2> QED
      BY <2>1, <2>2, <1>7, <1>5, NoMultiple, Consts DEF Ptr, Gap
  <1> QED
    BY <1>6, <1>7, Consts DEF Ptr

-------------------------------------------------------------------------
(***************************************************************************)
(* The order of the six pointers around the ring, measured from the        *)
(* published consumed pointer: consumer, consumer's copy of produced,      *)
(* published produced, producer; and the producer's copy of consumed lags  *)
(* behind by at most what keeps the ring within its slots.                 *)
(***************************************************************************)
InOrder(pp, pc, sp, sc, cp, cc) ==
    /\ Gap(cc, sc) <= Gap(cp, sc)
    /\ Gap(cp, sc) <= Gap(sp, sc)
    /\ Gap(sp, sc) <= Gap(pp, sc)
    /\ Gap(pp, sc) <= Gap(pp, pc)
    /\ Gap(pp, pc) <= SlotNum

LEMMA OrderProduce ==
    ASSUME NEW pp \in Ptr, NEW pc \in Ptr, NEW sp \in Ptr, NEW sc \in Ptr,
           NEW cp \in Ptr, NEW cc \in Ptr, NEW v,
           InOrder(pp, pc, sp, sc, cp, cc), v = pc \/ v = sc, Gap(pp, v) < SlotNum
    PROVE  InOrder(Succ(pp), v, sp, sc, cp, cc) /\ Succ(pp) \in Ptr /\ Succ(pp) # sp
  BY Consts DEF Gap, Succ, InOrder, Ptr

LEMMA OrderRefresh ==
    ASSUME NEW pp \in Ptr, NEW pc \in Ptr, NEW sp \in Ptr, NEW sc \in Ptr,
           NEW cp \in Ptr, NEW cc \in Ptr,
           InOrder(pp, pc, sp, sc, cp, cc)
    PROVE  /\ InOrder(pp, sc, sp, sc, cp, cc)
           /\ InOrder(pp, pc, pp, sc, cp, cc)
           /\ InOrder(pp, pc, sp, cc, cp, cc)
  BY Consts DEF Gap, InOrder, Ptr

LEMMA OrderConsume ==
    ASSUME NEW pp \in Ptr, NEW pc \in Ptr, NEW sp \in Ptr, NEW sc \in Ptr,
           NEW cp \in Ptr, NEW cc \in Ptr, NEW v,
           InOrder(pp, pc, sp, sc, cp, cc), v = cp \/ v = sp, v # cc
    PROVE  InOrder(pp, pc, sp, sc, v, Succ(cc)) /\ Succ(cc) \in Ptr /\ Succ(cc) # sc
  BY Consts DEF Gap, Succ, InOrder, Ptr

PtrOrder ==
    /\ InOrder(pProduced, pConsumed, shProduced, shConsumed, cProduced, cConsumed)
    /\ filling => shProduced # pProduced
    /\ reading => cConsumed # shConsumed
    /\ reading => rd = NoEntry

PInv == TypeOK /\ PtrOrder

LEMMA InitPInv == Init => PInv
  <1> SUFFICES ASSUME Init PROVE PInv
    OBVIOUS
  <1>1. TypeOK
    <2>1. word0Last \in BOOLEAN
      BY RingAssumption, Zenon DEF Init
    <2> QED
      BY <2>1, ZenonT(60) DEF Init, TypeOK
  <1>2. Gap(pProduced, pProduced) = 0
    BY <1>1 DEF TypeOK, Gap, Ptr
  <1>3. PtrOrder
    BY <1>2, Consts, SMTT(60) DEF Init, PtrOrder, InOrder
  <1> QED
    BY <1>1, <1>3 DEF PInv

LEMMA StepPInv == PInv /\ [Next]_vars => PInv'
  <1> SUFFICES ASSUME PInv, [Next]_vars PROVE PInv'
    OBVIOUS
  <1> USE DEF PInv, TypeOK, PtrOrder
  <1>1. CASE Produce
    <2>1. Gap(pProduced, ConsumedView) < SlotNum
      BY <1>1, DistGap, Consts DEF Produce, ConsumedView, RingFull, Gap, Ptr
    <2>2. ConsumedView = pConsumed \/ ConsumedView = shConsumed
      BY DEF ConsumedView
    <2>3. /\ InOrder(Succ(pProduced), ConsumedView, shProduced, shConsumed, cProduced, cConsumed)
          /\ Succ(pProduced) \in Ptr /\ Succ(pProduced) # shProduced
      BY <2>1, <2>2, OrderProduce, SMTT(60)
    <2>4. ConsumedView \in Ptr
      BY <2>2
    <2> QED
      BY <1>1, <2>3, <2>4, IncSucc DEF Produce, cvars
  <1>2. CASE ProduceNoSpace
    BY <1>2, OrderRefresh, SMTT(60) DEF ProduceNoSpace, ConsumedView, cvars
  <1>3. ASSUME NEW e \in Entry, Fill(e) PROVE PInv'
    BY <1>3, ZenonT(60) DEF Fill, cvars
  <1>4. ASSUME NEW s \in Slots, ArriveWord0(s) \/ Arrive(s) PROVE PInv'
    <2>1. CASE ArriveWord0(s)
      BY <2>1 DEF ArriveWord0, pvars, cvars
    <2>2. CASE Arrive(s)
      BY <2>2 DEF Arrive, pvars, cvars
    <2> QED BY <1>4, <2>1, <2>2
  <1>5. CASE NotifyProduced
    BY <1>5, OrderRefresh, SMTT(60) DEF NotifyProduced, pvars, cvars
  <1>6. CASE Consume
    <2>1. (ProducedView = cProduced \/ ProducedView = shProduced) /\ ProducedView # cConsumed
      BY <1>6 DEF Consume, ProducedView, RingEmpty
    <2>2. /\ InOrder(pProduced, pConsumed, shProduced, shConsumed, ProducedView, Succ(cConsumed))
          /\ Succ(cConsumed) \in Ptr /\ Succ(cConsumed) # shConsumed
      BY <2>1, OrderConsume, ZenonT(60)
    <2>3. ProducedView \in Ptr
      BY <2>1
    <2> QED
      BY <1>6, <2>2, <2>3, IncSucc DEF Consume, pvars
  <1>7. CASE Read
    <2>1. ReadSlot \in Slots
      BY DecPred, Consts DEF ReadSlot, Slot, Slots, Ptr, Pred
    <2> QED
      BY <1>7, <2>1, ZenonT(60) DEF Read, pvars
  <1>8. CASE Finish
    BY <1>8 DEF Finish, pvars
  <1>9. CASE NotifyConsumed
    BY <1>9, OrderRefresh, SMTT(60) DEF NotifyConsumed, pvars, cvars
  <1>10. CASE UNCHANGED vars
    BY <1>10 DEF vars, pvars, cvars
  <1> QED
    BY <1>1, <1>2, <1>3, <1>4, <1>5, <1>6, <1>7, <1>8, <1>9, <1>10
       DEF Next, Producer, Consumer

\* Type correctness of the ring: the wrapping pointers of both sides stay pointers
\* and the slots hold entries.
THEOREM TypeCorrect == Spec => []TypeOK
  <1> QED
    BY InitPInv, StepPInv, PTL DEF Spec, PInv

\* xgq_ring_full(): whatever the age of the producer's copy of the consumed pointer,
\* the slot handed out by xgq_produce() is one that the consumer has given back.
THEOREM NoOverrun == Spec => []FillsFreeSlot
  <1>1. PInv => FillsFreeSlot
    BY DistGap, Consts DEF PInv, TypeOK, PtrOrder, InOrder, FillsFreeSlot, Gap, Ptr
  <1> QED
    BY <1>1, InitPInv, StepPInv, PTL DEF Spec

-------------------------------------------------------------------------
(***************************************************************************)
(* The contents.  With Base == Unread the first pointer not read and       *)
(* Filled the first pointer not filled in, the pointers up to Filled are   *)
(* those of entries in the ring.                                           *)
(***************************************************************************)
LEMMA GapFacts ==
    ASSUME NEW x \in Ptr, NEW y \in Ptr, NEW z \in Ptr
    PROVE  /\ Gap(x, y) \in Nat /\ Gap(x, y) < PtrMod
           /\ Gap(y, y) = 0
           /\ Gap(x, y) = Gap(z, y) => x = z
           /\ Succ(x) \in Ptr /\ Pred(x) \in Ptr
           /\ Pred(Succ(x)) = x /\ Succ(Pred(x)) = x
           /\ Gap(Succ(x), y) = IF Gap(x, y) = PtrMod - 1 THEN 0 ELSE Gap(x, y) + 1
           /\ x # y => Gap(x, Succ(y)) = Gap(x, y) - 1
           /\ x = y => Gap(x, Succ(y)) = PtrMod - 1
  BY Consts DEF Gap, Succ, Pred, Ptr

\* Two different pointers within SlotNum of a third one address different slots.
LEMMA WindowDiffers ==
    ASSUME NEW x \in Ptr, NEW y \in Ptr, NEW u \in Ptr,
           Gap(x, u) < SlotNum, Gap(y, u) < SlotNum, x # y
    PROVE  Slot(x) # Slot(y)
  <1>1. Gap(x, y) < SlotNum \/ Gap(y, x) < SlotNum
    BY Consts DEF Gap, Ptr
  <1> QED
    BY <1>1, SlotsDiffer

\* A slot is used again exactly SlotNum pointers later.
LEMMA NextLap ==
    ASSUME NEW x \in Ptr, NEW y \in Ptr, Gap(x, y) = SlotNum
    PROVE  Slot(x) = Slot(y)
  <1>1. PICK k \in 2 .. PtrMod : PtrMod = k * SlotNum
    BY RingAssumption
  <1> DEFINE b == y \div SlotNum
  <1>2. /\ b \in Int /\ Slot(y) \in Slots
        /\ y = SlotNum * b + Slot(y)
    BY Consts DEF Slot, Ptr, Slots
  <1> HIDE DEF b
  <1>3. PICK c \in Int : x = SlotNum * c + Slot(y)
    <2>1. CASE x >= y
      <3>1. x = SlotNum * (b + 1) + Slot(y)
        BY <1>2, <2>1, Consts DEF Gap, Ptr, Slots
      <3> QED BY <3>1, <1>2
    <2>2. CASE x < y
      <3>1. x = SlotNum * (b + 1 - k) + Slot(y)
        BY <1>1, <1>2, <2>2, Consts DEF Gap, Ptr, Slots
      <3>2. b + 1 - k \in Int
        BY <1>1, <1>2
      <3> QED BY <3>1, <3>2
    <2> QED BY <2>1, <2>2 DEF Ptr
  <1>4. \A r \in Slots : (SlotNum * c + r) % SlotNum = r
    BY Consts DEF Slots
  <1> QED
    BY <1>2, <1>3, <1>4 DEF Slot

\* With posted writes: an entry of the ring is either still on its way or in its
\* slot with the new flag up, and a slot that is free for the producer has neither.
Delivery ==
    IF OutOfOrderWrite
    THEN /\ \A s \in Slots : ~torn[s]
         /\ \A k \in Ptr :
            /\ Gap(k, Unread) < Gap(Filled, Unread)
                  => (fresh[Slot(k)] <=> wr[Slot(k)] = NoEntry)
            /\ Gap(Filled, Unread) <= Gap(k, Unread) /\ Gap(k, Unread) < SlotNum
                  => ~fresh[Slot(k)] /\ wr[Slot(k)] = NoEntry
    ELSE \A s \in Slots : wr[s] = NoEntry

IInv == PInv /\ (WriteOrder => Delivery)

\* The producer does not change its write order.
LEMMA OrderStep == [Next]_vars => UNCHANGED word0Last
  BY DEF Next, Producer, Consumer, Produce, ProduceNoSpace, Fill, NotifyProduced, ArriveWord0,
         Arrive, Consume, Read, Finish, NotifyConsumed, vars, pvars

\* The two ends of the contents are pointers at most SlotNum apart; a slot being
\* filled leaves room and a slot being read holds an entry.
LEMMA Ends ==
    ASSUME PInv
    PROVE  /\ Unread \in Ptr /\ Filled \in Ptr
           /\ Gap(Filled, Unread) <= SlotNum
           /\ filling => Gap(Filled, Unread) < SlotNum /\ pProduced = Succ(Filled)
           /\ reading => Gap(Filled, Unread) > 0 /\ cConsumed = Succ(Unread)
  <1> USE DEF PInv, TypeOK, PtrOrder
  <1>1. Unread = (IF reading THEN Pred(cConsumed) ELSE cConsumed)
    BY DecPred DEF Unread
  <1>2. Filled = (IF filling THEN Pred(pProduced) ELSE pProduced)
    BY DecPred DEF Filled
  <1>3. Unread \in Ptr /\ Filled \in Ptr
    BY <1>1, <1>2, GapFacts
  <1>4. CASE filling
    BY <1>1, <1>2, <1>4, Consts DEF InOrder, Gap, Pred, Succ, Ptr
  <1>5. CASE ~filling
    BY <1>1, <1>2, <1>5, Consts DEF InOrder, Gap, Pred, Succ, Ptr
  <1> QED
    BY <1>3, <1>4, <1>5

\* Only filling in an entry and reading one move the ends of the contents.
LEMMA EndsStep ==
    ASSUME PInv
    PROVE  /\ \A e \in Entry : Fill(e) =>
                  /\ Unread' = Unread /\ Filled' = Succ(Filled)
                  /\ FillSlot = Slot(Filled)
           /\ Read => /\ Unread' = Succ(Unread) /\ Filled' = Filled
                      /\ ReadSlot = Slot(Unread)
           /\ Produce \/ ProduceNoSpace \/ NotifyProduced \/ Consume \/ Finish
                  \/ NotifyConsumed \/ (\E s \in Slots : ArriveWord0(s) \/ Arrive(s)) \/ UNCHANGED vars
                => Unread' = Unread /\ Filled' = Filled
  <1> USE DEF PInv, TypeOK
  <1>1. ASSUME NEW e \in Entry, Fill(e)
        PROVE  Unread' = Unread /\ Filled' = Succ(Filled) /\ FillSlot = Slot(Filled)
    BY <1>1, Ends DEF Fill, Unread, Filled, FillSlot, cvars
  <1>2. ASSUME Read
        PROVE  Unread' = Succ(Unread) /\ Filled' = Filled /\ ReadSlot = Slot(Unread)
    BY <1>2, Ends DEF Read, Unread, Filled, ReadSlot, pvars
  <1>3. ASSUME Produce PROVE Unread' = Unread /\ Filled' = Filled
    <2>1. pProduced' = Succ(pProduced) /\ pProduced' \in Ptr
      BY <1>3, IncSucc, GapFacts DEF Produce
    <2>2. (pProduced' - 1) % PtrMod = pProduced
      BY <2>1, DecPred, GapFacts
    <2> QED
      BY <1>3, <2>2 DEF Produce, Unread, Filled, cvars
  <1>4. ASSUME Consume PROVE Unread' = Unread /\ Filled' = Filled
    <2>1. cConsumed' = Succ(cConsumed) /\ cConsumed' \in Ptr
      BY <1>4, IncSucc, GapFacts DEF Consume
    <2>2. (cConsumed' - 1) % PtrMod = cConsumed
      BY <2>1, DecPred, GapFacts
    <2> QED
      BY <1>4, <2>2 DEF Consume, Unread, Filled, pvars
  <1>5. ASSUME ProduceNoSpace \/ NotifyProduced \/ Finish \/ NotifyConsumed
                  \/ (\E s \in Slots : ArriveWord0(s) \/ Arrive(s)) \/ UNCHANGED vars
        PROVE  Unread' = Unread /\ Filled' = Filled
    BY <1>5 DEF ProduceNoSpace, NotifyProduced, Finish, NotifyConsumed, ArriveWord0, Arrive, vars,
                pvars, cvars, Unread, Filled
  <1> QED
    BY <1>1, <1>2, <1>3, <1>4, <1>5, SMTT(60)

LEMMA StepDelivery == WriteOrder /\ IInv /\ [Next]_vars => Delivery'
  <1> SUFFICES ASSUME WriteOrder, IInv, [Next]_vars PROVE Delivery'
    OBVIOUS
  <1>0. /\ PInv /\ Delivery /\ TypeOK
        /\ Unread \in Ptr /\ Filled \in Ptr /\ Gap(Filled, Unread) <= SlotNum
        /\ \A k \in Ptr : Slot(k) \in Slots
    BY Ends, Consts DEF IInv, PInv, Slot, Slots, Ptr
  <1>1. ASSUME NEW e \in Entry, Fill(e) PROVE Delivery'
    <2>1. Unread' = Unread /\ Filled' = Succ(Filled) /\ FillSlot = Slot(Filled)
      BY <1>0, <1>1, EndsStep, SMTT(60)
    <2>2. Gap(Filled, Unread) < SlotNum
      BY <1>0, <1>1, Ends DEF Fill
    <2>3. Gap(Succ(Filled), Unread) = Gap(Filled, Unread) + 1
      BY <1>0, <2>2, GapFacts, Consts, SMTT(60)
    <2>4. CASE OutOfOrderWrite
      <3> SUFFICES ASSUME NEW k \in Ptr
                   PROVE  /\ Gap(k, Unread) < Gap(Filled, Unread) + 1
                                => (fresh'[Slot(k)] <=> wr'[Slot(k)] = NoEntry)
                          /\ Gap(Filled, Unread) + 1 <= Gap(k, Unread) /\ Gap(k, Unread) < SlotNum
                                => ~fresh'[Slot(k)] /\ wr'[Slot(k)] = NoEntry
        <4>1. \A s \in Slots : ~torn'[s]
          BY <1>0, <1>1, <2>4, SMTT(60) DEF Delivery, Fill, TypeOK
        <4> QED
          BY <2>1, <2>3, <2>4, <4>1 DEF Delivery
      <3>1. wr' = [wr EXCEPT ![Slot(Filled)] = e] /\ fresh' = fresh
        BY <1>1, <2>1, <2>4 DEF Fill
      <3>2. Gap(k, Unread) \in Nat /\ Gap(Filled, Unread) \in Nat
        BY <1>0, GapFacts, ZenonT(60)
      <3>3. CASE k = Filled
        <4>1. ~fresh[Slot(k)]
          BY <1>0, <2>2, <2>4, <3>2, <3>3 DEF Delivery
        <4>2. wr'[Slot(k)] # NoEntry
          BY <1>0, <3>1, <3>3, Consts, SMTT(60) DEF TypeOK
        <4> QED
          BY <3>1, <3>2, <3>3, <4>1, <4>2
      <3>4. CASE k # Filled /\ Gap(k, Unread) < SlotNum
        <4>1. Slot(k) # Slot(Filled) /\ Gap(k, Unread) # Gap(Filled, Unread)
          <5>1. Slot(k) # Slot(Filled)
            BY <1>0, <2>2, <3>4, WindowDiffers
          <5>2. Gap(k, Unread) # Gap(Filled, Unread)
            BY <1>0, <3>4, GapFacts
          <5> QED BY <5>1, <5>2
        <4>2. wr'[Slot(k)] = wr[Slot(k)]
          BY <1>0, <3>1, <4>1, SMTT(60) DEF TypeOK
        <4> QED
          BY <1>0, <2>4, <3>1, <3>2, <4>1, <4>2 DEF Delivery
      <3> QED
        BY <2>2, <3>2, <3>3, <3>4, Consts, SMTT(60)
    <2>5. CASE ~OutOfOrderWrite
      BY <1>0, <1>1, <2>5 DEF Fill, Delivery
    <2> QED BY <2>4, <2>5
  <1>2. ASSUME NEW s \in Slots, ArriveWord0(s) \/ Arrive(s) PROVE Delivery'
    <2>1. Unread' = Unread /\ Filled' = Filled
      BY <1>0, <1>2, EndsStep, SMTT(60)
    <2>2. CASE OutOfOrderWrite
      <3>1. Arrive(s) /\ ~torn[s]
        BY <1>0, <1>2, <2>2, SMTT(60) DEF ArriveWord0, Delivery, WriteOrder
      <3> QED
        BY <1>0, <2>1, <2>2, <3>1 DEF Arrive, Delivery, TypeOK
    <2>3. CASE ~OutOfOrderWrite
      BY <1>0, <1>2, <2>3 DEF ArriveWord0, Arrive, Delivery
    <2> QED BY <2>2, <2>3
  <1>3. CASE Read
    <2>1. Unread' = Succ(Unread) /\ Filled' = Filled /\ ReadSlot = Slot(Unread)
      BY <1>0, <1>3, EndsStep, SMTT(60)
    <2>2. Gap(Filled, Unread) > 0
      BY <1>0, <1>3, Ends, SMTT(60) DEF Read
    <2>3. CASE OutOfOrderWrite
      <3> SUFFICES ASSUME NEW k \in Ptr
                   PROVE  /\ Gap(k, Succ(Unread)) < Gap(Filled, Succ(Unread))
                                => (fresh'[Slot(k)] <=> wr[Slot(k)] = NoEntry)
                          /\ Gap(Filled, Succ(Unread)) <= Gap(k, Succ(Unread))
                             /\ Gap(k, Succ(Unread)) < SlotNum
                                => ~fresh'[Slot(k)] /\ wr[Slot(k)] = NoEntry
        <4>1. wr' = wr /\ torn' = torn
          BY <1>3 DEF Read
        <4> QED
          BY <1>0, <2>1, <2>3, <4>1, SMTT(60) DEF Delivery
      <3>1. fresh' = [fresh EXCEPT ![Slot(Unread)] = FALSE] /\ fresh[Slot(Unread)]
        BY <1>3, <2>1, <2>3 DEF Read
      <3>2. Gap(k, Unread) \in Nat /\ Gap(Filled, Unread) \in Nat /\ Gap(Unread, Unread) = 0
        BY <1>0, GapFacts, ZenonT(60)
      <3>3. Filled # Unread
        BY <2>2, <3>2
      <3>4. Gap(Filled, Succ(Unread)) = Gap(Filled, Unread) - 1
        BY <1>0, <3>3, GapFacts
      <3>5. wr[Slot(Unread)] = NoEntry
        BY <1>0, <2>2, <2>3, <3>1, <3>2, SMTT(60) DEF Delivery
      <3>6. CASE k = Unread
        BY <1>0, <2>2, <3>2, <3>4, <3>6, GapFacts, Consts, SMTT(60)
      <3>7. CASE k # Unread
        <4>1. Gap(k, Succ(Unread)) = Gap(k, Unread) - 1
          BY <1>0, <3>7, GapFacts, SMTT(60)
        <4>2. CASE Gap(k, Unread) < SlotNum
          <5>1. Slot(k) # Slot(Unread)
            BY <1>0, <3>2, <3>7, <4>2, WindowDiffers, Consts
          <5>2. fresh'[Slot(k)] = fresh[Slot(k)]
            BY <1>0, <3>1, <5>1, SMTT(60) DEF TypeOK
          <5> QED
            BY <1>0, <2>3, <3>2, <3>4, <4>1, <4>2, <5>2 DEF Delivery
        <4>3. CASE Gap(k, Unread) = SlotNum
          <5>1. Slot(k) = Slot(Unread)
            BY <1>0, <4>3, NextLap
          <5>2. ~fresh'[Slot(k)]
            BY <1>0, <3>1, <5>1, SMTT(60) DEF TypeOK
          <5> QED
            BY <1>0, <3>2, <3>4, <3>5, <4>1, <4>3, <5>1, <5>2, Consts
        <4>4. CASE Gap(k, Unread) > SlotNum
          BY <1>0, <3>2, <3>4, <4>1, <4>4, Consts, SMTT(60)
        <4> QED
          BY <3>2, <4>2, <4>3, <4>4, Consts
      <3> QED BY <3>6, <3>7, SMTT(60)
    <2>4. CASE ~OutOfOrderWrite
      BY <1>0, <1>3, <2>4, SMTT(60) DEF Read, Delivery
    <2> QED BY <2>3, <2>4
  <1>4. CASE Produce \/ ProduceNoSpace \/ NotifyProduced \/ Consume \/ Finish
                 \/ NotifyConsumed \/ UNCHANGED vars
    <2>1. Unread' = Unread /\ Filled' = Filled
      BY <1>0, <1>4, EndsStep, SMTT(60)
    <2>2. wr' = wr /\ fresh' = fresh /\ torn' = torn
      BY <1>4 DEF Produce, ProduceNoSpace, NotifyProduced, Consume, Finish, NotifyConsumed, vars
    <2> QED
      BY <1>0, <2>1, <2>2 DEF Delivery
  <1> QED
    BY <1>1, <1>2, <1>3, <1>4 DEF Next, Producer, Consumer

-------------------------------------------------------------------------
(***************************************************************************)
(* The ring implements a bounded FIFO.                                     *)
(***************************************************************************)
\* The pointer of the i-th entry of the ring.
At(u, i) == (u + i - 1) % PtrMod

LEMMA AtFacts ==
    ASSUME NEW u \in Ptr, NEW i \in 1 .. SlotNum
    PROVE  /\ At(u, i) \in Ptr /\ Gap(At(u, i), u) = i - 1
           /\ At(Succ(u), i) = At(u, i + 1)
  <1> DEFINE j == u + i - 1
  <1>1. /\ j \in Nat /\ j < 2 * PtrMod
        /\ j % PtrMod = IF j < PtrMod THEN j ELSE j - PtrMod
    BY Consts DEF Ptr
  <1>2. At(u, i) = IF j < PtrMod THEN j ELSE j - PtrMod
    BY <1>1 DEF At
  <1>3. At(u, i) \in Ptr /\ Gap(At(u, i), u) = i - 1
    BY <1>2, Consts DEF Ptr, Gap
  <1>4. At(Succ(u), i) = At(u, i + 1)
    <2>1. CASE u = PtrMod - 1
      <3>1. (0 + i - 1) % PtrMod = i - 1
        BY Consts
      <3>2. (PtrMod - 1 + (i + 1) - 1) % PtrMod = i - 1
        BY Consts
      <3> QED BY <2>1, <3>1, <3>2 DEF At, Succ
    <2>2. CASE u # PtrMod - 1
      <3>1. (u + 1) + i - 1 = u + (i + 1) - 1
        BY DEF Ptr
      <3> QED BY <2>2, <3>1 DEF At, Succ
    <2> QED BY <2>1, <2>2
  <1> QED BY <1>3, <1>4

ContentsOK ==
    /\ Contents \in Seq(Entry \cup {NoEntry})
    /\ Len(Contents) = Gap(Filled, Unread)
    /\ Gap(Filled, Unread) \in 0 .. SlotNum
    /\ \A i \in 1 .. Gap(Filled, Unread) : Contents[i] = Content(Slot(At(Unread, i)))

LEMMA ContentsType == PInv => ContentsOK
  <1> SUFFICES ASSUME PInv PROVE ContentsOK
    OBVIOUS
  <1>1. /\ Unread \in Ptr /\ Filled \in Ptr /\ Gap(Filled, Unread) \in 0 .. SlotNum
        /\ Dist(Filled, Unread) = Gap(Filled, Unread)
    BY Ends, GapFacts, DistGap, Consts
  <1>2. \A k \in Ptr : Slot(k) \in Slots
    BY SlotType
  <1>3. \A i \in 1 .. Gap(Filled, Unread) : At(Unread, i) \in Ptr
    BY <1>1, AtFacts, Consts
  <1>4. \A k \in Slots : Content(k) \in Entry \cup {NoEntry}
    BY DEF Content, PInv, TypeOK
  <1>5. Contents = [i \in 1 .. Gap(Filled, Unread) |-> Content(Slot(At(Unread, i)))]
    BY <1>1 DEF Contents, At
  <1> QED
    BY <1>1, <1>2, <1>3, <1>4, <1>5, SMTT(60) DEF ContentsOK

LEMMA FillPuts ==
    ASSUME IInv, WriteOrder, ContentsOK, ContentsOK', NEW e \in Entry, Fill(e)
    PROVE  Fifo!Put(e)
  <1> DEFINE n == Gap(Filled, Unread)
  <1>0. PInv /\ TypeOK /\ Delivery /\ rd' = rd
    BY SMTT(60) DEF IInv, PInv, Fill, cvars
  <1>1. /\ Unread' = Unread /\ Filled' = Succ(Filled) /\ FillSlot = Slot(Filled)
        /\ Unread \in Ptr /\ Filled \in Ptr /\ n < SlotNum /\ n \in Nat
    BY <1>0, EndsStep, Ends, GapFacts, ZenonT(60) DEF Fill
  <1>2. Gap(Succ(Filled), Unread) = n + 1
    BY <1>1, GapFacts, Consts, SMTT(60)
  <1>3. \A s \in Slots : Content(s)' = IF s = Slot(Filled) THEN e ELSE Content(s)
    BY <1>0, <1>1, Consts DEF Fill, Content, TypeOK, Delivery
  <1>4. \A i \in 1 .. n + 1 : Slot(At(Unread, i)) \in Slots
    <2> TAKE i \in 1 .. n + 1
    <2>1. i \in 1 .. SlotNum
      BY <1>1, Consts, SMTT(60)
    <2> QED
      BY <1>1, <2>1, AtFacts, SlotType
  <1>5. \A i \in 1 .. n + 1 :
            Contents'[i] = IF Slot(At(Unread, i)) = Slot(Filled)
                           THEN e ELSE Content(Slot(At(Unread, i)))
    BY <1>1, <1>2, <1>3, <1>4, SMTT(60) DEF ContentsOK
  <1>6. \A i \in 1 .. n : Contents'[i] = Contents[i]
    <2> TAKE i \in 1 .. n
    <2>1. At(Unread, i) \in Ptr /\ Gap(At(Unread, i), Unread) = i - 1
      BY <1>1, AtFacts, Consts
    <2>2. Slot(At(Unread, i)) # Slot(Filled)
      BY <1>1, <2>1, WindowDiffers, Consts
    <2> QED
      BY <1>1, <1>5, <2>2 DEF ContentsOK
  <1>7. Contents'[n + 1] = e
    <2>1. n + 1 \in 1 .. SlotNum
      BY <1>1, Consts, SMTT(60)
    <2>2. At(Unread, n + 1) = Filled
      BY <1>1, <2>1, AtFacts, GapFacts
    <2> QED
      BY <1>1, <1>5, <2>1, <2>2
  <1>8. /\ Contents \in Seq(Entry \cup {NoEntry}) /\ Len(Contents) = n
        /\ Contents' \in Seq(Entry \cup {NoEntry}) /\ Len(Contents') = n + 1
    BY <1>1, <1>2, SMTT(60) DEF ContentsOK
  <1>9. Contents' = Append(Contents, e)
    BY <1>1, <1>6, <1>7, <1>8
  <1> QED
    BY <1>0, <1>1, <1>8, <1>9 DEF Fifo!Put

LEMMA ReadGets ==
    ASSUME IInv, WriteOrder, ContentsOK, ContentsOK', Read
    PROVE  Fifo!Get
  <1> DEFINE n == Gap(Filled, Unread)
  <1>0. PInv /\ TypeOK /\ Delivery /\ rd = NoEntry
    BY SMTT(60) DEF IInv, PInv, PtrOrder, Read
  <1>1. /\ Unread' = Succ(Unread) /\ Filled' = Filled /\ ReadSlot = Slot(Unread)
        /\ Unread \in Ptr /\ Filled \in Ptr /\ n > 0 /\ n \in Nat /\ n <= SlotNum
        /\ Slot(Unread) \in Slots
    BY <1>0, EndsStep, Ends, GapFacts, SlotType, ZenonT(60) DEF Read
  <1>2. Gap(Filled, Succ(Unread)) = n - 1
    <2>1. Filled # Unread
      BY <1>1, GapFacts
    <2> QED
      BY <1>1, <2>1, GapFacts
  <1>3. \A s : Content(s)' = Content(s)
    BY SMTT(60) DEF Read, Content
  <1>4. rd' = Contents[1]
    <2>1. At(Unread, 1) = Unread
      BY <1>1, AtFacts, GapFacts, Consts
    <2>2. Contents[1] = Content(Slot(Unread))
      BY <1>1, <2>1 DEF ContentsOK
    <2>3. wr[Slot(Unread)] = NoEntry
      <3>1. CASE OutOfOrderWrite
        BY <1>0, <1>1, <3>1, GapFacts, SMTT(60) DEF Delivery, Read
      <3>2. CASE ~OutOfOrderWrite
        BY <1>0, <1>1, <3>2, SMTT(60) DEF Delivery
      <3> QED BY <3>1, <3>2, SMTT(60)
    <2> QED
      BY <1>1, <2>2, <2>3, SMTT(60) DEF Content, Read
  <1>5. \A i \in 1 .. n - 1 : Contents'[i] = Contents[i + 1]
    <2> TAKE i \in 1 .. n - 1
    <2>1. At(Succ(Unread), i) = At(Unread, i + 1)
      BY <1>1, AtFacts, Consts, SMTT(60)
    <2> QED
      BY <1>1, <1>2, <1>3, <2>1 DEF ContentsOK
  <1>6. /\ Contents \in Seq(Entry \cup {NoEntry}) /\ Len(Contents) = n
        /\ Contents' \in Seq(Entry \cup {NoEntry}) /\ Len(Contents') = n - 1
    BY <1>1, <1>2 DEF ContentsOK
  <1>7. Contents # <<>> /\ Contents' = Tail(Contents) /\ rd' = Head(Contents)
    BY <1>1, <1>4, <1>5, <1>6
  <1> QED
    BY <1>0, <1>7 DEF Fifo!Get

\* Every other step leaves the contents and the entry in hand alone, or releases it.
LEMMA OtherSteps ==
    ASSUME IInv, ContentsOK, ContentsOK',
           Produce \/ ProduceNoSpace \/ NotifyProduced \/ Consume \/ Finish
              \/ NotifyConsumed \/ (\E s \in Slots : ArriveWord0(s) \/ Arrive(s)) \/ UNCHANGED vars
    PROVE  Contents' = Contents /\ (UNCHANGED rd \/ Finish)
  <1>1. PInv /\ TypeOK /\ Unread \in Ptr
    BY Ends DEF IInv, PInv
  <1>2. Unread' = Unread /\ Filled' = Filled
    BY <1>1, EndsStep
  <1>3. \A s \in Slots : Content(s)' = Content(s)
    <2>1. ASSUME NEW t \in Slots, ArriveWord0(t) \/ Arrive(t) PROVE \A s \in Slots : Content(s)' = Content(s)
      <3>1. CASE ArriveWord0(t)
        BY <3>1, Zenon DEF ArriveWord0, Content
      <3>2. CASE Arrive(t)
        <4>1. /\ wr[t] # NoEntry
              /\ slot' = [slot EXCEPT ![t] = wr[t]] /\ wr' = [wr EXCEPT ![t] = NoEntry]
          BY <3>2, Zenon DEF Arrive
        <4>2. DOMAIN slot = Slots /\ DOMAIN wr = Slots
          BY <1>1, SMTT(60) DEF TypeOK
        <4> QED
          BY <4>1, <4>2, SMTT(60) DEF Content
      <3> QED
        BY <2>1, <3>1, <3>2
    <2>2. ASSUME ~ \E s \in Slots : ArriveWord0(s) \/ Arrive(s) PROVE \A s : Content(s)' = Content(s)
      BY <2>2 DEF Produce, ProduceNoSpace, NotifyProduced, Consume, Finish, NotifyConsumed,
                  vars, Content
    <2> QED BY <2>1, <2>2, SMTT(60)
  <1>4. \A i \in 1 .. Gap(Filled, Unread) : Slot(At(Unread, i)) \in Slots
    <2> TAKE i \in 1 .. Gap(Filled, Unread)
    <2>1. i \in 1 .. SlotNum
      BY Consts, SMTT(60) DEF ContentsOK
    <2> QED
      BY <1>1, <2>1, AtFacts, SlotType
  <1>5. \A i \in 1 .. Gap(Filled, Unread) : Contents'[i] = Contents[i]
    BY <1>2, <1>3, <1>4 DEF ContentsOK
  <1>6. Contents' = Contents
    BY <1>2, <1>5, SMTT(60) DEF ContentsOK
  <1>7. UNCHANGED rd \/ Finish
    BY DEF Produce, ProduceNoSpace, NotifyProduced, Consume, NotifyConsumed, ArriveWord0, Arrive, vars, cvars
  <1> QED BY <1>6, <1>7

LEMMA InitIInv == Init => IInv
  <1> SUFFICES ASSUME Init PROVE Delivery
    BY InitPInv DEF IInv
  <1>1. Filled = Unread /\ Unread \in Ptr
    BY DEF Init, Filled, Unread
  <1>2. Gap(Filled, Unread) = 0
    BY <1>1, GapFacts
  <1>3. \A k \in Ptr : ~ Gap(k, Unread) < 0
    <2> TAKE k \in Ptr
    <2>1. Gap(k, Unread) \in Nat
      BY <1>1, GapFacts, ZenonT(60)
    <2> QED BY <2>1
  <1> QED
    BY <1>2, <1>3, SlotType DEF Init, Delivery

LEMMA StepIInv == IInv /\ [Next]_vars => IInv'
  BY StepPInv, StepDelivery, OrderStep DEF IInv, WriteOrder

LEMMA InitContents == Init => Fifo!FInit
  <1> SUFFICES ASSUME Init PROVE Contents = <<>> /\ rd = NoEntry
    BY DEF Fifo!FInit
  <1>1. Filled = Unread /\ Unread \in Ptr /\ rd = NoEntry
    BY DEF Init, Filled, Unread
  <1>2. Dist(Filled, Unread) = 0
    BY <1>1, GapFacts, DistGap
  <1> QED
    BY <1>1, <1>2 DEF Contents

LEMMA StepRefines ==
    IInv /\ ContentsOK /\ ContentsOK' /\ [Next]_vars => [WriteOrder => Fifo!FNext]_(Fifo!fvars)
  <1> SUFFICES ASSUME IInv, WriteOrder, ContentsOK, ContentsOK', [Next]_vars
               PROVE  [Fifo!FNext]_(Fifo!fvars)
    OBVIOUS
  <1>1. ASSUME NEW e \in Entry, Fill(e) PROVE Fifo!FNext
    BY <1>1, FillPuts DEF Fifo!FNext
  <1>2. ASSUME Read PROVE Fifo!FNext
    BY <1>2, ReadGets DEF Fifo!FNext
  <1>3. CASE Produce \/ ProduceNoSpace \/ NotifyProduced \/ Consume \/ Finish
              \/ NotifyConsumed \/ (\E s \in Slots : ArriveWord0(s) \/ Arrive(s)) \/ UNCHANGED vars
    <2>1. Contents' = Contents /\ (UNCHANGED rd \/ Finish)
      BY <1>3, OtherSteps
    <2>2. CASE Finish
      BY <2>1, <2>2 DEF Finish, Fifo!FNext, Fifo!Release
    <2>3. CASE UNCHANGED rd
      BY <2>1, <2>3 DEF Fifo!fvars
    <2> QED BY <2>1, <2>2, <2>3
  <1> QED
    BY <1>1, <1>2, <1>3 DEF Next, Producer, Consumer

LEMMA InvariantIInv == Spec => []IInv
  BY InitIInv, StepIInv, PTL DEF Spec

\* XGQ_ENTRY_NEW_FLAG_MASK: with Word0 written last, xgq_consume() never finds the new
\* flag of a slot ahead of the entry it announces, nor the flag of an earlier lap.
THEOREM FlagIsNew == Spec => []NewFlagIsNew
  <1>1. IInv => NewFlagIsNew
    <2> SUFFICES ASSUME IInv, WriteOrder, OutOfOrderWrite, reading, fresh[ReadSlot]
                 PROVE  wr[ReadSlot] = NoEntry
      BY DEF NewFlagIsNew
    <2>1. Unread \in Ptr /\ Filled \in Ptr /\ Gap(Filled, Unread) > 0
      BY Ends, SMTT(60) DEF IInv
    <2>2. ReadSlot = Slot(Unread) /\ Gap(Unread, Unread) = 0
      BY <2>1, GapFacts DEF ReadSlot, Unread
    <2> QED
      BY <2>1, <2>2, SMTT(60) DEF IInv, Delivery
  <1> QED
    BY <1>1, InvariantIInv, PTL

\* xgq_produce()/xgq_consume(): the ring is a bounded FIFO. Entries come out in the
\* order in which they were filled in, each once, none overwritten, across the wrap of
\* the pointers, with stale copies of the peer's pointer and, from a producer that
\* writes Word0 last, with late slot writes.
THEOREM RingIsFifo == Spec => IsFifo
  <1>1. Spec => []IInv
    BY InvariantIInv
  <1>2. IInv => ContentsOK
    BY ContentsType DEF IInv
  <1> QED
    BY <1>1, <1>2, InitContents, StepRefines, PTL DEF Spec, IsFifo
==========================================================================
