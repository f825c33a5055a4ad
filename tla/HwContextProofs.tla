--------------------------- MODULE HwContextProofs ---------------------------
(***************************************************************************)
(* Proofs about HwContext for any number of clients, xclbins and contexts: *)
(* IInv is inductive, and the safety properties follow from it.            *)
(*                                                                         *)
(* RefMatchesContexts is not inductive: a download resets the count in     *)
(* SlotInit(), and that is right only because the test for a lock, made    *)
(* earlier in Resolve(), still holds, which needs that no other client is  *)
(* in its second half (Apart) and that a failed step in between left no    *)
(* context behind (RefOK).                                                 *)
(***************************************************************************)
EXTENDS HwContext, FiniteSetTheorems, TLAPS

-----------------------------------------------------------------------------
(* Types and locks, of any clients. *)

\* Every step of an ioctl keeps the types, those that replace the slot record in
\* icap_slot_init() or compute a reference count included.
LEMMA TypeStep ==
    ASSUME TypeOK,
           NEW c \in Client, Step(c) \/ Call(c)
    PROVE  TypeOK'
<1>1. ASSUME SlotInit(c) PROVE TypeOK'
  <2>1. Contexts \subseteq Client \X HwId
    BY Zenon DEF Contexts
  <2> QED
    BY <1>1, <2>1, HwAssumption, SMTT(60) DEF SlotInit, Goto, TypeOK, Labels, env
<1>2. ASSUME LockBitstream(c) PROVE TypeOK'
  <2>1. ref' \in Int /\ hw' \in [Client -> [HwId -> {"free", "open", "used"}]]
    BY <1>2, SMTT(60) DEF LockBitstream, TypeOK
  <2>2. /\ serial' = serial /\ early' = early /\ devLock' = devLock
        /\ loaded' = loaded /\ busy' = busy /\ readers' = readers
        /\ dangling' = dangling /\ want' = want
        /\ pc' = [pc EXCEPT ![c] = "putid"]
    BY <1>2, Zenon DEF LockBitstream, Goto, env
  <2> QED
    BY <2>1, <2>2, SMTT(60) DEF TypeOK, Labels
<1> USE HwAssumption DEF Goto, Fail, TypeOK, Labels, slot, env
<1>3. ASSUME NEW force \in BOOLEAN, Resolve(c, force) PROVE TypeOK'
  BY <1>3, SMTT(60) DEF Resolve
<1>4. ASSUME Prepare(c) PROVE TypeOK'
  BY <1>4, SMTT(60) DEF Prepare
<1>5. ASSUME WrLock(c) PROVE TypeOK'
  BY <1>5, SMTT(60) DEF WrLock
<1>6. ASSUME WrLockWait(c) PROVE TypeOK'
  BY <1>6, SMTT(60) DEF WrLockWait
<1>7. ASSUME WrLockInterrupted(c) PROVE TypeOK'
  BY <1>7, SMTT(60) DEF WrLockInterrupted
<1>8. ASSUME Load(c) PROVE TypeOK'
  BY <1>8, SMTT(60) DEF Load
<1>9. ASSUME WrUnlock(c) PROVE TypeOK'
  BY <1>9, SMTT(60) DEF WrUnlock
<1>10. ASSUME Update(c) PROVE TypeOK'
  BY <1>10, SMTT(60) DEF Update
<1>11. ASSUME GetXclbinId(c) PROVE TypeOK'
  BY <1>11, SMTT(60) DEF GetXclbinId
<1>12. ASSUME PutXclbinId(c) PROVE TypeOK'
  BY <1>12, SMTT(60) DEF PutXclbinId
<1>13. ASSUME NEW h \in HwId, ExitHwCtx(c, h) PROVE TypeOK'
  BY <1>13, SMTT(60) DEF ExitHwCtx, UnlockBitstream
<1>14. ASSUME Exited(c) PROVE TypeOK'
  BY <1>14, SMTT(60) DEF Exited
<1>15. ASSUME NEW x \in Xclbin, CreateIoctl(c, x) PROVE TypeOK'
  BY <1>15, SMTT(60) DEF CreateIoctl
<1>16. ASSUME NEW h \in HwId, OpenCu(c, h) PROVE TypeOK'
  BY <1>16, SMTT(60) DEF OpenCu
<1>17. ASSUME NEW h \in HwId, CloseCu(c, h) PROVE TypeOK'
  BY <1>17, SMTT(60) DEF CloseCu
<1>18. ASSUME NEW h \in HwId, DestroyHwCtx(c, h) PROVE TypeOK'
  BY <1>18, SMTT(60) DEF DestroyHwCtx, UnlockBitstream
<1>19. ASSUME ReadMetadata(c) PROVE TypeOK'
  BY <1>19, SMTT(60) DEF ReadMetadata
<1>20. ASSUME Exit(c) PROVE TypeOK'
  BY <1>20, SMTT(60) DEF Exit
<1> HIDE DEF Goto, Fail, TypeOK, Labels, slot, env
<1> QED
  BY <1>1, <1>2, <1>3, <1>4, <1>5, <1>6, <1>7, <1>8, <1>9, <1>10,
     <1>11, <1>12, <1>13, <1>14, <1>15, <1>16, <1>17, <1>18, <1>19, <1>20,
     HwAssumption
  DEF Step, Call

\* A create ioctl holds dev_lock from its start to the end of its first half, and
\* busy names it from icap_xclbin_wr_lock() on: the slot record is renewed only
\* under dev_lock.
LEMMA LockStep ==
    ASSUME TypeOK, LockOK,
           NEW c \in Client, Step(c) \/ Call(c)
    PROVE  LockOK'
<1> USE HwAssumption DEF Goto, Fail, TypeOK, LockOK, Holding, slot
<1>1. ASSUME NEW force \in BOOLEAN, Resolve(c, force) PROVE LockOK'
  BY <1>1, SMTT(60) DEF Resolve
<1>2. ASSUME Prepare(c) PROVE LockOK'
  BY <1>2, SMTT(60) DEF Prepare
<1>3. ASSUME SlotInit(c) PROVE LockOK'
  BY <1>3, SMTT(60) DEF SlotInit
<1>4. ASSUME WrLock(c) PROVE LockOK'
  BY <1>4, SMTT(60) DEF WrLock
<1>5. ASSUME WrLockWait(c) PROVE LockOK'
  BY <1>5, SMTT(60) DEF WrLockWait
<1>6. ASSUME WrLockInterrupted(c) PROVE LockOK'
  BY <1>6, SMTT(60) DEF WrLockInterrupted
<1>7. ASSUME Load(c) PROVE LockOK'
  BY <1>7, SMTT(60) DEF Load
<1>8. ASSUME WrUnlock(c) PROVE LockOK'
  BY <1>8, SMTT(60) DEF WrUnlock
<1>9. ASSUME Update(c) PROVE LockOK'
  BY <1>9, SMTT(60) DEF Update
<1>10. ASSUME GetXclbinId(c) PROVE LockOK'
  BY <1>10, SMTT(60) DEF GetXclbinId
<1>11. ASSUME LockBitstream(c) PROVE LockOK'
  BY <1>11, SMTT(60) DEF LockBitstream
<1>12. ASSUME PutXclbinId(c) PROVE LockOK'
  BY <1>12, SMTT(60) DEF PutXclbinId
<1>13. ASSUME NEW h \in HwId, ExitHwCtx(c, h) PROVE LockOK'
  BY <1>13, SMTT(60) DEF ExitHwCtx, UnlockBitstream
<1>14. ASSUME Exited(c) PROVE LockOK'
  BY <1>14, SMTT(60) DEF Exited
<1>15. ASSUME NEW x \in Xclbin, CreateIoctl(c, x) PROVE LockOK'
  BY <1>15, SMTT(60) DEF CreateIoctl
<1>16. ASSUME NEW h \in HwId, OpenCu(c, h) PROVE LockOK'
  BY <1>16, SMTT(60) DEF OpenCu
<1>17. ASSUME NEW h \in HwId, CloseCu(c, h) PROVE LockOK'
  BY <1>17, SMTT(60) DEF CloseCu
<1>18. ASSUME NEW h \in HwId, DestroyHwCtx(c, h) PROVE LockOK'
  BY <1>18, SMTT(60) DEF DestroyHwCtx, UnlockBitstream
<1>19. ASSUME ReadMetadata(c) PROVE LockOK'
  BY <1>19, SMTT(60) DEF ReadMetadata
<1>20. ASSUME Exit(c) PROVE LockOK'
  BY <1>20, SMTT(60) DEF Exit
<1> HIDE DEF Goto, Fail, TypeOK, LockOK, Holding, slot
<1> QED
  BY <1>1, <1>2, <1>3, <1>4, <1>5, <1>6, <1>7, <1>8, <1>9, <1>10,
     <1>11, <1>12, <1>13, <1>14, <1>15, <1>16, <1>17, <1>18, <1>19, <1>20,
     HwAssumption
  DEF Step, Call

-----------------------------------------------------------------------------
(* Readers and writers, of serial clients. *)

\* Finitely many clients read.
LEMMA ReadingFinite == IsFiniteSet(Reading)
  BY HwAssumption, FS_Subset DEF Reading

\* With serial clients, creating ioctls stay apart from each other and from readers
\* of the slot metadata: icap_xclbin_wr_lock() waits for those that it can see.
LEMMA ApartStep ==
    ASSUME serial, TypeOK, LockOK, SerialOK,
           NEW c \in Client, Step(c) \/ Call(c)
    PROVE  Apart'
<1>1. ASSUME WrLockWait(c) PROVE Apart'
  <2>1. Reading = {}
    BY <1>1, ReadingFinite, FS_EmptySet DEF WrLockWait, SerialOK
  <2>2. \A d \in Client : pc[d] # "read"
    BY <2>1 DEF Reading
  <2> QED
    BY <1>1, <2>2, SMTT(60) DEF WrLockWait, Goto, TypeOK, SerialOK, Apart, Creating, Holding
<1> USE HwAssumption DEF Goto, Fail, TypeOK, LockOK, SerialOK, Apart, Creating,
            Holding, slot, env
<1>2. ASSUME NEW force \in BOOLEAN, Resolve(c, force) PROVE Apart'
  BY <1>2, SMTT(60) DEF Resolve
<1>3. ASSUME Prepare(c) PROVE Apart'
  BY <1>3, SMTT(60) DEF Prepare
<1>4. ASSUME SlotInit(c) PROVE Apart'
  BY <1>4, SMTT(60) DEF SlotInit
<1>5. ASSUME WrLock(c) PROVE Apart'
  BY <1>5, SMTT(60) DEF WrLock
<1>6. ASSUME WrLockInterrupted(c) PROVE Apart'
  BY <1>6, SMTT(60) DEF WrLockInterrupted
<1>7. ASSUME Load(c) PROVE Apart'
  BY <1>7, SMTT(60) DEF Load
<1>8. ASSUME WrUnlock(c) PROVE Apart'
  BY <1>8, SMTT(60) DEF WrUnlock
<1>9. ASSUME Update(c) PROVE Apart'
  BY <1>9, SMTT(60) DEF Update
<1>10. ASSUME GetXclbinId(c) PROVE Apart'
  BY <1>10, SMTT(60) DEF GetXclbinId
<1>11. ASSUME LockBitstream(c) PROVE Apart'
  BY <1>11, SMTT(60) DEF LockBitstream
<1>12. ASSUME PutXclbinId(c) PROVE Apart'
  BY <1>12, SMTT(60) DEF PutXclbinId
<1>13. ASSUME NEW h \in HwId, ExitHwCtx(c, h) PROVE Apart'
  BY <1>13, SMTT(60) DEF ExitHwCtx, UnlockBitstream
<1>14. ASSUME Exited(c) PROVE Apart'
  BY <1>14, SMTT(60) DEF Exited
<1>15. ASSUME NEW x \in Xclbin, CreateIoctl(c, x) PROVE Apart'
  BY <1>15, SMTT(60) DEF CreateIoctl
<1>16. ASSUME NEW h \in HwId, OpenCu(c, h) PROVE Apart'
  BY <1>16, SMTT(60) DEF OpenCu
<1>17. ASSUME NEW h \in HwId, CloseCu(c, h) PROVE Apart'
  BY <1>17, SMTT(60) DEF CloseCu
<1>18. ASSUME NEW h \in HwId, DestroyHwCtx(c, h) PROVE Apart'
  BY <1>18, SMTT(60) DEF DestroyHwCtx, UnlockBitstream
<1>19. ASSUME ReadMetadata(c) PROVE Apart'
  BY <1>19, SMTT(60) DEF ReadMetadata
<1>20. ASSUME Exit(c) PROVE Apart'
  BY <1>20, SMTT(60) DEF Exit
<1> HIDE DEF Goto, Fail, TypeOK, LockOK, SerialOK, Apart, Creating,
            Holding, slot, env
<1> QED
  BY <1>1, <1>2, <1>3, <1>4, <1>5, <1>6, <1>7, <1>8, <1>9, <1>10,
     <1>11, <1>12, <1>13, <1>14, <1>15, <1>16, <1>17, <1>18, <1>19, <1>20,
     HwAssumption
  DEF Step, Call


\* icap_xclbin_rd_lock() adds one reader.
LEMMA ReadingEnters ==
    ASSUME TypeOK, NEW c \in Client, c \notin Reading,
           NEW l \in {"lock", "read"}, pc' = [pc EXCEPT ![c] = l]
    PROVE  Cardinality(Reading') = Cardinality(Reading) + 1
<1>1. Reading' = Reading \cup {c}
  BY SMTT(60) DEF Reading, TypeOK
<1> QED
  BY <1>1, ReadingFinite, FS_AddElement, Zenon

\* icap_xclbin_rd_unlock() takes one reader away.
LEMMA ReadingLeaves ==
    ASSUME TypeOK, NEW c \in Client, c \in Reading, pc' = [pc EXCEPT ![c] = "idle"]
    PROVE  Cardinality(Reading') = Cardinality(Reading) - 1
<1>1. Reading' = Reading \ {c}
  BY SMTT(60) DEF Reading, TypeOK
<1> QED
  BY <1>1, ReadingFinite, FS_RemoveElement, Zenon
\* With serial clients, every step keeps reader_ref the number of readers; the
\* zeroing in icap_slot_init() finds no reader to forget.
LEMMA CountStep ==
    ASSUME serial, TypeOK, LockOK, SerialOK,
           NEW c \in Client, Step(c) \/ Call(c)
    PROVE  readers' = Cardinality(Reading')
<1> DEFINE Kept == readers' = readers /\ Reading' = Reading
<1>1. ASSUME SlotInit(c) PROVE readers' = Cardinality(Reading')
  <2>1. readers' = 0 /\ pc[c] = "init" /\ pc' = [pc EXCEPT ![c] = "wrlock"]
    BY <1>1, Zenon DEF SlotInit, Goto
  <2>2. \A d \in Client : pc[d] \notin {"lock", "putid", "read"}
    BY <2>1, SMTT(60) DEF SerialOK, Apart, Creating, Holding
  <2>3. Reading' = {}
    BY <2>1, <2>2, SMTT(60) DEF Reading, TypeOK
  <2> QED
    BY <2>1, <2>3, FS_EmptySet
<1>2. ASSUME GetXclbinId(c) PROVE readers' = Cardinality(Reading')
  <2>1. CASE busy # None
    <3>1. readers' = readers /\ Reading' = Reading
      BY <1>2, <2>1, SMTT(60) DEF GetXclbinId, Goto, Reading, TypeOK
    <3> QED
      BY <3>1 DEF SerialOK
  <2>2. CASE busy = None
    <3>1. /\ pc[c] = "getid" /\ pc' = [pc EXCEPT ![c] = "lock"] /\ readers' = readers + 1
      BY <1>2, <2>2, Zenon DEF GetXclbinId, Goto
    <3>2. c \notin Reading
      BY <3>1 DEF Reading
    <3>3. Cardinality(Reading') = Cardinality(Reading) + 1
      BY <3>1, <3>2, ReadingEnters
    <3> QED
      BY <3>1, <3>3 DEF SerialOK
  <2> QED
    BY <2>1, <2>2
<1>3. ASSUME PutXclbinId(c) PROVE readers' = Cardinality(Reading')
  <2>1. /\ pc[c] \in {"putid", "read"} /\ pc' = [pc EXCEPT ![c] = "idle"]
        /\ readers' = readers - 1
    BY <1>3, Zenon DEF PutXclbinId, Goto
  <2>2. c \in Reading
    BY <2>1 DEF Reading
  <2>3. Cardinality(Reading') = Cardinality(Reading) - 1
    BY <2>1, <2>2, ReadingLeaves
  <2> QED
    BY <2>1, <2>3 DEF SerialOK
<1>4. ASSUME ReadMetadata(c) PROVE readers' = Cardinality(Reading')
  <2>1. /\ pc[c] = "idle" /\ pc' = [pc EXCEPT ![c] = "read"] /\ readers' = readers + 1
    BY <1>4, Zenon DEF ReadMetadata, Goto
  <2>2. c \notin Reading
    BY <2>1 DEF Reading
  <2>3. Cardinality(Reading') = Cardinality(Reading) + 1
    BY <2>1, <2>2, ReadingEnters
  <2> QED
    BY <2>1, <2>3 DEF SerialOK
<1> USE DEF Goto, Fail, Reading, TypeOK, slot
<1>5. ASSUME NEW force \in BOOLEAN, Resolve(c, force) PROVE Kept
  BY <1>5, SMTT(60) DEF Resolve
<1>6. ASSUME Prepare(c) PROVE Kept
  BY <1>6, SMTT(60) DEF Prepare
<1>7. ASSUME WrLock(c) PROVE Kept
  BY <1>7, SMTT(60) DEF WrLock
<1>8. ASSUME WrLockWait(c) PROVE Kept
  BY <1>8, SMTT(60) DEF WrLockWait
<1>9. ASSUME WrLockInterrupted(c) PROVE Kept
  BY <1>9, SMTT(60) DEF WrLockInterrupted
<1>10. ASSUME Load(c) PROVE Kept
  BY <1>10, SMTT(60) DEF Load
<1>11. ASSUME WrUnlock(c) PROVE Kept
  BY <1>11, SMTT(60) DEF WrUnlock
<1>12. ASSUME Update(c) PROVE Kept
  BY <1>12, SMTT(60) DEF Update
<1>13. ASSUME LockBitstream(c) PROVE Kept
  BY <1>13, SMTT(60) DEF LockBitstream
<1>14. ASSUME NEW h \in HwId, ExitHwCtx(c, h) PROVE Kept
  BY <1>14, SMTT(60) DEF ExitHwCtx, UnlockBitstream
<1>15. ASSUME Exited(c) PROVE Kept
  BY <1>15, SMTT(60) DEF Exited
<1>16. ASSUME NEW x \in Xclbin, CreateIoctl(c, x) PROVE Kept
  BY <1>16, SMTT(60) DEF CreateIoctl
<1>17. ASSUME NEW h \in HwId, OpenCu(c, h) PROVE Kept
  BY <1>17, SMTT(60) DEF OpenCu
<1>18. ASSUME NEW h \in HwId, CloseCu(c, h) PROVE Kept
  BY <1>18, SMTT(60) DEF CloseCu
<1>19. ASSUME NEW h \in HwId, DestroyHwCtx(c, h) PROVE Kept
  BY <1>19, SMTT(60) DEF DestroyHwCtx, UnlockBitstream
<1>20. ASSUME Exit(c) PROVE Kept
  BY <1>20, SMTT(60) DEF Exit
<1> HIDE DEF Goto, Fail, Reading, TypeOK, slot
<1> QED
  BY <1>1, <1>2, <1>3, <1>4, <1>5, <1>6, <1>7, <1>8, <1>9, <1>10,
     <1>11, <1>12, <1>13, <1>14, <1>15, <1>16, <1>17, <1>18, <1>19, <1>20,
     HwAssumption
  DEF Step, Call, SerialOK

-----------------------------------------------------------------------------
(* The references to the bitstream, of serial clients. *)

\* Finitely many contexts are open.
LEMMA ContextsFinite == IsFiniteSet(Contexts)
  BY HwAssumption, FS_Product, FS_Subset DEF Contexts

\* kds_alloc_hw_ctx() adds one context.
LEMMA ContextsAdd ==
    ASSUME TypeOK, NEW c \in Client, NEW h \in HwId, hw[c][h] = "free",
           hw' = [hw EXCEPT ![c][h] = "open"]
    PROVE  /\ Contexts' = Contexts \cup {<<c, h>>}
           /\ Cardinality(Contexts') = Cardinality(Contexts) + 1
<1>1. Contexts' = Contexts \cup {<<c, h>>}
  BY SMTT(60) DEF Contexts, TypeOK
<1>2. <<c, h>> \notin Contexts
  BY DEF Contexts
<1> QED
  BY <1>1, <1>2, ContextsFinite, FS_AddElement, Zenon

\* kds_free_hw_ctx() takes one context away.
LEMMA ContextsRemove ==
    ASSUME TypeOK, NEW c \in Client, NEW h \in HwId, hw[c][h] # "free",
           hw' = [hw EXCEPT ![c][h] = "free"]
    PROVE  /\ Contexts' = Contexts \ {<<c, h>>}
           /\ Cardinality(Contexts') = Cardinality(Contexts) - 1
<1>1. Contexts' = Contexts \ {<<c, h>>}
  BY SMTT(60) DEF Contexts, TypeOK
<1>2. <<c, h>> \in Contexts
  BY DEF Contexts
<1> QED
  BY <1>1, <1>2, ContextsFinite, FS_RemoveElement, Zenon

\* Opening and closing CUs leaves the contexts that there are.
LEMMA ContextsKept ==
    ASSUME TypeOK,
           \A d \in Client, g \in HwId : hw'[d][g] = "free" <=> hw[d][g] = "free"
    PROVE  Contexts' = Contexts
  BY SMTT(60) DEF Contexts

\* icap_unlock_bitstream() of a context that is open gives back one reference.
LEMMA UnlockOne ==
    ASSUME TypeOK, RefOK, NEW c \in Client, NEW h \in HwId, hw[c][h] # "free",
           UnlockBitstream(c, h)
    PROVE  ref' = ref - 1
<1>1. <<c, h>> \in Contexts
  BY DEF Contexts
<1>2. busy = None /\ loaded # None /\ <<c, h>> \notin dangling
  BY <1>1 DEF RefOK
<1> QED
  BY <1>2, SMTT(60) DEF UnlockBitstream

\* From the lock test that let it pass on, a download sees no context.
LEMMA NoneWhileLoading ==
    ASSUME RefOK, NEW c \in Client, pc[c] \in Loading
    PROVE  Contexts = {} /\ ref = 0
  BY FS_EmptySet DEF RefOK

\* A step of the ioctl that only moves on, and not into a download.
LEMMA RefQuiet ==
    ASSUME RefOK, UNCHANGED <<loaded, ref, busy, hw, dangling>>,
           \A d \in Client : pc'[d] \in Loading => pc[d] \in Loading
    PROVE  RefOK'
<1>1. Contexts' = Contexts
  BY DEF Contexts
<1> QED
  BY <1>1 DEF RefOK

\* With serial clients that close CUs before they destroy a context, every step
\* keeps the count of the bitstream, and loads only where there is no context.
LEMMA RefStep ==
    ASSUME serial, early' = 0, TypeOK, SerialOK, RefOK,
           NEW c \in Client, Step(c) \/ Call(c)
    PROVE  RefOK'
<1> DEFINE Quiet ==
      /\ UNCHANGED <<loaded, ref, busy, hw, dangling>>
      /\ \A d \in Client : pc'[d] \in Loading => pc[d] \in Loading
<1>1. ASSUME NEW force \in BOOLEAN, Resolve(c, force) PROVE RefOK'
  <2>1. UNCHANGED <<loaded, ref, busy, hw, dangling>>
    BY <1>1, Zenon DEF Resolve, slot
  <2>2. CASE ref = 0
    <3>1. Contexts = {} /\ Contexts' = {}
      BY <2>1, <2>2, ContextsFinite, FS_EmptySet DEF RefOK, Contexts
    <3> QED
      BY <2>1, <2>2, <3>1, FS_EmptySet DEF RefOK
  <2>3. CASE ref # 0
    <3>1. \A d \in Client : pc'[d] \in Loading => pc[d] \in Loading
      BY <1>1, <2>3, SMTT(60) DEF Resolve, Fail, Goto, TypeOK, Loading, Holding
    <3> QED
      BY <2>1, <3>1, RefQuiet
  <2> QED
    BY <2>2, <2>3
<1>2. ASSUME SlotInit(c) PROVE RefOK'
  <2>1. Contexts = {} /\ ref = 0
    BY <1>2, NoneWhileLoading DEF SlotInit, Loading, Holding
  <2>2. hw' = hw /\ ref' = 0 /\ dangling' = {}
    BY <1>2, <2>1 DEF SlotInit, RefOK
  <2>3. Contexts' = {}
    BY <2>1, <2>2 DEF Contexts
  <2> QED
    BY <2>2, <2>3, FS_EmptySet DEF RefOK
<1>3. ASSUME WrLock(c) PROVE RefOK'
  <2>1. Contexts = {} /\ ref = 0
    BY <1>3, NoneWhileLoading DEF WrLock, Loading, Holding
  <2>2. hw' = hw /\ ref' = 0 /\ dangling' = {}
    BY <1>3, <2>1 DEF WrLock, RefOK
  <2>3. Contexts' = {}
    BY <2>1, <2>2 DEF Contexts
  <2> QED
    BY <2>2, <2>3, FS_EmptySet DEF RefOK
<1>4. ASSUME Load(c) PROVE RefOK'
  <2>1. Contexts = {} /\ ref = 0
    BY <1>4, NoneWhileLoading DEF Load, Loading, Holding
  <2>2. hw' = hw /\ ref' = 0 /\ dangling' = {}
    BY <1>4, <2>1 DEF Load, RefOK
  <2>3. Contexts' = {}
    BY <2>1, <2>2 DEF Contexts
  <2> QED
    BY <2>2, <2>3, FS_EmptySet DEF RefOK
<1>5. ASSUME WrUnlock(c) PROVE RefOK'
  <2>1. Contexts = {} /\ ref = 0
    BY <1>5, NoneWhileLoading DEF WrUnlock, Loading, Holding
  <2>2. hw' = hw /\ ref' = 0 /\ dangling' = {}
    BY <1>5, <2>1 DEF WrUnlock, RefOK
  <2>3. Contexts' = {}
    BY <2>1, <2>2 DEF Contexts
  <2> QED
    BY <2>2, <2>3, FS_EmptySet DEF RefOK
<1>6. ASSUME Update(c) PROVE RefOK'
  <2>1. Contexts = {} /\ ref = 0
    BY <1>6, NoneWhileLoading DEF Update, Loading, Holding
  <2>2. hw' = hw /\ ref' = 0 /\ dangling' = {}
    BY <1>6, <2>1 DEF Update, RefOK
  <2>3. Contexts' = {}
    BY <2>1, <2>2 DEF Contexts
  <2> QED
    BY <2>2, <2>3, FS_EmptySet DEF RefOK
<1>7. ASSUME LockBitstream(c) PROVE RefOK'
  <2>0. /\ pc' = [pc EXCEPT ![c] = "putid"] /\ dangling' = dangling
        /\ busy' = busy /\ loaded' = loaded
    BY <1>7, Zenon DEF LockBitstream, Goto
  <2>1. \A d \in Client : pc'[d] \notin Loading
    BY <1>7, <2>0, SMTT(60)
    DEF LockBitstream, SerialOK, Apart, Creating, Loading, Holding, TypeOK
  <2>2. CASE ref' = ref /\ hw' = hw
    <3>1. Contexts' = Contexts
      BY <2>2 DEF Contexts
    <3> QED
      BY <2>0, <2>1, <2>2, <3>1 DEF RefOK
  <2>3. ASSUME NEW h \in HwId, hw[c][h] = "free", busy = None, loaded # None,
               ref' = ref + 1, hw' = [hw EXCEPT ![c][h] = "open"]
        PROVE  RefOK'
    <3>1. Cardinality(Contexts') = Cardinality(Contexts) + 1
      BY <2>3, ContextsAdd
    <3> QED
      BY <2>0, <2>1, <2>3, <3>1 DEF RefOK
  <2> QED
    BY <1>7, <2>2, <2>3, Zenon DEF LockBitstream
<1>8. ASSUME NEW h \in HwId, ExitHwCtx(c, h) PROVE RefOK'
  <2>1. /\ hw[c][h] # "free" /\ UnlockBitstream(c, h)
        /\ hw' = [hw EXCEPT ![c][h] = "free"] /\ dangling' = dangling \ {<<c, h>>}
        /\ busy' = busy /\ loaded' = loaded /\ pc' = pc
    BY <1>8, SMTT(60) DEF ExitHwCtx
  <2>2. /\ Contexts' = Contexts \ {<<c, h>>}
        /\ Cardinality(Contexts') = Cardinality(Contexts) - 1
    BY <2>1, ContextsRemove
  <2>3. ref' = ref - 1
    BY <2>1, UnlockOne
  <2> QED
    BY <2>1, <2>2, <2>3 DEF RefOK
<1>9. ASSUME NEW h \in HwId, OpenCu(c, h) PROVE RefOK'
  <2>1. /\ ref' = ref /\ dangling' = dangling /\ busy' = busy /\ loaded' = loaded
        /\ pc' = pc
    BY <1>9, Zenon DEF OpenCu, slot
  <2>2. Contexts' = Contexts
    BY <1>9, ContextsKept, SMTT(60) DEF OpenCu, TypeOK
  <2> QED
    BY <2>1, <2>2 DEF RefOK
<1>10. ASSUME NEW h \in HwId, CloseCu(c, h) PROVE RefOK'
  <2>1. /\ ref' = ref /\ dangling' = dangling /\ busy' = busy /\ loaded' = loaded
        /\ pc' = pc
    BY <1>10, Zenon DEF CloseCu, slot
  <2>2. Contexts' = Contexts
    BY <1>10, ContextsKept, SMTT(60) DEF CloseCu, TypeOK
  <2> QED
    BY <2>1, <2>2 DEF RefOK
<1>11. ASSUME NEW h \in HwId, DestroyHwCtx(c, h) PROVE RefOK'
  <2>1. /\ hw[c][h] # "free" /\ UnlockBitstream(c, h)
        /\ hw' = [hw EXCEPT ![c][h] = "free"] /\ dangling' = dangling \ {<<c, h>>}
        /\ busy' = busy /\ loaded' = loaded /\ pc' = pc
    BY <1>11, SMTT(60) DEF DestroyHwCtx, TypeOK
  <2>2. /\ Contexts' = Contexts \ {<<c, h>>}
        /\ Cardinality(Contexts') = Cardinality(Contexts) - 1
    BY <2>1, ContextsRemove
  <2>3. ref' = ref - 1
    BY <2>1, UnlockOne
  <2> QED
    BY <2>1, <2>2, <2>3 DEF RefOK
<1>12. ASSUME Exit(c) PROVE RefOK'
  <2>1. /\ ref' = ref /\ dangling' = dangling /\ busy' = busy /\ loaded' = loaded
        /\ pc' = [pc EXCEPT ![c] = "exit"]
    BY <1>12, Zenon DEF Exit, Goto, slot
  <2>2. Contexts' = Contexts
    BY <1>12, ContextsKept, SMTT(60) DEF Exit, TypeOK
  <2> QED
    BY <2>1, <2>2, SMTT(60) DEF RefOK, TypeOK, Loading, Holding
<1> USE DEF Goto, Fail, TypeOK, Loading, Holding, slot
<1>13. ASSUME Prepare(c) PROVE Quiet
  BY <1>13, SMTT(60) DEF Prepare
<1>14. ASSUME WrLockWait(c) PROVE Quiet
  BY <1>14, SMTT(60) DEF WrLockWait
<1>15. ASSUME WrLockInterrupted(c) PROVE Quiet
  BY <1>15, SMTT(60) DEF WrLockInterrupted
<1>16. ASSUME GetXclbinId(c) PROVE Quiet
  BY <1>16, SMTT(60) DEF GetXclbinId
<1>17. ASSUME PutXclbinId(c) PROVE Quiet
  BY <1>17, SMTT(60) DEF PutXclbinId
<1>18. ASSUME Exited(c) PROVE Quiet
  BY <1>18, SMTT(60) DEF Exited
<1>19. ASSUME NEW x \in Xclbin, CreateIoctl(c, x) PROVE Quiet
  BY <1>19, SMTT(60) DEF CreateIoctl
<1>20. ASSUME ReadMetadata(c) PROVE Quiet
  BY <1>20, SMTT(60) DEF ReadMetadata
<1> HIDE DEF Goto, Fail, TypeOK, Loading, Holding, slot
<1> QED
  BY <1>1, <1>2, <1>3, <1>4, <1>5, <1>6, <1>7, <1>8, <1>9, <1>10,
     <1>11, <1>12, <1>13, <1>14, <1>15, <1>16, <1>17, <1>18, <1>19, <1>20,
     HwAssumption, RefQuiet
  DEF Step, Call

-----------------------------------------------------------------------------
(* The invariant and what follows from it. *)

\* No step changes what kind of clients there are, or takes back an early destroy.
LEMMA EnvStep ==
    ASSUME TypeOK, NEW c \in Client, Step(c) \/ Call(c)
    PROVE  serial' = serial /\ (early' = 0 => early = 0)
<1>1. CASE \E h \in HwId : DestroyHwCtx(c, h)
  BY <1>1, SMTT(60) DEF DestroyHwCtx, TypeOK
<1>2. CASE ~ \E h \in HwId : DestroyHwCtx(c, h)
  <2>1. env' = env
    BY <1>2, ZenonT(60)
    DEF Step, Call, Resolve, Prepare, SlotInit, WrLock, WrLockWait, Load,
        WrUnlock, Update, GetXclbinId, LockBitstream, PutXclbinId, ExitHwCtx,
        Exited, CreateIoctl, OpenCu, CloseCu, ReadMetadata, Exit,
        WrLockInterrupted
  <2> QED
    BY <2>1 DEF env
<1> QED
  BY <1>1, <1>2

\* A device whose slot is empty satisfies the invariant.
LEMMA InitInvariant == Init => IInv
<1> SUFFICES ASSUME Init PROVE IInv
  OBVIOUS
<1>1. TypeOK
  BY HwAssumption, SMTT(60) DEF Init, TypeOK, Labels
<1>2. LockOK
  BY HwAssumption, SMTT(60) DEF Init, LockOK, Holding
<1>3. Reading = {} /\ Contexts = {}
  BY SMTT(60) DEF Init, Reading, Contexts
<1>4. Apart
  BY SMTT(60) DEF Init, Apart, Creating, Holding
<1>5. SerialOK
  BY <1>3, <1>4, FS_EmptySet DEF Init, SerialOK
<1>6. \A c \in Client : pc[c] \notin Loading
  BY SMTT(60) DEF Init, Loading, Holding
<1>7. RefOK
  BY <1>3, <1>6, FS_EmptySet DEF Init, RefOK
<1> QED
  BY <1>1, <1>2, <1>5, <1>7 DEF IInv

\* Every step of every client keeps the invariant.
LEMMA StepInvariant == IInv /\ [Next]_vars => IInv'
<1> SUFFICES ASSUME IInv, [Next]_vars PROVE IInv'
  OBVIOUS
<1>1. ASSUME NEW c \in Client, Step(c) \/ Call(c) PROVE IInv'
  <2>1. TypeOK' /\ LockOK'
    BY <1>1, TypeStep, LockStep DEF IInv
  <2>2. ASSUME serial' PROVE SerialOK'
    BY <1>1, <2>2, EnvStep, ApartStep, CountStep DEF IInv, SerialOK
  <2>3. ASSUME serial', early' = 0 PROVE RefOK'
    BY <1>1, <2>3, EnvStep, RefStep DEF IInv
  <2> QED
    BY <2>1, <2>2, <2>3 DEF IInv
<1>2. CASE UNCHANGED vars
  <2>1. UNCHANGED <<Reading, Contexts>>
    BY <1>2 DEF vars, Reading, Contexts
  <2> QED
    BY <1>2, <2>1
    DEF vars, IInv, TypeOK, LockOK, SerialOK, Apart, RefOK
<1> QED
  BY <1>1, <1>2 DEF Next

\* IInv holds in every reachable state.
THEOREM Invariant == Spec => []IInv
  BY InitInvariant, StepInvariant, PTL DEF Spec

\* The state of clients, contexts and slot keeps its types: reader_ref, which
\* icap_slot_init() zeroes and icap_xclbin_rd_unlock() decrements, is never
\* negative.
THEOREM TypeCorrect == Spec => []TypeOK
<1>1. IInv => TypeOK
  BY DEF IInv
<1> QED
  BY <1>1, Invariant, PTL

\* The thread past icap_xclbin_wr_lock() is the only one and the one that busy
\* names, so BUG_ON(busy != pid) never fires, whatever the clients do; with serial
\* clients nobody reads the slot metadata meanwhile.
THEOREM WriterIsAlone == Spec => []WriterAlone
<1>1. IInv => (Writing # {} => Writing = {busy})
  BY SMTT(60) DEF IInv, LockOK, Writing
<1>2. ASSUME IInv, serial, NEW c \in Writing, NEW d \in Reading PROVE FALSE
  BY <1>2, SMTT(60)
  DEF IInv, SerialOK, Apart, Creating, Holding, Writing, Reading
<1>3. IInv => WriterAlone
  BY <1>1, <1>2 DEF WriterAlone
<1> QED
  BY <1>3, Invariant, PTL

\* reader_ref is the number of threads that read slot metadata, with serial clients.
THEOREM ReadersAreCounted == Spec => []ReadersCounted
<1>1. IInv => ReadersCounted
  BY DEF IInv, SerialOK, ReadersCounted
<1> QED
  BY <1>1, Invariant, PTL

\* The reference count of the bitstream is the number of hardware contexts, with
\* serial clients that close the CUs of a context before they destroy it.
THEOREM RefIsContexts == Spec => []RefMatchesContexts
<1>1. IInv => RefMatchesContexts
  BY DEF IInv, RefOK, RefMatchesContexts
<1> QED
  BY <1>1, Invariant, PTL

\* The xclbin under an open context is neither replaced nor cleared, with the same
\* clients: the steps that write the uuid are those of a download.
THEOREM XclbinIsStable == Spec => SerialXclbinStable
<1> DEFINE Loads == \E c \in Client : SlotInit(c) \/ Load(c) \/ Update(c)
<1>1. ASSUME IInv, [Next]_vars, serial, early = 0, Contexts \cap Contexts' # {}
      PROVE  loaded' = loaded
  <2>1. ~ Loads
    <3>1. ASSUME NEW c \in Client, pc[c] \in Loading PROVE FALSE
      BY <1>1, <3>1, NoneWhileLoading DEF IInv
    <3> QED
      BY <3>1 DEF SlotInit, Load, Update, Loading, Holding
  <2>2. CASE UNCHANGED vars
    BY <2>2 DEF vars
  <2>3. CASE Next
    BY <2>1, <2>3, ZenonT(60)
    DEF Next, Step, Call, Resolve, Prepare, WrLock, WrLockWait, WrUnlock,
        GetXclbinId, LockBitstream, PutXclbinId, ExitHwCtx, Exited, CreateIoctl,
        OpenCu, CloseCu, DestroyHwCtx, ReadMetadata, Exit, WrLockInterrupted, slot
  <2> QED
    BY <1>1, <2>2, <2>3
<1>2. IInv /\ [Next]_vars
        => [serial /\ early = 0 /\ Contexts \cap Contexts' # {}
               => loaded' = loaded]_vars
  BY <1>1
<1> QED
  BY <1>2, Invariant, PTL DEF Spec, SerialXclbinStable
=============================================================================
