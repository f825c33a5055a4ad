------------------------------ MODULE HwContext ------------------------------
(***************************************************************************)
(* Hardware contexts and the lock they hold on the loaded xclbin: the      *)
(* user-function driver's xocl_ioctl.c and xocl_hwctx.c over the slot that *)
(* subdev/icap.c keeps.                                                    *)
(*                                                                         *)
(* Creating a hardware context is one ioctl in two halves.  The first      *)
(* half, under xdev->dev_lock, loads the requested xclbin unless the slot  *)
(* already holds it: it resolves the slot, looks whether a context holds   *)
(* the bitstream, renews the slot record (icap_slot_init), takes the       *)
(* slot's writer lock and downloads.  The second half, after dev_lock is   *)
(* released, reads the slot's uuid as a reader of the slot, allocates the  *)
(* context and adds a reference to the bitstream.  Every mutex-protected   *)
(* region is one action; what is between two regions is interleaved.       *)
(*                                                                         *)
(* One slot, one ioctl in flight per client.  What a download does to      *)
(* memory, subdevices and cached sections is reduced to whether it         *)
(* succeeds.                                                               *)
(***************************************************************************)
EXTENDS Integers, FiniteSets

CONSTANTS
    Client,      \* processes with the device open
    Xclbin,      \* xclbins they ask for
    HwId,        \* bound: hardware contexts a client holds at a time
    None,        \* null uuid, or no owner
    MayForce,    \* clients may set XOCL_AXLF_FORCE_PROGRAM
    Serial,      \* environments: whether clients are serial, see below
    MaxEarly     \* bound: destroys of a context whose CU contexts are open

ASSUME HwAssumption ==
    /\ None \notin Client \cup Xclbin
    /\ {MayForce} \cup Serial \subseteq BOOLEAN
    /\ MaxEarly \in Nat
    /\ IsFiniteSet(Client) /\ IsFiniteSet(HwId)

VARIABLES
    serial,    \* one client creates a context at a time, and no one reads slot
               \* metadata as it starts
    devLock,   \* holder of xdev->dev_lock
    loaded,    \* islot->icap_bitstream_uuid
    ref,       \* islot->icap_bitstream_ref
    busy,      \* islot->busy, the writer
    readers,   \* islot->reader_ref
    hw,        \* client -> context id -> "free", "open" or "used" (CUs open)
    dangling,  \* contexts whose xclbin_id points into a freed slot record
    early,     \* destroys of a context whose CU contexts were open
    want,      \* client -> xclbin of its create ioctl
    pc         \* client -> where its ioctl is

vars == <<serial, devLock, loaded, ref, busy, readers, hw, dangling, early, want, pc>>
env == <<serial, early>>
slot == <<loaded, ref, busy, readers>>

Contexts == {ch \in Client \X HwId : hw[ch[1]][ch[2]] # "free"}

Labels == {"idle", "check", "prepare", "init", "wrlock", "wait", "load",
           "loaded", "failed", "update", "getid", "lock", "putid", "read",
           "exit"}

\* Clients between icap_xclbin_rd_lock() and icap_xclbin_rd_unlock().
Reading == {c \in Client : pc[c] \in {"lock", "putid", "read"}}

\* The client between icap_xclbin_wr_lock() and icap_xclbin_wr_unlock().
Writing == {c \in Client : pc[c] \in {"load", "loaded", "failed"}}

Goto(c, label) == pc' = [pc EXCEPT ![c] = label]

Init ==
    /\ serial \in Serial
    /\ devLock = None
    /\ loaded = None
    /\ ref = 0
    /\ busy = None
    /\ readers = 0
    /\ hw = [c \in Client |-> [h \in HwId |-> "free"]]
    /\ dangling = {}
    /\ early = 0
    /\ want = [c \in Client |-> None]
    /\ pc = [c \in Client |-> "idle"]

-----------------------------------------------------------------------------
(* The first half: xocl_read_axlf_helper() under dev_lock. *)

CreateIoctl(c, x) ==
    /\ pc[c] = "idle"
    /\ devLock = None
    /\ \E h \in HwId : hw[c][h] = "free"
    /\ serial => \A d \in Client : pc[d] \in {"idle", "exit"}
    /\ devLock' = c
    /\ want' = [want EXCEPT ![c] = x]
    /\ Goto(c, "check")
    /\ UNCHANGED <<env, slot, hw, dangling>>

\* Leave the helper with an error.
Fail(c) ==
    /\ devLock' = None
    /\ Goto(c, "idle")

\* xclbin_downloaded(): the uuid is read as a reader of the slot, and a busy
\* slot counts as not loaded.
Downloaded(x) == busy = None /\ loaded = x

\* Resolve() with a test for a lock that is only made on a forced download.
ResolveUnlocked(c, force) ==
    /\ pc[c] = "check"
    /\ \/ /\ Downloaded(want[c])
          /\ force => ref # 0
          /\ devLock' = None
          /\ Goto(c, "getid")
       \/ /\ ~Downloaded(want[c]) \/ (force /\ ref = 0)
          /\ Goto(c, "prepare")
          /\ UNCHANGED devLock
    /\ UNCHANGED <<env, slot, hw, dangling, want>>

Resolve(c, force) ==
    /\ pc[c] = "check"
    /\ \/ /\ Downloaded(want[c])
          /\ force => ref # 0
          /\ devLock' = None
          /\ Goto(c, "getid")
       \/ /\ ~Downloaded(want[c]) /\ ref # 0
          /\ Fail(c)
       \/ /\ ref = 0
          /\ ~Downloaded(want[c]) \/ force
          /\ Goto(c, "prepare")
          /\ UNCHANGED devLock
    /\ UNCHANGED <<env, slot, hw, dangling, want>>

\* Memory still in use, a bad section or no memory for the cached axlf data
\* ends the ioctl here.
Prepare(c) ==
    /\ pc[c] = "prepare"
    /\ \/ Fail(c)
       \/ Goto(c, "init") /\ UNCHANGED devLock
    /\ UNCHANGED <<env, slot, hw, dangling, want>>

\* icap_slot_init() replaces the slot record by a zeroed one.
SlotInit(c) ==
    /\ pc[c] = "init"
    /\ loaded' = None
    /\ ref' = 0
    /\ busy' = None
    /\ readers' = 0
    /\ dangling' = Contexts
    /\ Goto(c, "wrlock")
    /\ UNCHANGED <<env, devLock, hw, want>>

WrLock(c) ==
    /\ pc[c] = "wrlock"
    /\ \/ /\ busy # None
          /\ Fail(c)
          /\ UNCHANGED busy
       \/ /\ busy = None
          /\ busy' = c
          /\ Goto(c, "wait")
          /\ UNCHANGED devLock
    /\ UNCHANGED <<env, loaded, ref, readers, hw, dangling, want>>

\* WrLockWait() that does not wait.
WrLockNoWait(c) ==
    /\ pc[c] = "wait"
    /\ Goto(c, "load")
    /\ UNCHANGED <<env, devLock, slot, hw, dangling, want>>

WrLockWait(c) ==
    /\ pc[c] = "wait"
    /\ readers = 0
    /\ Goto(c, "load")
    /\ UNCHANGED <<env, devLock, slot, hw, dangling, want>>

\* A signal ends the wait; busy stays set.
WrLockInterrupted(c) ==
    /\ pc[c] = "wait"
    /\ readers # 0
    /\ Fail(c)
    /\ UNCHANGED <<env, slot, hw, dangling, want>>

\* A failed download leaves the null uuid; a slot in use is left alone, and so
\* is the slot of an xclbin that does not fit the platform.
Load(c) ==
    /\ pc[c] = "load"
    /\ \/ /\ ref = 0
          /\ loaded' = want[c]
          /\ Goto(c, "loaded")
       \/ /\ ref = 0
          /\ loaded' = None
          /\ Goto(c, "failed")
       \/ /\ Goto(c, "failed")
          /\ UNCHANGED loaded
    /\ UNCHANGED <<env, devLock, ref, busy, readers, hw, dangling, want>>

WrUnlock(c) ==
    /\ pc[c] \in {"loaded", "failed"}
    /\ busy' = None
    /\ \/ pc[c] = "loaded" /\ Goto(c, "update") /\ UNCHANGED devLock
       \/ pc[c] = "failed" /\ Fail(c)
    /\ UNCHANGED <<env, loaded, ref, readers, hw, dangling, want>>

\* xocl_init_mem() may fail, and xocl_kds_update() may, which cleans the slot.
Update(c) ==
    /\ pc[c] = "update"
    /\ \/ devLock' = None /\ Goto(c, "getid") /\ UNCHANGED loaded
       \/ Fail(c) /\ UNCHANGED loaded
       \/ Fail(c) /\ loaded' = None
    /\ UNCHANGED <<env, ref, busy, readers, hw, dangling, want>>

-----------------------------------------------------------------------------
(* The second half: xocl_create_hw_context(), without dev_lock. *)

\* XOCL_GET_XCLBIN_ID(): become a reader of the slot.
GetXclbinId(c) ==
    /\ pc[c] = "getid"
    /\ \/ busy # None /\ Goto(c, "idle") /\ UNCHANGED readers
       \/ busy = None /\ Goto(c, "lock") /\ readers' = readers + 1
    /\ UNCHANGED <<env, devLock, loaded, ref, busy, hw, dangling, want>>

\* LockBitstream() that waits for the writer instead of failing.
LockBitstreamWaits(c) ==
    /\ pc[c] = "lock"
    /\ busy = None
    /\ \/ /\ loaded = None
          /\ UNCHANGED <<ref, hw>>
       \/ /\ loaded # None
          /\ ref' = ref + 1
          /\ \E h \in HwId : /\ hw[c][h] = "free"
                             /\ hw' = [hw EXCEPT ![c][h] = "open"]
    /\ Goto(c, "putid")
    /\ UNCHANGED <<env, devLock, loaded, busy, readers, dangling, want>>

\* icap_lock_bitstream() becomes a reader again, for as long as it takes to
\* add the reference.  When it fails the context just allocated is freed.
LockBitstream(c) ==
    /\ pc[c] = "lock"
    /\ \/ /\ busy # None \/ loaded = None
          /\ UNCHANGED <<ref, hw>>
       \/ /\ busy = None /\ loaded # None
          /\ ref' = ref + 1
          /\ \E h \in HwId : /\ hw[c][h] = "free"
                             /\ hw' = [hw EXCEPT ![c][h] = "open"]
    /\ Goto(c, "putid")
    /\ UNCHANGED <<env, devLock, loaded, busy, readers, dangling, want>>

\* An early return past PutXclbinId().
PutForgotten(c) ==
    /\ pc[c] \in {"putid", "read"}
    /\ Goto(c, "idle")
    /\ UNCHANGED <<env, devLock, slot, hw, dangling, want>>

\* BUG_ON(reader_ref == 0) stops a thread that is not counted.
PutXclbinId(c) ==
    /\ pc[c] \in {"putid", "read"}
    /\ readers # 0
    /\ readers' = readers - 1
    /\ Goto(c, "idle")
    /\ UNCHANGED <<env, devLock, loaded, ref, busy, hw, dangling, want>>

-----------------------------------------------------------------------------
(* Using and giving up a context, under the client's own lock. *)

\* Any other use of the slot's metadata: buffer creation, sysfs, CU lookup.
ReadMetadata(c) ==
    /\ pc[c] = "idle"
    /\ busy = None
    /\ serial => \A d \in Client : pc[d] \notin {"check", "prepare", "init"}
    /\ readers' = readers + 1
    /\ Goto(c, "read")
    /\ UNCHANGED <<env, devLock, loaded, ref, busy, hw, dangling, want>>

OpenCu(c, h) ==
    /\ pc[c] = "idle"
    /\ hw[c][h] = "open"
    /\ hw' = [hw EXCEPT ![c][h] = "used"]
    /\ UNCHANGED <<env, devLock, slot, dangling, want, pc>>

CloseCu(c, h) ==
    /\ pc[c] = "idle"
    /\ hw[c][h] = "used"
    /\ hw' = [hw EXCEPT ![c][h] = "open"]
    /\ UNCHANGED <<env, devLock, slot, dangling, want, pc>>

\* icap_unlock_bitstream() with the uuid the context points to: the slot's own,
\* so the comparison succeeds, or whatever a freed record now holds.  The
\* callers ignore its failure when the slot has a writer.
UnlockBitstream(c, h) ==
    LET id == IF <<c, h>> \in dangling THEN {"null", "same", "other"}
              ELSE IF loaded = None THEN {"null"} ELSE {"same"}
    IN \E u \in id :
          ref' = CASE busy # None \/ u = "other" -> ref
                   [] busy = None /\ u = "null"  -> 0
                   [] busy = None /\ u = "same"  -> ref - 1

\* xocl_destroy_hw_context(): kds_free_hw_ctx() refuses while CUs are open,
\* after the bitstream was unlocked.  The two calls are one step: only the
\* client itself, whose lock is held, sees its contexts.
DestroyHwCtx(c, h) ==
    /\ pc[c] = "idle"
    /\ hw[c][h] # "free"
    /\ UnlockBitstream(c, h)
    /\ \/ /\ hw[c][h] = "used"
          /\ early < MaxEarly
          /\ early' = early + 1
          /\ UNCHANGED <<hw, dangling>>
       \/ /\ hw[c][h] = "open"
          /\ hw' = [hw EXCEPT ![c][h] = "free"]
          /\ dangling' = dangling \ {<<c, h>>}
          /\ UNCHANGED early
    /\ UNCHANGED <<serial, devLock, loaded, busy, readers, want, pc>>

\* ExitHwCtx() without the unlock.
ExitKeepsLock(c, h) ==
    /\ pc[c] = "exit"
    /\ hw[c][h] = "open"
    /\ hw' = [hw EXCEPT ![c][h] = "free"]
    /\ dangling' = dangling \ {<<c, h>>}
    /\ UNCHANGED <<env, devLock, slot, want, pc>>

\* Exit() without kds_fini_client().
ExitKeepsCus(c) ==
    /\ pc[c] = "idle"
    /\ Goto(c, "exit")
    /\ UNCHANGED <<env, devLock, slot, hw, dangling, want>>

\* xocl_destroy_client(): kds_fini_client() closes the CU contexts, then each
\* hardware context left is unlocked and freed.
Exit(c) ==
    /\ pc[c] = "idle"
    /\ hw' = [hw EXCEPT ![c] = [h \in HwId |->
                IF hw[c][h] = "used" THEN "open" ELSE hw[c][h]]]
    /\ Goto(c, "exit")
    /\ UNCHANGED <<env, devLock, slot, dangling, want>>

ExitHwCtx(c, h) ==
    /\ pc[c] = "exit"
    /\ hw[c][h] = "open"
    /\ UnlockBitstream(c, h)
    /\ hw' = [hw EXCEPT ![c][h] = "free"]
    /\ dangling' = dangling \ {<<c, h>>}
    /\ UNCHANGED <<env, devLock, loaded, busy, readers, want, pc>>

\* The process is gone; its place may be taken by a new one.
Exited(c) ==
    /\ pc[c] = "exit"
    /\ \A h \in HwId : hw[c][h] = "free"
    /\ Goto(c, "idle")
    /\ UNCHANGED <<env, devLock, slot, hw, dangling, want>>

-----------------------------------------------------------------------------
\* A step of an ioctl or of an exit that has begun, signals aside.
Step(c) ==
    \/ \E force \in {FALSE, MayForce} : Resolve(c, force)
    \/ Prepare(c) \/ SlotInit(c)
    \/ WrLock(c) \/ WrLockWait(c)
    \/ Load(c) \/ WrUnlock(c) \/ Update(c)
    \/ GetXclbinId(c) \/ LockBitstream(c) \/ PutXclbinId(c)
    \/ \E h \in HwId : ExitHwCtx(c, h)
    \/ Exited(c)

\* What a client may start, or not, as it likes; and a signal it may receive.
Call(c) ==
    \/ \E x \in Xclbin : CreateIoctl(c, x)
    \/ \E h \in HwId : OpenCu(c, h) \/ CloseCu(c, h) \/ DestroyHwCtx(c, h)
    \/ ReadMetadata(c)
    \/ Exit(c)
    \/ WrLockInterrupted(c)

Next == \E c \in Client : Step(c) \/ Call(c)

\* A thread inside the driver keeps running.
Spec == Init /\ [][Next]_vars /\ \A c \in Client : WF_vars(Step(c))

-----------------------------------------------------------------------------
(* Properties. *)

TypeOK ==
    /\ devLock \in Client \cup {None}
    /\ loaded \in Xclbin \cup {None}
    /\ ref \in Int
    /\ busy \in Client \cup {None}
    /\ readers \in Nat
    /\ hw \in [Client -> [HwId -> {"free", "open", "used"}]]
    /\ dangling \subseteq Client \X HwId
    /\ early \in 0 .. MaxEarly
    /\ want \in [Client -> Xclbin \cup {None}]
    /\ pc \in [Client -> Labels]

\* The reference count of the bitstream is the number of hardware contexts:
\* what xocl_create_hw_context() locked is what is still to be unlocked, on
\* every path through downloads, failed creations, destroys and exits, with
\* serial clients that close the CUs of a context before they destroy it.
RefMatchesContexts == serial /\ early = 0 => ref = Cardinality(Contexts)

\* While a hardware context is open no other client's ioctl, however far along,
\* replaces or clears the xclbin it was created on.
LockedXclbinStable == [][Contexts \cap Contexts' # {} => loaded' = loaded]_vars

\* The same of serial clients that close the CUs of a context before they
\* destroy it.
SerialXclbinStable ==
    [][serial /\ early = 0 /\ Contexts \cap Contexts' # {} => loaded' = loaded]_vars

\* reader_ref counts exactly the threads that are reading slot metadata, so no
\* thread trips BUG_ON(reader_ref == 0) on its way out, with serial clients.
ReadersCounted == serial => readers = Cardinality(Reading)

\* One download at a time: the thread past icap_xclbin_wr_lock() is the one that
\* busy names, although slot records come and go under it, so that
\* BUG_ON(busy != pid) in icap_xclbin_wr_unlock() never fires; and, with serial
\* clients, nobody reads the slot's metadata until it unlocks.
WriterAlone ==
    Writing # {} => Writing = {busy} /\ (serial => Reading = {})

\* A download gives dev_lock back: a writer waiting for readers and a reader
\* that locks the slot a second time in icap_lock_bitstream() do not wait for
\* each other, even when the slot record was replaced between the two.
DevLockReleased == \A c \in Client : devLock = c ~> devLock # c

\* Every ioctl, metadata read and exit returns, with serial clients.
IoctlReturns == \A c \in Client : serial /\ pc[c] # "idle" ~> pc[c] = "idle"

-----------------------------------------------------------------------------
(* The inductive invariant behind the properties above. *)

\* Where a create ioctl holds dev_lock, and where it may load, from the lock test
\* that found no context to the end of the download.
Holding == {"check", "prepare", "init", "wrlock", "wait", "load", "loaded",
            "failed", "update"}
Loading == Holding \ {"check"}
Creating == Holding \cup {"getid", "lock", "putid"}

LockOK ==
    /\ \A c \in Client : pc[c] \in Holding <=> devLock = c
    /\ \A c \in Client : pc[c] \in {"wait", "load", "loaded", "failed"} => busy = c

\* One client creates at a time, and nobody reads the slot record that it is
\* about to replace or writes.
Apart ==
    /\ \A c, d \in Client : pc[c] \in Creating /\ pc[d] \in Creating => c = d
    /\ \A c, d \in Client :
          pc[c] \in {"check", "prepare", "init", "load", "loaded", "failed"}
             => pc[d] # "read"

SerialOK == Apart /\ readers = Cardinality(Reading)

\* There are no contexts while one client loads or the slot is left busy.
RefOK ==
    /\ ref = Cardinality(Contexts)
    /\ dangling = {}
    /\ Contexts # {} => busy = None /\ loaded # None
    /\ \A c \in Client : pc[c] \in Loading => Contexts = {}

\* One thread at a time is between icap_xclbin_wr_lock() and its unlock, the
\* readers are those counted, and a bitstream with contexts is neither busy nor
\* about to be replaced.
IInv ==
    /\ TypeOK /\ LockOK
    /\ serial => SerialOK
    /\ serial /\ early = 0 => RefOK
=============================================================================
