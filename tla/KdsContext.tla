----------------------------- MODULE KdsContext -----------------------------
(***************************************************************************)
(* Who may use a compute unit (CU): the CU contexts of the kernel driver   *)
(* scheduler (KDS), kds_core.c and kds_hwctx.c, as the open and close      *)
(* ioctls of xocl_hwctx.c and the exit of a client drive them.             *)
(*                                                                         *)
(* A client opens a CU under one of its hardware contexts, shared or       *)
(* exclusive.  Three counts change, under three different locks:           *)
(*   cu_ctx->ref_cnt  opens of this CU context, under client->lock, which  *)
(*                    a client holds for the whole ioctl;                  *)
(*   refcnt->cu_refs  opens by this client, under refcnt->lock; it is what *)
(*                    the submit path reads, without client->lock;         *)
(*   cu_mgmt->cu_refs clients sharing the CU, or the exclusive bit, under  *)
(*                    cu_mgmt->lock, shared by all clients.                *)
(* An open or a close is one action for each region of the last two locks. *)
(* What a close does about outstanding commands is in module KdsDrain.     *)
(***************************************************************************)
EXTENDS Naturals, FiniteSets

CONSTANTS
    Client,
    HwCtx,     \* hardware contexts of a client
    CU,
    Reopen,    \* environment: CUs whose contexts are opened while they are open
    MaxRefs,   \* bound on refs[c][u]
    MaxShare   \* bound on share[u]

ASSUME KdsAssumption ==
    /\ IsFiniteSet(Client) /\ IsFiniteSet(HwCtx)
    /\ Reopen \subseteq CU
    /\ MaxRefs \in Nat /\ MaxShare \in Nat

VARIABLES
    mode,     \* client, hw ctx, CU -> cu_ctx->flags, "none" when there is none
    cnt,      \* client, hw ctx, CU -> cu_ctx->ref_cnt
    refs,     \* client, CU -> client->refcnt->cu_refs
    share,    \* CU -> cu_mgmt->cu_refs without the exclusive bit
    exclu,    \* CU -> cu_mgmt->cu_refs & CU_EXCLU_MASK
    op,       \* client -> the ioctl that holds client->lock
    exiting   \* client -> the process is in kds_fini_client()

vars == <<mode, cnt, refs, share, exclu, op, exiting>>

NoOp == [at |-> "idle"]
Ops == [at : {"reserve", "undo", "release"}, h : HwCtx, u : CU, prev : Nat]

Init ==
    /\ mode = [c \in Client |-> [h \in HwCtx |-> [u \in CU |-> "none"]]]
    /\ cnt = [c \in Client |-> [h \in HwCtx |-> [u \in CU |-> 0]]]
    /\ refs = [c \in Client |-> [u \in CU |-> 0]]
    /\ share = [u \in CU |-> 0]
    /\ exclu = [u \in CU |-> FALSE]
    /\ op = [c \in Client |-> NoOp]
    /\ exiting = [c \in Client |-> FALSE]

-----------------------------------------------------------------------------
(* xocl_open_cu_context(), kds_add_context(), kds_add_cu_context(). *)

\* A variant: the client marks the CU as open instead of counting the open.
OpenMarks(c, h, u, flags) ==
    /\ op[c] = NoOp /\ ~exiting[c]
    /\ mode[c][h][u] # "none" => u \in Reopen
    /\ refs[c][u] < MaxRefs /\ share[u] < MaxShare
    /\ mode' = [mode EXCEPT ![c][h][u] = IF @ = "none" THEN flags ELSE @]
    /\ refs' = [refs EXCEPT ![c][u] = 1]
    /\ op' = [op EXCEPT ![c] = [at |-> "reserve", h |-> h, u |-> u,
                                prev |-> refs[c][u]]]
    /\ UNCHANGED <<cnt, share, exclu, exiting>>

\* The CU context is found, with the flags of its first open, or allocated;
\* then the client counts the open.
Open(c, h, u, flags) ==
    /\ op[c] = NoOp /\ ~exiting[c]
    /\ mode[c][h][u] # "none" => u \in Reopen
    /\ refs[c][u] < MaxRefs /\ share[u] < MaxShare
    /\ mode' = [mode EXCEPT ![c][h][u] = IF @ = "none" THEN flags ELSE @]
    /\ refs' = [refs EXCEPT ![c][u] = @ + 1]
    /\ op' = [op EXCEPT ![c] = [at |-> "reserve", h |-> h, u |-> u,
                                prev |-> refs[c][u]]]
    /\ UNCHANGED <<cnt, share, exclu, exiting>>

\* A variant: an exclusive open does not look at the sharers.
TakenByOwner(m, u) == exclu[u] /\ m \in {"shared", "exclusive"}

\* The CU is exclusive already, or shared and wanted exclusively.
Taken(m, u) == exclu[u] \/ (m = "exclusive" /\ share[u] # 0)

Reserve(c) ==
    /\ op[c].at = "reserve"
    /\ LET h == op[c].h
           u == op[c].u
           m == mode[c][h][u]
       IN /\ ~Taken(m, u)
          /\ exclu' = [exclu EXCEPT ![u] = (m = "exclusive")]
          /\ share' = [share EXCEPT ![u] =
                         IF m # "exclusive" /\ op[c].prev = 0 THEN @ + 1 ELSE @]
          /\ cnt' = [cnt EXCEPT ![c][h][u] = @ + 1]
    /\ op' = [op EXCEPT ![c] = NoOp]
    /\ UNCHANGED <<mode, refs, exiting>>

ReserveBusy(c) ==
    /\ op[c].at = "reserve"
    /\ Taken(mode[c][op[c].h][op[c].u], op[c].u)
    /\ op' = [op EXCEPT ![c].at = "undo"]
    /\ UNCHANGED <<mode, cnt, refs, share, exclu, exiting>>

\* A variant: the failed open keeps the client's count.
UndoCounted(c) ==
    /\ op[c].at = "undo"
    /\ mode' = [mode EXCEPT ![c][op[c].h][op[c].u] =
                   IF cnt[c][op[c].h][op[c].u] = 0 THEN "none" ELSE @]
    /\ op' = [op EXCEPT ![c] = NoOp]
    /\ UNCHANGED <<cnt, refs, share, exclu, exiting>>

\* The failed open gives the client's count back, and kds_free_cu_ctx() drops
\* the CU context unless an earlier open still uses it.
Undo(c) ==
    /\ op[c].at = "undo"
    /\ LET h == op[c].h
           u == op[c].u
       IN /\ refs' = [refs EXCEPT ![c][u] = @ - 1]
          /\ mode' = [mode EXCEPT ![c][h][u] =
                        IF cnt[c][h][u] = 0 THEN "none" ELSE @]
    /\ op' = [op EXCEPT ![c] = NoOp]
    /\ UNCHANGED <<cnt, share, exclu, exiting>>

-----------------------------------------------------------------------------
(* xocl_close_cu_context(), kds_del_context(), kds_del_cu_context(). *)

\* Another open of the same CU context is left.
CloseNested(c, h, u) ==
    /\ op[c] = NoOp
    /\ cnt[c][h][u] > 1
    /\ cnt' = [cnt EXCEPT ![c][h][u] = @ - 1]
    /\ UNCHANGED <<mode, refs, share, exclu, op, exiting>>

CloseLast(c, h, u) ==
    /\ op[c] = NoOp
    /\ cnt[c][h][u] = 1
    /\ refs[c][u] > 0
    /\ cnt' = [cnt EXCEPT ![c][h][u] = 0]
    /\ refs' = [refs EXCEPT ![c][u] = @ - 1]
    /\ op' = [op EXCEPT ![c] = [at |-> "release", h |-> h, u |-> u,
                                prev |-> refs[c][u]]]
    /\ UNCHANGED <<mode, share, exclu, exiting>>

\* A variant: every close takes a sharer, not only the client's last.
ReleaseEvery(c) ==
    /\ op[c].at = "release"
    /\ LET h == op[c].h
           u == op[c].u
       IN /\ exclu' = [exclu EXCEPT ![u] = FALSE]
          /\ share' = [share EXCEPT ![u] = IF exclu[u] THEN 0 ELSE @ - 1]
          /\ mode' = [mode EXCEPT ![c][h][u] = "none"]
    /\ op' = [op EXCEPT ![c] = NoOp]
    /\ UNCHANGED <<cnt, refs, exiting>>

\* A variant: the exclusive bit outlives its owner.
ReleaseShared(c) ==
    /\ op[c].at = "release"
    /\ LET h == op[c].h
           u == op[c].u
       IN /\ share' = [share EXCEPT ![u] = IF ~exclu[u] /\ op[c].prev = 1
                                           THEN @ - 1 ELSE @]
          /\ mode' = [mode EXCEPT ![c][h][u] = "none"]
    /\ op' = [op EXCEPT ![c] = NoOp]
    /\ UNCHANGED <<cnt, refs, exclu, exiting>>

\* Commands are drained by now.
Release(c) ==
    /\ op[c].at = "release"
    /\ LET h == op[c].h
           u == op[c].u
       IN /\ exclu' = [exclu EXCEPT ![u] = FALSE]
          /\ share' = [share EXCEPT ![u] = IF exclu[u] THEN 0
                                           ELSE IF op[c].prev = 1 THEN @ - 1
                                           ELSE @]
          /\ mode' = [mode EXCEPT ![c][h][u] = "none"]
    /\ op' = [op EXCEPT ![c] = NoOp]
    /\ UNCHANGED <<cnt, refs, exiting>>

-----------------------------------------------------------------------------
(* kds_fini_client(): every open CU context is closed, one close at a time, *)
(* then the client's counts are cleared.                                    *)

Exit(c) ==
    /\ op[c] = NoOp /\ ~exiting[c]
    /\ exiting' = [exiting EXCEPT ![c] = TRUE]
    /\ UNCHANGED <<mode, cnt, refs, share, exclu, op>>

ExitDone(c) ==
    /\ op[c] = NoOp /\ exiting[c]
    /\ \A h \in HwCtx, u \in CU : mode[c][h][u] = "none"
    /\ refs' = [refs EXCEPT ![c] = [u \in CU |-> 0]]
    /\ exiting' = [exiting EXCEPT ![c] = FALSE]
    /\ UNCHANGED <<mode, cnt, share, exclu, op>>

-----------------------------------------------------------------------------
Next ==
    \E c \in Client :
       \/ \E h \in HwCtx, u \in CU :
             \/ \E flags \in {"shared", "exclusive"} : Open(c, h, u, flags)
             \/ CloseNested(c, h, u)
             \/ CloseLast(c, h, u)
       \/ Reserve(c) \/ ReserveBusy(c) \/ Undo(c) \/ Release(c)
       \/ Exit(c) \/ ExitDone(c)

Spec == Init /\ [][Next]_vars

-----------------------------------------------------------------------------
(* Properties. *)

TypeOK ==
    /\ mode \in [Client -> [HwCtx -> [CU -> {"none", "shared", "exclusive"}]]]
    /\ cnt \in [Client -> [HwCtx -> [CU -> Nat]]]
    /\ refs \in [Client -> [CU -> Nat]]
    /\ share \in [CU -> Nat]
    /\ exclu \in [CU -> BOOLEAN]
    /\ op \in [Client -> {NoOp} \cup Ops]
    /\ exiting \in [Client -> BOOLEAN]

\* A client is the exclusive user of a CU under a hardware context.
Owns(c, h, u) == cnt[c][h][u] > 0 /\ mode[c][h][u] = "exclusive"

\* A CU held exclusively is open nowhere else: not by another client, not by
\* the same client under another hardware context, however opens and closes of
\* kds_add_cu_context() and kds_del_cu_context() interleave.
Exclusive ==
    \A c, d \in Client, h, g \in HwCtx, u \in CU :
        Owns(c, h, u) /\ cnt[d][g][u] > 0 => c = d /\ h = g

\* A close finds the client's count set: kds_del_cu_context() never meets its
\* "has never been reserved" error with a CU context that is open.
OpenIsCounted ==
    \A c \in Client, h \in HwCtx, u \in CU : cnt[c][h][u] > 0 => refs[c][u] > 0

\* kds_map_cu_addr(), called under client->lock, tests "this client counts the
\* CU" and "someone has it exclusively" apart; together they mean that this
\* client has it exclusively.
MayMap(c, u) == op[c] = NoOp /\ refs[c][u] > 0 /\ exclu[u]
MapOnlyByOwner ==
    \A c \in Client, u \in CU : MayMap(c, u) => \E h \in HwCtx : Owns(c, h, u)

\* A CU that no client has open, nor is about to open or close, is free: no
\* count and no exclusive bit is left behind.
Unused(u) ==
    \A c \in Client : /\ op[c] # NoOp => op[c].u # u
                      /\ \A h \in HwCtx : mode[c][h][u] = "none"
Free(u) == share[u] = 0 /\ ~exclu[u] /\ \A c \in Client : refs[c][u] = 0

\* After any history of opens, failed opens, closes and exits, of several
\* clients and under several hardware contexts, a CU that nobody has open can be
\* reserved by anyone, if no CU context was opened while it was open.
NothingLeaks == \A u \in CU \ Reopen : Unused(u) => Free(u)

\* The same for all CUs: closing a CU context as often as it was opened ends the
\* client's use of the CU.
EveryCloseCounts == \A u \in CU : Unused(u) => Free(u)

-----------------------------------------------------------------------------
(* The inductive invariants behind the properties above. *)

\* A CU context that is open, or whose last close has not released the CU yet.
Active(c, h, u) ==
    \/ cnt[c][h][u] > 0
    \/ op[c].at = "release" /\ op[c].h = h /\ op[c].u = u

ActiveCtx(c, u) == {h \in HwCtx : Active(c, h, u)}

\* The client's count without the open or the close under way.
Settled(c, u) ==
    IF op[c].at \in {"reserve", "undo"} /\ op[c].u = u THEN refs[c][u] - 1
    ELSE IF op[c].at = "release" /\ op[c].u = u THEN refs[c][u] + 1
    ELSE refs[c][u]

Excludes(c, h, u) == Active(c, h, u) /\ mode[c][h][u] = "exclusive"

Sharers(u) ==
    {c \in Client : Settled(c, u) > 0 /\ \A h \in HwCtx : ~Excludes(c, h, u)}

\* What an ioctl remembers is still so, whatever other clients did meanwhile.
OpOK(c) ==
    op[c] # NoOp =>
       /\ op[c].prev = Settled(c, op[c].u)
       /\ op[c].at \in {"reserve", "undo"} => refs[c][op[c].u] > 0
       /\ op[c].at = "release" => cnt[c][op[c].h][op[c].u] = 0
       /\ mode[c][op[c].h][op[c].u] # "none"

OpsOK ==
    /\ \A c \in Client : OpOK(c)
    /\ \A c \in Client, h \in HwCtx, u \in CU :
          cnt[c][h][u] > 0 => mode[c][h][u] # "none"

\* A client counts at least its active contexts; cu_refs counts at least the
\* sharing clients; an exclusive context is its client's only one and sets the
\* bit; the bit and the count exclude each other.
CountsOK ==
    /\ \A c \in Client, u \in CU : Cardinality(ActiveCtx(c, u)) <= Settled(c, u)
    /\ \A u \in CU : Cardinality(Sharers(u)) <= share[u]
    /\ \A c \in Client, h \in HwCtx, u \in CU :
          Excludes(c, h, u) => exclu[u] /\ Settled(c, u) = 1
    /\ \A c, d \in Client, h, g \in HwCtx, u \in CU :
          Excludes(c, h, u) /\ Excludes(d, g, u) => c = d
    /\ \A u \in CU : exclu[u] => share[u] = 0

IInv == TypeOK /\ OpsOK /\ CountsOK

\* For NothingLeaks the counts must be exact.  They are where no CU context is
\* opened while it is open: the client counts its active contexts, cu_refs counts
\* the sharing clients, and the exclusive bit has an owner.
Once == CU \ Reopen

FirstOpen(c) ==
    op[c].at \in {"reserve", "undo"} /\ op[c].u \in Once =>
        cnt[c][op[c].h][op[c].u] = 0

Exact ==
    /\ \A c \in Client : FirstOpen(c)
    /\ \A c \in Client, u \in Once : Settled(c, u) = Cardinality(ActiveCtx(c, u))
    /\ \A u \in Once : share[u] = Cardinality(Sharers(u))
    /\ \A u \in Once :
          exclu[u] => \E c \in Client, h \in HwCtx : Excludes(c, h, u)

ExactInv == IInv /\ Exact

=============================================================================
