------------------------------ MODULE KdsDrain ------------------------------
(***************************************************************************)
(* Clients submit commands to a CU and close it: kds_cu_dispatch() and     *)
(* kds_del_cu_context() of kds_core.c around the CU of module XrtCu.       *)
(*                                                                         *)
(* Submission and close meet in three words: the client's context count of *)
(* the CU and its counters s_cnt and c_cnt.  A submitter counts itself in  *)
(* s_cnt and then looks again whether the CU is open; close gives the CU   *)
(* up and then compares the counters.  Commands may be submitted by        *)
(* several threads, while one of them closes the CU; the close calls of a  *)
(* client are serialised by its lock.                                      *)
(*                                                                         *)
(* One CU, one context of it per client, KDS mode without ERT; abort       *)
(* commands are in XrtCu only.  s_cnt and c_cnt, sums over the CPUs, are   *)
(* read and compared in one step.                                          *)
(***************************************************************************)
EXTENDS XrtCu

CONSTANTS
    Polls,       \* reads of the counters in 2000 ms, one per 500 ms
    MaxCloses    \* bound: client -> times it closes the CU

ASSUME DrainAssumption == Polls \in Nat \ {0} /\ MaxCloses \in [Client -> Nat]

VARIABLES
    open,        \* client -> whether its context count of the CU is not zero
    closes,      \* client -> times it closed the CU
    close,       \* client -> where its close is: "no", "read", "poll", "leave"
    polls,       \* client -> reads of the counters left
    drained,     \* client -> the last read found s_cnt = c_cnt
    s_cnt, c_cnt,
    sub,         \* command -> where its submission is
    cuIdx,       \* command -> xcmd->cu_idx is set
    kdsBad       \* kds->bad_state

closeVars == <<closes, close, polls, drained>>
subVars == <<sub, cuIdx>>
counts == <<s_cnt, c_cnt>>
drainVars == <<open, closeVars, counts, subVars, kdsBad>>
allVars == <<vars, drainVars>>

DrainInit ==
    /\ Init
    /\ open = [k \in Client |-> TRUE]
    /\ closes = [k \in Client |-> 0]
    /\ close = [k \in Client |-> "no"]
    /\ polls = [k \in Client |-> 0]
    /\ drained = [k \in Client |-> TRUE]
    /\ s_cnt = [k \in Client |-> 0]
    /\ c_cnt = [k \in Client |-> 0]
    /\ sub = [x \in Cmd |-> "idle"]
    /\ cuIdx = [x \in Cmd |-> FALSE]
    /\ kdsBad = FALSE

Inc(f, k) == [f EXCEPT ![k] = @ + 1]
Dec(f, k) == [f EXCEPT ![k] = @ - 1]

-----------------------------------------------------------------------------
(* Submission of a command, kds_cu_dispatch() and acquire_cu_idx(). *)

\* xocl_command_ioctl(): a device in a bad state takes no command.
SubBegin(x) ==
    /\ sub[x] = "idle" /\ ~kdsBad
    /\ sub' = [sub EXCEPT ![x] = "test"]
    /\ UNCHANGED <<vars, open, closeVars, counts, cuIdx, kdsBad>>

\* The first look at the context.
SubTest(x) ==
    /\ sub[x] = "test" /\ open[Owner[x]]
    /\ sub' = [sub EXCEPT ![x] = "count"]
    /\ UNCHANGED <<vars, open, closeVars, counts, cuIdx, kdsBad>>

\* "All CUs in mask are out of context": kds_add_command() reports KDS_ERROR
\* to notify_execbuf(), which counts a completion when cu_idx is set.
SubFail(x) ==
    /\ sub[x] = "test" /\ ~open[Owner[x]]
    /\ sub' = [sub EXCEPT ![x] = "failed"]
    /\ c_cnt' = IF cuIdx[x] THEN Inc(c_cnt, Owner[x]) ELSE c_cnt
    /\ UNCHANGED <<vars, open, closeVars, s_cnt, cuIdx, kdsBad>>

SubCount(x) ==
    /\ sub[x] = "count"
    /\ s_cnt' = Inc(s_cnt, Owner[x])
    /\ sub' = [sub EXCEPT ![x] = "again"]
    /\ UNCHANGED <<vars, open, closeVars, c_cnt, cuIdx, kdsBad>>

\* A variant: no second look at the context.
SubAgainTrusts(x) ==
    /\ sub[x] = "again"
    /\ cuIdx' = [cuIdx EXCEPT ![x] = TRUE]
    /\ sub' = [sub EXCEPT ![x] = "queue"]
    /\ UNCHANGED <<vars, open, closeVars, counts, kdsBad>>

\* "Before it go, make sure selected CU is still opening."
SubAgain(x) ==
    /\ sub[x] = "again"
    /\ cuIdx' = [cuIdx EXCEPT ![x] = TRUE]
    /\ sub' = [sub EXCEPT ![x] = IF open[Owner[x]] THEN "queue" ELSE "undo"]
    /\ UNCHANGED <<vars, open, closeVars, counts, kdsBad>>

\* A variant: the submission that is given up stays counted.
SubUndoCounted(x) ==
    /\ sub[x] = "undo"
    /\ sub' = [sub EXCEPT ![x] = "test"]
    /\ UNCHANGED <<vars, open, closeVars, counts, cuIdx, kdsBad>>

\* -EAGAIN, and once more.
SubUndo(x) ==
    /\ sub[x] = "undo"
    /\ s_cnt' = Dec(s_cnt, Owner[x])
    /\ sub' = [sub EXCEPT ![x] = "test"]
    /\ UNCHANGED <<vars, open, closeVars, c_cnt, cuIdx, kdsBad>>

SubQueue(x) ==
    /\ sub[x] = "queue"
    /\ Submit(x)
    /\ sub' = [sub EXCEPT ![x] = "queued"]
    /\ UNCHANGED <<open, closeVars, counts, cuIdx, kdsBad>>

SubStep(x) ==
    SubTest(x) \/ SubFail(x) \/ SubCount(x) \/ SubAgain(x) \/ SubUndo(x) \/ SubQueue(x)

-----------------------------------------------------------------------------
(* kds_del_cu_context(), and the next kds_add_cu_context(). *)

CloseBegin(k) ==
    /\ open[k] /\ close[k] = "no" /\ closes[k] < MaxCloses[k]
    /\ open' = [open EXCEPT ![k] = FALSE]
    /\ closes' = Inc(closes, k)
    /\ close' = [close EXCEPT ![k] = "read"]
    /\ UNCHANGED <<vars, polls, drained, counts, subVars, kdsBad>>

\* Nothing outstanding: skip.
CloseSkip(k) ==
    /\ close[k] = "read" /\ s_cnt[k] = c_cnt[k]
    /\ drained' = [drained EXCEPT ![k] = TRUE]
    /\ close' = [close EXCEPT ![k] = "no"]
    /\ UNCHANGED <<vars, open, closes, polls, counts, subVars, kdsBad>>

CloseAbort(k) ==
    /\ close[k] = "read" /\ s_cnt[k] # c_cnt[k]
    /\ Abort(k)
    /\ close' = [close EXCEPT ![k] = "poll"]
    /\ polls' = [polls EXCEPT ![k] = Polls]
    /\ UNCHANGED <<open, closes, drained, counts, subVars, kdsBad>>

\* A variant: polls for as long as the counters differ.
ClosePollOn(k) ==
    /\ close[k] = "poll"
    /\ polls' = Dec(polls, k)
    /\ drained' = [drained EXCEPT ![k] = (s_cnt[k] = c_cnt[k])]
    /\ close' = [close EXCEPT ![k] = IF s_cnt[k] = c_cnt[k] THEN "leave" ELSE "poll"]
    /\ UNCHANGED <<vars, open, closes, counts, subVars, kdsBad>>

ClosePoll(k) ==
    /\ close[k] = "poll"
    /\ polls' = Dec(polls, k)
    /\ drained' = [drained EXCEPT ![k] = (s_cnt[k] = c_cnt[k])]
    /\ close' = [close EXCEPT ![k] = IF s_cnt[k] = c_cnt[k] \/ polls[k] = 1
                                       THEN "leave" ELSE "poll"]
    /\ UNCHANGED <<vars, open, closes, counts, subVars, kdsBad>>

CloseLeave(k) ==
    /\ close[k] = "leave"
    /\ AbortDone(k)
    /\ kdsBad' = (kdsBad \/ bad)
    /\ close' = [close EXCEPT ![k] = "no"]
    /\ UNCHANGED <<open, closes, polls, drained, counts, subVars>>

CloseStep(k) == CloseSkip(k) \/ CloseAbort(k) \/ ClosePoll(k) \/ CloseLeave(k)

Open(k) ==
    /\ ~open[k] /\ close[k] = "no"
    /\ open' = [open EXCEPT ![k] = TRUE]
    /\ UNCHANGED <<vars, closes, close, polls, drained, counts, subVars, kdsBad>>

-----------------------------------------------------------------------------
(* The CU thread, which completes with notify_execbuf(). *)

DrainThread ==
    /\ Thread
    /\ c_cnt' = [k \in Client |-> c_cnt[k] + Cardinality({x \in told' \ told : Owner[x] = k})]
    /\ UNCHANGED <<open, closeVars, s_cnt, subVars, kdsBad>>

Device == (HwDone \/ Tick) /\ UNCHANGED drainVars

DrainNext ==
    \/ DrainThread
    \/ Device
    \/ \E x \in Cmd : SubBegin(x) \/ SubStep(x)
    \/ \E k \in Client : CloseBegin(k) \/ CloseStep(k) \/ Open(k)

\* Fairness: the kernel thread and calls that are under way proceed (nobody has
\* to make one); a CU that was started gets done.  The timer need not tick.
DrainSpec ==
    /\ DrainInit
    /\ [][DrainNext]_allVars
    /\ WF_allVars(DrainThread)
    /\ WF_allVars(HwDone /\ UNCHANGED drainVars)
    /\ \A x \in Cmd : WF_allVars(SubStep(x))
    /\ \A k \in Client : WF_allVars(CloseStep(k))

-----------------------------------------------------------------------------
(* Properties *)

\* Commands of k that are counted as submitted and not yet reported.
Outstanding(k) ==
    {x \in Cmd : Owner[x] = k /\ x \notin told /\ sub[x] \in {"queue", "queued"}}

\* Commands of k counted as completed that never went to the CU.
Phantom(k) == {x \in Cmd : Owner[x] = k /\ sub[x] = "failed" /\ cuIdx[x]}

DrainTypeOK ==
    /\ TypeOK
    /\ open \in [Client -> BOOLEAN]
    /\ closes \in [Client -> Nat] /\ \A k \in Client : closes[k] <= MaxCloses[k]
    /\ close \in [Client -> {"no", "read", "poll", "leave"}]
    /\ polls \in [Client -> 0 .. Polls]
    /\ drained \in [Client -> BOOLEAN]
    /\ s_cnt \in [Client -> Nat] /\ c_cnt \in [Client -> Nat]
    /\ sub \in [Cmd -> {"idle", "test", "count", "again", "undo", "queue", "queued", "failed"}]
    /\ cuIdx \in [Cmd -> BOOLEAN]
    /\ kdsBad \in BOOLEAN

\* The counters of a client differ by its outstanding commands, less the ones
\* counted as completed without having been submitted.
Counted ==
    \A k \in Client :
        s_cnt[k] + Cardinality(Phantom(k))
          = c_cnt[k] + Cardinality(Outstanding(k))
              + Cardinality({x \in Cmd : Owner[x] = k /\ sub[x] \in {"again", "undo"}})

\* A close that did not time out leaves no more commands in the CU's queues than
\* were counted as completed without having been submitted: a submitter that
\* races with the close is seen by it, or sees it.
ClosedBut ==
    \A k \in Client :
        ~open[k] /\ close[k] = "no" /\ drained[k]
          => Cardinality(Outstanding(k)) <= Cardinality(Phantom(k))

\* What the counters of a client count: the submissions that were not undone, and
\* the commands notify_execbuf() was called for with cu_idx set.
Sent(k) == {x \in Cmd : Owner[x] = k /\ sub[x] \in {"again", "undo", "queue", "queued"}}
Done(k) == {x \in Cmd : Owner[x] = k /\ (x \in told \/ (sub[x] = "failed" /\ cuIdx[x]))}

\* The CU has the commands that were queued, and no others.
Handed == \A x \in Cmd : sub[x] = "queued" <=> status[x] # "none"

Account ==
    \A k \in Client :
        /\ IsFiniteSet(Sent(k)) /\ s_cnt[k] = Cardinality(Sent(k))
        /\ IsFiniteSet(Done(k)) /\ c_cnt[k] = Cardinality(Done(k))

\* A close that has read equal counters needs no further look at them.
LastRead ==
    \A k \in Client :
        ~open[k] /\ close[k] \in {"no", "leave"} /\ drained[k]
          => Cardinality(Outstanding(k)) <= Cardinality(Phantom(k))

\* What a step needs to know for the above to carry over.
DrainIInv ==
    /\ DrainTypeOK /\ EachOnce /\ Handed /\ Account /\ LastRead
    /\ \A k \in Client : close[k] = "poll" => polls[k] > 0

\* "Before close, make sure no remain commands in CU's queue."  (kds_core.c)
ClosedDrained ==
    \A k \in Client : ~open[k] /\ close[k] = "no" /\ drained[k] => Outstanding(k) = {}

\* Every command that passed the ioctl is reported or refused in the end: the
\* thread misses no wake-up, and a close or an abort leaves no command of anyone
\* behind.  As a command is submitted once, it is enough that none is on its way
\* again and again.
Answered == []<>(\A x \in Cmd : sub[x] \in {"idle", "failed"} \/ x \in told)

=============================================================================
