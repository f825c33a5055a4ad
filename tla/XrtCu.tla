------------------------------- MODULE XrtCu -------------------------------
(***************************************************************************)
(* One compute unit (CU) and the thread that feeds it: xrt_cu.c over the   *)
(* HLS backend cu_hls.c, ap_ctrl_hs protocol (one command at a time, the   *)
(* done bit is cleared by reading it).                                     *)
(*                                                                         *)
(* A command goes pending (pq) -> running (rq) -> submitted -> completed   *)
(* (cq) and is then reported to its owner and freed.  Submitters append to *)
(* pq under its spinlock; all other queues belong to the CU thread.  A     *)
(* client that closes the CU with commands outstanding puts itself on      *)
(* events; an abort command goes to the high priority queue (hpq).         *)
(*                                                                         *)
(* Every function of the thread's loop is one action: of what others write *)
(* (pq, hpq, events, the hardware) each reads one thing, once.  In         *)
(* interrupt mode the thread waits for the CU's interrupt, with a timeout, *)
(* ahead of process_sq(): a delay like any other.  The list of completed   *)
(* commands of cu_hls.c is empty whenever one of these functions returns.  *)
(* The commands are all accepted by cu_hls_configure(), which refuses      *)
(* nothing but XGQ packets of an unknown opcode.                           *)
(***************************************************************************)
EXTENDS Queues

CONSTANTS
    Client,
    Cmd,
    Owner,       \* command -> xcmd->client
    AbortCmd,    \* OP_ABORT commands
    Target,      \* abort command -> the command it is after
    NoCmd,
    SwReset,     \* info.sw_reset: the CU has a reset
    TTL          \* CU_EXEC_DEFAULT_TTL, in ticks of the CU timer

ASSUME CuAssumption ==
    /\ Owner \in [Cmd -> Client]
    /\ Target \in [AbortCmd -> Cmd]
    /\ NoCmd \notin Cmd
    /\ SwReset \in BOOLEAN
    /\ TTL \in Nat

VARIABLES
    pq, rq, cq,   \* pending, running and completed queue
    submitted,    \* cu_hls->submitted
    status,       \* command -> xcmd->status, "none" ahead of its submission
    told,         \* commands reported by notify_host() and freed
    sem,          \* xcu->sem
    credits,      \* cu_hls->credits, at most one
    readyCnt,     \* xcu->ready_cnt
    runCnts,      \* cu_hls->run_cnts
    bad,          \* xcu->bad_state
    events,       \* xcu->events
    age,          \* ticks since start_tick, up to TTL; -1 when it is not set
    hpq,          \* high priority queue
    comp,         \* xcu->comp
    abort,        \* abort command -> where it is: "none", "wait", then its
                  \* status as the thread leaves it
    hw,           \* the CU: "idle", "running" or "done"
    load,         \* the command it was started with last
    finished,     \* commands it ran to their end
    pc            \* where the thread is

queues == <<pq, rq, cq, submitted, status, told>>
core == <<credits, readyCnt, runCnts, hw, load, finished>>
aborts == <<hpq, comp, abort>>
vars == <<queues, core, aborts, sem, bad, events, age, pc>>

MaxCredits == 1

Init ==
    /\ pq = <<>> /\ rq = <<>> /\ cq = <<>> /\ submitted = <<>>
    /\ status = [x \in Cmd |-> "none"]
    /\ told = {}
    /\ sem = 0
    /\ credits = MaxCredits /\ readyCnt = 0 /\ runCnts = 0
    /\ bad = FALSE
    /\ events = <<>>
    /\ age = -1
    /\ hpq = <<>> /\ comp = 0 /\ abort = [a \in AbortCmd |-> "none"]
    /\ hw = "idle" /\ load = NoCmd /\ finished = {}
    /\ pc = "rq"

\* abort_client()
Of(c) == {x \in Cmd : Owner[x] = c}

\* xcmd->status of the commands of a sequence.
Mark(s, st) == [x \in Cmd |-> IF x \in SeqSet(s) THEN st ELSE status[x]]

-----------------------------------------------------------------------------
(* What submitters and closing clients do. *)

\* A variant: a submitter wakes the thread when it finds it asleep.
SubmitIfAsleep(x) ==
    /\ status[x] = "none"
    /\ status' = [status EXCEPT ![x] = "new"]
    /\ pq' = Append(pq, x)
    /\ sem' = IF pc = "sleep" THEN sem + 1 ELSE sem
    /\ UNCHANGED <<rq, cq, submitted, told, core, aborts, bad, events, age, pc>>

\* xrt_cu_submit(): the first pending command wakes the thread.
Submit(x) ==
    /\ status[x] = "none"
    /\ status' = [status EXCEPT ![x] = "new"]
    /\ pq' = Append(pq, x)
    /\ sem' = IF pq = <<>> THEN sem + 1 ELSE sem
    /\ UNCHANGED <<rq, cq, submitted, told, core, aborts, bad, events, age, pc>>

\* xrt_cu_abort()
Abort(c) ==
    /\ events' = IF c \in SeqSet(events) THEN events ELSE Append(events, c)
    /\ UNCHANGED <<queues, core, aborts, sem, bad, age, pc>>

\* xrt_cu_abort_done()
AbortDone(c) ==
    /\ events' = Only(events, Client \ {c})
    /\ UNCHANGED <<queues, core, aborts, sem, bad, age, pc>>

\* xrt_cu_hpq_submit(), up to wait_for_completion().  The thread holds the
\* lock of the queue while it empties it.
HpqSubmit(a) ==
    /\ abort[a] = "none"
    /\ pc # "hpqloop"
    /\ hpq' = Append(hpq, a)
    /\ abort' = [abort EXCEPT ![a] = "wait"]
    /\ sem' = sem + 1
    /\ UNCHANGED <<queues, core, comp, bad, events, age, pc>>

-----------------------------------------------------------------------------
(* The CU thread, xrt_cu_intr_thread(). *)

\* A variant: the aborted commands stay on the running queue.
RqAbortKeeps ==
    /\ pc = "rq" /\ rq # <<>> /\ events # <<>>
    /\ LET hit == IF bad THEN Cmd ELSE Of(Head(events))
       IN /\ cq' = cq \o Only(rq, hit)
          /\ status' = Mark(Only(rq, hit), "abort")
    /\ pc' = "cq"
    /\ UNCHANGED <<pq, rq, submitted, told, core, aborts, sem, bad, events, age>>

\* process_rq() with a client closing: its commands are aborted, and everyone's
\* when the CU is in a bad state.
RqAbort ==
    /\ pc = "rq" /\ rq # <<>> /\ events # <<>>
    /\ LET hit == IF bad THEN Cmd ELSE Of(Head(events))
       IN /\ cq' = cq \o Only(rq, hit)
          /\ rq' = Only(rq, Cmd \ hit)
          /\ status' = Mark(Only(rq, hit), "abort")
    /\ pc' = "cq"
    /\ UNCHANGED <<pq, submitted, told, core, aborts, sem, bad, events, age>>

\* A variant: the command is started with or without a credit.
RqStartAnyway ==
    /\ pc = "rq" /\ rq # <<>> /\ events = <<>>
    /\ credits' = credits - 1
    /\ submitted' = Append(submitted, Head(rq))
    /\ rq' = Tail(rq)
    /\ runCnts' = runCnts + 1
    /\ hw' = "running"
    /\ load' = Head(rq)
    /\ UNCHANGED <<pq, cq, status, told, readyCnt, finished, aborts, sem, bad,
                   events, age, pc>>

\* process_rq() with a credit: the next command is configured and started.
RqStart ==
    /\ pc = "rq" /\ rq # <<>> /\ events = <<>>
    /\ credits > 0
    /\ credits' = credits - 1
    /\ submitted' = Append(submitted, Head(rq))
    /\ rq' = Tail(rq)
    /\ runCnts' = runCnts + 1
    /\ hw' = "running"
    /\ load' = Head(rq)
    /\ UNCHANGED <<pq, cq, status, told, readyCnt, finished, aborts, sem, bad,
                   events, age, pc>>

\* process_rq() returning 0 with nothing done.
RqNothing ==
    /\ pc = "rq"
    /\ rq = <<>> \/ (events = <<>> /\ credits = 0)
    /\ pc' = "cq"
    /\ UNCHANGED <<queues, core, aborts, sem, bad, events, age>>

\* One round of process_cq(): the command is reported and freed.  No command
\* of this backend has the status KDS_SKCRASHED.
CqNotify ==
    /\ pc = "cq" /\ cq # <<>>
    /\ told' = told \cup {Head(cq)}
    /\ cq' = Tail(cq)
    /\ bad' = FALSE
    /\ UNCHANGED <<pq, rq, submitted, status, core, aborts, sem, events, age, pc>>

CqEmpty ==
    /\ pc = "cq" /\ cq = <<>>
    /\ pc' = "sq"
    /\ UNCHANGED <<queues, core, aborts, sem, bad, events, age>>

\* A variant: the credit of an aborted command comes back with no reset.
HlsAbortFrees(out, left, cr, h) ==
    /\ cq' = cq \o out
    /\ submitted' = left
    /\ credits' = MaxCredits
    /\ hw' = h
    /\ bad' = TRUE

\* cu_hls_abort() of the submitted commands out, when the ones in left were
\* submitted.  A CU with a reset is reset, and taken for functional whether it
\* comes out of the reset in time or not; any other CU keeps running.
HlsAbort(out, left, cr, h) ==
    /\ cq' = cq \o out
    /\ submitted' = left
    /\ IF SwReset
         THEN /\ credits' = MaxCredits
              /\ hw' \in {"idle", h}
              /\ bad' = bad
         ELSE /\ credits' = cr
              /\ hw' = h
              /\ bad' = TRUE

\* xrt_cu_check(): the done bit is looked at only with a command running.
Seen == runCnts > 0 /\ hw = "done"

\* process_sq(), with xrt_cu_check() ahead: completes the command the CU is
\* done with, returns the credit, and gives the commands of a closing client
\* CU_EXEC_DEFAULT_TTL ticks.
ProcessSq ==
    /\ pc = "sq"
    /\ submitted # <<>> \/ credits = 0
    /\ LET one == Seen /\ submitted # <<>>
           out == IF one THEN <<Head(submitted)>> ELSE <<>>
           left == IF one THEN Tail(submitted) ELSE submitted
           back == credits + readyCnt + (IF Seen THEN 1 ELSE 0)
           cr == IF back > MaxCredits THEN MaxCredits ELSE back
           h == IF Seen THEN "idle" ELSE hw
           closing == submitted # <<>> /\ events # <<>>
           hit == Of(Head(events))
           late == Only(left, hit)
       IN /\ readyCnt' = 0
          /\ runCnts' = IF one THEN runCnts - 1 ELSE runCnts
          /\ IF closing /\ age = TTL
               THEN /\ HlsAbort(out \o late, Only(left, Cmd \ hit), cr, h)
                    /\ status' = [x \in Cmd |-> IF x \in SeqSet(out) THEN "completed"
                                                ELSE IF x \in SeqSet(late) THEN "timeout"
                                                ELSE status[x]]
                    /\ age' = -1
               ELSE /\ cq' = cq \o out
                    /\ submitted' = left
                    /\ status' = Mark(out, "completed")
                    /\ credits' = cr
                    /\ hw' = h
                    /\ age' = IF closing /\ age = -1 THEN 0 ELSE age
                    /\ bad' = bad
    /\ pc' = "hpq"
    /\ UNCHANGED <<pq, rq, told, load, finished, aborts, sem, events>>

SqSkip ==
    /\ pc = "sq" /\ submitted = <<>> /\ credits > 0
    /\ pc' = "hpq"
    /\ UNCHANGED <<queues, core, aborts, sem, bad, events, age>>

\* One round of process_hpq(), which is try_abort_cmd(): takes the command
\* off the running queue, or else aborts on the CU, whoever's command is there.
\* The last round ends with the one complete() of the whole queue.
HpqAbort ==
    /\ pc \in {"hpq", "hpqloop"} /\ hpq # <<>>
    /\ LET a == Head(hpq)
           t == Target[a]
       IN \/ /\ t \in SeqSet(rq)
             /\ rq' = Only(rq, Cmd \ {t})
             /\ cq' = Append(cq, t)
             /\ status' = [status EXCEPT ![t] = "abort"]
             /\ abort' = [abort EXCEPT ![a] = "completed"]
             /\ UNCHANGED <<submitted, credits, hw, bad>>
          \/ /\ t \notin SeqSet(rq) /\ submitted = <<>>
             /\ abort' = [abort EXCEPT ![a] = "missed"]
             /\ UNCHANGED <<rq, cq, status, submitted, credits, hw, bad>>
          \/ /\ t \notin SeqSet(rq) /\ submitted # <<>>
             /\ HlsAbort(Only(submitted, {t}), Only(submitted, Cmd \ {t}), credits, hw)
             /\ status' = Mark(Only(submitted, {t}), "timeout")
             /\ abort' = [abort EXCEPT ![a] = IF SwReset THEN "completed" ELSE "timeout"]
             /\ rq' = rq
    /\ hpq' = Tail(hpq)
    /\ IF Len(hpq) = 1
         THEN pc' = "loop" /\ comp' = comp + 1
         ELSE pc' = "hpqloop" /\ comp' = comp
    /\ UNCHANGED <<pq, told, readyCnt, runCnts, load, finished, sem, events, age>>

HpqEmpty ==
    /\ pc = "hpq" /\ hpq = <<>>
    /\ pc' = "loop"
    /\ UNCHANGED <<queues, core, aborts, sem, bad, events, age>>

\* The end of the loop: back to the running queue while there is one, on to the
\* semaphore with nothing left, and to the pending queue in between.
LoopAgain ==
    /\ pc = "loop"
    /\ \/ rq # <<>> /\ pc' = "rq"
       \/ rq = <<>> /\ (submitted # <<>> \/ cq # <<>>) /\ pc' = "pq"
    /\ UNCHANGED <<queues, core, aborts, sem, bad, events, age>>

\* A variant: what xrt_cu_check_force() reads is for the record only.
LoopSleepRecords ==
    /\ pc = "loop" /\ rq = <<>> /\ submitted = <<>> /\ cq = <<>>
    /\ hw' = IF pq = <<>> /\ hw = "done" THEN "idle" ELSE hw
    /\ pc' = "sleep"
    /\ UNCHANGED <<queues, credits, readyCnt, runCnts, load, finished, aborts, sem, bad,
                   events, age>>

\* Ahead of its sleep the thread reads the status of the CU, with or without a
\* command running (xrt_cu_check_force()).
LoopSleep ==
    /\ pc = "loop" /\ rq = <<>> /\ submitted = <<>> /\ cq = <<>>
    /\ IF pq = <<>> /\ hw = "done"
         THEN readyCnt' = readyCnt + 1 /\ hw' = "idle"
         ELSE UNCHANGED <<readyCnt, hw>>
    /\ pc' = "sleep"
    /\ UNCHANGED <<queues, credits, runCnts, load, finished, aborts, sem, bad,
                   events, age>>

\* down_interruptible(&xcu->sem)
Wake ==
    /\ pc = "sleep" /\ sem > 0
    /\ sem' = sem - 1
    /\ pc' = "pq"
    /\ UNCHANGED <<queues, core, aborts, bad, events, age>>

ProcessPq ==
    /\ pc = "pq"
    /\ rq' = rq \o pq
    /\ pq' = <<>>
    /\ pc' = "rq"
    /\ UNCHANGED <<cq, submitted, status, told, core, aborts, sem, bad, events, age>>

Thread ==
    \/ RqAbort \/ RqStart \/ RqNothing
    \/ CqNotify \/ CqEmpty
    \/ ProcessSq \/ SqSkip
    \/ HpqAbort \/ HpqEmpty
    \/ LoopAgain \/ LoopSleep \/ Wake \/ ProcessPq

-----------------------------------------------------------------------------
(* The waiting side of an abort command, the CU and the timer. *)

\* wait_for_completion() returns, to whichever waiter comes first.
HpqReturn(a) ==
    /\ abort[a] # "none" /\ abort[a] # "returned"
    /\ comp > 0
    /\ comp' = comp - 1
    /\ abort' = [abort EXCEPT ![a] = "returned"]
    /\ UNCHANGED <<queues, core, hpq, sem, bad, events, age, pc>>

\* External: the CU runs to its end and sets its done bit.
HwDone ==
    /\ hw = "running"
    /\ hw' = "done"
    /\ finished' = finished \cup {load}
    /\ UNCHANGED <<queues, credits, readyCnt, runCnts, load, aborts, sem, bad,
                   events, age, pc>>

\* cu_timer()
Tick ==
    /\ age >= 0 /\ age < TTL
    /\ age' = age + 1
    /\ UNCHANGED <<queues, core, aborts, sem, bad, events, pc>>

Env ==
    \/ \E x \in Cmd : Submit(x)
    \/ \E c \in Client : Abort(c) \/ AbortDone(c)
    \/ \E a \in AbortCmd : HpqSubmit(a) \/ HpqReturn(a)

Next == Thread \/ HwDone \/ Tick \/ Env

Spec == Init /\ [][Next]_vars

-----------------------------------------------------------------------------
(* Properties *)

TypeOK ==
    /\ pq \in Seq(Cmd) /\ rq \in Seq(Cmd) /\ cq \in Seq(Cmd)
    /\ submitted \in Seq(Cmd)
    /\ status \in [Cmd -> {"none", "new", "completed", "abort", "timeout"}]
    /\ told \in SUBSET Cmd
    /\ sem \in Nat /\ comp \in Nat
    /\ credits \in 0 .. MaxCredits /\ readyCnt \in Nat /\ runCnts \in Nat
    /\ bad \in BOOLEAN
    /\ events \in Seq(Client)
    /\ age \in -1 .. TTL
    /\ hpq \in Seq(AbortCmd)
    /\ abort \in [AbortCmd -> {"none", "wait", "missed", "completed", "timeout", "returned"}]
    /\ hw \in {"idle", "running", "done"}
    /\ load \in Cmd \cup {NoCmd}
    /\ hw # "idle" => load \in Cmd
    /\ finished \in SUBSET Cmd
    /\ pc \in {"rq", "cq", "sq", "hpq", "hpqloop", "loop", "sleep", "pq"}

\* Every submitted command is in one queue, once, or has been reported and
\* freed: no path through the thread's loop (start, completion, abort of a
\* closing client, abort command) loses a command or reports it twice.
EachOnce ==
    \A x \in Cmd :
        Times(pq, x) + Times(rq, x) + Times(submitted, x) + Times(cq, x)
          + (IF x \in told THEN 1 ELSE 0)
        = IF status[x] = "none" THEN 0 ELSE 1

\* KDS_COMPLETED is the status of commands the CU ran to their end, and of no
\* others: neither a command aborted on the CU nor one whose predecessor's done
\* bit came late takes the completion of another.
CompletedRan == \A x \in Cmd : status[x] = "completed" => x \in finished

\* "Once CU is started, software should wait for CU done before configure/start
\* CU again" (cu_hls.c): process_rq() starts the CU when it is idle only.
StartedIdle == [][load' # load => hw = "idle"]_vars

\* The credit of the CU is with the software, on its way back, or with the CU
\* until its done bit is read, whatever was aborted in between; what is on the
\* list of submitted commands is what the CU was started with.
CreditConserved ==
    /\ credits + readyCnt + (IF hw = "idle" THEN 0 ELSE 1) = MaxCredits
    /\ submitted = <<>> \/ (submitted = <<load>> /\ hw # "idle")
    /\ hw = "done" => load \in finished
    /\ hw # "idle" => runCnts > 0

\* What a step needs to know for the above to carry over: the credit account,
\* the completions so far, and the types of what they are made of.
IInv ==
    /\ status \in [Cmd -> {"none", "new", "completed", "abort", "timeout"}]
    /\ credits \in Nat /\ readyCnt \in Nat /\ runCnts \in Nat
    /\ hw \in {"idle", "running", "done"}
    /\ CreditConserved
    /\ CompletedRan

=============================================================================
