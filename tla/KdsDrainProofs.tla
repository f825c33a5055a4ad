--------------------------- MODULE KdsDrainProofs ---------------------------
(***************************************************************************)
(* The CU of module XrtCu and its composition with submission and close,   *)
(* module KdsDrain, for any number of clients, commands and close calls:   *)
(* each command is on one queue of the CU and reported once, the credit of *)
(* a CU without a reset is conserved, what s_cnt and c_cnt count, and what *)
(* a close that found them equal leaves behind.                            *)
(***************************************************************************)
EXTENDS KdsDrain, QueueProofs, TLAPS

-----------------------------------------------------------------------------
(* The types of the CU. *)

\* Every step keeps the types of the queues and counters.
LEMMA TypeStep == TypeOK /\ [Next]_vars => TypeOK'
<1> SUFFICES ASSUME TypeOK, [Next]_vars PROVE TypeOK'
  BY Zenon
<1> USE CuAssumption DEF TypeOK, queues, core, aborts, MaxCredits
<1>0. ASSUME NEW S PROVE Only(rq, S) \in Seq(Cmd) /\ Only(submitted, S) \in Seq(Cmd) /\ Only(events, S) \in Seq(Client)
  BY OnlyType, Zenon
<1>1. ASSUME NEW x \in Cmd, Submit(x) PROVE TypeOK'
  BY <1>1 DEF Submit
<1>2. ASSUME NEW c \in Client, Abort(c) PROVE TypeOK'
  BY <1>2 DEF Abort
<1>3. ASSUME NEW c \in Client, AbortDone(c) PROVE TypeOK'
  BY <1>0, <1>3, Zenon DEF AbortDone
<1>4. ASSUME NEW a \in AbortCmd, HpqSubmit(a) PROVE TypeOK'
  BY <1>4 DEF HpqSubmit
<1>5. ASSUME NEW a \in AbortCmd, HpqReturn(a) PROVE TypeOK'
  BY <1>5 DEF HpqReturn
<1>6. CASE RqAbort
  BY <1>0, <1>6 DEF RqAbort, Mark
<1>7. CASE RqStart
  BY <1>7 DEF RqStart
<1>8. CASE RqNothing \/ CqEmpty \/ SqSkip \/ HpqEmpty \/ LoopAgain
  <2>1. UNCHANGED <<queues, core, aborts, sem, bad, events, age>>
    BY <1>8, Zenon DEF RqNothing, CqEmpty, SqSkip, HpqEmpty, LoopAgain
  <2>2. pc' \in {"rq", "cq", "sq", "hpq", "loop", "pq"}
    BY <1>8, Zenon DEF RqNothing, CqEmpty, SqSkip, HpqEmpty, LoopAgain
  <2> QED BY <2>1, <2>2, Zenon
<1>9. CASE CqNotify
  <2>1. Head(cq) \in Cmd /\ Tail(cq) \in Seq(Cmd)
    BY <1>9 DEF CqNotify
  <2>2. told' = told \cup {Head(cq)} /\ cq' = Tail(cq) /\ bad' = FALSE
    BY <1>9, Zenon DEF CqNotify
  <2>3. UNCHANGED <<pq, rq, submitted, status, core, aborts, sem, events, age, pc>>
    BY <1>9, Zenon DEF CqNotify
  <2> QED BY <2>1, <2>2, <2>3, Zenon
<1>10. CASE LoopSleep
  <2>1. /\ UNCHANGED <<queues, credits, runCnts, load, finished, aborts, sem, bad, events, age>>
        /\ pc' = "sleep"
    BY <1>10, Zenon DEF LoopSleep
  <2>2. hw' \in {hw, "idle"} /\ readyCnt' \in {readyCnt, readyCnt + 1}
    BY <1>10, Zenon DEF LoopSleep
  <2> QED BY <2>1, <2>2
<1>11. CASE Wake
  BY <1>11 DEF Wake
<1>17. CASE Tick
  BY <1>17 DEF Tick
<1>12. CASE ProcessPq
  BY <1>12 DEF ProcessPq
<1>13. CASE HwDone
  BY <1>13, Zenon DEF HwDone
<1>14. CASE UNCHANGED vars
  BY <1>14, Zenon DEF vars
<1>15. CASE ProcessSq
  <2> DEFINE one == Seen /\ submitted # <<>>
             out == IF one THEN <<Head(submitted)>> ELSE <<>>
             left == IF one THEN Tail(submitted) ELSE submitted
             back == credits + readyCnt + (IF Seen THEN 1 ELSE 0)
             cr == IF back > MaxCredits THEN MaxCredits ELSE back
             h == IF Seen THEN "idle" ELSE hw
             hit == Of(Head(events))
  <2>1. out \in Seq(Cmd) /\ left \in Seq(Cmd)
    OBVIOUS
  <2>2. cr \in 0 .. 1 /\ h \in {"idle", "running", "done"} /\ (h # "idle" => hw # "idle")
    OBVIOUS
  <2>3. one => runCnts > 0
    BY Zenon DEF Seen
  <2> HIDE DEF out, left, cr, h, hit, one
  <2>4. Only(left, hit) \in Seq(Cmd) /\ Only(left, Cmd \ hit) \in Seq(Cmd)
    BY <2>1, OnlyType, Zenon
  <2>5. /\ cq' = cq \o out \/ cq' = cq \o (out \o Only(left, hit))
        /\ submitted' = left \/ submitted' = Only(left, Cmd \ hit)
        /\ credits' = 1 \/ credits' = cr
        /\ hw' \in {"idle", h}
        /\ bad' \in BOOLEAN
        /\ age' \in {-1, 0, age}
    BY <1>15, Zenon DEF ProcessSq, HlsAbort, out, left, cr, h, hit, one
  <2>6. status' \in [Cmd -> {"none", "new", "completed", "abort", "timeout"}]
    <3>1. \/ status' = Mark(out, "completed")
          \/ status' = [x \in Cmd |-> IF x \in SeqSet(out) THEN "completed"
                                      ELSE IF x \in SeqSet(Only(left, hit)) THEN "timeout"
                                      ELSE status[x]]
      BY <1>15, Zenon DEF ProcessSq, out, left, hit, one
    <3>2. ASSUME NEW s, NEW st \in {"completed", "timeout"}
          PROVE  Mark(s, st) \in [Cmd -> {"none", "new", "completed", "abort", "timeout"}]
      BY Zenon DEF Mark
    <3>3. ASSUME NEW S, NEW R
          PROVE  [x \in Cmd |-> IF x \in S THEN "completed"
                                ELSE IF x \in R THEN "timeout" ELSE status[x]]
                 \in [Cmd -> {"none", "new", "completed", "abort", "timeout"}]
      BY Zenon
    <3> QED BY <3>1, <3>2, <3>3
  <2>7. /\ runCnts' = IF one THEN runCnts - 1 ELSE runCnts
        /\ readyCnt' = 0 /\ pc' = "hpq"
        /\ UNCHANGED <<pq, rq, told, load, finished, aborts, sem, events>>
    BY <1>15, Zenon DEF ProcessSq, one
  <2>8. cq' \in Seq(Cmd)
    <3>1. cq \o out \in Seq(Cmd) /\ cq \o (out \o Only(left, hit)) \in Seq(Cmd)
      BY <2>1, <2>4
    <3> QED BY <2>5, <3>1, Zenon
  <2>9. submitted' \in Seq(Cmd)
    BY <2>1, <2>4, <2>5, Zenon
  <2>10. credits' \in 0 .. 1 /\ hw' \in {"idle", "running", "done"} /\ (hw' # "idle" => hw # "idle")
         /\ age' \in -1 .. TTL /\ runCnts' \in Nat
    BY <2>2, <2>3, <2>5, <2>7
  <2> QED BY <2>5, <2>6, <2>7, <2>8, <2>9, <2>10, Zenon
<1>16. CASE HpqAbort
  <2>1. Head(hpq) \in AbortCmd /\ Tail(hpq) \in Seq(AbortCmd) /\ Target[Head(hpq)] \in Cmd
    BY <1>16 DEF HpqAbort
  <2> DEFINE a == Head(hpq)
             t == Target[a]
  <2>0. bad \in BOOLEAN
    BY Zenon
  <2> HIDE DEF TypeOK
  <2>2. /\ hpq' = Tail(hpq)
        /\ pc' \in {"loop", "hpqloop"} /\ comp' \in {comp, comp + 1}
        /\ UNCHANGED <<pq, told, readyCnt, runCnts, load, finished, sem, events, age>>
    BY <1>16, Zenon DEF HpqAbort
  <2>3. /\ rq' = rq \/ rq' = Only(rq, Cmd \ {t})
        /\ cq' = cq \/ cq' = Append(cq, t) \/ cq' = cq \o Only(submitted, {t})
        /\ submitted' = submitted \/ submitted' = Only(submitted, Cmd \ {t})
        /\ credits' = credits \/ credits' = 1
        /\ hw' \in {"idle", hw}
        /\ bad' \in BOOLEAN
    BY <1>16, <2>0, Zenon DEF HpqAbort, HlsAbort
  <2>4. /\ status' \in [Cmd -> {"none", "new", "completed", "abort", "timeout"}]
        /\ abort' \in [AbortCmd -> {"none", "wait", "missed", "completed", "timeout", "returned"}]
    <3>1. \/ status' = status
          \/ status' = [status EXCEPT ![t] = "abort"]
          \/ status' = Mark(Only(submitted, {t}), "timeout")
      BY <1>16, Zenon DEF HpqAbort
    <3>2. \E st \in {"missed", "completed", "timeout"} : abort' = [abort EXCEPT ![a] = st]
      BY <1>16, Zenon DEF HpqAbort
    <3>7. /\ status \in [Cmd -> {"none", "new", "completed", "abort", "timeout"}]
          /\ abort \in [AbortCmd -> {"none", "wait", "missed", "completed", "timeout", "returned"}]
      BY Zenon DEF TypeOK
    <3>3. ASSUME NEW s
          PROVE  Mark(s, "timeout") \in [Cmd -> {"none", "new", "completed", "abort", "timeout"}]
      BY <3>7, Zenon DEF Mark
    <3>4. a \in AbortCmd /\ t \in Cmd
      BY <2>1, Zenon
    <3> HIDE DEF a, t
    <3>5. [status EXCEPT ![t] = "abort"] \in [Cmd -> {"none", "new", "completed", "abort", "timeout"}]
      BY <3>4, <3>7, Zenon
    <3>6. abort' \in [AbortCmd -> {"none", "wait", "missed", "completed", "timeout", "returned"}]
      BY <3>2, <3>4, <3>7, Zenon
    <3>8. status' \in [Cmd -> {"none", "new", "completed", "abort", "timeout"}]
      <4>1. CASE status' = status
        BY <3>7, <4>1, Zenon
      <4>2. CASE status' = [status EXCEPT ![t] = "abort"]
        BY <3>5, <4>2, Zenon
      <4>3. CASE status' = Mark(Only(submitted, {t}), "timeout")
        BY <3>3, <4>3, Zenon
      <4> QED BY <3>1, <4>1, <4>2, <4>3, Zenon
    <3> QED BY <3>6, <3>8, Zenon
  <2> HIDE DEF a, t
  <2> USE DEF TypeOK
  <2>5. rq' \in Seq(Cmd) /\ submitted' \in Seq(Cmd)
    BY <1>0, <2>3
  <2>6. cq' \in Seq(Cmd)
    <3>1. t \in Cmd
      BY <2>1, Zenon DEF a, t
    <3>2. Append(cq, t) \in Seq(Cmd) /\ cq \o Only(submitted, {t}) \in Seq(Cmd)
      BY <1>0, <3>1
    <3> QED BY <2>3, <3>2, Zenon
  <2> QED BY <2>1, <2>2, <2>3, <2>4, <2>5, <2>6
<1> QED BY <1>1, <1>2, <1>3, <1>4, <1>5, <1>6, <1>7, <1>8, <1>9, <1>10, <1>11, <1>12,
           <1>13, <1>14, <1>15, <1>16, <1>17, Zenon DEF Next, Thread, Env

\* The types hold at the start.
LEMMA TypeInit == Init => TypeOK
<1> SUFFICES ASSUME Init PROVE TypeOK
  BY Zenon
<1>1. \A T : <<>> \in Seq(T)
  OBVIOUS
<1>2. -1 \in -1 .. TTL
  BY CuAssumption
<1>3. /\ pq \in Seq(Cmd) /\ rq \in Seq(Cmd) /\ cq \in Seq(Cmd) /\ submitted \in Seq(Cmd)
      /\ events \in Seq(Client) /\ hpq \in Seq(AbortCmd)
  BY <1>1, Zenon DEF Init
<1>4. /\ status \in [Cmd -> {"none", "new", "completed", "abort", "timeout"}]
      /\ abort \in [AbortCmd -> {"none", "wait", "missed", "completed", "timeout", "returned"}]
  BY Zenon DEF Init
<1>5. age \in -1 .. TTL /\ credits \in 0 .. MaxCredits
  BY <1>2 DEF Init, MaxCredits
<1>6. /\ told \in SUBSET Cmd /\ finished \in SUBSET Cmd
      /\ sem \in Nat /\ comp \in Nat /\ readyCnt \in Nat /\ runCnts \in Nat
      /\ bad \in BOOLEAN /\ hw = "idle" /\ load \in Cmd \cup {NoCmd} /\ pc = "rq"
  BY Zenon DEF Init
<1> QED BY <1>3, <1>4, <1>5, <1>6, Zenon DEF TypeOK

\* The queues, counters and statuses of the CU keep their types, with and without
\* a reset.
THEOREM TypeCorrect == Spec => []TypeOK
BY TypeInit, TypeStep, PTL DEF Spec

-----------------------------------------------------------------------------
(* Where the commands are. *)

\* How often a command is on the queues or reported.
Copies(x) ==
    Times(pq, x) + Times(rq, x) + Times(submitted, x) + Times(cq, x)
      + (IF x \in told THEN 1 ELSE 0)

\* A step that submits no command, and takes back no submission.
StatusKept == \A x \in Cmd : status'[x] = "none" <=> status[x] = "none"

\* The four queues hold commands.
LEMMA QueueTypes ==
    ASSUME TypeOK
    PROVE  pq \in Seq(Cmd) /\ rq \in Seq(Cmd) /\ submitted \in Seq(Cmd) /\ cq \in Seq(Cmd)
BY Zenon DEF TypeOK

\* A command is on a queue a number of times.
LEMMA TimesNat ==
    ASSUME TypeOK, NEW x
    PROVE  /\ Times(pq, x) \in Nat /\ Times(rq, x) \in Nat
           /\ Times(submitted, x) \in Nat /\ Times(cq, x) \in Nat
BY QueueTypes, TimesType, Zenon

\* A command found on a queue of the thread has been submitted, and is on the
\* running queue once at most.
LEMMA Queued ==
    ASSUME TypeOK, EachOnce, NEW x \in Cmd,
           \/ x \in SeqSet(rq) \/ x \in SeqSet(submitted) \/ x \in SeqSet(cq)
    PROVE  /\ status[x] # "none"
           /\ Times(rq, x) <= 1
<1>1. Times(rq, x) # 0 \/ Times(submitted, x) # 0 \/ Times(cq, x) # 0
  BY QueueTypes, TimesType, Zenon
<1> DEFINE b == IF x \in told THEN 1 ELSE 0
           n == IF status[x] = "none" THEN 0 ELSE 1
<1>2. b \in {0, 1} /\ n \in {0, 1} /\ (n = 0 <=> status[x] = "none")
  OBVIOUS
<1>3. Times(pq, x) + Times(rq, x) + Times(submitted, x) + Times(cq, x) + b = n
  BY Zenon DEF EachOnce
<1> HIDE DEF b, n
<1> QED BY <1>1, <1>2, <1>3, TimesNat

\* Commands that only move between the queues and the reported ones stay where
\* they are once.
LEMMA Moved ==
    ASSUME EachOnce, \A x \in Cmd : Copies(x)' = Copies(x),
           StatusKept
    PROVE  EachOnce'
BY Zenon DEF EachOnce, Copies, StatusKept

\* Marking commands that were submitted submits no other.
LEMMA MarkQueued ==
    ASSUME TypeOK, EachOnce, NEW s, NEW st, st # "none", status' = Mark(s, st),
           \A x \in SeqSet(s) \cap Cmd : status[x] # "none"
    PROVE  StatusKept
BY Zenon DEF Mark, StatusKept

\* xrt_cu_submit() puts a command that was nowhere on the pending queue.
LEMMA SubmitOnce ==
    ASSUME TypeOK, EachOnce, NEW x \in Cmd, Submit(x)
    PROVE  EachOnce'
<1> SUFFICES ASSUME NEW y \in Cmd
             PROVE  Copies(y)' = IF status'[y] = "none" THEN 0 ELSE 1
  BY Zenon DEF EachOnce, Copies
<1>1. pq' = Append(pq, x) /\ UNCHANGED <<rq, submitted, cq, told>>
  BY Zenon DEF Submit
<1>2. status[x] = "none" /\ status'[y] = IF y = x THEN "new" ELSE status[y]
  BY Zenon DEF Submit, TypeOK
<1>3. Times(pq', y) = Times(pq, y) + (IF x = y THEN 1 ELSE 0)
  BY <1>1, QueueTypes, TimesAppend
<1>4. Copies(y) = IF status[y] = "none" THEN 0 ELSE 1
  BY Zenon DEF EachOnce, Copies
<1>5. Copies(y)' = Copies(y) + (IF x = y THEN 1 ELSE 0)
  BY <1>1, <1>3, TimesNat DEF Copies
<1> QED BY <1>2, <1>4, <1>5

\* process_rq() moves a closing client's commands to the completed queue.
LEMMA RqAbortOnce ==
    ASSUME TypeOK, EachOnce, RqAbort
    PROVE  EachOnce' /\ StatusKept
<1>1. PICK hit : /\ cq' = cq \o Only(rq, hit)
                 /\ rq' = Only(rq, Cmd \ hit)
                 /\ status' = Mark(Only(rq, hit), "abort")
  BY Zenon DEF RqAbort
<1>2. UNCHANGED <<pq, submitted, told>>
  BY Zenon DEF RqAbort
<1>3. Only(rq, hit) \in Seq(Cmd) /\ SeqSet(Only(rq, hit)) \subseteq SeqSet(rq)
  BY QueueTypes, OnlyType, Zenon
<1>4. ASSUME NEW x \in Cmd PROVE Copies(x)' = Copies(x)
  <2>1. Times(cq', x) = Times(cq, x) + Times(Only(rq, hit), x)
    BY <1>1, <1>3, QueueTypes, TimesConcat, Zenon
  <2>2. /\ Times(Only(rq, hit), x) = IF x \in hit THEN Times(rq, x) ELSE 0
        /\ Times(rq', x) = IF x \in Cmd \ hit THEN Times(rq, x) ELSE 0
    BY <1>1, QueueTypes, TimesOnly
  <2> QED BY <1>2, <2>1, <2>2, TimesNat DEF Copies
<1>5. StatusKept
  BY <1>1, <1>3, Queued, MarkQueued, Zenon
<1> QED BY <1>4, <1>5, Moved, Zenon

\* process_rq() moves the command it starts to the submitted ones.
LEMMA RqStartOnce ==
    ASSUME TypeOK, EachOnce, RqStart
    PROVE  EachOnce' /\ StatusKept
<1>1. /\ rq # <<>> /\ submitted' = Append(submitted, Head(rq)) /\ rq' = Tail(rq)
      /\ UNCHANGED <<pq, cq, status, told>>
  BY Zenon DEF RqStart
<1>2. Head(rq) \in Cmd
  BY <1>1, QueueTypes
<1>3. ASSUME NEW x \in Cmd PROVE Copies(x)' = Copies(x)
  <2>1. Times(rq, x) = Times(rq', x) + (IF Head(rq) = x THEN 1 ELSE 0)
    BY <1>1, QueueTypes, TimesTail, Zenon
  <2>2. Times(submitted', x) = Times(submitted, x) + (IF Head(rq) = x THEN 1 ELSE 0)
    BY <1>1, <1>2, QueueTypes, TimesAppend
  <2>3. Times(rq', x) \in Nat
    <3>1. rq \in Seq(Cmd) /\ rq # <<>> /\ rq' = Tail(rq)
      BY <1>1, QueueTypes, Zenon
    <3>2. rq' \in Seq(Cmd)
      BY <3>1
    <3> QED BY <3>2, TimesType, Zenon
  <2> QED BY <1>1, <2>1, <2>2, <2>3, TimesNat DEF Copies
<1> QED BY <1>1, <1>3, Moved, Zenon DEF StatusKept

\* process_cq() takes a command off as it reports it, for the first time.
LEMMA CqNotifyOnce ==
    ASSUME TypeOK, EachOnce, CqNotify
    PROVE  EachOnce' /\ StatusKept
<1>1. /\ cq # <<>> /\ told' = told \cup {Head(cq)} /\ cq' = Tail(cq)
      /\ UNCHANGED <<pq, rq, submitted, status>>
  BY Zenon DEF CqNotify
<1>2. Head(cq) \in Cmd /\ Tail(cq) \in Seq(Cmd)
  BY <1>1, QueueTypes
<1>3. ASSUME NEW x \in Cmd PROVE Copies(x)' = Copies(x)
  <2>1. Times(cq, x) = Times(cq', x) + (IF Head(cq) = x THEN 1 ELSE 0)
    BY <1>1, QueueTypes, TimesTail, Zenon
  <2>2. Times(cq', x) \in Nat
    BY <1>1, <1>2, TimesType, Zenon
  <2>3. Copies(x) \in {0, 1}
    BY Zenon DEF EachOnce, Copies
  <2>4. x = Head(cq) => x \notin told
    BY <2>1, <2>2, <2>3, TimesNat DEF Copies
  <2> QED BY <1>1, <2>1, <2>2, <2>4, TimesNat DEF Copies
<1> QED BY <1>1, <1>3, Moved, Zenon DEF StatusKept

\* The thread moves all pending commands to the running queue.
LEMMA ProcessPqOnce ==
    ASSUME TypeOK, EachOnce, ProcessPq
    PROVE  EachOnce' /\ StatusKept
<1>1. rq' = rq \o pq /\ pq' = <<>> /\ UNCHANGED <<cq, submitted, status, told>>
  BY Zenon DEF ProcessPq
<1>2. ASSUME NEW x \in Cmd PROVE Copies(x)' = Copies(x)
  <2>1. Times(rq', x) = Times(rq, x) + Times(pq, x) /\ Times(pq', x) = 0
    BY <1>1, QueueTypes, TimesConcat, TimesEmpty
  <2> QED BY <1>1, <2>1, TimesNat DEF Copies
<1> QED BY <1>1, <1>2, Moved, Zenon DEF StatusKept

\* try_abort_cmd() moves its target to the completed queue, from the running
\* queue, where it is once, or from the submitted commands.
LEMMA HpqAbortOnce ==
    ASSUME TypeOK, EachOnce, HpqAbort
    PROVE  EachOnce' /\ StatusKept
<1> DEFINE t == Target[Head(hpq)]
<1>1. Head(hpq) \in AbortCmd /\ t \in Cmd
  BY CuAssumption DEF TypeOK, HpqAbort
<1>2. UNCHANGED <<pq, told>>
  BY Zenon DEF HpqAbort
<1>3. \/ /\ t \in SeqSet(rq) /\ rq' = Only(rq, Cmd \ {t}) /\ cq' = Append(cq, t)
         /\ status' = [status EXCEPT ![t] = "abort"] /\ submitted' = submitted
      \/ UNCHANGED <<rq, cq, status, submitted>>
      \/ /\ cq' = cq \o Only(submitted, {t}) /\ submitted' = Only(submitted, Cmd \ {t})
         /\ status' = Mark(Only(submitted, {t}), "timeout") /\ rq' = rq
  BY Zenon DEF HpqAbort, HlsAbort
<1> HIDE DEF t
<1>4. CASE /\ t \in SeqSet(rq) /\ rq' = Only(rq, Cmd \ {t}) /\ cq' = Append(cq, t)
           /\ status' = [status EXCEPT ![t] = "abort"] /\ submitted' = submitted
  <2>1. ASSUME NEW x \in Cmd PROVE Copies(x)' = Copies(x)
    <3>1. Times(cq', x) = Times(cq, x) + (IF t = x THEN 1 ELSE 0)
      BY <1>1, <1>4, QueueTypes, TimesAppend
    <3>2. Times(rq', x) = IF x \in Cmd \ {t} THEN Times(rq, x) ELSE 0
      BY <1>4, QueueTypes, TimesOnly
    <3>3. Times(rq, t) # 0 /\ Times(rq, t) <= 1
      BY <1>1, <1>4, QueueTypes, TimesType, Queued, Zenon
    <3>4. Times(rq, t) = 1
      BY <3>3, TimesNat
    <3>5. Times(rq', x) + Times(cq', x) = Times(rq, x) + Times(cq, x)
      BY <3>1, <3>2, <3>4, TimesNat
    <3>6. Times(rq', x) \in Nat /\ Times(cq', x) \in Nat
      BY <3>1, <3>2, TimesNat
    <3> DEFINE b == IF x \in told THEN 1 ELSE 0
    <3>7. b \in Nat /\ b' = b
      BY <1>2, Zenon
    <3>8. /\ Copies(x) = Times(pq, x) + Times(rq, x) + Times(submitted, x) + Times(cq, x) + b
          /\ Copies(x)' = Times(pq, x) + Times(rq', x) + Times(submitted, x) + Times(cq', x) + b'
      BY <1>2, <1>4, Zenon DEF Copies
    <3> HIDE DEF b
    <3> QED BY <3>5, <3>6, <3>7, <3>8, TimesNat
  <2>2. StatusKept
    BY <1>1, <1>4, Queued, Zenon DEF TypeOK, StatusKept
  <2> QED BY <2>1, <2>2, Moved, Zenon
<1>5. CASE UNCHANGED <<rq, cq, status, submitted>>
  BY <1>2, <1>5, Moved, Zenon DEF Copies, StatusKept
<1>6. CASE /\ cq' = cq \o Only(submitted, {t}) /\ submitted' = Only(submitted, Cmd \ {t})
           /\ status' = Mark(Only(submitted, {t}), "timeout") /\ rq' = rq
  <2>1. /\ Only(submitted, {t}) \in Seq(Cmd)
        /\ SeqSet(Only(submitted, {t})) \subseteq SeqSet(submitted)
    BY QueueTypes, OnlyType, Zenon
  <2>2. ASSUME NEW x \in Cmd PROVE Copies(x)' = Copies(x)
    <3>1. Times(cq', x) = Times(cq, x) + Times(Only(submitted, {t}), x)
      BY <1>6, <2>1, QueueTypes, TimesConcat, Zenon
    <3>2. /\ Times(Only(submitted, {t}), x) = IF x \in {t} THEN Times(submitted, x) ELSE 0
          /\ Times(submitted', x) = IF x \in Cmd \ {t} THEN Times(submitted, x) ELSE 0
      BY <1>6, QueueTypes, TimesOnly
    <3> QED BY <1>2, <1>6, <3>1, <3>2, TimesNat DEF Copies
  <2>3. StatusKept
    BY <1>6, <2>1, Queued, MarkQueued, Zenon
  <2> QED BY <2>2, <2>3, Moved, Zenon
<1> QED BY <1>3, <1>4, <1>5, <1>6, Zenon

\* process_sq() moves the command that is done and a closing client's late ones
\* to the completed queue, each once.
LEMMA ProcessSqOnce ==
    ASSUME TypeOK, EachOnce, ProcessSq
    PROVE  EachOnce' /\ StatusKept
<1> DEFINE one == Seen /\ submitted # <<>>
           out == IF one THEN <<Head(submitted)>> ELSE <<>>
           left == IF one THEN Tail(submitted) ELSE submitted
           late == Only(left, Of(Head(events)))
           stay == Only(left, Cmd \ Of(Head(events)))
<1>1. /\ UNCHANGED <<pq, rq, told>>
      /\ \/ /\ cq' = cq \o (out \o late) /\ submitted' = stay
            /\ status' = [x \in Cmd |-> IF x \in SeqSet(out) THEN "completed"
                                        ELSE IF x \in SeqSet(late) THEN "timeout"
                                        ELSE status[x]]
         \/ cq' = cq \o out /\ submitted' = left /\ status' = Mark(out, "completed")
  BY Zenon DEF ProcessSq, HlsAbort
<1>2. out \in Seq(Cmd) /\ left \in Seq(Cmd) /\ submitted = out \o left
  BY QueueTypes, QueueOfHead
<1> HIDE DEF one, out, left
<1>3. late \in Seq(Cmd) /\ SeqSet(late) \subseteq SeqSet(left)
  BY <1>2, OnlyType, Zenon
<1>4. SeqSet(submitted) = SeqSet(out) \cup SeqSet(left)
  BY <1>2, SetOfQueue
<1>5. \A x \in (SeqSet(out) \cup SeqSet(late)) \cap Cmd : status[x] # "none"
  BY <1>3, <1>4, Queued, Zenon
<1>6. ASSUME NEW x \in Cmd
      PROVE  /\ Times(submitted, x) = Times(out, x) + Times(left, x)
             /\ Times(out, x) \in Nat /\ Times(left, x) \in Nat
             /\ Times(cq \o out, x) = Times(cq, x) + Times(out, x)
             /\ Times(cq \o (out \o late), x) = Times(cq, x) + (Times(out, x) + Times(late, x))
             /\ Times(late, x) + Times(stay, x) = Times(left, x)
             /\ Times(late, x) \in Nat /\ Times(stay, x) \in Nat
  <2>1. Times(submitted, x) = Times(out, x) + Times(left, x)
    BY <1>2, TimesConcat, Zenon
  <2>2. Times(out, x) \in Nat /\ Times(left, x) \in Nat
    BY <1>2, TimesType, Zenon
  <2>3. Times(cq \o out, x) = Times(cq, x) + Times(out, x)
    BY <1>2, QueueTypes, TimesConcat, Zenon
  <2>4. out \o late \in Seq(Cmd)
    BY <1>2, <1>3
  <2>5. Times(cq \o (out \o late), x) = Times(cq, x) + (Times(out, x) + Times(late, x))
    <3>a. \A r \in Seq(Cmd) : Times(cq \o r, x) = Times(cq, x) + Times(r, x)
      BY QueueTypes, TimesConcat, Zenon
    <3>1. Times(cq \o (out \o late), x) = Times(cq, x) + Times(out \o late, x)
      BY <2>4, <3>a, Zenon
    <3>2. Times(out \o late, x) = Times(out, x) + Times(late, x)
      BY <1>2, <1>3, TimesConcat, Zenon
    <3> QED BY <3>1, <3>2, Zenon
  <2>6. /\ Times(late, x) = IF x \in Of(Head(events)) THEN Times(left, x) ELSE 0
        /\ Times(stay, x) = IF x \in Cmd \ Of(Head(events)) THEN Times(left, x) ELSE 0
    BY <1>2, TimesOnly
  <2>7. Times(late, x) + Times(stay, x) = Times(left, x)
    BY <2>2, <2>6
  <2>8. Times(late, x) \in Nat /\ Times(stay, x) \in Nat
    BY <2>2, <2>6
  <2> QED BY <2>1, <2>2, <2>3, <2>5, <2>7, <2>8, Zenon
<1> HIDE DEF late, stay
<1>7. ASSUME NEW x \in Cmd PROVE Copies(x)' = Copies(x)
  <2> DEFINE b == IF x \in told THEN 1 ELSE 0
  <2>1. b \in Nat /\ b' = b
    BY <1>1, Zenon
  <2>2. /\ Copies(x) = Times(pq, x) + Times(rq, x) + Times(submitted, x) + Times(cq, x) + b
        /\ Copies(x)' = Times(pq, x) + Times(rq, x) + Times(submitted', x) + Times(cq', x) + b
    BY <1>1, Zenon DEF Copies
  <2> HIDE DEF b
  <2>3. \/ /\ Times(cq', x) = Times(cq, x) + (Times(out, x) + Times(late, x))
           /\ Times(submitted', x) = Times(stay, x)
        \/ /\ Times(cq', x) = Times(cq, x) + Times(out, x)
           /\ Times(submitted', x) = Times(left, x)
    BY <1>1, <1>6, Zenon
  <2>4. /\ Times(submitted, x) = Times(out, x) + Times(left, x)
        /\ Times(out, x) \in Nat /\ Times(left, x) \in Nat
        /\ Times(late, x) + Times(stay, x) = Times(left, x)
        /\ Times(late, x) \in Nat /\ Times(stay, x) \in Nat
    BY <1>6, Zenon
  <2>5. Times(submitted', x) + Times(cq', x) = Times(submitted, x) + Times(cq, x)
    BY <2>3, <2>4, TimesNat
  <2>6. Times(submitted', x) \in Nat /\ Times(cq', x) \in Nat
    BY <2>3, <2>4, TimesNat
  <2> QED BY <2>1, <2>2, <2>5, <2>6, TimesNat
<1>8. StatusKept
  BY <1>1, <1>5, Zenon DEF Mark, StatusKept
<1> QED BY <1>7, <1>8, Moved, Zenon

\* A step of the thread keeps every command in one place, and submits none.
LEMMA ThreadOnce ==
    ASSUME TypeOK, EachOnce, Thread
    PROVE  EachOnce' /\ StatusKept
<1>1. CASE UNCHANGED queues
  BY <1>1, Moved, Zenon DEF Copies, queues, StatusKept
<1>2. \/ UNCHANGED queues \/ RqAbort \/ RqStart \/ CqNotify \/ ProcessSq \/ HpqAbort
      \/ ProcessPq
  BY Zenon DEF Thread, RqNothing, CqEmpty, SqSkip, HpqEmpty, LoopAgain, LoopSleep, Wake
<1> QED BY <1>1, <1>2, RqAbortOnce, RqStartOnce, CqNotifyOnce, ProcessSqOnce, HpqAbortOnce,
           ProcessPqOnce, Zenon

\* A step of the thread reports at most one command, one that was submitted and not
\* yet reported.
LEMMA ThreadReports ==
    ASSUME TypeOK, EachOnce, Thread
    PROVE  \/ told' = told
           \/ \E x \in Cmd : x \notin told /\ status[x] # "none" /\ told' = told \cup {x}
<1>1. CASE CqNotify
  <2> DEFINE x == Head(cq)
  <2>1. told' = told \cup {x} /\ cq # <<>>
    BY <1>1, Zenon DEF CqNotify
  <2>2. x \in Cmd /\ SeqSet(cq) = {x} \cup SeqSet(Tail(cq))
    BY <2>1, QueueTypes, SetOfQueue
  <2> HIDE DEF x
  <2>3. Times(cq, x) # 0 /\ status[x] # "none"
    BY <2>2, QueueTypes, TimesType, Queued, Zenon
  <2>4. Times(pq, x) + Times(rq, x) + Times(submitted, x) + Times(cq, x)
          + (IF x \in told THEN 1 ELSE 0) = 1
    BY <2>2, <2>3, Zenon DEF EachOnce
  <2>5. x \notin told
    BY <2>3, <2>4, TimesNat
  <2> QED BY <2>1, <2>2, <2>3, <2>5, Zenon
<1>2. CASE ~CqNotify
  BY <1>2, Zenon DEF Thread, RqAbort, RqStart, RqNothing, CqEmpty, ProcessSq, SqSkip, HpqAbort,
     HpqEmpty, LoopAgain, LoopSleep, Wake, ProcessPq, queues
<1> QED BY <1>1, <1>2, Zenon

\* Every step keeps every command in one place.
LEMMA OnceStep == TypeOK /\ EachOnce /\ [Next]_vars => EachOnce'
<1> SUFFICES ASSUME TypeOK, EachOnce, [Next]_vars PROVE EachOnce'
  BY Zenon
<1>1. CASE UNCHANGED queues
  BY <1>1, Moved, Zenon DEF Copies, queues, StatusKept
<1>2. \/ UNCHANGED queues \/ Thread \/ \E x \in Cmd : Submit(x)
  BY Zenon DEF Next, Env, HpqReturn, HwDone, Tick, Abort, AbortDone, HpqSubmit, vars
<1> QED BY <1>1, <1>2, ThreadOnce, SubmitOnce, Zenon

\* Ahead of the first submission no command is anywhere.
LEMMA OnceInit == Init => EachOnce
BY TimesEmpty DEF Init, EachOnce

\* No path through the thread's loop loses a command or reports it twice, with and
\* without a reset.
THEOREM EachOnceHolds == Spec => []EachOnce
BY OnceInit, OnceStep, TypeCorrect, PTL DEF Spec

-----------------------------------------------------------------------------
(* The credit account. *)

\* Filtering the list of submitted commands leaves it as the credit account
\* wants it.
LEMMA OnlySubmitted ==
    ASSUME NEW S, submitted = <<>> \/ submitted = <<load>>
    PROVE  Only(submitted, S) = <<>> \/ Only(submitted, S) = <<load>>
BY OnlyEmpty, OnlyOne, ZenonT(60)

\* Marking commands with another status than "completed" completes none.
LEMMA MarkOther ==
    ASSUME NEW s, NEW st \in {"abort", "timeout"},
           status \in [Cmd -> {"none", "new", "completed", "abort", "timeout"}],
           CompletedRan, status' = Mark(s, st), finished' = finished
    PROVE  /\ status' \in [Cmd -> {"none", "new", "completed", "abort", "timeout"}]
           /\ CompletedRan'
BY Zenon DEF CompletedRan, Mark

-----------------------------------------------------------------------------
(* One lemma for each action that touches the account; the rest leave it alone. *)

LEMMA InitStep == Init => IInv
BY DEF Init, IInv, CreditConserved, CompletedRan, MaxCredits

\* Steps of everyone else: submitters, closing clients, waiters, the timer, and
\* the thread when it only moves on.
LEMMA OtherSteps ==
    ASSUME IInv, UNCHANGED <<submitted, core>>,
           \/ status' = status
           \/ \E x \in Cmd : status' = [status EXCEPT ![x] = "new"]
    PROVE  IInv'
<1>1. CreditConserved'
  BY Zenon DEF IInv, CreditConserved, core
<1>2. CompletedRan' /\ status' \in [Cmd -> {"none", "new", "completed", "abort", "timeout"}]
  <2>1. CASE status' = status
    BY <2>1, Zenon DEF IInv, CompletedRan, core
  <2>2. CASE \E x \in Cmd : status' = [status EXCEPT ![x] = "new"]
    BY <2>2, Zenon DEF IInv, CompletedRan, core
  <2> QED BY <2>1, <2>2, Zenon
<1> QED BY <1>1, <1>2, Zenon DEF IInv, core

LEMMA RqAbortStep == ASSUME IInv, RqAbort PROVE IInv'
<1>1. CreditConserved'
  BY Zenon DEF IInv, CreditConserved, core, RqAbort
<1>2. PICK s : status' = Mark(s, "abort")
  BY Zenon DEF RqAbort
<1>3. CompletedRan' /\ status' \in [Cmd -> {"none", "new", "completed", "abort", "timeout"}]
  BY <1>2, MarkOther, Zenon DEF IInv, RqAbort, core
<1> QED BY <1>1, <1>3, Zenon DEF IInv, RqAbort, core

\* A start takes the credit, so the CU was idle and nothing was submitted.
LEMMA RqStartStep ==
    ASSUME IInv, RqStart
    PROVE  IInv' /\ hw = "idle"
<1>1. hw = "idle" /\ readyCnt = 0 /\ credits = 1 /\ submitted = <<>>
  BY DEF IInv, CreditConserved, RqStart, MaxCredits
<1>2. Append(<<>>, Head(rq)) = <<Head(rq)>>
  OBVIOUS
<1>3. submitted' = <<load'>>
  BY <1>1, <1>2, Zenon DEF RqStart
<1>4. CreditConserved'
  BY <1>1, <1>3 DEF IInv, CreditConserved, RqStart, MaxCredits
<1>5. CompletedRan'
  BY Zenon DEF IInv, CompletedRan, RqStart
<1> QED BY <1>1, <1>4, <1>5 DEF IInv, RqStart

LEMMA HwDoneStep == ASSUME IInv, HwDone PROVE IInv'
BY Zenon DEF IInv, CreditConserved, CompletedRan, HwDone, queues

LEMMA LoopSleepStep == ASSUME IInv, LoopSleep PROVE IInv'
BY DEF IInv, CreditConserved, CompletedRan, LoopSleep, queues

\* An abort command ends commands off the CU, or leaves the CU with its credit.
LEMMA HpqAbortStep == ASSUME IInv, HpqAbort, SwReset = FALSE PROVE IInv'
<1> DEFINE a == Head(hpq)
           t == Target[a]
<1>1. UNCHANGED <<credits, readyCnt, runCnts, hw, load, finished>>
  BY Zenon DEF HpqAbort, HlsAbort
<1>2. submitted' = <<>> \/ (submitted' = <<load>> /\ hw # "idle")
  <2>1. CASE UNCHANGED submitted
    BY <2>1, Zenon DEF IInv, CreditConserved
  <2>2. CASE submitted # <<>> /\ \E S : submitted' = Only(submitted, S)
    <3>1. submitted = <<load>> /\ hw # "idle"
      BY <2>2, Zenon DEF IInv, CreditConserved
    <3>2. PICK S : submitted' = Only(submitted, S)
      BY <2>2, Zenon
    <3> QED BY <3>1, <3>2, OnlySubmitted, Zenon
  <2> QED BY <2>1, <2>2, Zenon DEF HpqAbort, HlsAbort
<1>3. CreditConserved'
  BY <1>1, <1>2, Zenon DEF IInv, CreditConserved
<1>4. CompletedRan' /\ status' \in [Cmd -> {"none", "new", "completed", "abort", "timeout"}]
  <2>1. CASE UNCHANGED status
    BY <1>1, <2>1, Zenon DEF IInv, CompletedRan
  <2>2. CASE status' = [status EXCEPT ![t] = "abort"]
    BY <1>1, <2>2, ZenonT(60) DEF IInv, CompletedRan
  <2>3. CASE \E s : status' = Mark(s, "timeout")
    BY <1>1, <2>3, MarkOther, Zenon DEF IInv
  <2> QED BY <2>1, <2>2, <2>3, Zenon DEF HpqAbort
<1> QED BY <1>1, <1>3, <1>4, Zenon DEF IInv

\* process_sq() takes the credit back from a CU that is done, and completes the
\* command that CU ran; a late command of a closing client leaves without it.
LEMMA ProcessSqStep == ASSUME IInv, ProcessSq, SwReset = FALSE PROVE IInv'
<1> DEFINE one == Seen /\ submitted # <<>>
           out == IF one THEN <<Head(submitted)>> ELSE <<>>
           left == IF one THEN Tail(submitted) ELSE submitted
           h == IF Seen THEN "idle" ELSE hw
           back == credits + readyCnt + (IF Seen THEN 1 ELSE 0)
           cr == IF back > MaxCredits THEN MaxCredits ELSE back
<1>1. /\ readyCnt' = 0
      /\ runCnts' = IF one THEN runCnts - 1 ELSE runCnts
      /\ credits' = cr
      /\ hw' = h
      /\ UNCHANGED <<load, finished>>
  BY Zenon DEF ProcessSq, HlsAbort
<1>2. one => submitted = <<load>> /\ load \in finished
  BY Zenon DEF IInv, CreditConserved, Seen
<1>3. left = <<>> \/ (left = <<load>> /\ hw # "idle" /\ ~Seen)
  <2>1. CASE one
    <3>1. Tail(<<load>>) = <<>>
      OBVIOUS
    <3> QED BY <1>2, <2>1, <3>1, ZenonT(60)
  <2>2. CASE ~one
    BY <2>2, Zenon DEF IInv, CreditConserved
  <2> QED BY <2>1, <2>2, Zenon
<1>4. submitted' = left \/ \E S : submitted' = Only(left, S)
  BY Zenon DEF ProcessSq, HlsAbort
<1>5. submitted' = <<>> \/ (submitted' = <<load>> /\ hw # "idle" /\ ~Seen)
  <2> HIDE DEF left
  <2>1. CASE submitted' = left
    BY <1>3, <2>1, Zenon
  <2>2. CASE \E S : submitted' = Only(left, S)
    <3>1. PICK S : submitted' = Only(left, S)
      BY <2>2, Zenon
    <3>2. CASE left = <<>>
      BY <3>1, <3>2, OnlyEmpty, OnlyOne, ZenonT(60)
    <3>3. CASE left = <<load>> /\ hw # "idle" /\ ~Seen
      BY <3>1, <3>3, OnlyEmpty, OnlyOne, Zenon
    <3> QED BY <1>3, <3>2, <3>3, Zenon
  <2> QED BY <1>4, <2>1, <2>2, Zenon
<1>6. credits' + readyCnt' + (IF hw' = "idle" THEN 0 ELSE 1) = MaxCredits
  BY <1>1 DEF IInv, CreditConserved, MaxCredits, Seen
<1>7. CreditConserved'
  BY <1>1, <1>5, <1>6, Zenon DEF IInv, CreditConserved, Seen, MaxCredits
<1>8. \A x \in SeqSet(out) : x \in finished
  BY <1>2 DEF SeqSet
<1>9. \E late : status' = [x \in Cmd |-> IF x \in SeqSet(out) THEN "completed"
                                         ELSE IF x \in late THEN "timeout" ELSE status[x]]
  <2>1. CASE status' = Mark(out, "completed")
    <3>1. status' = [x \in Cmd |-> IF x \in SeqSet(out) THEN "completed"
                                   ELSE IF x \in {} THEN "timeout" ELSE status[x]]
      BY <2>1, Zenon DEF Mark
    <3> QED BY <3>1, ZenonT(60)
  <2>2. CASE \E late : status' = [x \in Cmd |-> IF x \in SeqSet(out) THEN "completed"
                                   ELSE IF x \in SeqSet(late) THEN "timeout" ELSE status[x]]
    BY <2>2, ZenonT(60)
  <2> QED BY <2>1, <2>2, ZenonT(60) DEF ProcessSq
<1>10. CompletedRan' /\ status' \in [Cmd -> {"none", "new", "completed", "abort", "timeout"}]
  BY <1>1, <1>8, <1>9, Zenon DEF IInv, CompletedRan
<1> QED BY <1>1, <1>7, <1>10 DEF IInv, MaxCredits, CreditConserved, Seen

-----------------------------------------------------------------------------

\* Every step keeps the account.
LEMMA NextStep == ASSUME SwReset = FALSE, IInv, [Next]_vars PROVE IInv'
<1>1. CASE RqAbort
  BY <1>1, RqAbortStep, Zenon
<1>2. CASE RqStart
  BY <1>2, RqStartStep, Zenon
<1>3. CASE RqNothing \/ CqNotify \/ CqEmpty \/ SqSkip \/ HpqEmpty \/ LoopAgain
           \/ Wake \/ ProcessPq \/ Tick
  <2>1. UNCHANGED <<submitted, core>> /\ status' = status
    BY <1>3, Zenon DEF RqNothing, CqNotify, CqEmpty, SqSkip, HpqEmpty, LoopAgain, Wake,
                ProcessPq, Tick, queues
  <2> QED BY <2>1, OtherSteps, Zenon
<1>4. CASE ProcessSq
  BY <1>4, ProcessSqStep, ZenonT(60)
<1>5. CASE HpqAbort
  BY <1>5, HpqAbortStep, ZenonT(60)
<1>6. CASE LoopSleep
  BY <1>6, LoopSleepStep, Zenon
<1>7. CASE HwDone
  BY <1>7, HwDoneStep, Zenon
<1>8. CASE Env
  <2>1. UNCHANGED <<submitted, core>>
    BY <1>8, ZenonT(60) DEF Env, Submit, Abort, AbortDone, HpqSubmit, HpqReturn, queues
  <2>2. status' = status \/ \E x \in Cmd : status' = [status EXCEPT ![x] = "new"]
    BY <1>8, ZenonT(60) DEF Env, Submit, Abort, AbortDone, HpqSubmit, HpqReturn, queues
  <2> QED BY <2>1, <2>2, OtherSteps, Zenon
<1>9. CASE UNCHANGED vars
  <2>1. UNCHANGED <<submitted, core>> /\ status' = status
    BY <1>9, Zenon DEF vars, queues
  <2> QED BY <2>1, OtherSteps, Zenon
<1> QED BY <1>1, <1>2, <1>3, <1>4, <1>5, <1>6, <1>7, <1>8, <1>9, Zenon DEF Next, Thread

\* The load of the CU changes with a start only, and a start finds it idle.
LEMMA StartStep == ASSUME IInv, [Next]_vars PROVE load' # load => hw = "idle"
<1>1. CASE RqStart
  BY <1>1, RqStartStep, Zenon
<1>2. CASE ~RqStart
  <2>1. load' = load
    BY <1>2, ZenonT(60) DEF Next, Thread, Env, RqAbort, RqNothing, CqNotify, CqEmpty, ProcessSq, SqSkip,
                HpqAbort, HpqEmpty, LoopAgain, LoopSleep, Wake, ProcessPq, HwDone, Tick,
                Submit, Abort, AbortDone, HpqSubmit, HpqReturn, core, vars
  <2> QED BY <2>1, Zenon
<1> QED BY <1>1, <1>2, Zenon

\* The inductive invariant of a CU without a reset.
THEOREM Inductive == ASSUME SwReset = FALSE PROVE Spec => []IInv
<1>1. IInv /\ [Next]_vars => IInv'
  BY NextStep, ZenonT(60)
<1> QED BY <1>1, InitStep, PTL DEF Spec

\* The credit of a CU without a reset is never lost and never doubled, whatever
\* is aborted while the CU runs.
THEOREM CreditConservedHolds == ASSUME SwReset = FALSE PROVE Spec => []CreditConserved
<1>1. IInv => CreditConserved
  BY Zenon DEF IInv
<1> QED BY <1>1, Inductive, PTL

\* A CU without a reset runs every command it is reported to have completed.
THEOREM CompletedRanHolds == ASSUME SwReset = FALSE PROVE Spec => []CompletedRan
<1>1. IInv => CompletedRan
  BY Zenon DEF IInv
<1> QED BY <1>1, Inductive, PTL

\* process_rq() starts a CU without a reset only when it is idle.
THEOREM StartedIdleHolds == ASSUME SwReset = FALSE PROVE Spec => StartedIdle
<1>1. IInv /\ [Next]_vars => [load' # load => hw = "idle"]_vars
  BY StartStep, Zenon
<1> QED BY <1>1, Inductive, PTL DEF Spec, StartedIdle

\* The CU of the composition takes the steps of module XrtCu and no others.
LEMMA CuStep == DrainNext => [Next]_vars
<1>1. ASSUME NEW x \in Cmd, SubBegin(x) \/ SubStep(x)
      PROVE  Submit(x) \/ UNCHANGED vars
  BY <1>1, Zenon DEF SubBegin, SubStep, SubTest, SubFail, SubCount, SubAgain, SubUndo, SubQueue
<1>2. ASSUME NEW k \in Client, CloseBegin(k) \/ CloseStep(k) \/ Open(k)
      PROVE  Abort(k) \/ AbortDone(k) \/ UNCHANGED vars
  BY <1>2, Zenon DEF CloseBegin, CloseStep, CloseSkip, CloseAbort, ClosePoll, CloseLeave, Open
<1> QED BY <1>1, <1>2, Zenon DEF DrainNext, DrainThread, Device, Next, Env

\* Of a command that was not queued the CU knows nothing.
LEMMA NotTold ==
    ASSUME DrainTypeOK, EachOnce, Handed, NEW x \in Cmd, sub[x] # "queued"
    PROVE  x \notin told
<1>1. TypeOK /\ status[x] = "none"
  BY Zenon DEF DrainTypeOK, Handed
<1>2. Times(pq, x) + Times(rq, x) + Times(submitted, x) + Times(cq, x)
        + (IF x \in told THEN 1 ELSE 0) = 0
  BY <1>1, Zenon DEF EachOnce
<1> QED BY <1>1, <1>2, TimesNat

-----------------------------------------------------------------------------
(* The sets behind the counters. *)

\* A step of one command's submission moves that command only.
LEMMA SentMoves ==
    ASSUME DrainTypeOK, NEW x \in Cmd, NEW v, sub' = [sub EXCEPT ![x] = v], NEW k \in Client
    PROVE  /\ Owner[x] # k => Sent(k)' = Sent(k)
           /\ v \in {"again", "undo", "queue", "queued"} /\ Owner[x] = k
                => Sent(k)' = Sent(k) \cup {x}
           /\ v \notin {"again", "undo", "queue", "queued"} => Sent(k)' = Sent(k) \ {x}
<1>1. sub'[x] = v /\ \A y \in Cmd : y # x => sub'[y] = sub[y]
  BY Zenon DEF DrainTypeOK
<1> QED BY <1>1, Zenon DEF Sent

\* The same, of the commands counted as completed.
LEMMA DoneMoves ==
    ASSUME DrainTypeOK, NEW x \in Cmd, NEW v, sub' = [sub EXCEPT ![x] = v], told' = told,
           x \notin told, sub[x] # "failed",
           \A y \in Cmd : y # x => cuIdx'[y] = cuIdx[y], NEW k \in Client
    PROVE  /\ Owner[x] # k => Done(k)' = Done(k)
           /\ v # "failed" \/ ~cuIdx'[x] => Done(k)' = Done(k)
           /\ v = "failed" /\ cuIdx'[x] /\ Owner[x] = k
                => Done(k)' = Done(k) \cup {x} /\ x \notin Done(k)
<1>1. sub'[x] = v /\ \A y \in Cmd : y # x => sub'[y] = sub[y]
  BY Zenon DEF DrainTypeOK
<1> QED BY <1>1, Zenon DEF Done

\* Counting one more.
LEMMA OneMore ==
    ASSUME NEW S, NEW x, IsFiniteSet(S), x \notin S
    PROVE  IsFiniteSet(S \cup {x}) /\ Cardinality(S \cup {x}) = Cardinality(S) + 1
BY FS_AddElement, Zenon

\* The account is what it was as long as the sets and counters are.
LEMMA AccountKept ==
    ASSUME Account, UNCHANGED counts,
           \A k \in Client : Sent(k)' = Sent(k) /\ Done(k)' = Done(k)
    PROVE  Account'
BY Zenon DEF Account, counts

\* A submission counts itself once, and takes itself back once.
LEMMA SubAccount ==
    ASSUME DrainIInv, NEW x \in Cmd, SubBegin(x) \/ SubStep(x)
    PROVE  Account'
<1> USE CuAssumption
<1>1. /\ DrainTypeOK /\ EachOnce /\ Handed /\ Account
      /\ Owner[x] \in Client /\ s_cnt \in [Client -> Nat] /\ c_cnt \in [Client -> Nat]
      /\ sub[x] # "queued" /\ sub[x] # "failed" /\ told' = told
  BY Zenon DEF DrainIInv, DrainTypeOK, SubBegin, SubStep, SubTest, SubFail, SubCount, SubAgain,
         SubUndo, SubQueue, Submit, vars, queues
<1>2. x \notin told
  BY <1>1, NotTold, Zenon
<1>3. CASE SubBegin(x) \/ SubTest(x)
  <2>1. /\ \E v \in {"test", "count"} : sub' = [sub EXCEPT ![x] = v]
        /\ sub[x] \in {"idle", "test"} /\ UNCHANGED <<counts, cuIdx>>
    BY <1>3, Zenon DEF SubBegin, SubTest
  <2>2. ASSUME NEW k \in Client PROVE Sent(k)' = Sent(k) /\ Done(k)' = Done(k)
    <3>1. Sent(k)' = Sent(k) \ {x} /\ x \notin Sent(k)
      BY <1>1, <2>1, SentMoves DEF Sent
    <3>2. Done(k)' = Done(k)
      BY <1>1, <1>2, <2>1, DoneMoves, Zenon
    <3> QED BY <3>1, <3>2, Zenon
  <2> QED BY <1>1, <2>1, <2>2, AccountKept, Zenon
<1>4. CASE SubFail(x)
  <2>1. /\ sub' = [sub EXCEPT ![x] = "failed"] /\ sub[x] = "test"
        /\ c_cnt' = IF cuIdx[x] THEN Inc(c_cnt, Owner[x]) ELSE c_cnt
        /\ s_cnt' = s_cnt /\ cuIdx' = cuIdx
    BY <1>4, Zenon DEF SubFail
  <2> SUFFICES ASSUME NEW k \in Client
               PROVE  /\ IsFiniteSet(Sent(k)') /\ s_cnt'[k] = Cardinality(Sent(k)')
                      /\ IsFiniteSet(Done(k)') /\ c_cnt'[k] = Cardinality(Done(k)')
    BY Zenon DEF Account
  <2>2. Sent(k)' = Sent(k)
    BY <1>1, <2>1, SentMoves DEF Sent
  <2>3. CASE cuIdx[x] /\ Owner[x] = k
    <3>1. Done(k)' = Done(k) \cup {x} /\ x \notin Done(k)
      BY <1>1, <1>2, <2>1, <2>3, DoneMoves, Zenon
    <3>2. c_cnt'[k] = c_cnt[k] + 1
      BY <1>1, <2>1, <2>3, Zenon DEF Inc
    <3> QED BY <1>1, <2>1, <2>2, <3>1, <3>2, OneMore DEF Account
  <2>4. CASE ~(cuIdx[x] /\ Owner[x] = k)
    <3>1. Done(k)' = Done(k)
      BY <1>1, <1>2, <2>1, <2>4, DoneMoves, Zenon
    <3>2. c_cnt'[k] = c_cnt[k]
      BY <1>1, <2>1, <2>4, Zenon DEF Inc
    <3> QED BY <1>1, <2>1, <2>2, <3>1, <3>2, Zenon DEF Account
  <2> QED BY <2>3, <2>4, Zenon
<1>5. CASE SubCount(x)
  <2>1. /\ sub' = [sub EXCEPT ![x] = "again"] /\ sub[x] = "count"
        /\ s_cnt' = Inc(s_cnt, Owner[x]) /\ c_cnt' = c_cnt /\ cuIdx' = cuIdx
    BY <1>5, Zenon DEF SubCount
  <2> SUFFICES ASSUME NEW k \in Client
               PROVE  /\ IsFiniteSet(Sent(k)') /\ s_cnt'[k] = Cardinality(Sent(k)')
                      /\ IsFiniteSet(Done(k)') /\ c_cnt'[k] = Cardinality(Done(k)')
    BY Zenon DEF Account
  <2>2. Done(k)' = Done(k)
    BY <1>1, <1>2, <2>1, DoneMoves, Zenon
  <2>3. CASE Owner[x] = k
    <3>a. x \notin Sent(k)
      BY <2>1, Zenon DEF Sent
    <3>1. Sent(k)' = Sent(k) \cup {x}
      BY <1>1, <2>1, <2>3, SentMoves, Zenon
    <3>2. s_cnt'[k] = s_cnt[k] + 1
      BY <1>1, <2>1, <2>3, Zenon DEF Inc
    <3> QED BY <1>1, <2>1, <2>2, <3>a, <3>1, <3>2, OneMore DEF Account
  <2>4. CASE Owner[x] # k
    <3>1. Sent(k)' = Sent(k)
      BY <1>1, <2>1, <2>4, SentMoves, Zenon
    <3>2. s_cnt'[k] = s_cnt[k]
      BY <1>1, <2>1, <2>4, Zenon DEF Inc
    <3> QED BY <1>1, <2>1, <2>2, <3>1, <3>2, Zenon DEF Account
  <2> QED BY <2>3, <2>4, Zenon
<1>6. CASE SubAgain(x) \/ SubQueue(x)
  <2>1. PICK v \in {"queue", "undo", "queued"} : sub' = [sub EXCEPT ![x] = v]
    BY <1>6, Zenon DEF SubAgain, SubQueue
  <2>2. /\ sub[x] \in {"again", "queue"} /\ UNCHANGED counts
        /\ cuIdx' = cuIdx \/ cuIdx' = [cuIdx EXCEPT ![x] = TRUE]
    BY <1>6, Zenon DEF SubAgain, SubQueue
  <2>3. \A y \in Cmd : y # x => cuIdx'[y] = cuIdx[y]
    BY <1>1, <2>2, Zenon DEF DrainTypeOK
  <2>4. ASSUME NEW k \in Client PROVE Sent(k)' = Sent(k) /\ Done(k)' = Done(k)
    <3>1. Done(k)' = Done(k)
      BY <1>1, <1>2, <2>1, <2>3, DoneMoves, Zenon
    <3>2. CASE Owner[x] = k
      <4>1. x \in Sent(k)
        BY <2>2, <3>2, Zenon DEF Sent
      <4>2. Sent(k)' = Sent(k) \cup {x}
        BY <1>1, <2>1, <3>2, SentMoves, Zenon
      <4> QED BY <3>1, <4>1, <4>2, Zenon
    <3>3. CASE Owner[x] # k
      BY <1>1, <2>1, <3>1, <3>3, SentMoves, Zenon
    <3> QED BY <3>2, <3>3, Zenon
  <2> QED BY <1>1, <2>2, <2>4, AccountKept, Zenon
<1>7. CASE SubUndo(x)
  <2>1. /\ sub' = [sub EXCEPT ![x] = "test"] /\ sub[x] = "undo"
        /\ s_cnt' = Dec(s_cnt, Owner[x]) /\ c_cnt' = c_cnt /\ cuIdx' = cuIdx
    BY <1>7, Zenon DEF SubUndo
  <2> SUFFICES ASSUME NEW k \in Client
               PROVE  /\ IsFiniteSet(Sent(k)') /\ s_cnt'[k] = Cardinality(Sent(k)')
                      /\ IsFiniteSet(Done(k)') /\ c_cnt'[k] = Cardinality(Done(k)')
    BY Zenon DEF Account
  <2>2. Done(k)' = Done(k)
    BY <1>1, <1>2, <2>1, DoneMoves, Zenon
  <2>3. CASE Owner[x] = k
    <3>a. x \in Sent(k)
      BY <2>1, <2>3, Zenon DEF Sent
    <3>b. "test" \notin {"again", "undo", "queue", "queued"}
      BY Zenon
    <3>1. Sent(k)' = Sent(k) \ {x}
      BY <1>1, <2>1, <3>b, SentMoves, Zenon
    <3>2. s_cnt'[k] = s_cnt[k] - 1
      BY <1>1, <2>1, <2>3, Zenon DEF Dec
    <3> QED BY <1>1, <2>1, <2>2, <3>a, <3>1, <3>2, FS_RemoveElement DEF Account
  <2>4. CASE Owner[x] # k
    <3>1. Sent(k)' = Sent(k)
      BY <1>1, <2>1, <2>4, SentMoves, Zenon
    <3>2. s_cnt'[k] = s_cnt[k]
      BY <1>1, <2>1, <2>4, Zenon DEF Dec
    <3> QED BY <1>1, <2>1, <2>2, <3>1, <3>2, Zenon DEF Account
  <2> QED BY <2>3, <2>4, Zenon
<1> QED BY <1>3, <1>4, <1>5, <1>6, <1>7, Zenon DEF SubStep

\* notify_execbuf() counts a command the CU is through with in its own client's
\* c_cnt.
LEMMA ThreadAccount ==
    ASSUME DrainIInv, DrainThread
    PROVE  Account'
<1>1. /\ DrainTypeOK /\ TypeOK /\ EachOnce /\ Handed /\ Account
      /\ c_cnt \in [Client -> Nat] /\ Thread
      /\ c_cnt' = [k \in Client |-> c_cnt[k] + Cardinality({x \in told' \ told : Owner[x] = k})]
      /\ UNCHANGED <<s_cnt, sub, cuIdx>>
  BY Zenon DEF DrainIInv, DrainTypeOK, DrainThread, subVars
<1> SUFFICES ASSUME NEW k \in Client
             PROVE  /\ IsFiniteSet(Sent(k)') /\ s_cnt'[k] = Cardinality(Sent(k)')
                    /\ IsFiniteSet(Done(k)') /\ c_cnt'[k] = Cardinality(Done(k)')
  BY Zenon DEF Account
<1>2. IsFiniteSet(Sent(k)') /\ s_cnt'[k] = Cardinality(Sent(k)')
  BY <1>1, Zenon DEF Account, Sent
<1>3. c_cnt'[k] = c_cnt[k] + Cardinality({x \in told' \ told : Owner[x] = k})
  BY <1>1, Zenon
<1>6. IsFiniteSet(Done(k)) /\ c_cnt[k] = Cardinality(Done(k)) /\ c_cnt[k] \in Nat
  BY <1>1, Zenon DEF Account
<1>7. c_cnt[k] + 0 = c_cnt[k]
  BY <1>6
<1>4. CASE told' = told
  <2>1. Done(k)' = Done(k) /\ {x \in told' \ told : Owner[x] = k} = {}
    BY <1>1, <1>4, Zenon DEF Done
  <2> QED BY <1>2, <1>3, <1>6, <1>7, <2>1, FS_EmptySet, Zenon
<1>5. CASE \E x \in Cmd : x \notin told /\ status[x] # "none" /\ told' = told \cup {x}
  <2>1. PICK x \in Cmd : x \notin told /\ status[x] # "none" /\ told' = told \cup {x}
    BY <1>5, Zenon
  <2>2. sub[x] = "queued"
    BY <1>1, <2>1, Zenon DEF Handed
  <2>3. CASE Owner[x] = k
    <3>1. {y \in told' \ told : Owner[y] = k} = {x}
      BY <2>1, <2>3, Zenon
    <3>2. Done(k)' = Done(k) \cup {x}
      BY <1>1, <2>1, <2>3, Zenon DEF Done
    <3>3. x \notin Done(k)
      BY <2>1, <2>2, Zenon DEF Done
    <3>4. Cardinality({x}) = 1
      BY FS_Singleton, Zenon
    <3>5. IsFiniteSet(Done(k)') /\ Cardinality(Done(k)') = Cardinality(Done(k)) + 1
      BY <1>6, <3>2, <3>3, OneMore, Zenon
    <3> QED BY <1>2, <1>3, <1>6, <3>1, <3>4, <3>5, Zenon
  <2>4. CASE Owner[x] # k
    <3>1. {y \in told' \ told : Owner[y] = k} = {}
      BY <2>1, <2>4, Zenon
    <3>2. Done(k)' = Done(k)
      BY <1>1, <2>1, <2>4, Zenon DEF Done
    <3> QED BY <1>2, <1>3, <1>6, <1>7, <3>1, <3>2, FS_EmptySet, Zenon
  <2> QED BY <2>3, <2>4, Zenon
<1> QED BY <1>1, <1>4, <1>5, ThreadReports, Zenon

\* Steps of the CU and of closing clients count nothing.
LEMMA OtherAccount ==
    ASSUME DrainIInv, UNCHANGED <<counts, subVars, told>>
    PROVE  Account'
BY Zenon DEF DrainIInv, Account, Sent, Done, counts, subVars

-----------------------------------------------------------------------------
(* What a close leaves behind. *)

\* Commands the thread was given are outstanding until they are reported: what was
\* sent is reported, outstanding, or about to look at the context again; what is
\* done is reported, or was never sent.
LEMMA Split ==
    ASSUME DrainIInv, NEW k \in Client
    PROVE  /\ IsFiniteSet(Outstanding(k)) /\ IsFiniteSet(Phantom(k))
           /\ s_cnt[k] + Cardinality(Phantom(k))
                = c_cnt[k] + Cardinality(Outstanding(k))
                    + Cardinality({x \in Cmd : Owner[x] = k /\ sub[x] \in {"again", "undo"}})
           /\ IsFiniteSet({x \in Cmd : Owner[x] = k /\ sub[x] \in {"again", "undo"}})
<1> DEFINE A == {x \in Cmd : Owner[x] = k /\ sub[x] \in {"again", "undo"}}
           R == {x \in Cmd : Owner[x] = k /\ x \in told}
           O == Outstanding(k)
           P == Phantom(k)
<1>1. /\ DrainTypeOK /\ EachOnce /\ Handed
      /\ IsFiniteSet(Sent(k)) /\ s_cnt[k] = Cardinality(Sent(k))
      /\ IsFiniteSet(Done(k)) /\ c_cnt[k] = Cardinality(Done(k))
  BY Zenon DEF DrainIInv, Account
<1>2. \A x \in R : sub[x] = "queued"
  BY <1>1, NotTold, Zenon
<1>3. Sent(k) = (R \cup O) \cup A /\ R \cap O = {} /\ (R \cup O) \cap A = {}
  BY <1>2, Zenon DEF Sent, Outstanding
<1>4. Done(k) = R \cup P /\ R \cap P = {}
  BY <1>2, Zenon DEF Done, Phantom
<1> HIDE DEF A, R, O, P
<1>5. /\ IsFiniteSet(A) /\ IsFiniteSet(R) /\ IsFiniteSet(O) /\ IsFiniteSet(R \cup O)
      /\ IsFiniteSet(P)
  BY <1>1, <1>3, <1>4, FS_Subset, Zenon
<1>6. /\ Cardinality(A) \in Nat /\ Cardinality(R) \in Nat /\ Cardinality(O) \in Nat
      /\ Cardinality(P) \in Nat /\ Cardinality(R \cup O) \in Nat
  BY <1>5, FS_CardinalityType, Zenon
<1>7. /\ Cardinality(R \cup O) = Cardinality(R) + Cardinality(O) - Cardinality({})
      /\ Cardinality(Sent(k)) = Cardinality(R \cup O) + Cardinality(A) - Cardinality({})
      /\ Cardinality(Done(k)) = Cardinality(R) + Cardinality(P) - Cardinality({})
  BY <1>3, <1>4, <1>5, FS_Union
<1>8. s_cnt[k] + Cardinality(P) = c_cnt[k] + Cardinality(O) + Cardinality(A)
  BY <1>1, <1>6, <1>7, FS_EmptySet
<1> QED BY <1>5, <1>8, Zenon DEF A, O, P

\* A client whose outstanding commands only get fewer, and whose phantoms more,
\* needs no new look at the counters.
LEMMA Fewer ==
    ASSUME DrainIInv, Account', NEW k \in Client,
           Outstanding(k)' \subseteq Outstanding(k), Phantom(k) \subseteq Phantom(k)',
           Cardinality(Outstanding(k)) <= Cardinality(Phantom(k))
    PROVE  Cardinality(Outstanding(k)') <= Cardinality(Phantom(k)')
<1>1. IsFiniteSet(Done(k)') /\ Phantom(k)' \subseteq Done(k)'
  BY Zenon DEF Account, Phantom, Done
<1>2. IsFiniteSet(Phantom(k)') /\ IsFiniteSet(Outstanding(k)) /\ IsFiniteSet(Phantom(k))
  BY <1>1, Split, FS_Subset, Zenon
<1>3. /\ Cardinality(Outstanding(k)') <= Cardinality(Outstanding(k))
      /\ Cardinality(Phantom(k)) <= Cardinality(Phantom(k)')
      /\ IsFiniteSet(Outstanding(k)')
  BY <1>2, FS_Subset, Zenon
<1>4. /\ Cardinality(Outstanding(k)') \in Nat /\ Cardinality(Outstanding(k)) \in Nat
      /\ Cardinality(Phantom(k)) \in Nat /\ Cardinality(Phantom(k)') \in Nat
  BY <1>2, <1>3, FS_CardinalityType, Zenon
<1> QED BY <1>3, <1>4

\* Equal counters mean that no more commands are outstanding than phantoms were
\* counted.
LEMMA Equal ==
    ASSUME DrainIInv, NEW k \in Client, s_cnt[k] = c_cnt[k]
    PROVE  Cardinality(Outstanding(k)) <= Cardinality(Phantom(k))
<1> DEFINE A == {x \in Cmd : Owner[x] = k /\ sub[x] \in {"again", "undo"}}
<1>1. /\ IsFiniteSet(Outstanding(k)) /\ IsFiniteSet(Phantom(k)) /\ IsFiniteSet(A)
      /\ s_cnt[k] + Cardinality(Phantom(k)) = c_cnt[k] + Cardinality(Outstanding(k)) + Cardinality(A)
  BY Split, Zenon
<1> HIDE DEF A
<1>2. /\ Cardinality(Outstanding(k)) \in Nat /\ Cardinality(Phantom(k)) \in Nat
      /\ Cardinality(A) \in Nat
  BY <1>1, FS_CardinalityType, Zenon
<1>3. c_cnt[k] \in Nat
  BY Zenon DEF DrainIInv, DrainTypeOK
<1> QED BY <1>1, <1>2, <1>3

\* A submission under way when its client closes the CU does not add to what is
\* outstanding: it looks at the context again and goes back.
LEMMA SubLastRead ==
    ASSUME DrainIInv, NEW x \in Cmd, SubBegin(x) \/ SubStep(x)
    PROVE  LastRead'
<1>1. /\ UNCHANGED <<open, close, drained, told>>
      /\ \A y \in Cmd : y # x => sub'[y] = sub[y] /\ cuIdx'[y] = cuIdx[y]
      /\ sub[x] # "failed" /\ (sub'[x] \in {"queue", "queued"} => sub[x] \in {"queue", "again"})
      /\ sub'[x] \in {"queue", "queued"} /\ sub[x] = "again" => open[Owner[x]]
  <2>1. UNCHANGED <<open, close, drained, told>>
    BY Zenon DEF SubBegin, SubStep, SubTest, SubFail, SubCount, SubAgain, SubUndo, SubQueue,
           Submit, closeVars, vars, queues
  <2>2. sub \in [Cmd -> {"idle", "test", "count", "again", "undo", "queue", "queued", "failed"}]
        /\ cuIdx \in [Cmd -> BOOLEAN]
    BY Zenon DEF DrainIInv, DrainTypeOK
  <2>3. \/ /\ sub[x] \in {"idle", "test", "count", "undo"} /\ cuIdx' = cuIdx
           /\ \E v \in {"test", "count", "failed", "again"} : sub' = [sub EXCEPT ![x] = v]
        \/ /\ sub[x] = "queue" /\ cuIdx' = cuIdx /\ sub' = [sub EXCEPT ![x] = "queued"]
        \/ SubAgain(x)
    BY Zenon DEF SubBegin, SubStep, SubTest, SubFail, SubCount, SubUndo, SubQueue
  <2>4. \A y \in Cmd : y # x => sub'[y] = sub[y] /\ cuIdx'[y] = cuIdx[y]
    BY <2>2, <2>3, Zenon DEF SubAgain
  <2>5. /\ sub[x] # "failed" /\ (sub'[x] \in {"queue", "queued"} => sub[x] \in {"queue", "again"})
        /\ sub'[x] \in {"queue", "queued"} /\ sub[x] = "again" => open[Owner[x]]
    BY <2>2, <2>3, Zenon DEF SubAgain
  <2> QED BY <2>1, <2>2, <2>4, <2>5, Zenon
<1> SUFFICES ASSUME NEW k \in Client, ~open'[k], close'[k] \in {"no", "leave"}, drained'[k]
             PROVE  Cardinality(Outstanding(k)') <= Cardinality(Phantom(k)')
  BY Zenon DEF LastRead
<1>2. Outstanding(k)' \subseteq Outstanding(k)
  BY <1>1, Zenon DEF Outstanding
<1>3. Phantom(k) \subseteq Phantom(k)'
  BY <1>1, Zenon DEF Phantom
<1>4. Cardinality(Outstanding(k)) <= Cardinality(Phantom(k))
  BY <1>1, Zenon DEF DrainIInv, LastRead
<1> QED BY <1>2, <1>3, <1>4, SubAccount, Fewer, Zenon

\* What the CU reports is no longer outstanding.
LEMMA CuLastRead ==
    ASSUME DrainIInv, Account', told \subseteq told', UNCHANGED <<open, closeVars, subVars>>
    PROVE  LastRead'
<1> SUFFICES ASSUME NEW k \in Client, ~open'[k], close'[k] \in {"no", "leave"}, drained'[k]
             PROVE  Cardinality(Outstanding(k)') <= Cardinality(Phantom(k)')
  BY Zenon DEF LastRead
<1>1. Outstanding(k)' \subseteq Outstanding(k) /\ Phantom(k) \subseteq Phantom(k)'
  BY Zenon DEF Outstanding, Phantom, subVars
<1>2. Cardinality(Outstanding(k)) <= Cardinality(Phantom(k))
  BY Zenon DEF DrainIInv, LastRead, closeVars
<1> QED BY <1>1, <1>2, Fewer, Zenon

\* Close calls end with drained set on equal counters only.
LEMMA CloseLastRead ==
    ASSUME DrainIInv, NEW c \in Client, CloseBegin(c) \/ CloseStep(c) \/ Open(c)
    PROVE  LastRead'
<1>1. told' = told /\ UNCHANGED <<counts, subVars>>
  BY Zenon DEF CloseBegin, CloseStep, CloseSkip, CloseAbort, ClosePoll, CloseLeave, Open,
         Abort, AbortDone, vars, queues
<1> SUFFICES ASSUME NEW k \in Client, ~open'[k], close'[k] \in {"no", "leave"}, drained'[k]
             PROVE  Cardinality(Outstanding(k)') <= Cardinality(Phantom(k)')
  BY Zenon DEF LastRead
<1>2. Outstanding(k)' = Outstanding(k) /\ Phantom(k)' = Phantom(k)
  BY <1>1, Zenon DEF Outstanding, Phantom, subVars
<1>3. \/ ~open[k] /\ close[k] \in {"no", "leave"} /\ drained[k]
      \/ s_cnt[k] = c_cnt[k]
  <2>1. /\ open \in [Client -> BOOLEAN] /\ drained \in [Client -> BOOLEAN]
        /\ close \in [Client -> {"no", "read", "poll", "leave"}]
    BY Zenon DEF DrainIInv, DrainTypeOK
  <2>2. CASE CloseBegin(c)
    BY <2>1, <2>2, Zenon DEF CloseBegin
  <2>3. CASE CloseSkip(c)
    BY <2>1, <2>3, Zenon DEF CloseSkip
  <2>4. CASE CloseAbort(c)
    BY <2>1, <2>4, Zenon DEF CloseAbort
  <2>5. CASE ClosePoll(c)
    BY <2>1, <2>5, Zenon DEF ClosePoll
  <2>6. CASE CloseLeave(c)
    BY <2>1, <2>6, Zenon DEF CloseLeave
  <2>7. CASE Open(c)
    BY <2>1, <2>7, Zenon DEF Open
  <2> QED BY <2>2, <2>3, <2>4, <2>5, <2>6, <2>7, Zenon DEF CloseStep
<1>4. Cardinality(Outstanding(k)) <= Cardinality(Phantom(k))
  BY <1>3, Equal, Zenon DEF DrainIInv, LastRead
<1> QED BY <1>2, <1>4, Zenon

-----------------------------------------------------------------------------
(* The rest of the invariant, and the theorems. *)

\* The CU learns of a command in the last step of its submission.
LEMMA HandedStep ==
    ASSUME DrainIInv, [DrainNext]_allVars
    PROVE  Handed'
<1>1. /\ TypeOK /\ EachOnce /\ Handed
      /\ sub \in [Cmd -> {"idle", "test", "count", "again", "undo", "queue", "queued", "failed"}]
      /\ status \in [Cmd -> {"none", "new", "completed", "abort", "timeout"}]
  BY Zenon DEF DrainIInv, DrainTypeOK, TypeOK
<1>2. CASE UNCHANGED <<sub, status>>
  BY <1>1, <1>2, Zenon DEF Handed
<1>3. CASE DrainThread
  BY <1>1, <1>3, ThreadOnce, Zenon DEF DrainThread, Handed, StatusKept, subVars
<1>4. ASSUME NEW x \in Cmd, SubQueue(x) PROVE Handed'
  BY <1>1, <1>4, Zenon DEF SubQueue, Submit, Handed
<1>5. ASSUME NEW x \in Cmd, SubBegin(x) \/ SubStep(x), ~SubQueue(x) PROVE Handed'
  <2>1. /\ status' = status /\ sub[x] # "queued"
        /\ \E v \in {"test", "failed", "count", "again", "queue", "undo"} : sub' = [sub EXCEPT ![x] = v]
    BY <1>5, Zenon DEF SubBegin, SubStep, SubTest, SubFail, SubCount, SubAgain, SubUndo, vars, queues
  <2> QED BY <1>1, <2>1, Zenon DEF Handed
<1>6. ASSUME NEW k \in Client, CloseBegin(k) \/ CloseStep(k) \/ Open(k)
      PROVE  UNCHANGED <<sub, status>>
  BY <1>6, Zenon DEF CloseBegin, CloseStep, CloseSkip, CloseAbort, ClosePoll, CloseLeave, Open,
         Abort, AbortDone, vars, queues, subVars
<1>7. CASE Device \/ UNCHANGED allVars
  BY <1>2, <1>7, Zenon DEF Device, HwDone, Tick, drainVars, subVars, allVars, vars, queues
<1> QED BY <1>2, <1>3, <1>4, <1>5, <1>6, <1>7, Zenon DEF DrainNext

\* The counters of every step stand for the sets behind them.
LEMMA AccountStep ==
    ASSUME DrainIInv, [DrainNext]_allVars
    PROVE  Account'
<1>1. ASSUME NEW k \in Client, CloseBegin(k) \/ CloseStep(k) \/ Open(k)
      PROVE  UNCHANGED <<counts, subVars, told>>
  BY <1>1, Zenon DEF CloseBegin, CloseStep, CloseSkip, CloseAbort, ClosePoll, CloseLeave, Open,
         Abort, AbortDone, vars, queues
<1>2. CASE Device \/ UNCHANGED allVars
  <2>1. UNCHANGED <<counts, subVars, told>>
    BY <1>2, Zenon DEF Device, HwDone, Tick, drainVars, allVars, vars, queues
  <2> QED BY <2>1, OtherAccount, Zenon
<1> QED BY <1>1, <1>2, SubAccount, ThreadAccount, OtherAccount, Zenon DEF DrainNext

\* No step undoes what the last read of a close has shown.
LEMMA LastReadStep ==
    ASSUME DrainIInv, [DrainNext]_allVars
    PROVE  LastRead'
<1>1. Account'
  BY AccountStep, Zenon
<1>2. CASE DrainThread
  <2>1. told \subseteq told'
    BY <1>2, ThreadReports, Zenon DEF DrainThread, DrainIInv, DrainTypeOK
  <2> QED BY <1>1, <1>2, <2>1, CuLastRead, Zenon DEF DrainThread
<1>3. CASE Device \/ UNCHANGED allVars
  <2>1. UNCHANGED <<open, closeVars, subVars, told>>
    BY <1>3, Zenon DEF Device, HwDone, Tick, drainVars, allVars, vars, queues
  <2> QED BY <1>1, <2>1, CuLastRead, Zenon
<1> QED BY <1>2, <1>3, SubLastRead, CloseLastRead, Zenon DEF DrainNext

\* The types of what close calls keep, and the reads left to one that polls.
CloseTypes ==
    /\ open \in [Client -> BOOLEAN] /\ drained \in [Client -> BOOLEAN]
    /\ closes \in [Client -> Nat] /\ \A k \in Client : closes[k] <= MaxCloses[k]
    /\ close \in [Client -> {"no", "read", "poll", "leave"}]
    /\ polls \in [Client -> 0 .. Polls]
    /\ kdsBad \in BOOLEAN
    /\ \A k \in Client : close[k] = "poll" => polls[k] > 0

\* Close calls, submissions and the CU keep them: a close polls Polls times at most.
LEMMA CloseTypeStep ==
    ASSUME CloseTypes, bad \in BOOLEAN, [DrainNext]_allVars
    PROVE  CloseTypes'
<1> USE DrainAssumption
<1>1. CASE UNCHANGED <<open, closeVars, kdsBad>>
  BY <1>1, Zenon DEF closeVars, CloseTypes
<1>2. ASSUME NEW x \in Cmd, SubBegin(x) \/ SubStep(x) PROVE UNCHANGED <<open, closeVars, kdsBad>>
  BY <1>2, Zenon DEF SubBegin, SubStep, SubTest, SubFail, SubCount, SubAgain, SubUndo, SubQueue
<1>3. CASE DrainThread \/ Device \/ UNCHANGED allVars
  BY <1>1, <1>3, Zenon DEF DrainThread, Device, drainVars, allVars
<1>4. ASSUME NEW k \in Client, CloseBegin(k) PROVE CloseTypes'
  BY <1>4 DEF CloseBegin, Inc, CloseTypes
<1>5. ASSUME NEW k \in Client, CloseSkip(k) PROVE CloseTypes'
  BY <1>5, Zenon DEF CloseSkip, CloseTypes
<1>6. ASSUME NEW k \in Client, CloseAbort(k) PROVE CloseTypes'
  BY <1>6 DEF CloseAbort, CloseTypes
<1>7. ASSUME NEW k \in Client, ClosePoll(k) PROVE CloseTypes'
  BY <1>7 DEF ClosePoll, Dec, CloseTypes
<1>8. ASSUME NEW k \in Client, CloseLeave(k) PROVE CloseTypes'
  BY <1>8, Zenon DEF CloseLeave, CloseTypes
<1>9. ASSUME NEW k \in Client, Open(k) PROVE CloseTypes'
  BY <1>9, Zenon DEF Open, CloseTypes
<1> QED BY <1>1, <1>2, <1>3, <1>4, <1>5, <1>6, <1>7, <1>8, <1>9, Zenon DEF DrainNext, CloseStep

\* Submissions and the CU thread keep the types of theirs; the counters are what
\* they count.
LEMMA SubTypeStep ==
    ASSUME DrainIInv, [DrainNext]_allVars
    PROVE  /\ s_cnt' \in [Client -> Nat] /\ c_cnt' \in [Client -> Nat]
           /\ sub' \in [Cmd -> {"idle", "test", "count", "again", "undo", "queue", "queued", "failed"}]
           /\ cuIdx' \in [Cmd -> BOOLEAN]
<1>1. /\ s_cnt \in [Client -> Nat] /\ c_cnt \in [Client -> Nat]
      /\ sub \in [Cmd -> {"idle", "test", "count", "again", "undo", "queue", "queued", "failed"}]
      /\ cuIdx \in [Cmd -> BOOLEAN]
  BY Zenon DEF DrainIInv, DrainTypeOK
<1>2. \A k \in Client : s_cnt'[k] \in Nat /\ c_cnt'[k] \in Nat
  BY AccountStep, FS_CardinalityType, Zenon DEF Account
<1>3. CASE UNCHANGED <<counts, subVars>>
  BY <1>1, <1>3, Zenon DEF counts, subVars
<1>4. CASE DrainThread
  <2>1. c_cnt' = [k \in Client |-> c_cnt'[k]] /\ s_cnt' = s_cnt /\ UNCHANGED subVars
    BY <1>4, Zenon DEF DrainThread
  <2> QED BY <1>1, <1>2, <2>1, Zenon DEF subVars
<1>5. ASSUME NEW x \in Cmd, SubBegin(x) \/ SubStep(x)
      PROVE  /\ s_cnt' \in [Client -> Nat] /\ c_cnt' \in [Client -> Nat]
             /\ sub' \in [Cmd -> {"idle", "test", "count", "again", "undo", "queue", "queued", "failed"}]
             /\ cuIdx' \in [Cmd -> BOOLEAN]
  <2>1. /\ s_cnt' = s_cnt \/ s_cnt' = Inc(s_cnt, Owner[x]) \/ s_cnt' = Dec(s_cnt, Owner[x])
        /\ c_cnt' = c_cnt \/ c_cnt' = Inc(c_cnt, Owner[x])
        /\ cuIdx' = cuIdx \/ cuIdx' = [cuIdx EXCEPT ![x] = TRUE]
    BY <1>5, Zenon DEF SubBegin, SubStep, SubTest, SubFail, SubCount, SubAgain, SubUndo, SubQueue, counts
  <2>2. \E v \in {"test", "failed", "count", "again", "queue", "undo", "queued"} :
           sub' = [sub EXCEPT ![x] = v]
    BY <1>5, Zenon DEF SubBegin, SubStep, SubTest, SubFail, SubCount, SubAgain, SubUndo, SubQueue
  <2>3. s_cnt' = [k \in Client |-> s_cnt'[k]] /\ c_cnt' = [k \in Client |-> c_cnt'[k]]
    BY <1>1, <2>1, Zenon DEF Inc, Dec
  <2>4. s_cnt' \in [Client -> Nat] /\ c_cnt' \in [Client -> Nat]
    BY <1>2, <2>3, Zenon
  <2>5. /\ sub' \in [Cmd -> {"idle", "test", "count", "again", "undo", "queue", "queued", "failed"}]
        /\ cuIdx' \in [Cmd -> BOOLEAN]
    BY <1>1, <2>1, <2>2, Zenon
  <2> QED BY <2>4, <2>5, Zenon
<1>6. ASSUME NEW k \in Client, CloseBegin(k) \/ CloseStep(k) \/ Open(k)
      PROVE  UNCHANGED <<counts, subVars>>
  BY <1>6, Zenon DEF CloseBegin, CloseStep, CloseSkip, CloseAbort, ClosePoll, CloseLeave, Open
<1>7. CASE Device \/ UNCHANGED allVars
  BY <1>3, <1>7, Zenon DEF Device, drainVars, allVars
<1> QED BY <1>3, <1>4, <1>5, <1>6, <1>7, Zenon DEF DrainNext

\* Every step keeps the invariant.
LEMMA DrainStep == DrainIInv /\ [DrainNext]_allVars => DrainIInv'
<1> SUFFICES ASSUME DrainIInv, [DrainNext]_allVars PROVE DrainIInv'
  BY Zenon
<1>1. TypeOK /\ EachOnce /\ CloseTypes /\ bad \in BOOLEAN
  BY Zenon DEF DrainIInv, DrainTypeOK, TypeOK, CloseTypes
<1>2. [Next]_vars
  BY CuStep, Zenon DEF allVars
<1>3. TypeOK' /\ EachOnce'
  BY <1>1, <1>2, TypeStep, OnceStep, Zenon
<1>4. CloseTypes'
  BY <1>1, CloseTypeStep, Zenon
<1>5. DrainTypeOK'
  BY <1>3, <1>4, SubTypeStep, Zenon DEF DrainTypeOK, CloseTypes
<1> QED BY <1>3, <1>4, <1>5, HandedStep, AccountStep, LastReadStep, Zenon DEF DrainIInv, CloseTypes

\* Nothing is sent and nothing is done at the start.
LEMMA DrainStart == DrainInit => DrainIInv
<1> SUFFICES ASSUME DrainInit PROVE DrainIInv
  BY Zenon
<1>1. TypeOK /\ EachOnce
  BY TypeInit, OnceInit, Zenon DEF DrainInit
<1>2. DrainTypeOK
  <2>1. /\ closes \in [Client -> Nat] /\ \A k \in Client : closes[k] <= MaxCloses[k]
        /\ polls \in [Client -> 0 .. Polls]
        /\ s_cnt \in [Client -> Nat] /\ c_cnt \in [Client -> Nat]
    BY DrainAssumption DEF DrainInit
  <2>2. /\ open \in [Client -> BOOLEAN] /\ drained \in [Client -> BOOLEAN]
        /\ close \in [Client -> {"no", "read", "poll", "leave"}]
        /\ sub \in [Cmd -> {"idle", "test", "count", "again", "undo", "queue", "queued", "failed"}]
        /\ cuIdx \in [Cmd -> BOOLEAN] /\ kdsBad \in BOOLEAN
    BY Zenon DEF DrainInit
  <2> QED BY <1>1, <2>1, <2>2, Zenon DEF DrainTypeOK
<1>3. \A k \in Client : Sent(k) = {} /\ Done(k) = {}
  BY Zenon DEF DrainInit, Init, Sent, Done
<1>4. Account
  BY <1>3, FS_EmptySet, Zenon DEF Account, DrainInit
<1>5. Handed /\ LastRead /\ \A k \in Client : close[k] = "poll" => polls[k] > 0
  BY Zenon DEF Handed, LastRead, DrainInit, Init
<1> QED BY <1>1, <1>2, <1>4, <1>5, Zenon DEF DrainIInv

\* The inductive invariant of submission and close: each counter is the number of
\* commands of a set, and no step undoes what the last read of a close has shown.
THEOREM DrainInductive == DrainSpec => []DrainIInv
BY DrainStart, DrainStep, PTL DEF DrainSpec

\* kds_cu_dispatch() and kds_del_cu_context() drive the CU within its own
\* specification: all that is proved of module XrtCu holds of the composition.
THEOREM DrainImplementsCu == DrainSpec => Spec
<1>1. DrainInit => Init
  BY Zenon DEF DrainInit
<1>2. [DrainNext]_allVars => [Next]_vars
  BY CuStep, Zenon DEF allVars
<1> QED BY <1>1, <1>2, PTL DEF DrainSpec, Spec

\* The counters and flags of submission and close keep their types: s_cnt is never
\* decremented below zero, and no close polls more often than it may.
THEOREM DrainTypeCorrect == DrainSpec => []DrainTypeOK
<1>1. DrainIInv => DrainTypeOK
  BY Zenon DEF DrainIInv
<1> QED BY <1>1, DrainInductive, PTL

\* s_cnt and c_cnt of a client differ by its outstanding commands, its submissions
\* about to look again, and its phantoms, whatever is submitted, aborted and closed.
THEOREM CountedHolds == DrainSpec => []Counted
<1>1. DrainIInv => Counted
  BY Split, Zenon DEF Counted
<1> QED BY <1>1, DrainInductive, PTL

\* A close that found s_cnt = c_cnt leaves no more commands with the CU than
\* phantoms were counted.
THEOREM ClosedButHolds == DrainSpec => []ClosedBut
<1>1. DrainIInv => ClosedBut
  BY Zenon DEF DrainIInv, LastRead, ClosedBut
<1> QED BY <1>1, DrainInductive, PTL
=============================================================================
