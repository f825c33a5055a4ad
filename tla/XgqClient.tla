------------------------------ MODULE XgqClient ------------------------------
(***************************************************************************)
(* Compute units that share one XGQ: xocl_xgq.c, which serves them, and    *)
(* the part of every CU's thread that calls it (cu_xgq.c, driven by        *)
(* xrt_cu.c).  Each CU is a client with a list of commands submitted and a *)
(* list of commands completed; any thread that looks at the completion     *)
(* queue takes the response at its head, whoever the response is for.      *)
(*                                                                         *)
(* The two rings are FIFOs of SlotNum entries, which is what XgqRing shows *)
(* of them.  The device finishes the commands of one CU in order and those *)
(* of different CUs in any order.  The threads poll: cu_xgq_check() always *)
(* counts a command done and ready, so they never sleep with commands      *)
(* submitted and the semaphores that xgq_isr() raises are left out.        *)
(***************************************************************************)
EXTENDS Queues

CONSTANTS
    CU,        \* CUs on the XGQ
    Cmd,       \* commands
    CuOf,      \* command -> the CU it is for
    NeedResp,  \* CUs attached with XGQ_PROT_NEED_RESP
    SlotNum,   \* slots of the submission and of the completion queue
    Tags,      \* values of the counter in a command id
    None,
    MaxAbort   \* bound: commands aborted

ASSUME XgqClientAssumption ==
    /\ IsFiniteSet(CU)
    /\ CuOf \in [Cmd -> CU]
    /\ NeedResp \subseteq CU
    /\ SlotNum \in Nat \ {0} /\ MaxAbort \in Nat
    /\ Tags \subseteq Nat /\ Tags # {}
    /\ None \notin {"completed", "crashed", "garbage", "error", "timeout"}

VARIABLES
    num,      \* xx_num_client
    id,       \* CU -> its client id, 0 until it attached
    att,      \* CUs attached
    sub,      \* client id -> xxc_submitted
    comp,     \* client id -> xxc_completed
    nsq,      \* CU -> num_sq, commands its thread has handed over
    pc,       \* CU -> where its thread is
    sq,       \* submission queue: entries written and not fetched
    shown,    \* how many of them the device has been told of
    dev,      \* CU -> entries the device works on
    cq,       \* completion queue: responses not consumed
    held,     \* responses consumed that the device has not been told of
    verdict,  \* command -> what the device answered
    told,     \* command -> its status
    done,     \* commands handed back to xrt_cu.c
    seen,     \* CUs whose last response in this loop reported a crash
    crashed,  \* CUs with status CU_AP_CRASHED
    aborts,   \* commands aborted
    spoilt    \* CUs that aborted a command

lists == <<sub, comp, nsq>>
rest == <<seen, crashed, aborts, spoilt>>
device == <<sq, shown, dev, cq, held, verdict>>
vars == <<num, id, att, sub, comp, nsq, pc, sq, shown, dev, cq, held, verdict,
          told, done, seen, crashed, aborts, spoilt>>

Id == 0 .. Cardinality(CU) - 1
Verdict == {"completed", "crashed", "garbage"}

\* The client id is in the low bits (CLIENT_ID_MASK) of a command id.  The
\* counter above it is shared by all XGQs and not locked.
Cid(tag, i) == tag * Cardinality(CU) + i
ClientOf(cid) == cid % Cardinality(CU)

Init ==
    /\ num = 0
    /\ id = [c \in CU |-> 0]
    /\ att = {}
    /\ sub = [i \in Id |-> <<>>]
    /\ comp = [i \in Id |-> <<>>]
    /\ nsq = [c \in CU |-> 0]
    /\ pc = [c \in CU |-> "idle"]
    /\ sq = <<>> /\ shown = 0
    /\ dev = [c \in CU |-> <<>>]
    /\ cq = <<>> /\ held = 0
    /\ verdict = [m \in Cmd |-> None]
    /\ told = [m \in Cmd |-> None]
    /\ done = {}
    /\ seen = {} /\ crashed = {}
    /\ aborts = 0
    /\ spoilt = {}

Goto(c, label) == pc' = [pc EXCEPT ![c] = label]

-----------------------------------------------------------------------------
\* A variant: the client is not counted.
AttachUncounted(c) ==
    /\ c \notin att
    /\ att' = att \cup {c}
    /\ id' = [id EXCEPT ![c] = num]
    /\ UNCHANGED <<num, lists, pc, device, told, done, rest>>

\* xocl_xgq_attach().  xrt_cu_xgq_init() has started the thread before: until
\* here it runs with client id 0.
Attach(c) ==
    /\ c \notin att
    /\ att' = att \cup {c}
    /\ id' = [id EXCEPT ![c] = num]
    /\ num' = num + 1
    /\ UNCHANGED <<lists, pc, device, told, done, rest>>

Issued == (UNION {SeqSet(sub[i]) \cup SeqSet(comp[i]) : i \in Id}) \cup done

\* A variant: room in the ring is not tested.
SubmitOver(c, m) ==
    /\ pc[c] = "idle" /\ c \in att
    /\ CuOf[m] = c /\ m \notin Issued
    /\ \E tag \in Tags : sq' = Append(sq, [m |-> m, cid |-> Cid(tag, id[c])])
    /\ sub' = [sub EXCEPT ![id[c]] = Append(@, m)]
    /\ nsq' = [nsq EXCEPT ![c] = @ + 1]
    /\ Goto(c, "start")
    /\ UNCHANGED <<num, id, att, comp, shown, dev, cq, held, verdict, told,
                   done, rest>>

\* A variant: the command counts as submitted though the ring was full.
SubmitAnyway(c, m) ==
    /\ pc[c] = "idle" /\ c \in att
    /\ CuOf[m] = c /\ m \notin Issued
    /\ IF Len(sq) < SlotNum
       THEN \E tag \in Tags : sq' = Append(sq, [m |-> m, cid |-> Cid(tag, id[c])])
       ELSE UNCHANGED sq
    /\ sub' = [sub EXCEPT ![id[c]] = Append(@, m)]
    /\ nsq' = [nsq EXCEPT ![c] = @ + 1]
    /\ Goto(c, "start")
    /\ UNCHANGED <<num, id, att, comp, shown, dev, cq, held, verdict, told,
                   done, rest>>

\* process_rq(), with xocl_xgq_set_command(): the entry is written and the
\* command moves to the client's list under xx_lock.  A full queue changes
\* nothing: the thread tries again.
Submit(c, m) ==
    /\ pc[c] = "idle" /\ c \in att
    /\ CuOf[m] = c /\ m \notin Issued
    /\ Len(sq) < SlotNum
    /\ \E tag \in Tags : sq' = Append(sq, [m |-> m, cid |-> Cid(tag, id[c])])
    /\ sub' = [sub EXCEPT ![id[c]] = Append(@, m)]
    /\ nsq' = [nsq EXCEPT ![c] = @ + 1]
    /\ Goto(c, "start")
    /\ UNCHANGED <<num, id, att, comp, shown, dev, cq, held, verdict, told,
                   done, rest>>

\* xocl_xgq_notify(): the device learns of every entry written so far.
Start(c) ==
    /\ pc[c] = "start"
    /\ shown' = Len(sq)
    /\ Goto(c, "idle")
    /\ UNCHANGED <<num, id, att, lists, sq, dev, cq, held, verdict, told, done,
                   rest>>

-----------------------------------------------------------------------------
(* The device. *)

Fetch ==
    /\ shown > 0
    /\ LET c == CuOf[Head(sq).m] IN dev' = [dev EXCEPT ![c] = Append(@, Head(sq))]
    /\ sq' = Tail(sq)
    /\ shown' = shown - 1
    /\ UNCHANGED <<num, id, att, lists, pc, cq, held, verdict, told, done,
                   rest>>

\* A response needs a slot that the device has been told is free.
Respond(c) ==
    /\ dev[c] # <<>>
    /\ Len(cq) + held < SlotNum
    /\ \E v \in (IF c \in NeedResp THEN Verdict ELSE {"completed"}) :
          verdict' = [verdict EXCEPT ![Head(dev[c]).m] = v]
    /\ cq' = Append(cq, Head(dev[c]))
    /\ dev' = [dev EXCEPT ![c] = Tail(@)]
    /\ UNCHANGED <<num, id, att, lists, pc, sq, shown, held, told, done,
                   rest>>

-----------------------------------------------------------------------------
(* A CU's thread looks for responses and for completed commands. *)

\* The status of a command from the response r: the result is read only for a
\* client that asked for it, and one out of range is an error.
Status(i, r) ==
    IF \E c \in att \cap NeedResp : id[c] = i
    THEN IF verdict[r.m] = "garbage" THEN "error" ELSE verdict[r.m]
    ELSE "completed"

\* Whose response it is: the header is read only when there are more clients.
Target(c, r) == IF num > 1 THEN ClientOf(r.cid) ELSE id[c]

\* A variant: the last one submitted is completed.
HandleRespLast(i, r) ==
    LET last == sub[i][Len(sub[i])]
    IN /\ told' = [told EXCEPT ![last] = Status(i, r)]
       /\ comp' = [comp EXCEPT ![i] = Append(@, last)]
       /\ sub' = [sub EXCEPT ![i] = SubSeq(@, 1, Len(@) - 1)]

\* xocl_xgq_handle_resp(): whatever command the response is for, the first one
\* submitted is completed.
HandleResp(i, r) ==
    /\ told' = [told EXCEPT ![Head(sub[i])] = Status(i, r)]
    /\ comp' = [comp EXCEPT ![i] = Append(@, Head(sub[i]))]
    /\ sub' = [sub EXCEPT ![i] = Tail(@)]

\* A variant: the last command submitted is not collected.
LoopEndsEarly(c, saw) ==
    /\ Goto(c, IF nsq[c] > 1 THEN "get" ELSE "idle")
    /\ seen' = seen \ {c}
    /\ crashed' = IF saw THEN crashed \cup {c} ELSE crashed

\* The loop of cu_xgq_check() ends: the thread collects what is completed,
\* unless it has nothing submitted (xrt_cu_check_force()).  The status of the
\* last response is taken for the CU's own, and crashed stays.
LoopEnds(c, saw) ==
    /\ Goto(c, IF nsq[c] > 0 THEN "get" ELSE "idle")
    /\ seen' = seen \ {c}
    /\ crashed' = IF saw THEN crashed \cup {c} ELSE crashed

\* xocl_xgq_check_response() from the loop of cu_xgq_check(), which goes on
\* after a response of this client and ends at another's.  A response that
\* nobody waits for is dropped, and the slot it was in is given back only with
\* the next one.
Check(c) ==
    /\ pc[c] \in {"idle", "check"} /\ cq # <<>>
    /\ LET r == Head(cq)
           i == Target(c, r)
       IN \/ /\ sub[i] = <<>>
             /\ held' = held + 1
             /\ LoopEnds(c, c \in seen)
             /\ UNCHANGED <<sub, comp, told>>
          \/ /\ sub[i] # <<>>
             /\ HandleResp(i, r)
             /\ held' = 0
             /\ LET saw == Status(i, r) = "crashed"
                IN \/ /\ i = id[c]
                      /\ Goto(c, "check")
                      /\ seen' = IF saw THEN seen \cup {c} ELSE seen \ {c}
                      /\ UNCHANGED crashed
                   \/ i # id[c] /\ LoopEnds(c, saw)
    /\ cq' = Tail(cq)
    /\ UNCHANGED <<num, id, att, nsq, sq, shown, dev, verdict, done, aborts,
                   spoilt>>

\* The queue is empty.  (An empty look with nothing completed changes nothing.)
CheckEmpty(c) ==
    /\ cq = <<>>
    /\ \/ pc[c] = "check"
       \/ pc[c] = "idle" /\ nsq[c] > 0 /\ comp[id[c]] # <<>>
    /\ LoopEnds(c, c \in seen)
    /\ UNCHANGED <<num, id, att, lists, device, told, done, aborts, spoilt>>

\* xocl_xgq_get_command() until there is none.
Get(c) ==
    /\ pc[c] = "get"
    /\ comp[id[c]] # <<>>
    /\ done' = done \cup {Head(comp[id[c]])}
    /\ comp' = [comp EXCEPT ![id[c]] = Tail(@)]
    /\ nsq' = [nsq EXCEPT ![c] = @ - 1]
    /\ UNCHANGED <<num, id, att, sub, pc, device, told, rest>>

GetNone(c) ==
    /\ pc[c] = "get"
    /\ comp[id[c]] = <<>>
    /\ Goto(c, "idle")
    /\ UNCHANGED <<num, id, att, lists, device, told, done, rest>>

\* xocl_xgq_abort() of the commands S: those of a client that is closing, or the
\* one that an abort command names.  Nothing is sent to the device, which goes
\* on with them.
Abort(c, S) ==
    /\ pc[c] \in {"idle", "get"} /\ c \in att
    /\ S \subseteq SeqSet(sub[id[c]]) /\ S # {}
    /\ aborts + Cardinality(S) <= MaxAbort
    /\ told' = [m \in Cmd |-> IF m \in S THEN "timeout" ELSE told[m]]
    /\ comp' = [comp EXCEPT ![id[c]] = @ \o Only(sub[id[c]], S)]
    /\ sub' = [sub EXCEPT ![id[c]] = Only(@, Cmd \ S)]
    /\ aborts' = aborts + Cardinality(S)
    /\ spoilt' = spoilt \cup {c}
    /\ Goto(c, "get")
    /\ UNCHANGED <<num, id, att, nsq, device, done, seen, crashed>>

-----------------------------------------------------------------------------
Thread(c) == Start(c) \/ Check(c) \/ CheckEmpty(c) \/ Get(c) \/ GetNone(c)

Next ==
    \/ \E c \in CU : Attach(c) \/ Thread(c) \/ Respond(c)
    \/ \E c \in CU, m \in Cmd : Submit(c, m)
    \/ \E c \in CU : \E S \in SUBSET SeqSet(sub[id[c]]) : Abort(c, S)
    \/ Fetch

\* The threads run, and the device fetches, works and answers.
Fairness ==
    /\ \A c \in CU : WF_vars(Thread(c)) /\ WF_vars(Respond(c))
    /\ WF_vars(Fetch)

Spec == Init /\ [][Next]_vars /\ Fairness

-----------------------------------------------------------------------------
(* Properties. *)

Entry == [m : Cmd, cid : Nat]

TypeOK ==
    /\ num \in 0 .. Cardinality(CU)
    /\ id \in [CU -> Id]
    /\ att \subseteq CU
    /\ sub \in [Id -> Seq(Cmd)] /\ comp \in [Id -> Seq(Cmd)]
    /\ nsq \in [CU -> Nat]
    /\ pc \in [CU -> {"idle", "start", "check", "get"}]
    /\ sq \in Seq(Entry) /\ Len(sq) <= SlotNum /\ shown \in 0 .. Len(sq)
    /\ dev \in [CU -> Seq(Entry)]
    /\ cq \in Seq(Entry) /\ held \in Nat /\ Len(cq) + held <= SlotNum
    /\ verdict \in [Cmd -> Verdict \cup {None}]
    /\ told \in [Cmd -> {"completed", "crashed", "error", "timeout", None}]
    /\ done \subseteq Cmd
    /\ seen \subseteq CU /\ crashed \subseteq CU
    /\ aborts \in 0 .. MaxAbort /\ spoilt \subseteq att

\* num_sq of a CU's thread counts exactly the commands on its two lists,
\* whichever thread moved them from one to the other: none is lost, and none
\* ends up with another CU.
CountMatches ==
    \A c \in att : /\ nsq[c] = Len(sub[id[c]]) + Len(comp[id[c]])
                   /\ \A m \in SeqSet(sub[id[c]]) \cup SeqSet(comp[id[c]]) : CuOf[m] = c

\* A command is finished by its own response: its status is what the device
\* answered for it, as long as no command of its CU was aborted.  Responses of
\* different CUs come in any order, threads take each other's, and command ids
\* repeat.
ToldOwn ==
    \A m \in Cmd :
        told[m] # None /\ CuOf[m] \notin spoilt =>
            /\ verdict[m] # None
            /\ told[m] = IF CuOf[m] \notin NeedResp THEN "completed"
                         ELSE IF verdict[m] = "garbage" THEN "error" ELSE verdict[m]

\* Entries with the device, or on their way there or back; those of client i.
InFlight == SeqSet(sq) \cup SeqSet(cq) \cup UNION {SeqSet(dev[c]) : c \in CU}
ToCome(i) == Cardinality({e \in InFlight : ClientOf(e.cid) = i})

\* A client never waits for more responses than are to come, even after commands
\* were aborted and their late responses finished others or were dropped.
NoneStarves == \A i \in Id : Len(sub[i]) <= ToCome(i)

\* Clients have ids of their own, in the order they attached; ahead of that a CU
\* runs with client id 0 and has nothing, and so has an id not given out yet.
Ids ==
    /\ num = Cardinality(att)
    /\ \A c \in att : id[c] < num
    /\ \A c, d \in att : id[c] = id[d] => c = d
    /\ \A c \in CU \ att : id[c] = 0 /\ nsq[c] = 0 /\ pc[c] \in {"idle", "check"}
    /\ \A i \in Id : i >= num => sub[i] = <<>> /\ comp[i] = <<>>

\* An entry is of a command issued by a client, and names that client; the device
\* has it with the CU it is for.
Good(e) == e.m \in Issued /\ CuOf[e.m] \in att /\ ClientOf(e.cid) = id[CuOf[e.m]]
Entries ==
    /\ \A e \in InFlight : Good(e)
    /\ \A c \in CU : \A e \in SeqSet(dev[c]) : CuOf[e.m] = c
    /\ \A e \in SeqSet(cq) : verdict[e.m] # None
    /\ IsFiniteSet(InFlight)

\* A command waits with the client it is for, once, and not after it has its status.
WaitsOnce ==
    /\ \A i \in Id : \A m \in SeqSet(sub[i]) : CuOf[m] \in att /\ id[CuOf[m]] = i
    /\ \A m \in Cmd : /\ \A i \in Id : Times(sub[i], m) <= 1
                      /\ told[m] # None => m \in Issued /\ \A i \in Id : m \notin SeqSet(sub[i])

\* The entries of a CU that are in flight, the next response first, and the
\* commands of entries.
Line(c) ==
    LET S == {e \in Entry : CuOf[e.m] = c} IN (Only(cq, S) \o dev[c]) \o Only(sq, S)
Names(s) == [j \in 1 .. Len(s) |-> s[j].m]

\* The list of a client is in the order the responses will come.
InOrder == \A c \in att \ spoilt : sub[id[c]] = Names(Line(c))

\* What a step needs to know for the above to carry over.
ClientIInv ==
    /\ TypeOK /\ Ids /\ Entries /\ CountMatches /\ NoneStarves
    /\ WaitsOnce /\ InOrder /\ ToldOwn

\* A command that was submitted is handed back.  This needs fewer aborts than the
\* completion queue has slots: late responses that find nothing submitted keep
\* their slots.
EventuallyDone == \A m \in Cmd : (m \in Issued) ~> (m \in done)
=============================================================================
