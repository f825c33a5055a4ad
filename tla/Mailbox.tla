------------------------------- MODULE Mailbox -------------------------------
(***************************************************************************)
(* The mailbox between the two functions of a PCIe card: the driver        *)
(* subdev/mailbox.c, which runs on the user function and on the management *)
(* function, over a hardware channel of one packet each way and a software *)
(* channel that a daemon relays.                                           *)
(*                                                                         *)
(* On each side a TX thread cuts messages into packets, an RX thread       *)
(* assembles them, a listener serves what the peer asked, and a timer per  *)
(* channel fails what takes too long.  Callers on the user side send       *)
(* requests and wait for the response that carries the id of their         *)
(* request; the management side also posts notifications.  Either side may *)
(* be taken offline and brought online again (mailbox_stop, mailbox_start).*)
(*                                                                         *)
(* Time is abstracted: a message whose timer runs may expire at any tick.  *)
(* A message is NPkt packets; its payload is which message and which       *)
(* packet of it.  The workers' sleeps are left out: an iteration that      *)
(* finds nothing to do changes nothing, and completions count, so none is  *)
(* lost.                                                                   *)
(***************************************************************************)
EXTENDS Queues

CONSTANTS
    Req,       \* requests made on the user side, one caller thread each
    Note,      \* notifications posted on the management side
    NBuf,      \* bound: addresses of request buffers, which are the message ids
    Sw,        \* requests and notifications switched to the software channel
    Big,       \* requests whose response does not fit the caller's buffer
    None,
    NPkt,      \* packets of a message
    MaxReq,    \* MAX_MSG_QUEUE_LEN, requests cached for the listener
    Poll,      \* mailbox_no_intr: the RX timer always runs
    MaxFault   \* bound: times a side goes offline or drops a packet it received

Buf == 1 .. NBuf

ASSUME MailboxAssumption ==
    /\ Sw \subseteq Req \cup Note /\ Big \subseteq Req
    /\ Req \cap Note = {}
    /\ None \notin Req \cup Note
    /\ NPkt \in Nat \ {0} /\ MaxReq \in Nat \ {0} /\ NBuf \in Nat \ {0}
    /\ MaxFault \in Nat
    /\ Poll \in BOOLEAN

VARIABLES
    pc,      \* request -> where its caller is in _mailbox_request()
    buf,     \* request -> address of its buffer
    txdone,  \* request -> error of the request message once complete
    rxdone,  \* request -> error and data of the response once complete
    res,     \* request -> what the call returned
    freed,   \* requests whose response message is freed
    note,    \* notification -> "idle", "queued" or "posted"
    phase,   \* side -> "up", "txfini", "rxfini" or "down"
    tx,      \* side -> TX channel: queue, message in progress, packets sent,
             \*         timer
    rx,      \* side -> RX channel: responses waited for, message in progress,
             \*         packets received, timer
    reqs,    \* side -> requests received for the listener
    listen,  \* side -> request the listener is on
    fifo,    \* side -> packet it sent that the peer has not read
    swtx,    \* side -> outgoing message in the software slot
    swrx,    \* side -> incoming message in the software slot
    relay,   \* side -> its message in the hands of the daemon
    asleep,  \* sides whose messages the daemon sleeps on delivering
    served,  \* request -> times the management side has served it
    purged,  \* sides whose incoming software slot was emptied unread
    stops,   \* times a side went offline
    drops    \* packets dropped on reception

caller == <<pc, buf, res, freed>>
soft == <<swtx, swrx, relay, asleep>>
hist == <<served, purged, stops, drops>>
vars == <<pc, buf, txdone, rxdone, res, freed, note, phase, tx, rx, reqs,
          listen, fifo, swtx, swrx, relay, asleep, served, purged, stops,
          drops>>

Side == {"user", "mgmt"}
Peer(p) == IF p = "user" THEN "mgmt" ELSE "user"

\* A message: a request, response or notification of session s; big when it
\* does not fit the buffer that waits for it.
Msg(k, s, id) ==
    [k |-> k, s |-> s, id |-> id, sw |-> s \in Sw, big |-> k = "resp" /\ s \in Big]
Pkt(m, i) == [m |-> m, i |-> i]
Whole(m) == [i \in 1 .. NPkt |-> Pkt(m, i)]

\* MBXCS_BIT_STOP of the channels.
TxStopped(p) == phase[p] # "up"
RxStopped(p) == phase[p] \in {"rxfini", "down"}

\* What chan_config_timer() sets mbc_timer_on to.
TxTimer(q) == q # <<>>
RxTimer(p, w) == (Poll /\ phase[p] = "up") \/ w # <<>>

\* chan_msg_enqueue() on the TX channel of p, which fails once it is stopped.
\* It calls chan_config_timer() after it released the queue's mutex: the TX
\* thread may have taken the message by then.
Enqueue(p, m) ==
    tx' = IF TxStopped(p) THEN tx ELSE [tx EXCEPT ![p].q = Append(@, m)]
ConfigTxTimer(p) == tx' = [tx EXCEPT ![p].timer = TxTimer(tx[p].q)]

IdleTx == [q |-> <<>>, cur |-> None, sent |-> 0, timer |-> FALSE]
IdleRx == [wait |-> <<>>, cur |-> None, got |-> <<>>, timer |-> Poll]

Init ==
    /\ pc = [r \in Req |-> "idle"]
    /\ buf = [r \in Req |-> 0]
    /\ txdone = [r \in Req |-> None]
    /\ rxdone = [r \in Req |-> None]
    /\ res = [r \in Req |-> None]
    /\ freed = {}
    /\ note = [n \in Note |-> "idle"]
    /\ phase = [p \in Side |-> "up"]
    /\ tx = [p \in Side |-> IdleTx]
    /\ rx = [p \in Side |-> IdleRx]
    /\ reqs = [p \in Side |-> <<>>]
    /\ listen = [p \in Side |-> None]
    /\ fifo = [p \in Side |-> None]
    /\ swtx = [p \in Side |-> None]
    /\ swrx = [p \in Side |-> None]
    /\ relay = [p \in Side |-> None]
    /\ asleep = {}
    /\ served = [r \in Req |-> 0]
    /\ purged = {}
    /\ stops = 0
    /\ drops = 0

-----------------------------------------------------------------------------
(* A caller: _mailbox_request(). *)

Goto(r, label) == pc' = [pc EXCEPT ![r] = label]
Return(r, err) == Goto(r, "done") /\ res' = [res EXCEPT ![r] = err]

\* The caller owns its buffer until the call returns, and then its address may
\* be used again (fresh addresses are taken in order, without loss of
\* generality).  The response message is queued first.
Request(r) ==
    /\ pc[r] = "idle"
    /\ \E b \in Buf :
          /\ \A s \in Req : buf[s] = b => pc[s] = "done"
          /\ \A a \in 1 .. b - 1 : \E s \in Req : buf[s] = a
          /\ buf' = [buf EXCEPT ![r] = b]
    /\ \/ RxStopped("user") /\ Return(r, "shutdown") /\ UNCHANGED rx
       \/ /\ ~RxStopped("user")
          /\ rx' = [rx EXCEPT !["user"].wait = Append(@, r), !["user"].timer = TRUE]
          /\ Goto(r, "send")
          /\ UNCHANGED res
    /\ UNCHANGED <<txdone, rxdone, freed, note, phase, tx, reqs, listen, fifo,
                   soft, hist>>

RequestSend(r) ==
    /\ pc[r] = "send"
    /\ Enqueue("user", Msg("req", r, buf[r]))
    /\ Goto(r, IF TxStopped("user") THEN "cancel" ELSE "txtimer")
    /\ UNCHANGED <<buf, res, freed, txdone, rxdone, note, phase, rx, reqs,
                   listen, fifo, soft, hist>>

RequestTxTimer(r) ==
    /\ pc[r] = "txtimer"
    /\ ConfigTxTimer("user")
    /\ Goto(r, "sending")
    /\ UNCHANGED <<buf, res, freed, txdone, rxdone, note, phase, rx, reqs,
                   listen, fifo, soft, hist>>

\* Sent: from here on the response message has a time to live.
RequestSent(r) ==
    /\ pc[r] = "sending"
    /\ txdone[r] = "ok"
    /\ Goto(r, "waiting")
    /\ UNCHANGED <<buf, res, freed, txdone, rxdone, note, phase, tx, rx, reqs,
                   listen, fifo, soft, hist>>

\* chan_msg_dequeue() of the response message.  When the request could not be
\* queued the message is freed only if it was still there; when it could not be
\* sent it is freed in any case.
RequestFailed(r) ==
    /\ \/ pc[r] = "cancel"
       \/ pc[r] = "sending" /\ txdone[r] \notin {None, "ok"}
    /\ rx' = [rx EXCEPT !["user"].wait = Only(@, Req \ {r})]
    /\ freed' = IF pc[r] = "sending" \/ r \in SeqSet(rx["user"].wait)
                THEN freed \cup {r} ELSE freed
    /\ Return(r, IF pc[r] = "sending" THEN txdone[r] ELSE "shutdown")
    /\ UNCHANGED <<buf, txdone, rxdone, note, phase, tx, reqs, listen, fifo,
                   soft, hist>>

RequestAnswered(r) ==
    /\ pc[r] = "waiting"
    /\ rxdone[r] # None
    /\ freed' = freed \cup {r}
    /\ Return(r, rxdone[r].err)
    /\ UNCHANGED <<buf, txdone, rxdone, note, phase, tx, rx, reqs, listen, fifo,
                   soft, hist>>

Caller(r) ==
    \/ RequestSend(r) \/ RequestTxTimer(r)
    \/ RequestSent(r) \/ RequestFailed(r) \/ RequestAnswered(r)

-----------------------------------------------------------------------------
(* mailbox_post_notify() on the management side. *)

PostNotify(n) ==
    /\ note[n] = "idle"
    /\ note' = [note EXCEPT ![n] = "queued"]
    /\ Enqueue("mgmt", Msg("note", n, 0))
    /\ UNCHANGED <<caller, txdone, rxdone, phase, rx, reqs, listen, fifo, soft, hist>>

PostTxTimer(n) ==
    /\ note[n] = "queued"
    /\ note' = [note EXCEPT ![n] = "posted"]
    /\ ConfigTxTimer("mgmt")
    /\ UNCHANGED <<caller, txdone, rxdone, phase, rx, reqs, listen, fifo, soft, hist>>

-----------------------------------------------------------------------------
(* The TX thread: chan_do_tx(). *)

\* dequeue_tx_msg()
TxTake(p) ==
    /\ phase[p] \in {"up", "txfini"}
    /\ tx[p].cur = None
    /\ tx[p].q # <<>>
    /\ tx' = [tx EXCEPT ![p].cur = Head(tx[p].q), ![p].q = Tail(tx[p].q)]
    /\ UNCHANGED <<caller, txdone, rxdone, note, phase, rx, reqs, listen, fifo,
                   soft, hist>>

\* is_tx_chan_ready()
TxReady(p) == swtx[p] = None /\ fifo[p] = None

TxSending(p) ==
    /\ phase[p] = "up"
    /\ tx[p].cur # None
    /\ tx[p].sent < NPkt
    /\ TxReady(p)

\* do_hw_tx()
TxSendPkt(p) ==
    /\ TxSending(p)
    /\ ~tx[p].cur.sw
    /\ fifo' = [fifo EXCEPT ![p] = Pkt(tx[p].cur, tx[p].sent + 1)]
    /\ tx' = [tx EXCEPT ![p].sent = @ + 1]
    /\ UNCHANGED <<caller, txdone, rxdone, note, phase, rx, reqs, listen, soft, hist>>

\* do_sw_tx(): in the slot, the message counts as sent.
TxSendSw(p) ==
    /\ TxSending(p)
    /\ tx[p].cur.sw
    /\ swtx' = [swtx EXCEPT ![p] = tx[p].cur]
    /\ tx' = [tx EXCEPT ![p].sent = NPkt]
    /\ UNCHANGED <<caller, txdone, rxdone, note, phase, rx, reqs, listen, fifo,
                   swrx, relay, asleep, hist>>

\* A variant: the count of what is sent is not reset.
TxDoneKeepsCount(p, err) ==
    /\ tx' = [tx EXCEPT ![p].cur = None, ![p].timer = TxTimer(tx[p].q)]
    /\ txdone' = IF tx[p].cur.k = "req"
                 THEN [txdone EXCEPT ![tx[p].cur.s] = err] ELSE txdone

\* A variant: an error wakes nobody.
TxDoneSilent(p, err) ==
    /\ tx' = [tx EXCEPT ![p].cur = None, ![p].sent = 0,
                        ![p].timer = TxTimer(tx[p].q)]
    /\ txdone' = IF tx[p].cur.k = "req" /\ err = "ok"
                 THEN [txdone EXCEPT ![tx[p].cur.s] = err] ELSE txdone

\* chan_msg_done() on the TX channel: a request wakes its caller, what was
\* posted is freed.
TxDone(p, err) ==
    /\ tx' = [tx EXCEPT ![p].cur = None, ![p].sent = 0,
                        ![p].timer = TxTimer(tx[p].q)]
    /\ txdone' = IF tx[p].cur.k = "req"
                 THEN [txdone EXCEPT ![tx[p].cur.s] = err] ELSE txdone

TxFinish(p) ==
    /\ phase[p] = "up"
    /\ tx[p].cur # None
    /\ tx[p].sent = NPkt
    /\ TxDone(p, "ok")
    /\ UNCHANGED <<caller, rxdone, note, phase, rx, reqs, listen, fifo, soft, hist>>

\* A variant: a message that is all sent may still time out.
TxTimeoutLate(p) ==
    /\ phase[p] = "up"
    /\ tx[p].timer
    /\ tx[p].cur # None
    /\ TxDone(p, "time")
    /\ swtx' = [swtx EXCEPT ![p] = None]
    /\ UNCHANGED <<caller, rxdone, note, phase, rx, reqs, listen, fifo, swrx,
                   relay, asleep, hist>>

\* timeout_msg(): messages that wait have no limit.  The software slot is
\* cleaned up, whosever message is in it.
TxTimeout(p) ==
    /\ phase[p] = "up"
    /\ tx[p].timer
    /\ tx[p].cur # None
    /\ tx[p].sent < NPkt
    /\ TxDone(p, "time")
    /\ swtx' = [swtx EXCEPT ![p] = None]
    /\ UNCHANGED <<caller, rxdone, note, phase, rx, reqs, listen, fifo, swrx,
                   relay, asleep, hist>>

\* chan_fini()
TxFini(p) ==
    /\ phase[p] = "txfini"
    /\ tx[p].cur # None
    /\ TxDone(p, "shutdown")
    /\ UNCHANGED <<caller, rxdone, note, phase, rx, reqs, listen, fifo, soft, hist>>

TxThread(p) ==
    TxTake(p) \/ TxSendPkt(p) \/ TxSendSw(p) \/ TxFinish(p) \/ TxFini(p)

-----------------------------------------------------------------------------
(* The RX thread: chan_do_rx().  What it does to one side's RX channel, to    *)
(* the requests received there and to the completions of the callers is a     *)
(* function of the three, st.                                                 *)

RxState(p) == [side |-> p, ch |-> rx[p], reqs |-> reqs[p], done |-> rxdone]

SetRx(p, st) ==
    /\ rx' = [rx EXCEPT ![p] = st.ch]
    /\ reqs' = [reqs EXCEPT ![p] = st.reqs]
    /\ rxdone' = st.done

\* A variant: any number of requests is cached.
RxDoneUnbounded(st, err) ==
    LET c == st.ch.cur
    IN [side |-> st.side,
        ch   |-> [st.ch EXCEPT !.cur = None, !.got = <<>>,
                               !.timer = RxTimer(st.side, st.ch.wait)],
        reqs |-> IF c.k = "resp" THEN st.reqs
                 ELSE Append(st.reqs, [m |-> c.m, err |-> err, data |-> st.ch.got]),
        done |-> IF c.k = "req" THEN st.done
                 ELSE [st.done EXCEPT ![c.s] = [err |-> err, data |-> st.ch.got]]]

\* chan_msg_done() on the RX channel: a response wakes its caller, a request is
\* cached for the listener, with its error, unless too many are.
RxDone(st, err) ==
    LET c == st.ch.cur
    IN [side |-> st.side,
        ch   |-> [st.ch EXCEPT !.cur = None, !.got = <<>>,
                               !.timer = RxTimer(st.side, st.ch.wait)],
        reqs |-> IF c.k = "resp" \/ Len(st.reqs) >= MaxReq THEN st.reqs
                 ELSE Append(st.reqs, [m |-> c.m, err |-> err, data |-> st.ch.got]),
        done |-> IF c.k = "req" THEN st.done
                 ELSE [st.done EXCEPT ![c.s] = [err |-> err, data |-> st.ch.got]]]

\* A variant: a response goes to the first caller that waits.
RxDequeueFirst(st, m) ==
    LET s  == Head(st.ch.wait)
        to == [st EXCEPT !.ch.cur = [k |-> "resp", s |-> s, m |-> m],
                         !.ch.wait = Tail(@)]
    IN CASE m.k # "resp" -> [st EXCEPT !.ch.cur = [k |-> "req", s |-> None, m |-> m]]
         [] m.k = "resp" /\ st.ch.wait = <<>> -> st
         [] m.k = "resp" /\ st.ch.wait # <<>> -> IF m.big THEN RxDone(to, "msgsize") ELSE to

\* dequeue_rx_msg(): a response goes to the caller that waits for its id, a
\* request or notification to a new buffer.
RxDequeue(st, m) ==
    LET at == {i \in DOMAIN st.ch.wait : buf[st.ch.wait[i]] = m.id}
        s  == st.ch.wait[CHOOSE i \in at : \A j \in at : i <= j]
        to == [st EXCEPT !.ch.cur = [k |-> "resp", s |-> s, m |-> m],
                         !.ch.wait = Only(@, Req \ {s})]
    IN CASE m.k # "resp" -> [st EXCEPT !.ch.cur = [k |-> "req", s |-> None, m |-> m]]
         [] m.k = "resp" /\ at = {} -> st
         [] m.k = "resp" /\ at # {} -> IF m.big THEN RxDone(to, "msgsize") ELSE to

\* chan_pkt2msg() and the end of do_hw_rx().
RxAccept(st, pkt) ==
    LET more == [st EXCEPT !.ch.got = Append(@, pkt)]
    IN CASE st.ch.cur = None -> st
         [] st.ch.cur # None /\ Len(st.ch.got) = NPkt -> RxDone(st, "badmsg")
         [] st.ch.cur # None /\ Len(st.ch.got) < NPkt ->
               IF pkt.i = NPkt THEN RxDone(more, "ok") ELSE more

\* do_hw_rx(): the start of a message ends the one in progress.
RxPkt(st, pkt) ==
    IF pkt.i > 1 THEN RxAccept(st, pkt)
    ELSE LET cut == IF st.ch.cur = None THEN st ELSE RxDone(st, "badmsg")
         IN RxAccept(RxDequeue(cut, pkt.m), pkt)

\* do_sw_rx()
RxMsg(st, m) ==
    LET to == RxDequeue(st, m)
    IN IF to.ch.cur = None THEN to
       ELSE RxDone([to EXCEPT !.ch.got = Whole(m)], "ok")

RxHw(p) ==
    /\ ~RxStopped(p)
    /\ fifo[Peer(p)] # None
    /\ SetRx(p, RxPkt(RxState(p), fifo[Peer(p)]))
    /\ fifo' = [fifo EXCEPT ![Peer(p)] = None]
    /\ UNCHANGED <<caller, txdone, note, phase, tx, listen, soft, hist>>

\* chan_recv_pkt() runs dry or its rate check fails: the packet is forgotten.
RxDrop(p) ==
    /\ ~RxStopped(p)
    /\ fifo[Peer(p)] # None
    /\ stops + drops < MaxFault
    /\ drops' = drops + 1
    /\ fifo' = [fifo EXCEPT ![Peer(p)] = None]
    /\ UNCHANGED <<caller, txdone, rxdone, note, phase, tx, rx, reqs, listen,
                   soft, served, purged, stops>>

\* A variant: the daemon is not woken.
RxSwSilent(p) ==
    /\ ~RxStopped(p)
    /\ rx[p].cur = None
    /\ swrx[p] # None
    /\ SetRx(p, RxMsg(RxState(p), swrx[p]))
    /\ swrx' = [swrx EXCEPT ![p] = None]
    /\ UNCHANGED <<caller, txdone, note, phase, tx, listen, fifo, swtx, relay,
                   asleep, hist>>

\* No message is taken from the slot while one comes in from hardware.  The
\* daemon that sleeps on the slot is woken.
RxSw(p) ==
    /\ ~RxStopped(p)
    /\ rx[p].cur = None
    /\ swrx[p] # None
    /\ SetRx(p, RxMsg(RxState(p), swrx[p]))
    /\ swrx' = [swrx EXCEPT ![p] = None]
    /\ asleep' = asleep \ {Peer(p)}
    /\ UNCHANGED <<caller, txdone, note, phase, tx, listen, fifo, swtx, relay, hist>>

\* timeout_msg() on the message in progress: the software slot is cleaned up
\* too, and nobody is woken.
RxTimeout(p) ==
    /\ ~RxStopped(p)
    /\ rx[p].timer
    /\ rx[p].cur # None
    /\ SetRx(p, RxDone(RxState(p), "time"))
    /\ swrx' = [swrx EXCEPT ![p] = None]
    /\ purged' = IF swrx[p] = None THEN purged ELSE purged \cup {p}
    /\ UNCHANGED <<caller, txdone, note, phase, tx, listen, fifo, swtx, relay,
                   asleep, served, stops, drops>>

\* timeout_msg() on a response waited for: msg_timer_on() was called for it.
RxExpire(r) ==
    /\ ~RxStopped("user")
    /\ rx["user"].timer
    /\ pc[r] = "waiting"
    /\ r \in SeqSet(rx["user"].wait)
    /\ LET w == Only(rx["user"].wait, Req \ {r})
       IN rx' = [rx EXCEPT !["user"].wait = w,
                           !["user"].timer = RxTimer("user", w)]
    /\ rxdone' = [rxdone EXCEPT ![r] = [err |-> "time", data |-> <<>>]]
    /\ UNCHANGED <<caller, txdone, note, phase, tx, reqs, listen, fifo, soft, hist>>

\* chan_fini() takes a waiting message off the queue, then completes it.
RxFiniTake(p) ==
    /\ phase[p] = "rxfini"
    /\ rx[p].cur = None
    /\ rx[p].wait # <<>>
    /\ rx' = [rx EXCEPT ![p].cur = [k |-> "resp", s |-> Head(rx[p].wait), m |-> None],
                        ![p].wait = Tail(rx[p].wait)]
    /\ UNCHANGED <<caller, txdone, rxdone, note, phase, tx, reqs, listen, fifo,
                   soft, hist>>

RxFini(p) ==
    /\ phase[p] = "rxfini"
    /\ rx[p].cur # None
    /\ SetRx(p, RxDone(RxState(p), "shutdown"))
    /\ UNCHANGED <<caller, txdone, note, phase, tx, listen, fifo, soft, hist>>

RxThread(p) == RxHw(p) \/ RxSw(p) \/ RxFiniTake(p) \/ RxFini(p)

-----------------------------------------------------------------------------
(* The listener: mailbox_recv_request(). *)

\* A variant: the request is not taken off the list when it is served.
ListenTakeKeeps(p) ==
    /\ phase[p] # "down"
    /\ listen[p] = None
    /\ reqs[p] # <<>>
    /\ listen' = [listen EXCEPT ![p] = Head(reqs[p])]
    /\ UNCHANGED <<caller, txdone, rxdone, note, phase, tx, rx, reqs, fifo, soft, hist>>

ListenTake(p) ==
    /\ phase[p] # "down"
    /\ listen[p] = None
    /\ reqs[p] # <<>>
    /\ listen' = [listen EXCEPT ![p] = Head(reqs[p])]
    /\ reqs' = [reqs EXCEPT ![p] = Tail(reqs[p])]
    /\ UNCHANGED <<caller, txdone, rxdone, note, phase, tx, rx, fifo, soft, hist>>

\* process_request() and xclmgmt_mailbox_srv(): nothing is done for a message
\* received with an error; a request may be ignored (channel disabled, wrong
\* size), a notification has no response.
ListenIgnore(p) ==
    /\ listen[p] # None
    /\ listen[p].err # "posted"
    /\ listen' = [listen EXCEPT ![p] = None]
    /\ UNCHANGED <<caller, txdone, rxdone, note, phase, tx, rx, reqs, fifo, soft, hist>>

\* mailbox_post_response()
ListenServe(p) ==
    /\ listen[p] # None
    /\ listen[p].err = "ok"
    /\ listen[p].m.k = "req"
    /\ served' = [served EXCEPT ![listen[p].m.s] = @ + 1]
    /\ listen' = [listen EXCEPT ![p].err = "posted"]
    /\ Enqueue(p, Msg("resp", listen[p].m.s, listen[p].m.id))
    /\ UNCHANGED <<caller, txdone, rxdone, note, phase, rx, reqs, fifo, soft,
                   purged, stops, drops>>

ListenTxTimer(p) ==
    /\ listen[p] # None
    /\ listen[p].err = "posted"
    /\ listen' = [listen EXCEPT ![p] = None]
    /\ ConfigTxTimer(p)
    /\ UNCHANGED <<caller, txdone, rxdone, note, phase, rx, reqs, fifo, soft, hist>>

Listener(p) ==
    ListenTake(p) \/ ListenIgnore(p) \/ ListenServe(p) \/ ListenTxTimer(p)

-----------------------------------------------------------------------------
(* The daemon on the software channel: mailbox_read() and mailbox_write(). *)

DaemonRead(p) ==
    /\ ~TxStopped(p)
    /\ swtx[p] # None
    /\ relay[p] = None
    /\ relay' = [relay EXCEPT ![p] = swtx[p]]
    /\ swtx' = [swtx EXCEPT ![p] = None]
    /\ UNCHANGED <<caller, txdone, rxdone, note, phase, tx, rx, reqs, listen,
                   fifo, swrx, asleep, hist>>

\* The slot is taken: sleep on sw_chan_wq.
DaemonSleep(p) ==
    /\ relay[p] # None
    /\ p \notin asleep
    /\ swrx[Peer(p)] # None
    /\ asleep' = asleep \cup {p}
    /\ UNCHANGED <<caller, txdone, rxdone, note, phase, tx, rx, reqs, listen,
                   fifo, swtx, swrx, relay, hist>>

DaemonWrite(p) ==
    /\ relay[p] # None
    /\ p \notin asleep
    /\ swrx[Peer(p)] = None
    /\ swrx' = [swrx EXCEPT ![Peer(p)] = relay[p]]
    /\ relay' = [relay EXCEPT ![p] = None]
    /\ UNCHANGED <<caller, txdone, rxdone, note, phase, tx, rx, reqs, listen,
                   fifo, swtx, asleep, hist>>

Daemon(p) == DaemonRead(p) \/ DaemonWrite(p)

-----------------------------------------------------------------------------
(* mailbox_stop() and mailbox_start(). *)

\* The timers are first reconfigured without polling.
Stop(p) ==
    /\ phase[p] = "up"
    /\ stops + drops < MaxFault
    /\ stops' = stops + 1
    /\ phase' = [phase EXCEPT ![p] = "txfini"]
    /\ rx' = [rx EXCEPT ![p].timer = (rx[p].wait # <<>>)]
    /\ tx' = [tx EXCEPT ![p].timer = TxTimer(tx[p].q)]
    /\ UNCHANGED <<caller, txdone, rxdone, note, reqs, listen, fifo, soft,
                   served, purged, drops>>

StopRx(p) ==
    /\ phase[p] = "txfini"
    /\ tx[p].cur = None /\ tx[p].q = <<>>
    /\ phase' = [phase EXCEPT ![p] = "rxfini"]
    /\ UNCHANGED <<caller, txdone, rxdone, note, tx, rx, reqs, listen, fifo, soft, hist>>

\* A variant: responses that are waited for stay on the queue.
StopListenEarly(p) ==
    /\ phase[p] = "rxfini"
    /\ rx[p].cur = None
    /\ listen[p] = None
    /\ reqs' = [reqs EXCEPT ![p] = <<>>]
    /\ phase' = [phase EXCEPT ![p] = "down"]
    /\ UNCHANGED <<caller, txdone, rxdone, note, tx, rx, listen, fifo, soft, hist>>

\* listen_wq_fini(): what the listener has not taken is freed.
StopListen(p) ==
    /\ phase[p] = "rxfini"
    /\ rx[p].cur = None /\ rx[p].wait = <<>>
    /\ listen[p] = None
    /\ reqs' = [reqs EXCEPT ![p] = <<>>]
    /\ phase' = [phase EXCEPT ![p] = "down"]
    /\ UNCHANGED <<caller, txdone, rxdone, note, tx, rx, listen, fifo, soft, hist>>

\* Both hardware queues are reset; chan_init() renews the channels and cleans up
\* the software slots.
Start(p) ==
    /\ phase[p] = "down"
    /\ phase' = [phase EXCEPT ![p] = "up"]
    /\ tx' = [tx EXCEPT ![p] = IdleTx]
    /\ rx' = [rx EXCEPT ![p] = IdleRx]
    /\ fifo' = [q \in Side |-> None]
    /\ swtx' = [swtx EXCEPT ![p] = None]
    /\ swrx' = [swrx EXCEPT ![p] = None]
    /\ purged' = IF swrx[p] = None THEN purged ELSE purged \cup {p}
    /\ UNCHANGED <<caller, txdone, rxdone, note, reqs, listen, relay, asleep,
                   served, stops, drops>>

Restart(p) == StopRx(p) \/ StopListen(p) \/ Start(p)

-----------------------------------------------------------------------------
Next ==
    \/ \E r \in Req : Request(r) \/ Caller(r) \/ RxExpire(r)
    \/ \E n \in Note : PostNotify(n) \/ PostTxTimer(n)
    \/ \E p \in Side :
          \/ TxThread(p) \/ TxTimeout(p)
          \/ RxThread(p) \/ RxDrop(p) \/ RxTimeout(p)
          \/ Listener(p)
          \/ Daemon(p) \/ DaemonSleep(p)
          \/ Stop(p) \/ Restart(p)

\* The threads run, a side that stops comes up again, the daemon relays and a
\* timer that is on fires.
Fairness ==
    /\ \A r \in Req : WF_vars(Caller(r)) /\ WF_vars(RxExpire(r))
    /\ \A p \in Side : /\ WF_vars(TxThread(p)) /\ WF_vars(TxTimeout(p))
                       /\ WF_vars(RxThread(p)) /\ WF_vars(RxTimeout(p))
                       /\ WF_vars(Listener(p)) /\ WF_vars(Daemon(p))
                       /\ WF_vars(Restart(p))

Spec == Init /\ [][Next]_vars /\ Fairness

-----------------------------------------------------------------------------
(* Properties. *)

Errors == {"ok", "time", "badmsg", "msgsize", "shutdown"}

\* A message in flight, a packet of one, how a response ended, a message that
\* is coming in, one that is cached for the listener, and the two channels.
Message == {m \in [k : {"req", "resp", "note"}, s : Req \cup Note, id : 0 .. NBuf,
                   sw : BOOLEAN, big : BOOLEAN] : m.k # "note" => m.s \in Req}
Packet == [m : Message, i : 1 .. NPkt]
Outcome == [err : Errors, data : Seq(Packet)]
Inbound == [k : {"req"}, s : {None}, m : Message]
           \cup [k : {"resp"}, s : Req, m : Message \cup {None}]
Cached == [m : Message, err : Errors \cup {"posted"}, data : Seq(Packet)]
TxChannel == [q : Seq(Message), cur : Message \cup {None}, sent : 0 .. NPkt,
              timer : BOOLEAN]
RxChannel == [wait : Seq(Req), cur : Inbound \cup {None}, got : Seq(Packet),
              timer : BOOLEAN]

\* NULL is no message, no packet and no error.
ASSUME NoneAssumption ==
    None \notin Message \cup Packet \cup Outcome \cup Inbound \cup Cached \cup Errors

TypeOK ==
    /\ pc \in [Req -> {"idle", "send", "cancel", "txtimer", "sending",
                       "waiting", "done"}]
    /\ buf \in [Req -> 0 .. NBuf]
    /\ txdone \in [Req -> Errors \cup {None}]
    /\ rxdone \in [Req -> Outcome \cup {None}]
    /\ res \in [Req -> Errors \cup {None}]
    /\ freed \subseteq Req
    /\ note \in [Note -> {"idle", "queued", "posted"}]
    /\ phase \in [Side -> {"up", "txfini", "rxfini", "down"}]
    /\ tx \in [Side -> TxChannel]
    /\ rx \in [Side -> RxChannel]
    /\ reqs \in [Side -> Seq(Cached)]
    /\ listen \in [Side -> Cached \cup {None}]
    /\ fifo \in [Side -> Packet \cup {None}]
    /\ {swtx, swrx, relay} \subseteq [Side -> Message \cup {None}]
    /\ asleep \subseteq Side /\ purged \subseteq Side
    /\ served \in [Req -> Nat] /\ stops \in Nat /\ drops \in Nat
    /\ \A p \in Side : Len(rx[p].got) <= NPkt /\ Len(reqs[p]) <= MaxReq

\* What was received without an error: by a caller, by the listener or for it.
Received ==
    {rxdone[r].data : r \in {q \in Req : rxdone[q] # None /\ rxdone[q].err = "ok"}}
    \cup (UNION {{x.data : x \in {y \in SeqSet(reqs[p]) : y.err = "ok"}} : p \in Side})
    \cup {listen[p].data : p \in {q \in Side : /\ listen[q] # None
                                               /\ listen[q].err = "ok"}}

\* "... assemble them into a full message before it's delivered": what is
\* delivered without an error is all the packets of one message in order, even
\* when the sender gave up half way through a message, the receiver did, or
\* either side went offline, as long as do_hw_rx() forgets no packet.
WholeMessage == drops = 0 => \A d \in Received : d = Whole(d[1].m)

\* A call that succeeds has the response to its own request, or the late
\* response to an earlier one that had its buffer at the same address: the
\* message id is that address.  No response answers two calls.
AnswerMatches ==
    \A r \in Req : res[r] = "ok" /\ drops = 0 =>
        LET m == rxdone[r].data[1].m
        IN /\ m.k = "resp"
           /\ m.id = buf[r]
           /\ m.s # r => res[m.s] # None
           /\ \A s \in Req \ {r} : res[s] = "ok" => rxdone[s].data[1].m # m

\* "A communication session starts with a request and finishes with 0 or 1
\* reponse, always": no request is served twice, and a call that succeeds, with
\* an address of its own, was served.
ServedOnce ==
    /\ \A r \in Req : served[r] <= 1
    /\ \A r \in Req :
          /\ res[r] = "ok" /\ drops = 0
          /\ \A s \in Req \ {r} : buf[s] # buf[r]
          => served[r] = 1

\* The RX thread holds no response message that its caller has freed, except
\* when the side goes offline or the response is not the caller's own.
HeldIsLive ==
    LET c == rx["user"].cur
    IN /\ c # None /\ c.k = "resp" /\ phase["user"] = "up" /\ drops = 0
       /\ c.s \in freed
       => c.m.s # c.s

\* mailbox_stop() leaves nobody behind: once the user side is down, every caller
\* that waits has been woken, whatever it was doing when the channels stopped.
NoneStranded ==
    phase["user"] = "down" =>
        \A r \in Req : /\ pc[r] = "sending" => txdone[r] # None
                       /\ pc[r] = "waiting" => rxdone[r] # None

\* The daemon sleeps in mailbox_write() only while its slot is taken, unless a
\* message in the slot was thrown away.
SleepsOnFull ==
    \A p \in asleep : swrx[Peer(p)] # None \/ Peer(p) \in purged

\* A request that is to be sent is on the TX channel until its caller is woken,
\* a response that is waited for is on the RX channel until its caller is woken,
\* and chan_fini() leaves nothing on either.
Held(r) ==
    /\ pc[r] \in {"txtimer", "sending"} /\ txdone[r] = None =>
          \E m \in SeqSet(tx["user"].q) \cup ({tx["user"].cur} \ {None}) :
              m.k = "req" /\ m.s = r
    /\ pc[r] \in {"send", "txtimer", "sending", "waiting"} /\ rxdone[r] = None =>
          \/ r \in SeqSet(rx["user"].wait)
          \/ rx["user"].cur # None /\ rx["user"].cur.k = "resp" /\ rx["user"].cur.s = r
Emptied(p) ==
    /\ RxStopped(p) => tx[p].q = <<>> /\ tx[p].cur = None
    /\ phase[p] = "down" => rx[p].wait = <<>> /\ rx[p].cur = None

\* What side p has received of a message is its first packets in order, and the
\* next packet of the wire continues it or starts another message.
Wire(p) ==
    LET q == Peer(p)
        c == rx[p].cur
        n == Len(rx[p].got)
    IN /\ c = None => rx[p].got = <<>>
       /\ tx[q].cur = None => tx[q].sent = 0
       /\ fifo[q] # None /\ tx[q].sent > 0 => fifo[q] = Pkt(tx[q].cur, tx[q].sent)
       /\ drops = 0 /\ c # None /\ ~RxStopped(p) =>
             /\ n \in 1 .. NPkt - 1
             /\ \A i \in 1 .. n : rx[p].got[i] = Pkt(c.m, i)
             /\ fifo[q] # None /\ fifo[q].i > 1 => fifo[q] = Pkt(c.m, n + 1)
             /\ fifo[q] = None /\ tx[q].sent > 0 /\ ~tx[q].cur.sw =>
                   tx[q].cur = c.m /\ tx[q].sent = n

\* The three together are kept by every step, and give TypeOK, NoneStranded and
\* WholeMessage.
MailboxIInv ==
    /\ TypeOK
    /\ \A r \in Req : Held(r)
    /\ \A p \in Side : Emptied(p) /\ Wire(p)
    /\ WholeMessage

\* A call returns, whatever is lost, late, cut short or shut down.
RequestReturns == \A r \in Req : pc[r] # "idle" ~> pc[r] = "done"
=============================================================================
